------------------------------ MODULE RequestPrep ------------------------------
(***************************************************************************)
(* session.rs, multipart.rs: from the arguments of a call to the request   *)
(* the transport is given.                                                 *)
(*                                                                         *)
(* A handler runs under the GIL, but reading a json= or a body_stream=     *)
(* argument runs the caller's Python code (json.dumps, __aiter__,          *)
(* __iter__), and there other threads and callbacks come in: they may call *)
(* the same session with the same Multipart, add to it, or close the       *)
(* session. The options that carry no body are left out.                   *)
(***************************************************************************)
EXTENDS Naturals

CONSTANTS
  Calls,      \* calls on one session that may overlap
  Blocking,   \* those among them made on a BlockingSession
  Parts,      \* what the caller has for its one Multipart
  Named,      \* the methods that request() and send_streaming() are given
  Given       \* the combinations of body arguments that calls are made with

ASSUME CallsAssumption == Blocking \subseteq Calls

Arguments == {"json", "data", "multipart", "body", "body_stream", "content_length"}
Bodies    == Arguments \ {"content_length"}

ASSUME GivenAssumption == Given \subseteq SUBSET Arguments

VARIABLES
  closed,   \* the session's closed flag
  late,     \* calls made after close()
  form,     \* the parts in the Multipart
  added,    \* the parts that were ever put into it
  stage,    \* where each call is
  asked,    \* what it was asked for: the method and the body arguments
  taken,    \* the parts its PreparedRequest holds
  wire      \* what the transport was given of it

vars == <<closed, late, form, added, stage, asked, taken, wire>>

NoAsk   == [method |-> "none", given |-> {}, streaming |-> FALSE]
Nothing == [method |-> "none", bodies |-> {}, parts |-> {}]

Init ==
  /\ closed = FALSE
  /\ late = {}
  /\ form = {}
  /\ added = {}
  /\ stage = [c \in Calls |-> "idle"]
  /\ asked = [c \in Calls |-> NoAsk]
  /\ taken = [c \in Calls |-> {}]
  /\ wire = [c \in Calls |-> Nothing]

--------------------------------------------------------------------------------
(* The handlers, up to the arguments. *)

\* From its last argument to its end a handler calls no Python code that could
\* let go of the GIL.
Undisturbed(c) == \A o \in Calls \ {c} : stage[o] # "ready"

To(c, s) == stage' = [stage EXCEPT ![c] = s]

\* serialize_json comes first, then UploadSource::extract.
Reading(given) ==
  IF "json" \in given THEN "json"
  ELSE IF "body_stream" \in given THEN "source"
  ELSE "ready"

Enter(c, method, given, streaming) ==
  /\ Undisturbed(c)
  /\ stage[c] = "idle"
  /\ late' = IF closed THEN late \cup {c} ELSE late
  /\ asked' = [asked EXCEPT ![c] = [method |-> method, given |-> given, streaming |-> streaming]]
  /\ UNCHANGED <<closed, added, wire>>

\* Mutant: extract_multipart comes before the arguments that may be refused.
BufferedFormFirst(c, method, given) ==
  /\ Enter(c, method, given, FALSE)
  /\ To(c, Reading(given))
  /\ IF "multipart" \in given
     THEN form' = {} /\ taken' = [taken EXCEPT ![c] = form]
     ELSE UNCHANGED <<form, taken>>

\* The handlers that end in make_request: nothing is checked yet.
Buffered(c, method, given) ==
  /\ Enter(c, method, given, FALSE)
  /\ To(c, Reading(given))
  /\ UNCHANGED <<form, taken>>

Upper(method) == IF method = "post" THEN "POST" ELSE method

Bodyless(c, method) == Buffered(c, method, {})
WithBody(c, method) == \E given \in Given : Buffered(c, method, given)

\* delete takes no multipart.
WithoutForm(c, method) ==
  \E given \in Given : "multipart" \notin given /\ Buffered(c, method, given)

\* Mutant: send_streaming trusts make_request's check, which it does not pass.
StreamedUnchecked(c) ==
  \E given \in Given, method \in Named :
    /\ Enter(c, method, given, TRUE)
    /\ To(c, Reading(given))
    /\ UNCHANGED <<form, taken>>

\* send_streaming asks ensure_open before it reads anything, and takes the
\* method as it is spelled.
Streamed(c) ==
  \E given \in Given, method \in Named :
    /\ Enter(c, method, given, TRUE)
    /\ To(c, IF closed THEN "raised" ELSE Reading(given))
    /\ UNCHANGED <<form, taken>>

\* Session
Get(c)     == c \notin Blocking /\ Bodyless(c, "GET")
Head(c)    == c \notin Blocking /\ Bodyless(c, "HEAD")
Options(c) == c \notin Blocking /\ Bodyless(c, "OPTIONS")
Delete(c)  == c \notin Blocking /\ WithoutForm(c, "DELETE")
Post(c)    == c \notin Blocking /\ WithBody(c, "POST")
Put(c)     == c \notin Blocking /\ WithBody(c, "PUT")
Patch(c)   == c \notin Blocking /\ WithBody(c, "PATCH")
Request(c) == c \notin Blocking /\ \E method \in Named : WithBody(c, Upper(method))
SendStreaming(c) == c \notin Blocking /\ Streamed(c)

\* BlockingSession
BlockingGet(c)     == c \in Blocking /\ Bodyless(c, "GET")
BlockingHead(c)    == c \in Blocking /\ Bodyless(c, "HEAD")
BlockingOptions(c) == c \in Blocking /\ Bodyless(c, "OPTIONS")
BlockingDelete(c)  == c \in Blocking /\ WithoutForm(c, "DELETE")
BlockingPost(c)    == c \in Blocking /\ WithBody(c, "POST")
BlockingPut(c)     == c \in Blocking /\ WithBody(c, "PUT")
BlockingPatch(c)   == c \in Blocking /\ WithBody(c, "PATCH")
BlockingRequest(c) == c \in Blocking /\ \E method \in Named : WithBody(c, Upper(method))
BlockingSendStreaming(c) == c \in Blocking /\ Streamed(c)

\* json.dumps raises, or gives a string.
ReadJson(c) ==
  /\ Undisturbed(c)
  /\ stage[c] = "json"
  /\ \/ To(c, "raised")
     \/ To(c, IF "body_stream" \in asked[c].given THEN "source" ELSE "ready")
  /\ UNCHANGED <<closed, late, form, added, asked, taken, wire>>

\* The source is none, is an async one without a loop, or is classified.
ReadSource(c) ==
  /\ Undisturbed(c)
  /\ stage[c] = "source"
  /\ To(c, "raised") \/ To(c, "ready")
  /\ UNCHANGED <<closed, late, form, added, asked, taken, wire>>

--------------------------------------------------------------------------------
(* The rest of the handler, in one go. *)

\* Mutant: the parts are cloned into the request.
ExtractMultipartClones(c) ==
  IF "multipart" \in asked[c].given
  THEN UNCHANGED form /\ taken' = [taken EXCEPT ![c] = form]
  ELSE UNCHANGED <<form, taken>>

\* mem::replace: the form's parts move into the call and an empty one is left.
ExtractMultipart(c) ==
  IF "multipart" \in asked[c].given
  THEN form' = {} /\ taken' = [taken EXCEPT ![c] = form]
  ELSE UNCHANGED <<form, taken>>

\* Mutant: the streamed body was added to the signature and not to the count.
ValidBodyParamsUncounted(given) ==
  /\ \A a, b \in given \cap (Bodies \ {"body_stream"}) : a = b
  /\ "content_length" \in given => "body_stream" \in given

\* One body at most, and no length but a stream's.
ValidBodyParams(given) ==
  /\ \A a, b \in given \cap Bodies : a = b
  /\ "content_length" \in given => "body_stream" \in given

\* ensure_open of make_request; send_streaming is past its own.
StillOpen(c) == asked[c].streaming \/ ~closed

\* Extract the form, validate, ask ensure_open; `outcome` is what submission can
\* come to.
Prepare(c, outcome) ==
  /\ stage[c] = "ready"
  /\ ExtractMultipart(c)
  /\ IF ValidBodyParams(asked[c].given) /\ StillOpen(c)
     THEN \E s \in outcome : To(c, s)
     ELSE To(c, "refused")
  /\ UNCHANGED <<closed, late, added, asked, wire>>

\* With no running event loop future_into_py raises.
MakeRequest(c) == c \notin Blocking /\ Prepare(c, {"submitted", "refused"})

\* block_on always starts the request.
MakeBlockingRequest(c) == c \in Blocking /\ Prepare(c, {"submitted"})

--------------------------------------------------------------------------------
(* The request on the runtime. *)

Supported == {"GET", "POST", "PUT", "DELETE", "HEAD", "PATCH", "OPTIONS"}

\* The order in which apply_request_options looks for a body.
Rank == [json |-> 1, data |-> 2, multipart |-> 3, body |-> 4, body_stream |-> 5]

\* The first of the bodies, and the length that only a stream is sent with.
BodyOf(given) ==
  {b \in given \cap Bodies : \A o \in given \cap Bodies : Rank[b] <= Rank[o]}
  \cup (IF given \cap Bodies = {"body_stream"} THEN given \cap {"content_length"} ELSE {})

\* apply_request_options: an unsupported method or a bad timeout is an error.
Build(c) ==
  /\ stage[c] = "submitted"
  /\ \/ To(c, "failed") /\ UNCHANGED wire
     \/ /\ asked[c].method \in Supported
        /\ To(c, "sending")
        /\ wire' = [wire EXCEPT ![c] =
             [method |-> asked[c].method,
              bodies |-> BodyOf(asked[c].given),
              parts  |-> IF "multipart" \in BodyOf(asked[c].given) THEN taken[c] ELSE {}]]
  /\ UNCHANGED <<closed, late, form, added, asked, taken>>

\* Closing::guard drops what it holds once the session is closed, the bridge
\* once the Python future is cancelled.
Drop(c) ==
  /\ stage[c] \in {"submitted", "sending"}
  /\ closed \/ c \notin Blocking
  /\ To(c, "dropped")
  /\ UNCHANGED <<closed, late, form, added, asked, taken, wire>>

--------------------------------------------------------------------------------
(* The other threads and callbacks. *)

\* Multipart.text, Multipart.file
AddPart(p) ==
  /\ \A c \in Calls : stage[c] # "ready"
  /\ p \notin added
  /\ form' = form \cup {p}
  /\ added' = added \cup {p}
  /\ UNCHANGED <<closed, late, stage, asked, taken, wire>>

\* The flag is all of close() that a call looks at.
Close ==
  /\ \A c \in Calls : stage[c] # "ready"
  /\ ~closed
  /\ closed' = TRUE
  /\ UNCHANGED <<late, form, added, stage, asked, taken, wire>>

Verb(c) ==
  \/ Get(c) \/ Head(c) \/ Options(c) \/ Delete(c) \/ Post(c) \/ Put(c) \/ Patch(c)
  \/ Request(c) \/ SendStreaming(c)
  \/ BlockingGet(c) \/ BlockingHead(c) \/ BlockingOptions(c) \/ BlockingDelete(c)
  \/ BlockingPost(c) \/ BlockingPut(c) \/ BlockingPatch(c)
  \/ BlockingRequest(c) \/ BlockingSendStreaming(c)

Next ==
  \/ \E c \in Calls :
       Verb(c) \/ ReadJson(c) \/ ReadSource(c)
       \/ MakeRequest(c) \/ MakeBlockingRequest(c) \/ Build(c) \/ Drop(c)
  \/ \E p \in Parts : AddPart(p)
  \/ Close

Spec == Init /\ [][Next]_vars

--------------------------------------------------------------------------------
(* Properties *)

Stages == {"idle", "json", "source", "ready", "raised", "refused", "submitted",
           "failed", "sending", "dropped"}

Methods == Supported \cup Named \cup {Upper(method) : method \in Named} \cup {"none"}

\* The state keeps its types, and only a call on the runtime has something on the
\* wire (apply_request_options, session.rs:170).
TypeOK ==
  /\ closed \in BOOLEAN
  /\ form \subseteq added
  /\ added \subseteq Parts
  /\ late \subseteq Calls
  /\ stage \in [Calls -> Stages]
  /\ asked \in [Calls -> [method : Methods, given : SUBSET Arguments, streaming : BOOLEAN]]
  /\ taken \in [Calls -> SUBSET added]
  /\ wire \in [Calls -> [method : Methods, bodies : SUBSET Arguments, parts : SUBSET added]]
  /\ \A c \in Calls : wire[c] # Nothing => stage[c] \in {"sending", "dropped"}

\* However calls that share a Multipart overlap, and whichever of them are
\* refused, each part that was added is in the form or in one call, so it goes
\* out once at most (extract_multipart, session.rs:386).
PartsInOnePlace ==
  /\ added = form \cup UNION {taken[c] : c \in Calls}
  /\ \A c \in Calls :
       /\ taken[c] \cap form = {}
       /\ \A o \in Calls \ {c} : taken[c] \cap taken[o] = {}

\* A call whose json= or body_stream= raises, and a streamed call refused by a
\* closed session, leave the caller its form for another try: the parts are
\* taken after those arguments are read (send_streaming, session.rs:1204).
FormSurvivesBadArguments ==
  \A c \in Calls :
    taken[c] # {} => stage[c] \notin {"idle", "json", "source", "ready", "raised"}

\* What goes out is what was asked for: the call's method, every body argument it
\* was given with the content length that belongs to it, and the parts it took.
\* No argument is silently outranked by another (validate_body_params,
\* session.rs:335, and the order of apply_request_options, session.rs:255).
WireIsWhatWasAsked ==
  \A c \in Calls :
    wire[c] # Nothing =>
      /\ wire[c].method = asked[c].method
      /\ wire[c].bodies = asked[c].given
      /\ wire[c].parts = taken[c]

\* A call made once the session is closed never reaches the runtime, whether it
\* is buffered and asks last or streamed and asks first (ensure_open,
\* session_state.rs:168).
NothingSubmittedLate ==
  \A c \in late : stage[c] \notin {"submitted", "failed", "sending", "dropped"}
================================================================================
