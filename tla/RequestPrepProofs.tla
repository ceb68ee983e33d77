--------------------------- MODULE RequestPrepProofs ---------------------------
(***************************************************************************)
(* Proofs that the properties of RequestPrep hold for any number of calls, *)
(* parts, methods and combinations of arguments.                           *)
(***************************************************************************)
EXTENDS RequestPrep, TLAPS

\* Parts are held only by a call that was given the form.
PartsAreGiven == \A c \in Calls : taken[c] # {} => "multipart" \in asked[c].given

\* What the runtime works on has passed validate_body_params.
SubmittedIsValid ==
  \A c \in Calls : stage[c] = "submitted" => ValidBodyParams(asked[c].given)

\* A call made on a closed session can still get as far as make_request's check.
LateIsRefused ==
  \A c \in late :
    /\ closed
    /\ stage[c] # "idle"
    /\ stage[c] \in {"json", "source", "ready"} => ~asked[c].streaming

PInv == /\ TypeOK /\ PartsInOnePlace /\ FormSurvivesBadArguments /\ PartsAreGiven
        /\ SubmittedIsValid /\ WireIsWhatWasAsked
        /\ LateIsRefused /\ NothingSubmittedLate

--------------------------------------------------------------------------------
(* What the operators do. *)

\* A valid call has one body at most, so the one that goes first is the one it was
\* given, and its content length belongs to it (apply_request_options).
LEMMA ValidGoesOutWhole ==
  ASSUME NEW given \in SUBSET Arguments, ValidBodyParams(given)
  PROVE  BodyOf(given) = given
<1>1. \A b \in given \cap Bodies : Rank[b] \in Nat
  BY DEF Bodies, Arguments, Rank
<1>2. {b \in given \cap Bodies : \A o \in given \cap Bodies : Rank[b] <= Rank[o]} = given \cap Bodies
  BY <1>1 DEF ValidBodyParams
<1>3. CASE "content_length" \in given
  <2>1. given \cap Bodies = {"body_stream"}
    BY <1>3 DEF ValidBodyParams, Bodies
  <2> QED  BY <1>2, <1>3, <2>1 DEF BodyOf, Bodies
<1>4. CASE "content_length" \notin given
  <2>1. given \cap {"content_length"} = {} /\ given \cap Bodies = given
    BY <1>4 DEF Bodies
  <2> QED  BY <1>2, <2>1 DEF BodyOf
<1> QED  BY <1>3, <1>4

\* Each handler enters its call with a method and arguments of its own and leaves
\* the form alone; on a closed session a streamed call goes no further.
LEMMA HandlerStep ==
  ASSUME NEW c \in Calls, Verb(c)
  PROVE  \E method \in Methods, given \in SUBSET Arguments, streaming \in BOOLEAN :
           /\ Enter(c, method, given, streaming)
           /\ UNCHANGED <<form, taken>>
           /\ \E s \in {"json", "source", "ready", "raised"} :
                To(c, s) /\ (closed /\ streaming => s = "raised")
<1> DEFINE Entered(method, given, streaming) ==
             /\ Enter(c, method, given, streaming)
             /\ UNCHANGED <<form, taken>>
             /\ \E s \in {"json", "source", "ready", "raised"} :
                  To(c, s) /\ (closed /\ streaming => s = "raised")
<1>1. ASSUME NEW method, NEW given, Buffered(c, method, given) PROVE Entered(method, given, FALSE)
  BY <1>1 DEF Buffered, Reading
<1>2. {"GET", "HEAD", "OPTIONS", "DELETE", "POST", "PUT", "PATCH"} \subseteq Methods
  BY DEF Methods, Supported
<1>3. {} \in SUBSET Arguments /\ Given \subseteq SUBSET Arguments
  BY GivenAssumption
<1>4. ASSUME NEW method \in Methods, Bodyless(c, method) \/ WithoutForm(c, method) \/ WithBody(c, method)
      PROVE  \E given \in SUBSET Arguments : Entered(method, given, FALSE)
  BY <1>1, <1>3, <1>4 DEF Bodyless, WithoutForm, WithBody
<1>5. CASE \E method \in Methods : Bodyless(c, method) \/ WithoutForm(c, method) \/ WithBody(c, method)
  BY <1>4, <1>5
<1>6. CASE Streamed(c)
  <2>1. PICK given \in Given, method \in Named :
          /\ Enter(c, method, given, TRUE)
          /\ To(c, IF closed THEN "raised" ELSE Reading(given))
          /\ UNCHANGED <<form, taken>>
    BY <1>6 DEF Streamed
  <2>2. method \in Methods /\ Reading(given) \in {"json", "source", "ready"}
    BY DEF Methods, Reading
  <2>3. Entered(method, given, TRUE)
    BY <2>1, <2>2
  <2> QED  BY <1>3, <2>2, <2>3
<1>7. \/ \E method \in Methods : Bodyless(c, method) \/ WithoutForm(c, method) \/ WithBody(c, method)
      \/ Streamed(c)
  <2>1. \A method \in Named : Upper(method) \in Methods
    BY DEF Methods
  <2> QED
    BY <1>2, <2>1 DEF Verb, Get, Head, Options, Delete, Post, Put, Patch, Request, SendStreaming,
       BlockingGet, BlockingHead, BlockingOptions, BlockingDelete, BlockingPost, BlockingPut,
       BlockingPatch, BlockingRequest, BlockingSendStreaming
<1> QED  BY <1>5, <1>6, <1>7

\* The rest of a handler takes the form, and submits only what is valid and allowed.
LEMMA PrepareStep ==
  ASSUME NEW c \in Calls, MakeRequest(c) \/ MakeBlockingRequest(c)
  PROVE  /\ stage[c] = "ready"
         /\ ExtractMultipart(c)
         /\ \E s \in {"submitted", "refused"} :
              To(c, s) /\ (s = "submitted" => ValidBodyParams(asked[c].given) /\ StillOpen(c))
         /\ UNCHANGED <<closed, late, added, asked, wire>>
BY DEF MakeRequest, MakeBlockingRequest, Prepare

\* Reading an argument moves the call on and nothing else.
LEMMA ReadStep ==
  ASSUME NEW c \in Calls, ReadJson(c) \/ ReadSource(c)
  PROVE  /\ stage[c] \in {"json", "source"}
         /\ \E s \in {"source", "ready", "raised"} : To(c, s)
         /\ UNCHANGED <<closed, late, form, added, asked, taken, wire>>
BY DEF ReadJson, ReadSource

\* What a step can be, by what it does to the state.
LEMMA StepCases ==
  ASSUME [Next]_vars
  PROVE  \/ \E c \in Calls : Verb(c)
         \/ \E c \in Calls : ReadJson(c) \/ ReadSource(c)
         \/ \E c \in Calls : MakeRequest(c) \/ MakeBlockingRequest(c)
         \/ \E c \in Calls : Build(c)
         \/ \E c \in Calls : Drop(c)
         \/ \E p \in Parts : AddPart(p)
         \/ Close
         \/ UNCHANGED vars
BY DEF Next

--------------------------------------------------------------------------------
(* Each part of the invariant is kept by every step. *)

LEMMA TypeStep == TypeOK /\ [Next]_vars => TypeOK'
<1> SUFFICES ASSUME TypeOK, [Next]_vars PROVE TypeOK'
  OBVIOUS
<1> USE DEF TypeOK, Stages, To
<1>1. ASSUME NEW c \in Calls, Verb(c) PROVE TypeOK'
  <2>1. PICK method \in Methods, given \in SUBSET Arguments, streaming \in BOOLEAN :
          /\ Enter(c, method, given, streaming)
          /\ UNCHANGED <<form, taken>>
          /\ \E s \in {"json", "source", "ready", "raised"} : To(c, s)
    BY <1>1, HandlerStep
  <2>2. /\ stage[c] = "idle"
        /\ late' \subseteq Calls
        /\ asked' \in [Calls -> [method : Methods, given : SUBSET Arguments, streaming : BOOLEAN]]
        /\ UNCHANGED <<closed, added, wire>>
    BY <2>1 DEF Enter
  <2> QED  BY <2>1, <2>2
<1>2. ASSUME NEW c \in Calls, ReadJson(c) \/ ReadSource(c) PROVE TypeOK'
  BY <1>2, ReadStep
<1>3. ASSUME NEW c \in Calls, MakeRequest(c) \/ MakeBlockingRequest(c) PROVE TypeOK'
  <2>1. PICK s \in {"submitted", "refused"} : To(c, s)
    BY <1>3, PrepareStep
  <2>2. stage[c] = "ready" /\ UNCHANGED <<closed, late, added, asked, wire>>
    BY <1>3, PrepareStep
  <2>3. form' \subseteq added /\ taken' \in [Calls -> SUBSET added]
    BY <1>3, PrepareStep DEF ExtractMultipart
  <2> QED  BY <2>1, <2>2, <2>3
<1>4. ASSUME NEW c \in Calls, Build(c) PROVE TypeOK'
  <2>1. CASE To(c, "failed") /\ UNCHANGED wire
    BY <1>4, <2>1 DEF Build
  <2>2. CASE To(c, "sending")
    <3>1. BodyOf(asked[c].given) \subseteq Arguments
      BY DEF BodyOf, Bodies
    <3>2. wire' \in [Calls -> [method : Methods, bodies : SUBSET Arguments, parts : SUBSET added]]
      BY <1>4, <2>2, <3>1 DEF Build
    <3>3. \A o \in Calls : o # c => wire'[o] = wire[o] /\ stage'[o] = stage[o]
      BY <1>4, <2>2 DEF Build
    <3> QED  BY <1>4, <2>2, <3>2, <3>3 DEF Build
  <2> QED  BY <1>4, <2>1, <2>2 DEF Build
<1>5. ASSUME NEW c \in Calls, Drop(c) PROVE TypeOK'
  BY <1>5 DEF Drop
<1>6. ASSUME NEW p \in Parts, AddPart(p) PROVE TypeOK'
  <2>1. added \subseteq added' /\ form' \subseteq added' /\ added' \subseteq Parts
    BY <1>6 DEF AddPart
  <2>2. taken' \in [Calls -> SUBSET added']
    BY <1>6, <2>1 DEF AddPart
  <2>3. wire' \in [Calls -> [method : Methods, bodies : SUBSET Arguments, parts : SUBSET added']]
    BY <1>6, <2>1 DEF AddPart
  <2> QED  BY <1>6, <2>1, <2>2, <2>3 DEF AddPart
<1>7. CASE Close  BY <1>7 DEF Close
<1>8. CASE UNCHANGED vars  BY <1>8 DEF vars
<1> QED  BY <1>1, <1>2, <1>3, <1>4, <1>5, <1>6, <1>7, <1>8, StepCases

LEMMA FormStep ==
  TypeOK /\ FormSurvivesBadArguments /\ [Next]_vars => FormSurvivesBadArguments'
<1> SUFFICES ASSUME TypeOK, FormSurvivesBadArguments, [Next]_vars
             PROVE  FormSurvivesBadArguments'
  OBVIOUS
<1> USE DEF TypeOK, FormSurvivesBadArguments, To
<1>1. ASSUME NEW c \in Calls, Verb(c) PROVE FormSurvivesBadArguments'
  BY <1>1, HandlerStep DEF Enter
<1>2. ASSUME NEW c \in Calls, ReadJson(c) \/ ReadSource(c) PROVE FormSurvivesBadArguments'
  BY <1>2, ReadStep
<1>3. ASSUME NEW c \in Calls, MakeRequest(c) \/ MakeBlockingRequest(c)
      PROVE  FormSurvivesBadArguments'
  BY <1>3, PrepareStep DEF ExtractMultipart
<1>4. ASSUME NEW c \in Calls, Build(c) \/ Drop(c) PROVE FormSurvivesBadArguments'
  BY <1>4 DEF Build, Drop
<1>5. ASSUME NEW p \in Parts, AddPart(p) PROVE FormSurvivesBadArguments'
  BY <1>5 DEF AddPart
<1>6. CASE Close  BY <1>6 DEF Close
<1>7. CASE UNCHANGED vars  BY <1>7 DEF vars
<1> QED  BY <1>1, <1>2, <1>3, <1>4, <1>5, <1>6, <1>7, StepCases

LEMMA PartsStep ==
  TypeOK /\ FormSurvivesBadArguments /\ PartsInOnePlace /\ [Next]_vars => PartsInOnePlace'
<1> SUFFICES ASSUME TypeOK, FormSurvivesBadArguments, PartsInOnePlace, [Next]_vars
             PROVE  PartsInOnePlace'
  OBVIOUS
<1> USE DEF TypeOK, PartsInOnePlace
<1>1. ASSUME UNCHANGED <<form, added, taken>> PROVE PartsInOnePlace'
  BY <1>1
<1>2. ASSUME NEW c \in Calls, Verb(c) PROVE PartsInOnePlace'
  BY <1>1, <1>2, HandlerStep DEF Enter
<1>3. ASSUME NEW c \in Calls, MakeRequest(c) \/ MakeBlockingRequest(c) PROVE PartsInOnePlace'
  <2>1. stage[c] = "ready" /\ added' = added /\ ExtractMultipart(c)
    BY <1>3, PrepareStep
  <2>2. CASE UNCHANGED <<form, taken>>
    BY <1>1, <2>1, <2>2
  <2>3. CASE form' = {} /\ taken' = [taken EXCEPT ![c] = form]
    <3>1. taken[c] = {}
      BY <2>1 DEF FormSurvivesBadArguments
    <3>2. taken'[c] = form /\ \A o \in Calls \ {c} : taken'[o] = taken[o]
      BY <2>3
    <3>3. UNION {taken'[o] : o \in Calls} = form \cup UNION {taken[o] : o \in Calls}
      BY <3>1, <3>2
    <3> QED  BY <2>1, <2>3, <3>2, <3>3
  <2> QED  BY <2>1, <2>2, <2>3 DEF ExtractMultipart
<1>4. ASSUME NEW p \in Parts, AddPart(p) PROVE PartsInOnePlace'
  <2>1. p \notin UNION {taken[c] : c \in Calls}
    BY <1>4 DEF AddPart
  <2> QED  BY <1>4, <2>1 DEF AddPart
<1>5. ASSUME NEW c \in Calls, ReadJson(c) \/ ReadSource(c) PROVE PartsInOnePlace'
  BY <1>1, <1>5, ReadStep
<1>6. ASSUME NEW c \in Calls, Build(c) \/ Drop(c) PROVE PartsInOnePlace'
  BY <1>1, <1>6 DEF Build, Drop
<1>7. CASE Close  BY <1>1, <1>7 DEF Close
<1>8. CASE UNCHANGED vars  BY <1>1, <1>8 DEF vars
<1> QED  BY <1>2, <1>3, <1>4, <1>5, <1>6, <1>7, <1>8, StepCases

LEMMA GivenStep ==
  TypeOK /\ FormSurvivesBadArguments /\ PartsAreGiven /\ [Next]_vars => PartsAreGiven'
<1> SUFFICES ASSUME TypeOK, FormSurvivesBadArguments, PartsAreGiven, [Next]_vars
             PROVE  PartsAreGiven'
  OBVIOUS
<1> USE DEF TypeOK, PartsAreGiven
<1>1. ASSUME UNCHANGED <<asked, taken>> PROVE PartsAreGiven'
  BY <1>1
<1>2. ASSUME NEW c \in Calls, Verb(c) PROVE PartsAreGiven'
  BY <1>2, HandlerStep DEF Enter, FormSurvivesBadArguments
<1>3. ASSUME NEW c \in Calls, MakeRequest(c) \/ MakeBlockingRequest(c) PROVE PartsAreGiven'
  BY <1>3, PrepareStep DEF ExtractMultipart
<1>4. ASSUME NEW c \in Calls, ReadJson(c) \/ ReadSource(c) PROVE PartsAreGiven'
  BY <1>1, <1>4, ReadStep
<1>5. ASSUME NEW c \in Calls, Build(c) \/ Drop(c) PROVE PartsAreGiven'
  BY <1>1, <1>5 DEF Build, Drop
<1>6. ASSUME NEW p \in Parts, AddPart(p) PROVE PartsAreGiven'
  BY <1>1, <1>6 DEF AddPart
<1>7. CASE Close  BY <1>1, <1>7 DEF Close
<1>8. CASE UNCHANGED vars  BY <1>1, <1>8 DEF vars
<1> QED  BY <1>2, <1>3, <1>4, <1>5, <1>6, <1>7, <1>8, StepCases

LEMMA ValidStep ==
  TypeOK /\ SubmittedIsValid /\ [Next]_vars
    => SubmittedIsValid'
<1> SUFFICES ASSUME TypeOK, SubmittedIsValid, [Next]_vars
             PROVE  SubmittedIsValid'
  OBVIOUS
<1> USE DEF TypeOK, SubmittedIsValid, To
<1>1. ASSUME NEW c \in Calls, Verb(c) PROVE SubmittedIsValid'
  BY <1>1, HandlerStep DEF Enter
<1>2. ASSUME NEW c \in Calls, ReadJson(c) \/ ReadSource(c) PROVE SubmittedIsValid'
  BY <1>2, ReadStep
<1>3. ASSUME NEW c \in Calls, MakeRequest(c) \/ MakeBlockingRequest(c) PROVE SubmittedIsValid'
  BY <1>3, PrepareStep 
<1>4. ASSUME NEW c \in Calls, Build(c) PROVE SubmittedIsValid'
  BY <1>4 DEF Build
<1>5. ASSUME NEW c \in Calls, Drop(c) PROVE SubmittedIsValid'
  BY <1>5 DEF Drop
<1>6. ASSUME NEW p \in Parts, AddPart(p) PROVE SubmittedIsValid'
  BY <1>6 DEF AddPart
<1>7. CASE Close  BY <1>7 DEF Close
<1>8. CASE UNCHANGED vars  BY <1>8 DEF vars
<1> QED  BY <1>1, <1>2, <1>3, <1>4, <1>5, <1>6, <1>7, <1>8, StepCases

LEMMA WireStep ==
  TypeOK /\ PartsAreGiven /\ SubmittedIsValid /\ WireIsWhatWasAsked /\ [Next]_vars
    => WireIsWhatWasAsked'
<1> SUFFICES ASSUME TypeOK, PartsAreGiven, SubmittedIsValid, WireIsWhatWasAsked, [Next]_vars
             PROVE  WireIsWhatWasAsked'
  OBVIOUS
<1> USE DEF TypeOK, WireIsWhatWasAsked
<1>1. ASSUME NEW c \in Calls, Verb(c) PROVE WireIsWhatWasAsked'
  <2>1. stage[c] = "idle" /\ wire' = wire /\ taken' = taken
    BY <1>1, HandlerStep DEF Enter
  <2>2. \A o \in Calls \ {c} : asked'[o] = asked[o]
    BY <1>1, HandlerStep DEF Enter
  <2>3. wire[c] = Nothing
    BY <2>1
  <2> QED  BY <2>1, <2>2, <2>3
<1>2. ASSUME NEW c \in Calls, ReadJson(c) \/ ReadSource(c) PROVE WireIsWhatWasAsked'
  BY <1>2, ReadStep
<1>3. ASSUME NEW c \in Calls, MakeRequest(c) \/ MakeBlockingRequest(c) PROVE WireIsWhatWasAsked'
  <2>1. stage[c] = "ready" /\ UNCHANGED <<asked, wire>>
    BY <1>3, PrepareStep
  <2>2. \A o \in Calls \ {c} : taken'[o] = taken[o]
    BY <1>3, PrepareStep DEF ExtractMultipart
  <2>3. wire[c] = Nothing
    BY <2>1
  <2> QED  BY <2>1, <2>2, <2>3
<1>4. ASSUME NEW c \in Calls, Build(c) PROVE WireIsWhatWasAsked'
  <2>1. CASE UNCHANGED wire
    BY <1>4, <2>1 DEF Build
  <2>2. CASE wire' = [wire EXCEPT ![c] =
               [method |-> asked[c].method,
                bodies |-> BodyOf(asked[c].given),
                parts  |-> IF "multipart" \in BodyOf(asked[c].given) THEN taken[c] ELSE {}]]
    <3>1. BodyOf(asked[c].given) = asked[c].given
      BY <1>4, ValidGoesOutWhole DEF Build, SubmittedIsValid
    <3>2. "multipart" \notin asked[c].given => taken[c] = {}
      BY DEF PartsAreGiven
    <3> QED  BY <1>4, <2>2, <3>1, <3>2 DEF Build
  <2> QED  BY <1>4, <2>1, <2>2 DEF Build
<1>5. ASSUME NEW c \in Calls, Drop(c) PROVE WireIsWhatWasAsked'
  BY <1>5 DEF Drop
<1>6. ASSUME NEW p \in Parts, AddPart(p) PROVE WireIsWhatWasAsked'
  BY <1>6 DEF AddPart
<1>7. CASE Close  BY <1>7 DEF Close
<1>8. CASE UNCHANGED vars  BY <1>8 DEF vars
<1> QED  BY <1>1, <1>2, <1>3, <1>4, <1>5, <1>6, <1>7, <1>8, StepCases

LEMMA LateStep ==
  TypeOK /\ LateIsRefused /\ [Next]_vars
    => LateIsRefused'
<1> SUFFICES ASSUME TypeOK, LateIsRefused, [Next]_vars
             PROVE  LateIsRefused'
  OBVIOUS
<1> USE DEF TypeOK, LateIsRefused, To
<1>1. ASSUME NEW c \in Calls, Verb(c) PROVE LateIsRefused'
  BY <1>1, HandlerStep DEF Enter
<1>2. ASSUME NEW c \in Calls, ReadJson(c) \/ ReadSource(c) PROVE LateIsRefused'
  BY <1>2, ReadStep
<1>3. ASSUME NEW c \in Calls, MakeRequest(c) \/ MakeBlockingRequest(c) PROVE LateIsRefused'
  BY <1>3, PrepareStep 
<1>4. ASSUME NEW c \in Calls, Build(c) PROVE LateIsRefused'
  BY <1>4 DEF Build
<1>5. ASSUME NEW c \in Calls, Drop(c) PROVE LateIsRefused'
  BY <1>5 DEF Drop
<1>6. ASSUME NEW p \in Parts, AddPart(p) PROVE LateIsRefused'
  BY <1>6 DEF AddPart
<1>7. CASE Close  BY <1>7 DEF Close
<1>8. CASE UNCHANGED vars  BY <1>8 DEF vars
<1> QED  BY <1>1, <1>2, <1>3, <1>4, <1>5, <1>6, <1>7, <1>8, StepCases

LEMMA NothingLateStep ==
  TypeOK /\ LateIsRefused /\ NothingSubmittedLate /\ [Next]_vars
    => NothingSubmittedLate'
<1> SUFFICES ASSUME TypeOK, LateIsRefused, NothingSubmittedLate, [Next]_vars
             PROVE  NothingSubmittedLate'
  OBVIOUS
<1> USE DEF TypeOK, NothingSubmittedLate, To
<1>1. ASSUME NEW c \in Calls, Verb(c) PROVE NothingSubmittedLate'
  BY <1>1, HandlerStep DEF Enter
<1>2. ASSUME NEW c \in Calls, ReadJson(c) \/ ReadSource(c) PROVE NothingSubmittedLate'
  BY <1>2, ReadStep
<1>3. ASSUME NEW c \in Calls, MakeRequest(c) \/ MakeBlockingRequest(c) PROVE NothingSubmittedLate'
  BY <1>3, PrepareStep DEF LateIsRefused, StillOpen
<1>4. ASSUME NEW c \in Calls, Build(c) PROVE NothingSubmittedLate'
  BY <1>4 DEF Build
<1>5. ASSUME NEW c \in Calls, Drop(c) PROVE NothingSubmittedLate'
  BY <1>5 DEF Drop
<1>6. ASSUME NEW p \in Parts, AddPart(p) PROVE NothingSubmittedLate'
  BY <1>6 DEF AddPart
<1>7. CASE Close  BY <1>7 DEF Close
<1>8. CASE UNCHANGED vars  BY <1>8 DEF vars
<1> QED  BY <1>1, <1>2, <1>3, <1>4, <1>5, <1>6, <1>7, <1>8, StepCases

LEMMA InitPInv == Init => PInv
<1> SUFFICES ASSUME Init PROVE PInv
  OBVIOUS
<1> USE DEF Init
<1>1. TypeOK
  <2>1. NoAsk \in [method : Methods, given : SUBSET Arguments, streaming : BOOLEAN]
    BY DEF NoAsk, Methods
  <2>2. Nothing \in [method : Methods, bodies : SUBSET Arguments, parts : SUBSET added]
    BY DEF Nothing, Methods
  <2> QED  BY <2>1, <2>2 DEF TypeOK, Stages
<1>2. PartsInOnePlace  BY DEF PartsInOnePlace
<1>3. FormSurvivesBadArguments /\ PartsAreGiven
  BY DEF FormSurvivesBadArguments, PartsAreGiven
<1>4. SubmittedIsValid /\ WireIsWhatWasAsked
  BY DEF SubmittedIsValid, WireIsWhatWasAsked
<1>5. LateIsRefused /\ NothingSubmittedLate
  BY DEF LateIsRefused, NothingSubmittedLate
<1> QED  BY <1>1, <1>2, <1>3, <1>4, <1>5 DEF PInv

LEMMA PInvHolds == Spec => []PInv
<1>1. PInv /\ [Next]_vars => PInv'
  BY TypeStep, FormStep, PartsStep, GivenStep, ValidStep, WireStep, LateStep, NothingLateStep
     DEF PInv
<1> QED  BY InitPInv, <1>1, PTL DEF Spec

--------------------------------------------------------------------------------
(* The theorems. *)

\* The state keeps its types, and only a call that the runtime has taken has
\* something on the wire (apply_request_options).
THEOREM TypeCorrect == Spec => []TypeOK
<1>1. PInv => TypeOK  BY DEF PInv
<1> QED  BY PInvHolds, <1>1, PTL

\* A part of a Multipart goes out in one request at most, whatever the calls that
\* share it do (extract_multipart).
THEOREM PartsAreNeverShared == Spec => []PartsInOnePlace
<1>1. PInv => PartsInOnePlace  BY DEF PInv
<1> QED  BY PInvHolds, <1>1, PTL

\* An argument that cannot be read costs the caller nothing of its form.
THEOREM FormIsTakenLast == Spec => []FormSurvivesBadArguments
<1>1. PInv => FormSurvivesBadArguments  BY DEF PInv
<1> QED  BY PInvHolds, <1>1, PTL

\* No body argument is silently left out of the request (validate_body_params and
\* apply_request_options agree).
THEOREM NothingIsOutranked == Spec => []WireIsWhatWasAsked
<1>1. PInv => WireIsWhatWasAsked  BY DEF PInv
<1> QED  BY PInvHolds, <1>1, PTL

\* A closed session starts nothing, buffered or streamed (ensure_open).
THEOREM ClosedStartsNothing == Spec => []NothingSubmittedLate
<1>1. PInv => NothingSubmittedLate  BY DEF PInv
<1> QED  BY PInvHolds, <1>1, PTL
================================================================================
