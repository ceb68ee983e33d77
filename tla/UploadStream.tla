------------------------------ MODULE UploadStream ------------------------------
(***************************************************************************)
(* upload.rs: a request body pulled out of a Python object, chunk by chunk.*)
(*                                                                         *)
(* The transport polls the stream whenever it likes; a pull runs elsewhere *)
(* - on a blocking worker, or on the caller's event loop - and takes as    *)
(* long as it likes; the request may be abandoned at any moment, which     *)
(* drops the stream and not the pull.                                      *)
(***************************************************************************)
EXTENDS Naturals, Sequences, FiniteSets

CONSTANT MaxPulls   \* bound: pulls that are made at all

VARIABLES
  kind,      \* what extract() found the source to be
  stream,    \* "open", or "dropped" with the request
  done,      \* the stream's done flag
  pending,   \* the pull the stream is waiting for, or 0
  pulls,     \* where each pull made so far is, and what it came to
  cursor,    \* chunks the source has produced
  eof,       \* the source has said that it has nothing (more) to give
  out        \* what the transport was given

uploadVars == <<kind, stream, done, pending, pulls, cursor, eof, out>>

Spawned  == [is |-> "spawned"]
Running  == [is |-> "running"]
InFlight == {Spawned, Running}
Chunk(n) == [is |-> "chunk", n |-> n]
End      == [is |-> "end"]
Failed   == [is |-> "failed"]
Item     == [is : {"chunk"}, n : Nat] \cup {End, Failed}

UploadTypeOK ==
  /\ kind \in {"reader", "sync", "async"}
  /\ stream \in {"open", "dropped"}
  /\ done \in BOOLEAN
  /\ pending \in 0 .. Len(pulls)
  /\ done => pending = 0
  /\ pulls \in Seq(InFlight \cup Item)
  /\ cursor \in Nat
  /\ eof \in BOOLEAN
  /\ out \in Seq(Item)

UploadInit ==
  /\ kind \in {"reader", "sync", "async"}
  /\ stream = "open"
  /\ done = FALSE
  /\ pending = 0
  /\ pulls = <<>>
  /\ cursor = 0
  /\ eof = FALSE
  /\ out = <<>>

--------------------------------------------------------------------------------
\* The transport polls

Polled == stream = "open" /\ ~done

\* Mutant: a pull that is not ready yet is not put back into `pending`.
StartPullAndForget ==
  /\ Polled
  /\ pending = 0
  /\ Len(pulls) < MaxPulls
  /\ pulls' = Append(pulls, Spawned)
  /\ UNCHANGED <<kind, stream, done, pending, cursor, eof, out>>

\* poll_next with nothing pending: start one pull, and wait for it.
StartPull ==
  /\ Polled
  /\ pending = 0
  /\ Len(pulls) < MaxPulls
  /\ pulls' = Append(pulls, Spawned)
  /\ pending' = Len(pulls')
  /\ UNCHANGED <<kind, stream, done, cursor, eof, out>>

\* AsyncSource: __anext__ itself may raise, which needs no awaiting.
AnextRaises ==
  /\ kind = "async"
  /\ Polled
  /\ pending = 0
  /\ Len(pulls) < MaxPulls
  /\ done' = TRUE
  /\ \E item \in {End, Failed} :
       /\ pulls' = Append(pulls, item)
       /\ out' = Append(out, item)
       /\ eof' = (item = End)
  /\ UNCHANGED <<kind, stream, pending, cursor>>

\* Mutant: only the end of the source sets the flag, a failure does not.
DeliverEndsOnEof ==
  /\ Polled
  /\ pending # 0
  /\ pulls[pending] \notin InFlight
  /\ out' = Append(out, pulls[pending])
  /\ done' = (pulls[pending] = End)
  /\ pending' = 0
  /\ UNCHANGED <<kind, stream, pulls, cursor, eof>>

\* Mutant: a chunk is dropped when the pull that brought it is followed up.
DeliverStartsNext ==
  /\ Polled
  /\ pending # 0
  /\ pulls[pending] \notin InFlight
  /\ done' = (pulls[pending].is # "chunk")
  /\ pending' = 0
  /\ UNCHANGED <<kind, stream, pulls, cursor, eof, out>>

\* poll_next with a finished pull: hand its result over; anything but a chunk
\* is the last thing this stream gives.
Deliver ==
  /\ Polled
  /\ pending # 0
  /\ pulls[pending] \notin InFlight
  /\ out' = Append(out, pulls[pending])
  /\ done' = (pulls[pending].is # "chunk")
  /\ pending' = 0
  /\ UNCHANGED <<kind, stream, pulls, cursor, eof>>

\* The request ends or is abandoned.  The task that pulls is only detached.
Drop ==
  /\ stream = "open"
  /\ stream' = "dropped"
  /\ UNCHANGED <<kind, done, pending, pulls, cursor, eof, out>>

--------------------------------------------------------------------------------
\* A pull

\* What the Python object answers: an exhausted source goes on saying so.
\* "none" is read() == None, a raw stream that has nothing buffered.
Answers ==
  CASE kind = "reader" /\ eof -> {"empty"}
    [] kind = "reader" /\ ~eof -> {"bytes", "empty", "none", "raises"}
    [] kind # "reader" /\ eof -> {"stop"}
    [] OTHER -> {"bytes", "empty", "stop", "raises"}

Exhausts(answer) == answer \in {"none", "stop"} \/ (answer = "empty" /\ kind = "reader")
Produces(answer) == answer \in {"bytes", "empty"} /\ ~Exhausts(answer)

\* Mutant: an iterator's empty chunk ends the upload, as a reader's does.
ItemOfEmptyEnds(answer, n) ==
  CASE answer = "raises" -> Failed
    [] answer \in {"none", "stop", "empty"} -> End
    [] OTHER -> Chunk(n)

\* pull_reader, pull_sync_iter, end_or_error, extract_chunk: what becomes of an
\* answer.  A chunk that is not bytes-like fails like an exception.
ItemOf(answer, n) ==
  CASE answer = "raises" -> Failed
    [] answer \in {"none", "stop"} -> End
    [] answer = "empty" /\ kind = "reader" -> End
    [] OTHER -> Chunk(n)

\* A worker, or the event loop, gets round to it.
RunPull(i) ==
  /\ pulls[i] = Spawned
  /\ pulls' = [pulls EXCEPT ![i] = Running]
  /\ UNCHANGED <<kind, stream, done, pending, cursor, eof, out>>

PullReturns(i) ==
  /\ pulls[i] = Running
  /\ \E answer \in Answers :
       /\ pulls' = [pulls EXCEPT ![i] = ItemOf(answer, cursor + 1)]
       /\ cursor' = IF Produces(answer) THEN cursor + 1 ELSE cursor
       /\ eof' = (eof \/ Exhausts(answer))
  /\ UNCHANGED <<kind, stream, done, pending, out>>

\* The blocking worker panics, or is shut down.
JoinFails(i) ==
  /\ kind # "async"
  /\ pulls[i] \in InFlight
  /\ pulls' = [pulls EXCEPT ![i] = Failed]
  /\ UNCHANGED <<kind, stream, done, pending, cursor, eof, out>>

--------------------------------------------------------------------------------
UploadNext ==
  \/ StartPull \/ AnextRaises \/ Deliver \/ Drop
  \/ \E i \in DOMAIN pulls : RunPull(i) \/ PullReturns(i) \/ JoinFails(i)

UploadSpec == UploadInit /\ [][UploadNext]_uploadVars

--------------------------------------------------------------------------------
\* Properties

Given == {i \in DOMAIN out : out[i].is = "chunk"}   \* the chunks among the items

\* The source is never entered twice at once, however often the transport
\* polls while a pull is in flight: a generator that is already running raises,
\* and two reads of one file would share its position.
OnePullAtATime == Cardinality({i \in DOMAIN pulls : pulls[i] \in InFlight}) <= 1

\* What the transport has is what the source produced, in its order, and the
\* source is at most the one chunk ahead that the transport is waiting for.
NothingReadAhead ==
  /\ \A i \in Given : out[i].n = i
  /\ cursor <= Cardinality(Given) + 1

\* A source that has ended or failed is not asked again, though the transport
\* polls on: a failed read may succeed the next time, and leave a hole.
NeverPulledAgain ==
  [][(\E i \in DOMAIN pulls : pulls[i] \in {End, Failed}) => Len(pulls') = Len(pulls)]_uploadVars

\* An upload is declared complete only if the source said that it was: neither a
\* failure nor an iterator's empty chunk cuts the body short.
EndsOnlyAtEof == (\E i \in DOMAIN out : out[i] = End) => eof
================================================================================
