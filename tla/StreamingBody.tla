------------------------------ MODULE StreamingBody ------------------------------
(***************************************************************************)
(* response.rs: one StreamingResponse read by several tasks or threads.    *)
(*                                                                         *)
(* Every read takes the tokio mutex around Option<StreamingResponse>, in   *)
(* the order the reads asked for it, and keeps it while it waits for the   *)
(* network.  bytes() and text() take the stream out.  The body is          *)
(* upstream's: some chunks, then its end, or an error instead of any of    *)
(* them; a stream that failed goes on failing.                             *)
(***************************************************************************)
EXTENDS Naturals, Sequences, FiniteSets, SequencesExt

CONSTANTS Reads,    \* calls of chunk, __anext__ and bytes or text
          Method,   \* "chunk", "next", "rest", or "unknown": text(encoding=) with
                    \* a codec that Python does not know
          Length,   \* chunks of the body
          Async     \* whether Python may cancel a read

ASSUME MethodAssumption == Method \in [Reads -> {"chunk", "next", "rest", "unknown"}]
ASSUME LengthAssumption == Length \in Nat
ASSUME AsyncAssumption  == Async \in BOOLEAN

VARIABLES
  slot,    \* the Option is Some
  queue,   \* the reads that hold or wait for the mutex, in order
  pos,     \* chunks taken out of the stream
  broken,  \* the stream has failed
  read,    \* how far each read has got
  at,      \* history: the position when it got the mutex
  got      \* the chunks that were taken out for it

vars == <<slot, queue, pos, broken, read, at, got>>

Results == {"chunk", "end", "error", "undecoded", "consumed"}
Stages == {"new", "waiting", "reading", "cancelled"} \cup Results

TypeOK ==
  /\ slot \in BOOLEAN
  /\ queue \in Seq(Reads)
  /\ pos \in 0 .. Length
  /\ broken \in BOOLEAN
  /\ read \in [Reads -> Stages]
  /\ at \in [Reads -> 0 .. Length]
  /\ got \in [Reads -> SUBSET (1 .. Length)]
  /\ \A r \in Reads : read[r] = "reading" => queue # <<>> /\ Head(queue) = r

Init ==
  /\ slot = TRUE
  /\ queue = <<>>
  /\ pos = 0
  /\ broken = FALSE
  /\ read = [r \in Reads |-> "new"]
  /\ at = [r \in Reads |-> 0]
  /\ got = [r \in Reads |-> {}]

--------------------------------------------------------------------------------
Goto(r, s) == read' = [read EXCEPT ![r] = s]
Holds(r)   == queue # <<>> /\ Head(queue) = r
Unlock     == queue' = Tail(queue)

\* bytes() and text() read the whole of what is left.
Whole == {r \in Reads : Method[r] \in {"rest", "unknown"}}

\* inner.lock().await: tokio's mutex is first come, first served.
Call(r) ==
  /\ read[r] = "new"
  /\ Goto(r, "waiting")
  /\ queue' = Append(queue, r)
  /\ UNCHANGED <<slot, pos, broken, at, got>>

\* Mutant: the lock is not kept while the read waits for the network.
BeginUnlocked(r) ==
  /\ read[r] = "waiting"
  /\ slot
  /\ Goto(r, "reading")
  /\ at' = [at EXCEPT ![r] = pos]
  /\ slot' = (r \notin Whole)
  /\ UNCHANGED <<queue, pos, broken, got>>

\* The read has the mutex and finds the stream; bytes() and text() take() it.
Begin(r) ==
  /\ read[r] = "waiting"
  /\ Holds(r)
  /\ slot
  /\ Goto(r, "reading")
  /\ at' = [at EXCEPT ![r] = pos]
  /\ slot' = (r \notin Whole)
  /\ UNCHANGED <<queue, pos, broken, got>>

\* ... or finds it gone: an error, or for an iterator the end.
BeginConsumed(r) ==
  /\ read[r] = "waiting"
  /\ Holds(r)
  /\ ~slot
  /\ Goto(r, IF Method[r] = "next" THEN "end" ELSE "consumed")
  /\ Unlock
  /\ UNCHANGED <<slot, pos, broken, at, got>>

\* chunk().await: Some(chunk).
ReadChunk(r) ==
  /\ read[r] = "reading"
  /\ r \notin Whole
  /\ ~broken
  /\ at[r] < Length
  /\ pos' = at[r] + 1
  /\ got' = [got EXCEPT ![r] = {at[r] + 1}]
  /\ Goto(r, "chunk")
  /\ Unlock
  /\ UNCHANGED <<slot, broken, at>>

\* chunk().await: None empties the slot.
ReadEnd(r) ==
  /\ read[r] = "reading"
  /\ r \notin Whole
  /\ ~broken
  /\ at[r] = Length
  /\ slot' = FALSE
  /\ Goto(r, "end")
  /\ Unlock
  /\ UNCHANGED <<pos, broken, at, got>>

\* Mutant: a failed stream is dropped like one that ended.
ReadErrorDrops(r) ==
  /\ read[r] = "reading"
  /\ broken' = TRUE
  /\ slot' = FALSE
  /\ Goto(r, "error")
  /\ Unlock
  /\ UNCHANGED <<pos, at, got>>

\* An error leaves the slot as it is.
ReadError(r) ==
  /\ read[r] = "reading"
  /\ broken' = TRUE
  /\ Goto(r, "error")
  /\ Unlock
  /\ UNCHANGED <<slot, pos, at, got>>

\* bytes().await: everything from here on.  Only then does text() look for the
\* codec: a LookupError has spent the body.
ReadRest(r) ==
  /\ read[r] = "reading"
  /\ r \in Whole
  /\ ~broken
  /\ pos' = Length
  /\ got' = [got EXCEPT ![r] = (at[r] + 1) .. Length]
  /\ Goto(r, IF Method[r] = "unknown" THEN "undecoded" ELSE "chunk")
  /\ Unlock
  /\ UNCHANGED <<slot, broken, at>>

\* Mutant: cancelling a read that waits for its turn leaves it in the queue.
CancelStaysQueued(r) ==
  /\ Async
  /\ read[r] \in {"waiting", "reading"}
  /\ Goto(r, "cancelled")
  /\ UNCHANGED <<slot, queue, pos, broken, at, got>>

\* Mutant: each read takes the stream out of its slot and puts it back at the end.
CancelLosesBody(r) ==
  /\ Async
  /\ read[r] \in {"waiting", "reading"}
  /\ Goto(r, "cancelled")
  /\ \E i \in DOMAIN queue : queue[i] = r /\ queue' = RemoveAt(queue, i)
  /\ slot' = (slot /\ read[r] = "waiting")
  /\ UNCHANGED <<pos, broken, at, got>>

\* Python cancels a read that waits for its turn or for the network: its place in
\* the queue goes to the next ...
CancelInQueue(r) ==
  /\ Async
  /\ read[r] \in {"waiting", "reading"}
  /\ Goto(r, "cancelled")
  /\ \E i \in DOMAIN queue : queue[i] = r /\ queue' = RemoveAt(queue, i)
  /\ UNCHANGED <<slot, pos, broken, at, got>>

\* ... or one whose result is on its way: what it had taken is lost to everybody.
CancelResult(r) ==
  /\ Async
  /\ read[r] \in Results
  /\ Goto(r, "cancelled")
  /\ UNCHANGED <<slot, queue, pos, broken, at, got>>

--------------------------------------------------------------------------------
TakesTurn(r) == Begin(r) \/ BeginConsumed(r)
Network(r) == ReadChunk(r) \/ ReadEnd(r) \/ ReadError(r) \/ ReadRest(r)

Next == \E r \in Reads : Call(r) \/ TakesTurn(r) \/ Network(r) \/ CancelInQueue(r) \/ CancelResult(r)

Spec == Init /\ [][Next]_vars

\* Tokio polls a read whose turn it is.  The network owes nothing.
FairSpec == Spec /\ \A r \in Reads : WF_vars(TakesTurn(r))

--------------------------------------------------------------------------------
\* What it implements: a read takes effect when its result is there.  One that waits,
\* for its turn or for the network, has none.
Contract == INSTANCE BodyContract WITH
  given  <- pos,
  failed <- broken,
  gone   <- ~slot,
  taking <- {r \in Whole : read[r] = "reading"},
  result <- [r \in Reads |-> IF read[r] \in {"new", "waiting", "reading"} THEN "none" ELSE read[r]],
  part   <- got

--------------------------------------------------------------------------------
\* Properties

\* Reads that overlap, in whatever order they are queued, served, failed and
\* cancelled, are as good as reads that take effect one by one, each at an instant
\* and with what the body has next at that instant.
ReadsAreAtomic == Contract!Spec

\* However many read at once, every chunk that left the stream was taken out for
\* exactly one read, none twice and none skipped, and that read returns it - unless
\* Python cancelled it, or asked text() for a codec that it does not have.  No read
\* that fails otherwise, or ends, costs the others a chunk.
EachChunkOnce ==
  /\ \A r, s \in Reads : r # s => got[r] \cap got[s] = {}
  /\ UNION {got[r] : r \in Reads} = 1 .. pos
  /\ \A r \in Reads :
       got[r] # {} => \/ read[r] \in {"chunk", "cancelled"}
                      \/ Method[r] = "unknown" /\ read[r] = "undecoded"

\* A read that reports the end of the body, None or the end of the iteration, is
\* right: everything was read and nothing broke - unless bytes() or text() took
\* the body, which ends every iteration though they may fail or be cancelled.
EndIsHonest ==
  \A r \in Reads :
    read[r] = "end" =>
      \/ pos = Length /\ ~broken
      \/ \E s \in Whole : read[s] \in {"reading", "chunk", "undecoded", "error", "cancelled"}

\* As long as no read waits for the network for ever, no read waits for its turn
\* for ever: one that ends, fails or is cancelled makes room for the next.
EveryReadGetsItsTurn ==
  (\A r \in Reads : []<>(read[r] # "reading")) =>
    \A r \in Reads : (read[r] = "waiting" ~> read[r] # "waiting")
================================================================================
