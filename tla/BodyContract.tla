------------------------------ MODULE BodyContract ------------------------------
(***************************************************************************)
(* What a streamed body promises to those who read it at once, with none   *)
(* of the machinery that keeps the promise: no mutex, no queue, no wait    *)
(* for the network.  A read takes effect in one step, at which the body    *)
(* hands out what comes next, and what becomes of other reads is nothing   *)
(* to it; only one that takes the whole body has it from then on.          *)
(***************************************************************************)
EXTENDS Naturals

CONSTANTS Reads,    \* calls of chunk, __anext__ and bytes or text
          Method,   \* "chunk", "next", "rest", or "unknown": the rest, as text in
                    \* a codec that there is not
          Length    \* chunks of the body

VARIABLES
  given,    \* chunks handed out so far
  failed,   \* the body has failed
  gone,     \* it was read to its end, or taken whole
  taking,   \* the read that has taken it whole, until that is over
  result,   \* what each read came to
  part      \* the chunks that were given out for it

vars == <<given, failed, gone, taking, result, part>>

Init ==
  /\ given = 0
  /\ failed = FALSE
  /\ gone = FALSE
  /\ taking = {}
  /\ result = [r \in Reads |-> "none"]
  /\ part = [r \in Reads |-> {}]

Whole == {r \in Reads : Method[r] \in {"rest", "unknown"}}

Answer(r, what) ==
  /\ result[r] = "none"
  /\ result' = [result EXCEPT ![r] = what]
  /\ taking' = taking \ {r}

\* The next chunk.
Give(r) ==
  /\ r \notin Whole /\ ~gone /\ ~failed /\ given < Length
  /\ given' = given + 1
  /\ part' = [part EXCEPT ![r] = {given + 1}]
  /\ Answer(r, "chunk")
  /\ UNCHANGED <<failed, gone>>

\* There is none: the first who is told so closes the body.
GiveEnd(r) ==
  /\ r \notin Whole /\ ~gone /\ ~failed /\ given = Length
  /\ gone' = TRUE
  /\ Answer(r, "end")
  /\ UNCHANGED <<given, failed, part>>

\* bytes() and text() take the body, and are given everything from there on - which
\* is spent even if it then cannot be decoded.
Take(r) ==
  /\ r \in Whole /\ ~gone /\ result[r] = "none"
  /\ gone' = TRUE
  /\ taking' = {r}
  /\ UNCHANGED <<given, failed, result, part>>

GiveRest(r) ==
  /\ r \in taking /\ ~failed
  /\ given' = Length
  /\ part' = [part EXCEPT ![r] = (given + 1) .. Length]
  /\ Answer(r, IF Method[r] = "unknown" THEN "undecoded" ELSE "chunk")
  /\ UNCHANGED <<failed, gone>>

\* Nobody but the taker is given anything of a body that is gone.
FindGone(r) ==
  /\ gone /\ r \notin taking
  /\ Answer(r, IF Method[r] = "next" THEN "end" ELSE "consumed")
  /\ UNCHANGED <<given, failed, gone, part>>

Fail(r) ==
  /\ r \in taking \/ (r \notin Whole /\ ~gone)
  /\ failed' = TRUE
  /\ Answer(r, "error")
  /\ UNCHANGED <<given, gone, part>>

\* Abandoning a read takes nothing from the others, at whatever moment.
Cancel(r) ==
  /\ result[r] # "cancelled"
  /\ result' = [result EXCEPT ![r] = "cancelled"]
  /\ taking' = taking \ {r}
  /\ UNCHANGED <<given, failed, gone, part>>

Next ==
  \E r \in Reads :
    Give(r) \/ GiveEnd(r) \/ Take(r) \/ GiveRest(r) \/ FindGone(r) \/ Fail(r) \/ Cancel(r)

Spec == Init /\ [][Next]_vars
================================================================================
