----------------------------- MODULE DrainContract -----------------------------
(***************************************************************************)
(* What drain_pending() promises, with none of the machinery that keeps    *)
(* the promise: no counter, no guard, no notification, no event loop.      *)
(* A crossing is live from its submission until its result is settled.     *)
(* A drain may answer True only at an instant at which nothing is live; it *)
(* may answer False whenever its deadline strikes.                         *)
(***************************************************************************)
EXTENDS Naturals

CONSTANTS Tasks,    \* tracked crossings from Rust to Python
          Drains    \* calls of drain_pending and blocking_drain_pending

VARIABLES begun,    \* crossings submitted so far
          live,     \* crossings submitted and not settled
          answer    \* [Drains -> "none", "asked", "yes" or "no"]

vars == <<begun, live, answer>>

TypeOK ==
    /\ begun \subseteq Tasks
    /\ live \subseteq begun
    /\ answer \in [Drains -> {"none", "asked", "yes", "no"}]

Init ==
    /\ begun = {}
    /\ live = {}
    /\ answer = [d \in Drains |-> "none"]

Begin(t) ==
    /\ t \notin begun
    /\ begun' = begun \cup {t}
    /\ live' = live \cup {t}
    /\ UNCHANGED answer

Settle(t) ==
    /\ t \in live
    /\ live' = live \ {t}
    /\ UNCHANGED <<begun, answer>>

Ask(d) ==
    /\ answer[d] = "none"
    /\ answer' = [answer EXCEPT ![d] = "asked"]
    /\ UNCHANGED <<begun, live>>

AnswerYes(d) ==
    /\ answer[d] = "asked"
    /\ live = {}
    /\ answer' = [answer EXCEPT ![d] = "yes"]
    /\ UNCHANGED <<begun, live>>

AnswerNo(d) ==
    /\ answer[d] = "asked"
    /\ answer' = [answer EXCEPT ![d] = "no"]
    /\ UNCHANGED <<begun, live>>

Next ==
    \/ \E t \in Tasks : Begin(t) \/ Settle(t)
    \/ \E d \in Drains : Ask(d) \/ AnswerYes(d) \/ AnswerNo(d)

Safety == Init /\ [][Next]_vars

\* A drain that could answer True from some moment on does answer.
Spec == Safety /\ \A d \in Drains : WF_vars(AnswerYes(d))
================================================================================
