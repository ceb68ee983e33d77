------------------------------- MODULE MCBridge -------------------------------
(* Instances of Bridge for TLC. *)
EXTENDS Bridge, TLC

CONSTANTS t1, t2, d1, d2, l1, l2

\* Everything on one loop; d2, where there is one, is a blocking drain.
OneLoop == [x \in Tasks \cup Drains |-> l1]

\* d1 and t1 on one loop, the other tasks on another.
TwoLoops == [x \in Tasks \cup Drains |-> IF x \in {t1, d1} THEN l1 ELSE l2]

TaskSymmetry == Permutations(Tasks)
================================================================================
