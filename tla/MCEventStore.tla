---------------------------- MODULE MCEventStore ----------------------------
(***************************************************************************)
(* Small instances of EventStore: how threads are spread over processes.   *)
(***************************************************************************)
EXTENDS EventStore, TLC

CONSTANTS p1, p2, t1, t2, w1, w2, w3

TwoThreads   == [t \in {t1, t2} |-> p1]
TwoProcesses == t1 :> p1 @@ t2 :> p2
=============================================================================
