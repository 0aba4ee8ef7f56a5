----------------------------- MODULE RiskEngine -----------------------------
(***************************************************************************)
(* core/risk/global_risk_engine.py: the kill switch and the rolling spend  *)
(* log of one process, as functions on a record.  Each function is one     *)
(* critical section of the engine's lock.                                  *)
(*                                                                         *)
(* today is what the amounts in log add up to; the code adds them up on    *)
(* every call.  An entry is as old as its place in log, so the 24 hours of *)
(* the oldest end first.                                                   *)
(***************************************************************************)
EXTENDS Integers, Sequences

CONSTANT MaxDailySpend

ASSUME EngineAssumption == MaxDailySpend \in Nat \ {0}

Engines == [kill : BOOLEAN, log : Seq(Nat), today : Nat]

\* Nothing of it is persisted: a process starts with an empty log.
NewEngine == [kill |-> FALSE, log |-> <<>>, today |-> 0]

\* activate_kill_switch, deactivate_kill_switch.
Switched(e, on) == [e EXCEPT !.kill = on]

\* record_spend.
Recorded(e, amount) == [e EXCEPT !.log = Append(@, amount), !.today = @ + amount]

\* Mutation: the newest entry is dropped in place of the oldest.
PrunedNewest(e) ==
  [e EXCEPT !.log = SubSeq(@, 1, Len(@) - 1), !.today = @ - e.log[Len(e.log)]]

\* _prune_spend_log, when the oldest entry has become 24 hours old.
Pruned(e) == [e EXCEPT !.log = Tail(@), !.today = @ - Head(e.log)]

\* Mutation: the switch is only shown on the dashboard.
HaltedNever(e) == FALSE

\* The first step of enforce.
Halted(e) == e.kill

Remaining(e) == MaxDailySpend - e.today

\* Mutation: what is left of the day decides whether to spend, not how much.
GrantInFull(e, proposed) == proposed

\* The last step of enforce: min(proposed_budget, remaining).
Grant(e, proposed) == IF proposed < Remaining(e) THEN proposed ELSE Remaining(e)
=============================================================================
