---------------------------- MODULE LaunchPromise ----------------------------
(***************************************************************************)
(* What a coordinated launch promises its caller                           *)
(* (backend/orchestration/transaction.py, module docstring): campaigns     *)
(* start and stop spending only while the launch is open, and the verdict  *)
(* says what keeps spending.  An atomic launch has all or nothing.         *)
(***************************************************************************)
CONSTANTS Txs, AtomicTxs, Platforms

VARIABLES spending,   \* spending[t]: the platforms where t's campaign runs
          verdict     \* verdict[t]: "open", "ok", "partial" or "failed"

pvars == <<spending, verdict>>

Init ==
  /\ spending = [t \in Txs |-> {}]
  /\ verdict = [t \in Txs |-> "open"]

GoLive(t, p) ==
  /\ verdict[t] = "open"
  /\ spending' = [spending EXCEPT ![t] = @ \cup {p}]
  /\ UNCHANGED verdict

Pause(t, p) ==
  /\ verdict[t] = "open"
  /\ spending' = [spending EXCEPT ![t] = @ \ {p}]
  /\ UNCHANGED verdict

\* The verdicts that tell the truth about a set of running campaigns.
Honest(t, running) ==
  CASE running = Platforms -> {"ok"}
    [] running = {}        -> {"failed"}
    [] OTHER               -> IF t \in AtomicTxs THEN {} ELSE {"partial"}

Settle(t) ==
  /\ verdict[t] = "open"
  /\ \E v \in Honest(t, spending[t]) : verdict' = [verdict EXCEPT ![t] = v]
  /\ UNCHANGED spending

Next == \E t \in Txs : Settle(t) \/ \E p \in Platforms : GoLive(t, p) \/ Pause(t, p)

Spec == Init /\ [][Next]_pvars
=============================================================================
