----------------------------- MODULE Deployment -----------------------------
(***************************************************************************)
(* The processes of one deployment: an API host (its request threads spend *)
(* and its routes throw the kill switch), or the pair of orchestrators of  *)
(* deploy/aws, of which whoever ticks spends.  Processes on different      *)
(* hosts share the ad account and the heartbeat.  An API and an            *)
(* orchestrator on one host, as docker-compose starts them, also share the *)
(* volume with playbook.json; that file is modelled as the orchestrator's  *)
(* own, so the deployments are modelled one at a time.                     *)
(***************************************************************************)
EXTENDS AdSpend, Takeover

CONSTANT Deployments

ASSUME DeploymentAssumption ==
  Nodes \subseteq Procs /\ \A d \in Deployments : d \subseteq Procs

VARIABLE deployed

vars == <<deployed, spendVars, takeoverVars>>

TypeOK == deployed \in Deployments /\ SpendTypeOK /\ TakeoverTypeOK

Running(p) == p \in deployed /\ (p \in Nodes => node[p] = "run")

\* The loop dispatches its workers one after the other: none outlives its tick.
WorkerIdle(n) == \A w \in WorkerOf(n) : at[w] = "idle"

SpendStep ==
  /\ \/ \E s \in Spenders : Running(Home[s]) /\ Spend(s)
     \/ \E p \in Procs : Running(p) /\ SwitchKill(p)
     \/ \E p \in Procs : Expire(p) \/ CooldownEnds(p)
  /\ UNCHANGED <<deployed, takeoverVars>>

RestartApi ==
  /\ \E p \in deployed \ Nodes : Ends(p)
  /\ UNCHANGED <<deployed, takeoverVars>>

\* An orchestrator dies anywhere, or stops between two ticks.
EndNode(n) ==
  /\ Ends(n)
  /\ Crash(n) \/ (Stop(n) /\ WorkerIdle(n))
  /\ UNCHANGED deployed

NodeStep ==
  /\ \/ \E n \in Nodes \cap deployed : Boot(n) \/ (Tick(n) /\ WorkerIdle(n))
     \/ TakeOver \/ Elapse
  /\ UNCHANGED <<deployed, spendVars>>

Init == deployed \in Deployments /\ SpendInit /\ TakeoverInit

Next == SpendStep \/ RestartApi \/ NodeStep \/ \E n \in Nodes \cap deployed : EndNode(n)

Spec == Init /\ [][Next]_vars

\* Time passes, and a poll that finds the heartbeat stale is answered.
FairSpec == Spec /\ WF_vars(Elapse /\ UNCHANGED <<deployed, spendVars>>)
                 /\ WF_vars(TakeOver /\ UNCHANGED <<deployed, spendVars>>)
=============================================================================
