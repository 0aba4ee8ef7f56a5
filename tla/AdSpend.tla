------------------------------- MODULE AdSpend -------------------------------
(***************************************************************************)
(* Ad money on a live account behind the gate of backend/risk/gate.py: a   *)
(* launch (launch_from_playbook) and a raise of a budget (scale_budget),   *)
(* both of backend/integrations/tiktok_ads.py.  Request threads of the API *)
(* and the one worker thread of an orchestrator make these calls; the      *)
(* worker (orchestrator/main.py) keeps a relaunch cooldown for the one     *)
(* playbook modelled here.                                                 *)
(*                                                                         *)
(* Every process has its own engine; threads of one process share it.  A   *)
(* step ends where enforce releases a lock or an HTTP call is made.        *)
(***************************************************************************)
EXTENDS RiskEngine, FiniteSets

CONSTANTS
  Procs, Spenders,
  Home,       \* the process of each spender
  Workers,    \* the spenders that are the one worker thread of an orchestrator
  Budgets,    \* what a playbook proposes: estimated_roas * _BUDGET_DAILY.  Not 0,
              \* which create_campaign would post as _BUDGET_DAILY, unrecorded
  Raises,     \* new_budget - current_budget, where it is an increase
  MaxFaults   \* bound on lost answers, failed writes and ends of processes

ASSUME SpendAssumption ==
  /\ Home \in [Spenders -> Procs] /\ Workers \subseteq Spenders
  /\ \A w \in Workers, s \in Spenders : Home[w] = Home[s] => w = s
  /\ Budgets \subseteq Nat \ {0} /\ Raises \subseteq Nat \ {0}
  /\ MaxFaults \in Nat

\* A thread pool is finite, and so are the amounts a float can hold.
ASSUME ProposalAssumption ==
  /\ IsFiniteSet(Spenders)
  /\ \E b \in Budgets \cup Raises : \A c \in Budgets \cup Raises : c <= b

VARIABLES
  engine,     \* engine[p]: global_risk_engine of process p
  job, at,    \* per spender: the call it is in, and where
  budget,     \* per spender: what the call proposes, then what it was granted
  cooldown,   \* cooldown[p]: last_launched_at is recent, in memory and on p's disk
  account,    \* account[p]: what the platform accepted from p in the window (external)
  ledger,     \* history: what the platform accepted for each entry of engine[p].log
  forgotten,  \* history: the part of account[p] no engine will hear of
  phantom,    \* history: the part of p's log that the platform refused
  sinceKill,  \* history: calls of a spender accepted since its kill switch was thrown
  minted,     \* history: campaigns of p's worker since the last cooldown ended,
  excused,    \*   and the faults among them that hide a launch from the cooldown
  faults

money     == <<account, ledger, forgotten, phantom>>
history   == <<sinceKill, minted, excused>>
call      == <<job, at, budget>>
spendVars == <<engine, call, cooldown, money, history, faults>>

Of(p) == {s \in Spenders : Home[s] = p}
WorkerOf(p) == Of(p) \cap Workers

\* "refused" is "record" after an answer that carries an error code.
Places == {"idle", "gate", "cap", "post", "record", "refused", "mark"}
Stamps == [memory : BOOLEAN, file : BOOLEAN]

SpendTypeOK ==
  /\ engine \in [Procs -> Engines]
  /\ job \in [Spenders -> {"none", "launch", "scale"}]
  /\ at \in [Spenders -> Places] /\ budget \in [Spenders -> Nat]
  /\ cooldown \in [Procs -> Stamps]
  /\ account \in [Procs -> Nat] /\ ledger \in [Procs -> Seq(Nat)]
  /\ forgotten \in [Procs -> Nat] /\ phantom \in [Procs -> Nat]
  /\ sinceKill \in [Spenders -> Nat]
  /\ minted \in [Procs -> Nat] /\ excused \in [Procs -> Nat]
  /\ faults \in 0..MaxFaults

Begin(s, what, amount) ==
  /\ at[s] = "idle"
  /\ job' = [job EXCEPT ![s] = what]
  /\ at' = [at EXCEPT ![s] = "gate"]
  /\ budget' = [budget EXCEPT ![s] = amount]

Go(s, there) == at' = [at EXCEPT ![s] = there] /\ UNCHANGED <<job, budget>>

Return(s) ==
  /\ job' = [job EXCEPT ![s] = "none"]
  /\ at' = [at EXCEPT ![s] = "idle"]
  /\ budget' = [budget EXCEPT ![s] = 0]

Fault == faults < MaxFaults /\ faults' = faults + 1

----------------------------------------------------------------------------
(* launch_from_playbook and scale_budget *)

\* A request names a playbook, or the worker finds one out of its cooldown.
BeginLaunch(s) ==
  /\ s \in Workers => ~cooldown[Home[s]].memory
  /\ \E b \in Budgets : Begin(s, "launch", b)
  /\ UNCHANGED <<engine, cooldown, money, history, faults>>

\* A decision of the budget scaling raises a campaign's budget.
BeginRaise(s) ==
  /\ \E b \in Raises : Begin(s, "scale", b)
  /\ UNCHANGED <<engine, cooldown, money, history, faults>>

CheckKill(s) ==
  /\ at[s] = "gate"
  /\ IF Halted(engine[Home[s]]) THEN Return(s) ELSE Go(s, "cap")
  /\ UNCHANGED <<engine, cooldown, money, history, faults>>

\* Capital comes from the execution loop's state: any drawdown is possible.
RefusedForDrawdown(s) ==
  /\ at[s] = "cap"
  /\ Return(s)
  /\ UNCHANGED <<engine, cooldown, money, history, faults>>

CheckCap(s) ==
  LET e == engine[Home[s]]
  IN /\ at[s] = "cap"
     /\ IF Remaining(e) <= 0
        THEN Return(s)
        ELSE /\ at' = [at EXCEPT ![s] = "post"]
             /\ budget' = [budget EXCEPT ![s] = Grant(e, @)]
             /\ UNCHANGED job
     /\ UNCHANGED <<engine, cooldown, money, history, faults>>

\* The worker is launching the playbook that has a cooldown.
Mints(s) == s \in Workers /\ job[s] = "launch"

\* The platform accepts the amount, whatever its answer becomes.
Accepted(s) ==
  LET p == Home[s]
  IN /\ account' = [account EXCEPT ![p] = @ + budget[s]]
     /\ sinceKill' = [sinceKill EXCEPT ![s] = IF engine[p].kill THEN @ + 1 ELSE @]
     /\ minted' = [minted EXCEPT ![p] = IF Mints(s) THEN @ + 1 ELSE @]

PostAnswered(s) ==
  /\ at[s] = "post" /\ Accepted(s)
  /\ Go(s, "record")
  /\ UNCHANGED <<engine, cooldown, ledger, forgotten, phantom, excused, faults>>

\* The platform refuses in an answer; _unwrap passes its code on and nobody reads it.
PostRefused(s) ==
  /\ at[s] = "post"
  /\ Go(s, "refused")
  /\ UNCHANGED <<engine, cooldown, money, history, faults>>

\* An answer is lost: create_campaign, a safe_call, returns "", scale_budget False.
PostUnheard(s) ==
  LET p == Home[s]
  IN /\ at[s] = "post" /\ Accepted(s) /\ Fault
     /\ forgotten' = [forgotten EXCEPT ![p] = @ + budget[s]]
     /\ excused' = [excused EXCEPT ![p] = IF Mints(s) THEN @ + 1 ELSE @]
     /\ Return(s)
     /\ UNCHANGED <<engine, cooldown, ledger, phantom>>

\* Mutation: the budget is recorded although nothing came of it.
PostFailsRecorded(s) ==
  /\ at[s] = "post"
  /\ Return(s)
  /\ engine' = [engine EXCEPT ![Home[s]] = Recorded(@, budget[s])]
  /\ UNCHANGED <<cooldown, money, history, faults>>

\* No connection, or the SDK raises.
PostFails(s) ==
  /\ at[s] = "post"
  /\ Return(s)
  /\ UNCHANGED <<engine, cooldown, money, history, faults>>

\* A launch records after its ad group and ads, which may all have failed.
RecordSpend(s) ==
  LET p == Home[s]
      spent == IF at[s] = "record" THEN budget[s] ELSE 0
  IN /\ at[s] \in {"record", "refused"}
     /\ engine' = [engine EXCEPT ![p] = Recorded(@, budget[s])]
     /\ ledger' = [ledger EXCEPT ![p] = Append(@, spent)]
     /\ phantom' = [phantom EXCEPT ![p] = @ + (budget[s] - spent)]
     /\ IF Mints(s) THEN Go(s, "mark") ELSE Return(s)
     /\ UNCHANGED <<cooldown, account, forgotten, history, faults>>

\* A fault hides a launch from the cooldown, if there is one to hide.
Excused(p) == IF minted[p] > excused[p] THEN excused[p] + 1 ELSE excused[p]

\* mark_launched, in memory and then in playbook.json.
MarkLaunched(s) ==
  LET p == Home[s]
  IN /\ at[s] = "mark"
     /\ \/ cooldown' = [cooldown EXCEPT ![p] = [memory |-> TRUE, file |-> TRUE]]
           /\ UNCHANGED <<excused, faults>>
        \/ cooldown' = [cooldown EXCEPT ![p].memory = TRUE]  \* _persist failed
           /\ Fault /\ excused' = [excused EXCEPT ![p] = Excused(p)]
     /\ Return(s)
     /\ UNCHANGED <<engine, money, sinceKill, minted>>

Spend(s) ==
  \/ BeginLaunch(s) \/ BeginRaise(s) \/ CheckKill(s) \/ RefusedForDrawdown(s) \/ CheckCap(s)
  \/ PostAnswered(s) \/ PostRefused(s) \/ PostUnheard(s) \/ PostFails(s)
  \/ RecordSpend(s) \/ MarkLaunched(s)

----------------------------------------------------------------------------
(* The process and time *)

\* POST /risk/killswitch/..., served by the process of the request threads.
SwitchKill(p) ==
  /\ Of(p) \ Workers # {}
  /\ engine' = [engine EXCEPT ![p] = Switched(@, ~@.kill)]
  /\ sinceKill' = [s \in Spenders |-> IF Home[s] = p THEN 0 ELSE sinceKill[s]]
  /\ UNCHANGED <<call, cooldown, money, minted, excused, faults>>

\* The oldest entry is 24 hours old, and its campaign's spend older still.
Expire(p) ==
  LET spent == Head(ledger[p])
  IN /\ engine[p].log # <<>>
     /\ engine' = [engine EXCEPT ![p] = Pruned(@)]
     /\ account' = [account EXCEPT ![p] = @ - spent]
     /\ ledger' = [ledger EXCEPT ![p] = Tail(@)]
     /\ phantom' = [phantom EXCEPT ![p] = @ - (Head(engine[p].log) - spent)]
     /\ UNCHANGED <<call, cooldown, forgotten, history, faults>>

\* _PLAYBOOK_RELAUNCH_COOLDOWN_S has passed since the last launch that was marked.
CooldownEnds(p) ==
  /\ cooldown[p].memory \/ cooldown[p].file
  /\ cooldown' = [cooldown EXCEPT ![p] = [memory |-> FALSE, file |-> FALSE]]
  /\ minted' = [minted EXCEPT ![p] = 0] /\ excused' = [excused EXCEPT ![p] = 0]
  /\ UNCHANGED <<engine, call, money, sinceKill, faults>>

\* Mutation: playbook.json is not read back.
ReloadedNot(c) == [c EXCEPT !.memory = FALSE]

\* Import of core.content.playbook restores the persisted playbooks.
Reloaded(c) == [c EXCEPT !.memory = c.file]

\* The process ends; when it is back its engine is new.  A campaign of its
\* worker that is not marked yet escapes the cooldown.
Ends(p) ==
  LET unmarked == \E w \in WorkerOf(p) : Mints(w) /\ at[w] \in {"record", "mark"}
  IN /\ Fault
     /\ engine' = [engine EXCEPT ![p] = NewEngine]
     /\ ledger' = [ledger EXCEPT ![p] = <<>>]
     /\ forgotten' = [forgotten EXCEPT ![p] = account[p]]
     /\ phantom' = [phantom EXCEPT ![p] = 0]
     /\ job' = [s \in Spenders |-> IF Home[s] = p THEN "none" ELSE job[s]]
     /\ at' = [s \in Spenders |-> IF Home[s] = p THEN "idle" ELSE at[s]]
     /\ budget' = [s \in Spenders |-> IF Home[s] = p THEN 0 ELSE budget[s]]
     /\ sinceKill' = [s \in Spenders |-> IF Home[s] = p THEN 0 ELSE sinceKill[s]]
     /\ cooldown' = [cooldown EXCEPT ![p] = Reloaded(@)]
     /\ excused' = [excused EXCEPT ![p] = IF unmarked THEN Excused(p) ELSE @]
     /\ UNCHANGED <<account, minted>>

SpendInit ==
  /\ engine = [p \in Procs |-> NewEngine]
  /\ job = [s \in Spenders |-> "none"]
  /\ at = [s \in Spenders |-> "idle"] /\ budget = [s \in Spenders |-> 0]
  /\ cooldown = [p \in Procs |-> [memory |-> FALSE, file |-> FALSE]]
  /\ account = [p \in Procs |-> 0] /\ ledger = [p \in Procs |-> <<>>]
  /\ forgotten = [p \in Procs |-> 0] /\ phantom = [p \in Procs |-> 0]
  /\ sinceKill = [s \in Spenders |-> 0]
  /\ minted = [p \in Procs |-> 0] /\ excused = [p \in Procs |-> 0]
  /\ faults = 0

----------------------------------------------------------------------------
(* Properties *)

Proposals   == Budgets \cup Raises
MaxProposal == CHOOSE b \in Proposals : \A c \in Proposals : c <= b

\* The daily cap of a process that spends with n threads is passed by at most one
\* proposal for each thread but one, however their checks, launches and records
\* interleave; an orchestrator, which spends from one thread, never passes it.
\* What a lost answer or a restart hid from the engine comes on top.
CapHolds ==
  \A p \in Procs :
    Of(p) # {} => account[p] - forgotten[p]
                    <= MaxDailySpend + (Cardinality(Of(p)) - 1) * MaxProposal

\* today_spend reflects reality: it is what the platform accepted, except for calls
\* being recorded, lost answers, earlier lives of the process and, in excess,
\* refusals that were taken for success.
TodaySpendIsReal ==
  \A p \in Procs :
    LET unrecorded == {s \in Of(p) : at[s] = "record"}
    IN unrecorded = {} => engine[p].today = account[p] - forgotten[p] + phantom[p]

\* Once the kill switch is thrown, a thread of that process completes at most the
\* call it had been admitted for, also when the switch is thrown between the
\* two critical sections of its check.
KillLetsOneThrough == \A s \in Spenders : sinceKill[s] <= 1

\* An orchestrator launches a playbook once per cooldown, through restarts, unless
\* the answer was lost, the stamp was not written, or the process died before it.
RelaunchIsExcused == \A p \in Procs : minted[p] <= 1 + excused[p]
=============================================================================
