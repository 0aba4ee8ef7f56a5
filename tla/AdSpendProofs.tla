--------------------------- MODULE AdSpendProofs ---------------------------
(***************************************************************************)
(* Theorems about the spending of Deployment, for any processes, threads,  *)
(* amounts, cap and faults: the kill switch lets one call of a thread      *)
(* through, a playbook is launched again only where a fault hid the        *)
(* launch, the log is true to the account, and the cap holds up to what is *)
(* on its way.                                                             *)
(***************************************************************************)
EXTENDS TakeoverProofs, FunctionTheorems, FiniteSetTheorems, WellFoundedInduction, TLAPS

\* What a step of the deployment does to the spending.
SpendMove ==
  \/ \E s \in Spenders : Spend(s)
  \/ \E p \in Procs : SwitchKill(p) \/ Expire(p) \/ CooldownEnds(p) \/ Ends(p)
  \/ UNCHANGED spendVars

\* Every step of a deployment is a step of the spending or leaves it alone.
LEMMA NextMovesSpend == deployed \in Deployments /\ [Next]_vars => SpendMove /\ deployed' \in Deployments
  <1> SUFFICES ASSUME deployed \in Deployments, [Next]_vars
               PROVE  SpendMove /\ deployed' \in Deployments
    OBVIOUS
  <1> USE DeploymentAssumption
  <1>1. CASE SpendStep
    BY <1>1 DEF SpendStep, SpendMove
  <1>2. CASE RestartApi
    BY <1>2 DEF RestartApi, SpendMove
  <1>3. CASE NodeStep
    BY <1>3 DEF NodeStep, SpendMove
  <1>4. ASSUME NEW n \in Nodes \cap deployed, EndNode(n)
        PROVE  SpendMove /\ deployed' \in Deployments
    BY <1>4 DEF EndNode, SpendMove
  <1>5. CASE UNCHANGED vars
    BY <1>5 DEF vars, SpendMove
  <1> QED BY <1>1, <1>2, <1>3, <1>4, <1>5 DEF Next

----------------------------------------------------------------------------
(* Types *)

\* An engine whose sum is an integer.
EngineRecords == [kill : BOOLEAN, log : Seq(Nat), today : Int]

CallTyped ==
  /\ job \in [Spenders -> {"none", "launch", "scale"}]
  /\ at \in [Spenders -> Places]
  /\ budget \in [Spenders -> Nat]

HistoryTyped ==
  /\ sinceKill \in [Spenders -> Nat]
  /\ minted \in [Procs -> Nat] /\ excused \in [Procs -> Nat]

SpendTyped ==
  /\ engine \in [Procs -> EngineRecords]
  /\ cooldown \in [Procs -> Stamps]
  /\ CallTyped /\ HistoryTyped

LEMMA EngineWith ==
  ASSUME NEW e \in EngineRecords, NEW l \in Seq(Nat), NEW n \in Int
  PROVE  /\ [e EXCEPT !.log = l, !.today = n] \in EngineRecords
         /\ [e EXCEPT !.log = l, !.today = n].kill = e.kill
  BY DEF EngineRecords

\* What each critical section leaves of an engine.
LEMMA EngineKept ==
  ASSUME NEW e \in EngineRecords
  PROVE  /\ \A on \in BOOLEAN : Switched(e, on) \in EngineRecords
         /\ \A amount \in Nat : Recorded(e, amount) \in EngineRecords /\ Recorded(e, amount).kill = e.kill
         /\ e.log # <<>> => Pruned(e) \in EngineRecords /\ Pruned(e).kill = e.kill
         /\ NewEngine \in EngineRecords /\ NewEngine.kill = FALSE
         /\ e.kill \in BOOLEAN
  <1>1. ASSUME NEW on \in BOOLEAN
        PROVE  Switched(e, on) \in EngineRecords
    BY DEF Switched, EngineRecords
  <1>2. ASSUME NEW amount \in Nat
        PROVE  Recorded(e, amount) \in EngineRecords /\ Recorded(e, amount).kill = e.kill
    <2>1. e.kill \in BOOLEAN /\ e.log \in Seq(Nat) /\ e.today \in Int
      BY DEF EngineRecords
    <2>3. Append(e.log, amount) \in Seq(Nat) /\ e.today + amount \in Int
      BY <2>1
    <2> QED BY <2>3, EngineWith DEF Recorded
  <1>3. ASSUME e.log # <<>>
        PROVE  Pruned(e) \in EngineRecords /\ Pruned(e).kill = e.kill
    <2>1. e.log \in Seq(Nat) /\ e.today \in Int
      BY DEF EngineRecords
    <2>2. Head(e.log) \in Nat /\ Tail(e.log) \in Seq(Nat)
      BY <1>3, <2>1
    <2>3. e.today - Head(e.log) \in Int
      BY <2>1, <2>2
    <2> QED BY <2>2, <2>3, EngineWith DEF Pruned
  <1>4. NewEngine \in EngineRecords /\ NewEngine.kill = FALSE
    BY DEF NewEngine, EngineRecords
  <1>5. e.kill \in BOOLEAN
    BY DEF EngineRecords
  <1> QED BY <1>1, <1>2, <1>3, <1>4, <1>5

\* A capped grant is an amount.
LEMMA GrantTyped ==
  ASSUME NEW e \in EngineRecords, NEW b \in Nat, ~(Remaining(e) <= 0)
  PROVE  Grant(e, b) \in Nat
  BY EngineAssumption DEF Grant, Remaining, EngineRecords

\* A thread goes from place to place, in a call or out of it.
LEMMA CallMoves ==
  ASSUME CallTyped, NEW s \in Spenders
  PROVE  /\ \A what \in {"launch", "scale"}, b \in Nat : Begin(s, what, b) => CallTyped'
         /\ \A there \in Places : Go(s, there) => CallTyped'
         /\ Return(s) => CallTyped'
  BY DEF CallTyped, Begin, Go, Return, Places

\* What a step of a thread does to its call: it begins one at the gate, goes on
\* or returns.
LEMMA CallKept ==
  ASSUME SpendTyped, NEW s \in Spenders, Spend(s)
  PROVE  CallTyped'
  <1> USE CallMoves DEF SpendTyped
  <1>1. Home[s] \in Procs /\ Budgets \subseteq Nat /\ Raises \subseteq Nat
    BY SpendAssumption
  <1>2. CASE BeginLaunch(s) \/ BeginRaise(s)
    BY <1>1, <1>2 DEF BeginLaunch, BeginRaise
  <1>3. CASE CheckKill(s)
    BY <1>3 DEF CheckKill, Places
  <1>4. CASE CheckCap(s)
    <2>1. CASE Remaining(engine[Home[s]]) <= 0
      BY <1>4, <2>1 DEF CheckCap
    <2>2. CASE ~(Remaining(engine[Home[s]]) <= 0)
      <3>1. budget[s] \in Nat /\ engine[Home[s]] \in EngineRecords
        BY <1>1 DEF CallTyped
      <3>2. Grant(engine[Home[s]], budget[s]) \in Nat
        BY <2>2, <3>1, GrantTyped
      <3>3. /\ at' = [at EXCEPT ![s] = "post"] /\ job' = job
            /\ budget' = [budget EXCEPT ![s] = Grant(engine[Home[s]], budget[s])]
        BY <1>4, <2>2 DEF CheckCap
      <3> QED BY <3>2, <3>3 DEF CallTyped, Places
    <2> QED BY <2>1, <2>2
  <1>5. CASE PostAnswered(s) \/ PostRefused(s)
    BY <1>5 DEF PostAnswered, PostRefused, Places
  <1>6. CASE RefusedForDrawdown(s) \/ PostUnheard(s) \/ PostFails(s) \/ MarkLaunched(s)
    BY <1>6 DEF RefusedForDrawdown, PostUnheard, PostFails, MarkLaunched
  <1>7. CASE RecordSpend(s)
    BY <1>7 DEF RecordSpend, Places
  <1> QED BY <1>2, <1>3, <1>4, <1>5, <1>6, <1>7 DEF Spend

LEMMA SpendTypedKept ==
  ASSUME SpendTyped, SpendMove
  PROVE  SpendTyped'
  <1>1. /\ engine \in [Procs -> EngineRecords] /\ cooldown \in [Procs -> Stamps]
        /\ CallTyped /\ HistoryTyped
    BY DEF SpendTyped
  <1>2. ASSUME NEW s \in Spenders, Spend(s)
        PROVE  SpendTyped'
    <2>1. CallTyped'
      BY <1>2, CallKept
    <2>2. Home[s] \in Procs /\ budget[s] \in Nat
      BY <1>1, SpendAssumption DEF CallTyped
    <2>3. CASE RecordSpend(s)
      <3>1. engine[Home[s]] \in EngineRecords
        BY <1>1, <2>2
      <3>2. Recorded(engine[Home[s]], budget[s]) \in EngineRecords
        BY <2>2, <3>1, EngineKept
      <3>3. engine' = [engine EXCEPT ![Home[s]] = Recorded(engine[Home[s]], budget[s])]
        BY <2>3 DEF RecordSpend
      <3>4. engine' \in [Procs -> EngineRecords]
        BY <1>1, <3>2, <3>3
      <3>5. UNCHANGED <<cooldown, history>>
        BY <2>3 DEF RecordSpend
      <3> QED BY <1>1, <2>1, <3>4, <3>5 DEF SpendTyped, HistoryTyped, history
    <2>4. CASE PostAnswered(s) \/ PostUnheard(s)
      <3>1. UNCHANGED <<engine, cooldown>>
        BY <2>4 DEF PostAnswered, PostUnheard
      <3>2. sinceKill' \in [Spenders -> Nat] /\ minted' \in [Procs -> Nat]
        BY <1>1, <2>2, <2>4 DEF PostAnswered, PostUnheard, Accepted, HistoryTyped
      <3>3. excused' \in [Procs -> Nat]
        BY <1>1, <2>2, <2>4 DEF PostAnswered, PostUnheard, HistoryTyped
      <3> QED BY <1>1, <2>1, <3>1, <3>2, <3>3 DEF SpendTyped, HistoryTyped
    <2>5. CASE MarkLaunched(s)
      <3>1. UNCHANGED <<engine, sinceKill, minted>>
        BY <2>5 DEF MarkLaunched
      <3>2. cooldown' \in [Procs -> Stamps]
        <4>1. [memory |-> TRUE, file |-> TRUE] \in Stamps
          BY DEF Stamps
        <4>2. [cooldown[Home[s]] EXCEPT !.memory = TRUE] \in Stamps
          BY <1>1, <2>2 DEF Stamps
        <4>3. \/ cooldown' = [cooldown EXCEPT ![Home[s]] = [memory |-> TRUE, file |-> TRUE]]
              \/ cooldown' = [cooldown EXCEPT ![Home[s]] = [cooldown[Home[s]] EXCEPT !.memory = TRUE]]
          BY <2>5 DEF MarkLaunched
        <4> QED BY <1>1, <4>1, <4>2, <4>3
      <3>3. excused' \in [Procs -> Nat]
        BY <1>1, <2>2, <2>5 DEF MarkLaunched, HistoryTyped, Excused
      <3> QED BY <1>1, <2>1, <3>1, <3>2, <3>3 DEF SpendTyped, HistoryTyped
    <2>6. CASE UNCHANGED <<engine, cooldown, history>>
      BY <1>1, <2>1, <2>6 DEF SpendTyped, HistoryTyped, history
    <2> QED BY <1>2, <2>3, <2>4, <2>5, <2>6
         DEF Spend, BeginLaunch, BeginRaise, CheckKill, RefusedForDrawdown, CheckCap,
             PostRefused, PostFails
  <1>3. ASSUME NEW p \in Procs, SwitchKill(p)
        PROVE  SpendTyped'
    <2>1. engine[p] \in EngineRecords
      BY <1>1
    <2>2. (~engine[p].kill) \in BOOLEAN
      OBVIOUS
    <2>3. Switched(engine[p], ~engine[p].kill) \in EngineRecords
      BY <2>1, <2>2, EngineKept
    <2>4. engine' = [engine EXCEPT ![p] = Switched(engine[p], ~engine[p].kill)]
      BY <1>3 DEF SwitchKill
    <2>5. engine' \in [Procs -> EngineRecords]
      BY <1>1, <2>3, <2>4
    <2>6. sinceKill' \in [Spenders -> Nat]
      BY <1>1, <1>3 DEF SwitchKill, HistoryTyped
    <2>7. UNCHANGED <<call, cooldown, minted, excused>>
      BY <1>3 DEF SwitchKill
    <2> QED BY <1>1, <2>5, <2>6, <2>7 DEF SpendTyped, HistoryTyped, CallTyped, call
  <1>4. ASSUME NEW p \in Procs, Expire(p)
        PROVE  SpendTyped'
    <2>1. engine[p] \in EngineRecords
      BY <1>1
    <2>2. Pruned(engine[p]) \in EngineRecords
      BY <1>4, <2>1, EngineKept DEF Expire
    <2>3. engine' = [engine EXCEPT ![p] = Pruned(engine[p])] /\ UNCHANGED <<call, cooldown, history>>
      BY <1>4 DEF Expire
    <2>4. engine' \in [Procs -> EngineRecords]
      BY <1>1, <2>2, <2>3
    <2> QED BY <1>1, <2>3, <2>4 DEF SpendTyped, HistoryTyped, CallTyped, call, history
  <1>5. ASSUME NEW p \in Procs, CooldownEnds(p)
        PROVE  SpendTyped'
    <2>1. cooldown' \in [Procs -> Stamps]
      BY <1>1, <1>5 DEF CooldownEnds, Stamps
    <2>2. minted' \in [Procs -> Nat] /\ excused' \in [Procs -> Nat]
      BY <1>1, <1>5 DEF CooldownEnds, HistoryTyped
    <2> QED BY <1>1, <1>5, <2>1, <2>2 DEF CooldownEnds, SpendTyped, HistoryTyped, CallTyped, call
  <1>6. ASSUME NEW p \in Procs, Ends(p)
        PROVE  SpendTyped'
    <2>1. NewEngine \in EngineRecords
      BY <1>1, EngineKept
    <2>2. engine' \in [Procs -> EngineRecords]
      BY <1>1, <1>6, <2>1 DEF Ends
    <2>3. cooldown' \in [Procs -> Stamps]
      <3>1. cooldown[p] \in Stamps
        BY <1>1
      <3>2. Reloaded(cooldown[p]) \in Stamps
        BY <3>1 DEF Reloaded, Stamps
      <3> QED BY <1>1, <1>6, <3>2 DEF Ends
    <2>4. CallTyped'
      BY <1>1, <1>6 DEF Ends, CallTyped, Places
    <2>5. sinceKill' \in [Spenders -> Nat] /\ minted' = minted
      BY <1>1, <1>6 DEF Ends, HistoryTyped
    <2>6. excused' \in [Procs -> Nat]
      <3>1. Excused(p) \in Nat
        BY <1>1 DEF HistoryTyped, Excused
      <3> QED BY <1>1, <1>6, <3>1 DEF Ends, HistoryTyped
    <2> QED BY <1>1, <2>2, <2>3, <2>4, <2>5, <2>6 DEF SpendTyped, HistoryTyped
  <1>7. CASE UNCHANGED spendVars
    BY <1>1, <1>7 DEF spendVars, SpendTyped, CallTyped, HistoryTyped, call, history
  <1> QED BY <1>2, <1>3, <1>4, <1>5, <1>6, <1>7 DEF SpendMove

\* The amounts, the cooldowns and the counters of a deployment keep their types.
LEMMA SpendInitial == Init => SpendTyped
  <1> SUFFICES ASSUME Init
               PROVE  SpendTyped
    OBVIOUS
  <1>1. NewEngine \in EngineRecords
    BY DEF NewEngine, EngineRecords
  <1>2. [memory |-> FALSE, file |-> FALSE] \in Stamps
    BY DEF Stamps
  <1> QED BY <1>1, <1>2 DEF Init, SpendInit, SpendTyped, CallTyped, HistoryTyped, Places

----------------------------------------------------------------------------
(* The kill switch *)

\* A thread that has had a call accepted since the switch was thrown is under the
\* switch and is not past its check.
Stopped(s) ==
  /\ sinceKill[s] <= 1
  /\ sinceKill[s] = 1 => engine[Home[s]].kill /\ at[s] \notin {"cap", "post"}

KillInv == \A s \in Spenders : Stopped(s)

\* A thread's step leaves the other threads where they are.
LEMMA OthersStay ==
  ASSUME SpendTyped, NEW s \in Spenders, Spend(s), NEW r \in Spenders, r # s
  PROVE  at'[r] = at[r] /\ job'[r] = job[r] /\ sinceKill'[r] = sinceKill[r]
  <1>1. at'[r] = at[r] /\ job'[r] = job[r]
    BY DEF SpendTyped, CallTyped, Spend, BeginLaunch, BeginRaise, Begin, Go, Return, CheckKill,
           RefusedForDrawdown, CheckCap, PostAnswered, PostRefused, PostUnheard, PostFails,
           RecordSpend, MarkLaunched
  <1>2. sinceKill'[r] = sinceKill[r]
    BY DEF SpendTyped, HistoryTyped, Spend, BeginLaunch, BeginRaise, CheckKill, RefusedForDrawdown,
           CheckCap, PostAnswered, PostRefused, PostUnheard, PostFails, RecordSpend,
           MarkLaunched, Accepted, history
  <1> QED BY <1>1, <1>2

\* Threads never throw the switch.
LEMMA SpendingIsNotSwitching ==
  ASSUME SpendTyped, NEW s \in Spenders, Spend(s), NEW p \in Procs
  PROVE  engine'[p].kill = engine[p].kill
  <1>1. engine \in [Procs -> EngineRecords] /\ Home[s] \in Procs /\ budget[s] \in Nat
    BY SpendAssumption DEF SpendTyped, CallTyped
  <1>2. CASE RecordSpend(s)
    <2>1. Recorded(engine[Home[s]], budget[s]).kill = engine[Home[s]].kill
      BY <1>1, EngineKept
    <2> QED BY <1>1, <1>2, <2>1 DEF RecordSpend
  <1>3. CASE engine' = engine
    BY <1>3
  <1> QED BY <1>2, <1>3
       DEF Spend, BeginLaunch, BeginRaise, CheckKill, RefusedForDrawdown, CheckCap,
           PostAnswered, PostRefused, PostUnheard, PostFails, MarkLaunched

\* The step of the thread itself: it passes the check only while the switch is off.
LEMMA ThreadStops ==
  ASSUME SpendTyped, NEW s \in Spenders, Spend(s), Stopped(s)
  PROVE  Stopped(s)'
  <1>1. Home[s] \in Procs /\ sinceKill[s] \in Nat /\ at \in [Spenders -> Places]
        /\ sinceKill \in [Spenders -> Nat]
    BY SpendAssumption DEF SpendTyped, HistoryTyped, CallTyped
  <1>2. engine'[Home[s]].kill = engine[Home[s]].kill
    BY <1>1, SpendingIsNotSwitching
  <1>3. ASSUME sinceKill'[s] = sinceKill[s], at'[s] \notin {"cap", "post"}
        PROVE  Stopped(s)'
    BY <1>2, <1>3 DEF Stopped
  <1>4. CASE BeginLaunch(s) \/ BeginRaise(s)
    BY <1>1, <1>3, <1>4 DEF BeginLaunch, BeginRaise, Begin, history
  <1>5. CASE CheckKill(s)
    <2>1. CASE engine[Home[s]].kill
      BY <1>1, <1>3, <1>5, <2>1 DEF CheckKill, Halted, Return, history
    <2>2. CASE ~engine[Home[s]].kill
      BY <1>2, <1>5, <2>2 DEF CheckKill, Stopped, history
    <2> QED BY <2>1, <2>2
  <1>6. CASE CheckCap(s)
    BY <1>1, <1>2, <1>6 DEF CheckCap, Return, Stopped, history
  <1>7. CASE PostAnswered(s) \/ PostUnheard(s)
    <2>1. sinceKill'[s] = (IF engine[Home[s]].kill THEN sinceKill[s] + 1 ELSE sinceKill[s])
      BY <1>1, <1>7 DEF PostAnswered, PostUnheard, Accepted
    <2>2. at[s] = "post" /\ at'[s] \notin {"cap", "post"}
      BY <1>1, <1>7 DEF PostAnswered, PostUnheard, Go, Return
    <2>3. sinceKill[s] = 0
      BY <1>1, <2>2 DEF Stopped
    <2> QED BY <1>2, <2>1, <2>2, <2>3 DEF Stopped
  <1>8. CASE PostRefused(s) \/ PostFails(s) \/ RefusedForDrawdown(s)
    BY <1>1, <1>3, <1>8 DEF PostRefused, PostFails, RefusedForDrawdown, Go, Return, history
  <1>9. CASE RecordSpend(s) \/ MarkLaunched(s)
    BY <1>1, <1>3, <1>9 DEF RecordSpend, MarkLaunched, Go, Return, history
  <1> QED BY <1>4, <1>5, <1>6, <1>7, <1>8, <1>9 DEF Spend

LEMMA KillKept ==
  ASSUME SpendTyped, KillInv, SpendMove
  PROVE  KillInv'
  <1>1. ASSUME NEW s \in Spenders, Spend(s), NEW r \in Spenders
        PROVE  Stopped(r)'
    <2>1. CASE r = s
      BY <1>1, <2>1, ThreadStops DEF KillInv
    <2>2. CASE r # s
      <3>1. at'[r] = at[r] /\ sinceKill'[r] = sinceKill[r]
        BY <1>1, <2>2, OthersStay
      <3>2. Home[r] \in Procs
        BY SpendAssumption
      <3>3. engine'[Home[r]].kill = engine[Home[r]].kill
        BY <1>1, <3>2, SpendingIsNotSwitching
      <3> QED BY <3>1, <3>3 DEF KillInv, Stopped
    <2> QED BY <2>1, <2>2
  <1>2. ASSUME NEW p \in Procs, SwitchKill(p) \/ Ends(p), NEW r \in Spenders
        PROVE  Stopped(r)'
    <2>1. CASE Home[r] = p
      BY <1>2, <2>1 DEF SwitchKill, Ends, Stopped
    <2>2. CASE Home[r] # p
      <3>1. sinceKill'[r] = sinceKill[r] /\ at'[r] = at[r]
        BY <1>2, <2>2 DEF SwitchKill, Ends, call
      <3>2. engine'[Home[r]] = engine[Home[r]]
        BY <1>2, <2>2, SpendAssumption DEF SwitchKill, Ends, SpendTyped
      <3> QED BY <3>1, <3>2 DEF KillInv, Stopped
    <2> QED BY <2>1, <2>2
  <1>3. ASSUME NEW p \in Procs, Expire(p) \/ CooldownEnds(p), NEW r \in Spenders
        PROVE  Stopped(r)'
    <2>1. sinceKill' = sinceKill /\ at' = at
      BY <1>3 DEF Expire, CooldownEnds, call, history
    <2>2. engine \in [Procs -> EngineRecords] /\ Home[r] \in Procs
      BY SpendAssumption DEF SpendTyped
    <2>3. engine'[Home[r]].kill = engine[Home[r]].kill
      <3>1. CASE Expire(p)
        <4>1. Pruned(engine[p]).kill = engine[p].kill
          BY <2>2, <3>1, EngineKept DEF Expire
        <4> QED BY <2>2, <3>1, <4>1 DEF Expire
      <3>2. CASE CooldownEnds(p)
        BY <3>2 DEF CooldownEnds
      <3> QED BY <1>3, <3>1, <3>2
    <2> QED BY <2>1, <2>3 DEF KillInv, Stopped
  <1>4. CASE UNCHANGED spendVars
    BY <1>4 DEF spendVars, call, history, KillInv, Stopped
  <1> QED BY <1>1, <1>2, <1>3, <1>4 DEF SpendMove, KillInv

\* The record of a switch that was never thrown.
LEMMA KillInitial == Init => KillInv
  BY DEF Init, SpendInit, KillInv, Stopped

----------------------------------------------------------------------------
(* The relaunch cooldown *)

\* A launch nothing excuses is on record twice, or is about to be put there.
Stamped(p) == cooldown[p].memory /\ cooldown[p].file

AboutToStamp(p) == \E w \in WorkerOf(p) : Mints(w) /\ at[w] \in {"record", "mark"}

\* A worker that may still launch has no such launch behind it.
Launching(p) == \E w \in WorkerOf(p) : Mints(w) /\ at[w] \in {"gate", "cap", "post", "refused"}

Covered(p) ==
  /\ minted[p] <= 1 + excused[p]
  /\ minted[p] > excused[p] => (Stamped(p) \/ AboutToStamp(p)) /\ ~Launching(p)

CoverInv == \A p \in Procs : Covered(p)

\* The worker is the only thread of its process that spends.
LEMMA WorkerIsAlone ==
  ASSUME NEW s \in Spenders, NEW w \in WorkerOf(Home[s])
  PROVE  w = s /\ s \in Workers
  BY SpendAssumption DEF WorkerOf, Of

\* A process is as it was if its worker and its counters are.
LEMMA CoverFrame ==
  ASSUME NEW p \in Procs, Covered(p),
         minted'[p] = minted[p], excused'[p] = excused[p], cooldown'[p] = cooldown[p],
         \A w \in WorkerOf(p) : at'[w] = at[w] /\ job'[w] = job[w]
  PROVE  Covered(p)'
  BY DEF Covered, Stamped, AboutToStamp, Launching, Mints

\* Counters of other processes stand still while a thread moves.
LEMMA OtherCountersStay ==
  ASSUME SpendTyped, NEW s \in Spenders, Spend(s), NEW p \in Procs, p # Home[s]
  PROVE  minted'[p] = minted[p] /\ excused'[p] = excused[p] /\ cooldown'[p] = cooldown[p]
  <1> USE SpendAssumption DEF SpendTyped, HistoryTyped
  <1>1. CASE PostAnswered(s) \/ PostUnheard(s)
    BY <1>1 DEF PostAnswered, PostUnheard, Accepted
  <1>2. CASE MarkLaunched(s)
    BY <1>2 DEF MarkLaunched
  <1>3. CASE UNCHANGED <<cooldown, history>>
    BY <1>3 DEF history
  <1> QED BY <1>1, <1>2, <1>3
       DEF Spend, BeginLaunch, BeginRaise, CheckKill, RefusedForDrawdown, CheckCap,
           PostRefused, PostFails, RecordSpend

\* The step of a thread in its own process.
LEMMA ThreadCovered ==
  ASSUME SpendTyped, NEW s \in Spenders, Spend(s), NEW p \in Procs, Home[s] = p, Covered(p)
  PROVE  Covered(p)'
  <1>1. /\ minted[p] \in Nat /\ excused[p] \in Nat
        /\ at \in [Spenders -> Places] /\ job \in [Spenders -> {"none", "launch", "scale"}]
        /\ minted \in [Procs -> Nat] /\ excused \in [Procs -> Nat] /\ cooldown \in [Procs -> Stamps]
    BY SpendAssumption DEF SpendTyped, HistoryTyped, CallTyped
  <1>2. \A w \in WorkerOf(p) : w = s /\ s \in Workers
    BY WorkerIsAlone
  <1>3. s \in Workers => s \in WorkerOf(p)
    BY DEF WorkerOf, Of
  \* Steps that leave the counters and the stamp alone.
  <1>4. ASSUME minted'[p] = minted[p], excused'[p] = excused[p], cooldown'[p] = cooldown[p],
               Mints(s) /\ at[s] \in {"record", "mark"}
                 => Mints(s)' /\ at'[s] \in {"record", "mark"},
               Mints(s)' /\ at'[s] \in {"gate", "cap", "post", "refused"}
                 => \/ ~cooldown[p].memory /\ at[s] = "idle"
                    \/ Mints(s) /\ at[s] \in {"gate", "cap", "post", "refused"}
        PROVE  Covered(p)'
    <2>1. AboutToStamp(p) => AboutToStamp(p)'
      BY <1>2, <1>4 DEF AboutToStamp
    <2>2. Stamped(p)' <=> Stamped(p)
      BY <1>4 DEF Stamped
    <2>3. CASE ~Launching(p)'
      BY <1>4, <2>1, <2>2, <2>3 DEF Covered
    <2>4. CASE Launching(p)'
      <3>1. Mints(s)' /\ at'[s] \in {"gate", "cap", "post", "refused"}
        BY <1>2, <2>4 DEF Launching
      <3>2. s \in WorkerOf(p)
        BY <1>2, <2>4 DEF Launching
      <3>3. CASE ~cooldown[p].memory /\ at[s] = "idle"
        <4>1. ~Stamped(p) /\ ~AboutToStamp(p)
          BY <1>2, <3>3 DEF Stamped, AboutToStamp
        <4> QED BY <1>4, <4>1 DEF Covered
      <3>4. CASE Mints(s) /\ at[s] \in {"gate", "cap", "post", "refused"}
        <4>1. Launching(p)
          BY <3>2, <3>4 DEF Launching
        <4> QED BY <1>4, <4>1 DEF Covered
      <3> QED BY <1>4, <3>1, <3>3, <3>4
    <2> QED BY <2>3, <2>4
  <1>6. CASE BeginLaunch(s)
    <2>1. UNCHANGED <<cooldown, history>> /\ at[s] = "idle"
      BY <1>6 DEF BeginLaunch, Begin
    <2>2. minted'[p] = minted[p] /\ excused'[p] = excused[p] /\ cooldown'[p] = cooldown[p]
      BY <2>1 DEF history
    <2>3. Mints(s)' => ~cooldown[p].memory
      BY <1>6 DEF BeginLaunch, Mints
    <2> QED BY <1>4, <2>1, <2>2, <2>3
  <1>7. CASE BeginRaise(s)
    BY <1>1, <1>4, <1>7 DEF BeginRaise, Begin, Mints, history
  <1>8. CASE CheckKill(s)
    BY <1>1, <1>4, <1>8 DEF CheckKill, Go, Return, Mints, history
  <1>9. CASE CheckCap(s)
    BY <1>1, <1>4, <1>9 DEF CheckCap, Return, Mints, history
  <1>10. CASE RefusedForDrawdown(s) \/ PostRefused(s) \/ PostFails(s)
    BY <1>1, <1>4, <1>10 DEF RefusedForDrawdown, PostRefused, PostFails, Go, Return, Mints, history
  <1>11. CASE RecordSpend(s)
    <2>1. UNCHANGED <<cooldown, history>> /\ at[s] \in {"record", "refused"}
      BY <1>11 DEF RecordSpend
    <2>2. CASE Mints(s)
      BY <1>1, <1>4, <1>11, <2>1, <2>2 DEF RecordSpend, Go, Mints, history
    <2>3. CASE ~Mints(s)
      BY <1>1, <1>4, <1>11, <2>1, <2>3 DEF RecordSpend, Return, Mints, history
    <2> QED BY <2>2, <2>3
  <1>12. CASE PostAnswered(s) \/ PostUnheard(s)
    <2>1. /\ at[s] = "post"
          /\ cooldown' = cooldown
          /\ minted'[p] = IF Mints(s) THEN minted[p] + 1 ELSE minted[p]
      BY <1>1, <1>12 DEF PostAnswered, PostUnheard, Accepted
    <2>2. CASE Mints(s)
      <3>1. minted[p] <= excused[p]
        <4>1. Launching(p)
          BY <1>3, <2>1, <2>2 DEF Launching, Mints
        <4> QED BY <1>1, <4>1 DEF Covered
      <3>2. CASE PostAnswered(s)
        <4>1. at'[s] = "record" /\ job' = job /\ excused'[p] = excused[p]
          BY <1>1, <3>2 DEF PostAnswered, Go
        <4>2. AboutToStamp(p)'
          BY <1>3, <2>2, <4>1 DEF AboutToStamp, Mints
        <4>3. ~Launching(p)'
          BY <1>2, <4>1 DEF Launching
        <4> QED BY <1>1, <2>1, <2>2, <3>1, <4>1, <4>2, <4>3 DEF Covered
      <3>3. CASE PostUnheard(s)
        <4>1. excused'[p] = excused[p] + 1
          BY <1>1, <2>2, <3>3 DEF PostUnheard
        <4> QED BY <1>1, <2>1, <2>2, <3>1, <4>1 DEF Covered
      <3> QED BY <1>12, <3>2, <3>3
    <2>3. CASE ~Mints(s)
      <3>1. excused'[p] = excused[p] /\ minted'[p] = minted[p] /\ cooldown'[p] = cooldown[p]
        BY <1>1, <1>12, <2>1, <2>3 DEF PostAnswered, PostUnheard
      <3>2. ~Mints(s)'
        BY <1>1, <1>12, <2>3 DEF PostAnswered, PostUnheard, Go, Return, Mints
      <3> QED BY <1>4, <2>3, <3>1, <3>2
    <2> QED BY <2>2, <2>3
  <1>13. CASE MarkLaunched(s)
    <2>1. minted' = minted /\ at'[s] = "idle"
      BY <1>1, <1>13 DEF MarkLaunched, Return
    <2>2. ~Launching(p)'
      BY <1>2, <2>1 DEF Launching
    <2>3. CASE cooldown' = [cooldown EXCEPT ![p] = [memory |-> TRUE, file |-> TRUE]] /\ excused' = excused
      <3>1. Stamped(p)'
        BY <1>1, <2>3 DEF Stamped
      <3> QED BY <2>1, <2>2, <2>3, <3>1 DEF Covered
    <2>4. CASE excused' = [excused EXCEPT ![p] = Excused(p)]
      <3>1. excused'[p] = Excused(p)
        BY <1>1, <2>4
      <3>2. minted[p] <= Excused(p)
        BY <1>1 DEF Covered, Excused
      <3> QED BY <1>1, <2>1, <3>1, <3>2 DEF Covered, Excused
    <2> QED BY <1>13, <2>3, <2>4 DEF MarkLaunched
  <1> QED BY <1>6, <1>7, <1>8, <1>9, <1>10, <1>11, <1>12, <1>13 DEF Spend

LEMMA CoverKept ==
  ASSUME SpendTyped, CoverInv, SpendMove
  PROVE  CoverInv'
  <1>1. ASSUME NEW s \in Spenders, Spend(s), NEW p \in Procs
        PROVE  Covered(p)'
    <2>1. Covered(p)
      BY DEF CoverInv
    <2>2. CASE Home[s] = p
      BY <1>1, <2>1, <2>2, ThreadCovered
    <2>3. CASE Home[s] # p
      <3>1. minted'[p] = minted[p] /\ excused'[p] = excused[p] /\ cooldown'[p] = cooldown[p]
        BY <1>1, <2>3, OtherCountersStay
      <3>2. ASSUME NEW w \in WorkerOf(p)
            PROVE  at'[w] = at[w] /\ job'[w] = job[w]
        <4>1. w \in Spenders /\ w # s
          BY <2>3 DEF WorkerOf, Of
        <4> QED BY <1>1, <4>1, OthersStay
      <3> QED BY <2>1, <3>1, <3>2, CoverFrame
    <2> QED BY <2>2, <2>3
  <1>2. ASSUME NEW q \in Procs, SwitchKill(q) \/ Expire(q), NEW p \in Procs
        PROVE  Covered(p)'
    <2>1. minted' = minted /\ excused' = excused /\ cooldown' = cooldown /\ at' = at /\ job' = job
      BY <1>2 DEF SwitchKill, Expire, call, history
    <2> QED BY <2>1, CoverFrame DEF CoverInv
  <1>3. ASSUME NEW q \in Procs, CooldownEnds(q), NEW p \in Procs
        PROVE  Covered(p)'
    <2>1. at' = at /\ job' = job
      BY <1>3 DEF CooldownEnds, call
    <2>2. CASE p = q
      <3>1. minted'[p] = 0 /\ excused'[p] = 0
        BY <1>3, <2>2 DEF CooldownEnds, SpendTyped, HistoryTyped
      <3> QED BY <3>1 DEF Covered
    <2>3. CASE p # q
      <3>1. minted'[p] = minted[p] /\ excused'[p] = excused[p] /\ cooldown'[p] = cooldown[p]
        BY <1>3, <2>3 DEF CooldownEnds, SpendTyped, HistoryTyped
      <3> QED BY <2>1, <3>1, CoverFrame DEF CoverInv
    <2> QED BY <2>2, <2>3
  <1>4. ASSUME NEW q \in Procs, Ends(q), NEW p \in Procs
        PROVE  Covered(p)'
    <2>1. CASE p = q
      <3>1. minted[p] \in Nat /\ excused[p] \in Nat /\ cooldown[p] \in Stamps /\ Covered(p)
        BY DEF SpendTyped, HistoryTyped, CoverInv
      <3>2. ~Launching(p)'
        BY <1>4, <2>1 DEF Ends, Launching, WorkerOf, Of
      <3>3. minted'[p] = minted[p]
        BY <1>4 DEF Ends
      <3>4. CASE AboutToStamp(p)
        <4>1. excused'[p] = Excused(p)
          BY <1>4, <2>1, <3>4 DEF Ends, AboutToStamp, SpendTyped, HistoryTyped
        <4> QED BY <3>1, <3>3, <4>1 DEF Covered, Excused
      <3>5. CASE ~AboutToStamp(p)
        <4>1. excused'[p] = excused[p]
          BY <1>4, <2>1, <3>5 DEF Ends, AboutToStamp, SpendTyped, HistoryTyped
        <4>2. cooldown'[p] = Reloaded(cooldown[p])
          BY <1>4, <2>1 DEF Ends, SpendTyped
        <4>3. Stamped(p) => Stamped(p)'
          BY <3>1, <4>2 DEF Stamped, Reloaded, Stamps
        <4> QED BY <3>1, <3>2, <3>3, <3>5, <4>1, <4>3 DEF Covered
      <3> QED BY <3>4, <3>5
    <2>2. CASE p # q
      <3>1. minted'[p] = minted[p] /\ excused'[p] = excused[p] /\ cooldown'[p] = cooldown[p]
        BY <1>4, <2>2 DEF Ends, SpendTyped, HistoryTyped
      <3>2. \A w \in WorkerOf(p) : at'[w] = at[w] /\ job'[w] = job[w]
        BY <1>4, <2>2 DEF Ends, WorkerOf, Of
      <3> QED BY <3>1, <3>2, CoverFrame DEF CoverInv
    <2> QED BY <2>1, <2>2
  <1>5. CASE UNCHANGED spendVars
    BY <1>5, CoverFrame DEF spendVars, call, history, CoverInv
  <1> QED BY <1>1, <1>2, <1>3, <1>4, <1>5 DEF SpendMove, CoverInv

LEMMA CoverInitial == Init => CoverInv
  BY DEF Init, SpendInit, CoverInv, Covered

----------------------------------------------------------------------------
(* The theorems *)

SpendInv == deployed \in Deployments /\ SpendTyped /\ KillInv /\ CoverInv

LEMMA SpendInvInitial == Init => SpendInv
  BY SpendInitial, KillInitial, CoverInitial DEF SpendInv, Init

LEMMA SpendInvInductive == SpendInv /\ [Next]_vars => SpendInv'
  BY NextMovesSpend, SpendTypedKept, KillKept, CoverKept DEF SpendInv

\* Engines, calls, cooldowns and counters are typed, in every deployment.
THEOREM SpendAlways == Spec => []SpendInv
  BY SpendInvInitial, SpendInvInductive, PTL DEF Spec

\* Once the switch is thrown each thread of the process completes at most one call,
\* for any number of threads and processes and any times at which it is thrown.
THEOREM KillStops == Spec => []KillLetsOneThrough
  <1>1. SpendInv => KillLetsOneThrough
    BY DEF SpendInv, KillInv, Stopped, KillLetsOneThrough
  <1> QED BY <1>1, SpendAlways, PTL

\* One launch per cooldown and fault, for any number of restarts and lost answers.
THEOREM RelaunchNeedsExcuse == Spec => []RelaunchIsExcused
  <1>1. SpendInv => RelaunchIsExcused
    BY DEF SpendInv, CoverInv, Covered, RelaunchIsExcused
  <1> QED BY <1>1, SpendAlways, PTL

----------------------------------------------------------------------------
(* Sums *)

\* t is the running total of s: the sum of its first i elements is t[i].
Totals(s, t) ==
  /\ t \in [0..Len(s) -> Nat]
  /\ t[0] = 0 /\ \A i \in 1..Len(s) : t[i] = t[i - 1] + s[i]

\* The elements of s add up to m.
AddsUpTo(s, m) == \E t : Totals(s, t) /\ t[Len(s)] = m

LEMMA ElementsAre ==
  ASSUME NEW S, NEW s \in Seq(S)
  PROVE  /\ Len(s) \in Nat /\ DOMAIN s = 1..Len(s) /\ s = [i \in 1..Len(s) |-> s[i]]
         /\ \A i \in 1..Len(s) : s[i] \in S
  OBVIOUS

\* A set of naturals has a least element.
LEMMA Least ==
  ASSUME NEW S \in SUBSET Nat, S # {}
  PROVE  \E m \in S : \A n \in S : m <= n
  <1>1. \E m \in S : \A n \in S : ~ (<<n, m>> \in OpToRel(<, Nat))
    BY NatLessThanWellFounded, WFMin
  <1>2. PICK m \in S : \A n \in S : ~ (<<n, m>> \in OpToRel(<, Nat))
    BY <1>1
  <1>3. ASSUME NEW n \in S
        PROVE  m <= n
    <2>1. n < m => <<n, m>> \in OpToRel(<, Nat)
      BY DEF OpToRel
    <2>2. ~(n < m)
      BY <1>2, <2>1
    <2> QED BY <2>2
  <1> QED BY <1>3

\* A running total of amounts never falls.
LEMMA TotalsGrow ==
  ASSUME NEW s \in Seq(Nat), NEW t, Totals(s, t), NEW i \in 0..Len(s)
  PROVE  \A j \in i..Len(s) : t[i] <= t[j]
  <1> DEFINE Bad == {j \in i..Len(s) : ~(t[i] <= t[j])}
  <1>1. /\ Len(s) \in Nat /\ \A j \in 1..Len(s) : s[j] \in Nat
        /\ \A j \in 0..Len(s) : t[j] \in Nat
        /\ \A j \in 1..Len(s) : t[j] = t[j - 1] + s[j]
    BY ElementsAre DEF Totals
  <1>2. SUFFICES ASSUME Bad # {} PROVE FALSE
    OBVIOUS
  <1>3. PICK m \in Bad : \A n \in Bad : m <= n
    <2>1. Bad \in SUBSET Nat
      BY <1>1
    <2> QED BY <1>2, <2>1, Least
  <1>4. m \in i..Len(s) /\ ~(t[i] <= t[m])
    BY <1>3
  <1>5. m # i /\ m - 1 \in i..Len(s) /\ ~(m <= m - 1) /\ m \in 1..Len(s) /\ m - 1 \in 0..Len(s)
    BY <1>1, <1>4
  <1>6. t[i] <= t[m - 1]
    BY <1>3, <1>5
  <1>7. t[m] = t[m - 1] + s[m] /\ s[m] \in Nat /\ t[m - 1] \in Nat /\ t[i] \in Nat
    BY <1>1, <1>5
  <1> QED BY <1>4, <1>6, <1>7

LEMMA Both ==
  ASSUME NEW a \in Int, NEW b \in Int, NEW c \in Int, NEW d \in Int, a <= c, b <= d
  PROVE  a + b <= c + d
  OBVIOUS

\* Smaller amounts add up to less.
LEMMA TotalsCompare ==
  ASSUME NEW s \in Seq(Nat), NEW u \in Seq(Nat), Len(s) = Len(u),
         \A i \in 1..Len(s) : s[i] <= u[i],
         NEW t, Totals(s, t), NEW v, Totals(u, v)
  PROVE  \A j \in 0..Len(s) : t[j] <= v[j]
  <1> DEFINE Bad == {j \in 0..Len(s) : ~(t[j] <= v[j])}
  <1>1. /\ Len(s) \in Nat
        /\ \A j \in 1..Len(s) : s[j] \in Nat /\ u[j] \in Nat
        /\ \A j \in 0..Len(s) : t[j] \in Nat /\ v[j] \in Nat
        /\ t[0] = 0 /\ v[0] = 0
        /\ \A j \in 1..Len(s) : t[j] = t[j - 1] + s[j] /\ v[j] = v[j - 1] + u[j]
    BY ElementsAre DEF Totals
  <1>2. SUFFICES ASSUME Bad # {} PROVE FALSE
    OBVIOUS
  <1>3. PICK m \in Bad : \A n \in Bad : m <= n
    <2>1. Bad \in SUBSET Nat
      BY <1>1
    <2> QED BY <1>2, <2>1, Least
  <1>4. m \in 0..Len(s) /\ ~(t[m] <= v[m])
    BY <1>3
  <1>5. m \in 1..Len(s) /\ m - 1 \in 0..Len(s) /\ ~(m <= m - 1)
    BY <1>1, <1>4
  <1>6. t[m - 1] <= v[m - 1]
    BY <1>3, <1>5
  <1>7. /\ t[m] = t[m - 1] + s[m] /\ v[m] = v[m - 1] + u[m] /\ s[m] <= u[m]
        /\ s[m] \in Nat /\ u[m] \in Nat /\ t[m - 1] \in Nat /\ v[m - 1] \in Nat
    BY <1>1, <1>5
  <1>8. t[m - 1] + s[m] <= v[m - 1] + u[m]
    <2>1. t[m - 1] \in Int /\ s[m] \in Int /\ v[m - 1] \in Int /\ u[m] \in Int
      BY <1>7
    <2> QED BY <1>6, <1>7, <2>1, Both
  <1> QED BY <1>4, <1>7, <1>8

\* One product more or less.
LEMMA OneMore ==
  ASSUME NEW a \in Int, NEW M \in Int
  PROVE  a * M \in Int /\ (a - 1) * M + M = a * M /\ 0 * M = 0 /\ 1 * M = M
  OBVIOUS

\* Amounts up to M of which one is nothing add up to M for each of the others.
LEMMA TotalsCapped ==
  ASSUME NEW s \in Seq(Nat), NEW t, Totals(s, t), NEW M \in Nat,
         \A i \in 1..Len(s) : s[i] <= M, NEW k \in 1..Len(s), s[k] = 0
  PROVE  t[Len(s)] <= (Len(s) - 1) * M
  <1> DEFINE Most(j) == IF j < k THEN j * M ELSE (j - 1) * M
             Bad == {j \in 0..Len(s) : ~(t[j] <= Most(j))}
  <1>1. /\ Len(s) \in Nat
        /\ \A j \in 1..Len(s) : s[j] \in Nat
        /\ \A j \in 0..Len(s) : t[j] \in Nat
        /\ t[0] = 0
        /\ \A j \in 1..Len(s) : t[j] = t[j - 1] + s[j]
    BY ElementsAre DEF Totals
  <1>2. Bad = {}
    <2> SUFFICES ASSUME Bad # {} PROVE FALSE
      OBVIOUS
    <2>1. PICK m \in Bad : \A n \in Bad : m <= n
      <3>1. Bad \in SUBSET Nat
        BY <1>1
      <3> QED BY <3>1, Least
    <2>2. m \in 0..Len(s) /\ ~(t[m] <= Most(m))
      BY <2>1
    <2>3. m # 0
      <3>1. Most(0) = 0
        BY OneMore
      <3> HIDE DEF Most
      <3> QED BY <1>1, <2>2, <3>1
    <2>4. m \in 1..Len(s) /\ m - 1 \in 0..Len(s) /\ ~(m <= m - 1)
      BY <1>1, <2>2, <2>3
    <2>5. t[m - 1] <= Most(m - 1)
      BY <2>1, <2>4
    <2>6. t[m] = t[m - 1] + s[m] /\ s[m] <= M /\ s[m] \in Nat /\ t[m - 1] \in Nat
      BY <1>1, <2>4
    <2>7. CASE m < k
      <3>1. Most(m - 1) + M = Most(m) /\ Most(m) \in Int /\ Most(m - 1) \in Int
        BY <2>4, <2>7, OneMore
      <3> HIDE DEF Most
      <3>2. t[m - 1] \in Int /\ s[m] \in Int /\ M \in Int
        BY <2>6
      <3>3. t[m - 1] + s[m] <= Most(m - 1) + M
        BY <2>5, <2>6, <3>1, <3>2, Both
      <3> QED BY <2>2, <2>6, <3>1, <3>3
    <2>8. CASE m = k
      <3>1. Most(m - 1) = Most(m)
        BY <2>4, <2>8
      <3> HIDE DEF Most
      <3> QED BY <2>2, <2>5, <2>6, <2>8, <3>1
    <2>9. CASE m > k
      <3>1. Most(m - 1) + M = Most(m) /\ Most(m) \in Int /\ Most(m - 1) \in Int
        <4>1. m - 1 \in Int /\ m - 1 - 1 \in Int /\ ~(m < k) /\ ~(m - 1 < k)
          BY <2>4, <2>9
        <4> QED BY <4>1, OneMore
      <3> HIDE DEF Most
      <3>2. t[m - 1] \in Int /\ s[m] \in Int /\ M \in Int
        BY <2>6
      <3>3. t[m - 1] + s[m] <= Most(m - 1) + M
        BY <2>5, <2>6, <3>1, <3>2, Both
      <3> QED BY <2>2, <2>6, <3>1, <3>3
    <2> QED BY <2>4, <2>7, <2>8, <2>9
  <1>3. Len(s) \in 0..Len(s) /\ ~(Len(s) < k)
    BY <1>1
  <1>4. t[Len(s)] <= Most(Len(s))
    BY <1>2, <1>3
  <1> QED BY <1>3, <1>4

\* Nothing adds up to nothing.
LEMMA NothingAdds ==
  ASSUME NEW s \in Seq(Nat), \A i \in 1..Len(s) : s[i] = 0
  PROVE  /\ AddsUpTo(s, 0)
         /\ \A m : AddsUpTo(s, m) => m = 0
  <1> DEFINE z == [i \in 0..Len(s) |-> 0]
  <1>1. Len(s) \in Nat /\ \A i \in 1..Len(s) : s[i] \in Nat
    BY ElementsAre
  <1>2. Totals(s, z) /\ z[Len(s)] = 0
    BY <1>1 DEF Totals
  <1>3. ASSUME NEW m, AddsUpTo(s, m)
        PROVE  m = 0
    <2>1. PICK t : Totals(s, t) /\ t[Len(s)] = m
      BY <1>3 DEF AddsUpTo
    <2>2. t[Len(s)] <= z[Len(s)]
      BY <1>1, <1>2, <2>1, TotalsCompare
    <2>3. t[Len(s)] \in Nat
      BY <1>1, <2>1 DEF Totals
    <2> QED BY <1>2, <2>1, <2>2, <2>3
  <1> QED BY <1>2, <1>3 DEF AddsUpTo

\* A sum of amounts is an amount.
LEMMA SumTyped ==
  ASSUME NEW s \in Seq(Nat), NEW m, AddsUpTo(s, m)
  PROVE  m \in Nat
  <1>1. Len(s) \in Nat /\ Len(s) \in 0..Len(s)
    BY ElementsAre
  <1> QED BY <1>1 DEF AddsUpTo, Totals

\* An element more.
LEMMA SumOfAppend ==
  ASSUME NEW s \in Seq(Nat), NEW m, AddsUpTo(s, m), NEW n \in Nat
  PROVE  AddsUpTo(Append(s, n), m + n)
  <1>1. PICK t : Totals(s, t) /\ t[Len(s)] = m
    BY DEF AddsUpTo
  <1> DEFINE u == Append(s, n)
             v == [i \in 0..Len(u) |-> IF i <= Len(s) THEN t[i] ELSE m + n]
  <1>2. /\ Len(s) \in Nat /\ Len(u) = Len(s) + 1 /\ u[Len(s) + 1] = n
        /\ \A i \in 1..Len(s) : u[i] = s[i]
    BY ElementsAre
  <1>3. m \in Nat /\ \A i \in 0..Len(s) : t[i] \in Nat
    <2>1. \A i \in 0..Len(s) : t[i] \in Nat
      BY <1>1 DEF Totals
    <2>2. Len(s) \in 0..Len(s)
      BY <1>2
    <2> QED BY <1>1, <2>1, <2>2
  <1> HIDE DEF u
  <1>4. v \in [0..Len(u) -> Nat] /\ v[0] = 0 /\ v[Len(u)] = m + n
    BY <1>1, <1>2, <1>3 DEF Totals
  <1>5. ASSUME NEW i \in 1..Len(u)
        PROVE  v[i] = v[i - 1] + u[i]
    <2>1. CASE i <= Len(s)
      BY <1>1, <1>2, <2>1 DEF Totals
    <2>2. CASE i = Len(s) + 1
      BY <1>1, <1>2, <2>2 DEF Totals
    <2> QED BY <1>2, <2>1, <2>2
  <1>6. Totals(u, v)
    BY <1>4, <1>5 DEF Totals
  <1> QED BY <1>4, <1>6 DEF AddsUpTo, u

\* The first element less.
LEMMA SumOfTail ==
  ASSUME NEW s \in Seq(Nat), NEW m, AddsUpTo(s, m), s # <<>>
  PROVE  Head(s) <= m /\ AddsUpTo(Tail(s), m - Head(s))
  <1>1. PICK t : Totals(s, t) /\ t[Len(s)] = m
    BY DEF AddsUpTo
  <1> DEFINE u == Tail(s)
             v == [i \in 0..Len(u) |-> t[i + 1] - Head(s)]
  <1>2. /\ Len(s) \in Nat /\ 1 \in 1..Len(s) /\ Len(u) = Len(s) - 1 /\ Head(s) = s[1]
        /\ \A i \in 1..Len(u) : u[i] = s[i + 1]
    BY ElementsAre
  <1> HIDE DEF u
  <1>3. /\ \A i \in 0..Len(s) : t[i] \in Nat
        /\ t[0] = 0 /\ t[1] = t[0] + s[1] /\ s[1] \in Nat
    BY <1>1, <1>2, ElementsAre DEF Totals
  <1>4. t[1] = Head(s) /\ Head(s) \in Nat
    BY <1>2, <1>3
  <1>5. \A i \in 1..Len(s) : Head(s) <= t[i]
    <2>1. 1 \in 0..Len(s)
      BY <1>2
    <2> QED BY <1>1, <1>4, <2>1, TotalsGrow
  <1>6. v \in [0..Len(u) -> Nat] /\ v[0] = 0 /\ v[Len(u)] = m - Head(s)
    <2>1. ASSUME NEW i \in 0..Len(u)
          PROVE  t[i + 1] - Head(s) \in Nat
      <3>1. i + 1 \in 1..Len(s) /\ i + 1 \in 0..Len(s)
        BY <1>2
      <3> QED BY <1>3, <1>4, <1>5, <3>1
    <2> QED BY <1>1, <1>2, <1>4, <2>1
  <1>7. ASSUME NEW i \in 1..Len(u)
        PROVE  v[i] = v[i - 1] + u[i]
    <2>1. i + 1 \in 1..Len(s) /\ i \in 0..Len(s) /\ i + 1 \in 0..Len(s) /\ (i - 1) + 1 = i /\ (i + 1) - 1 = i
      BY <1>2
    <2>2. t[i + 1] = t[i] + s[i + 1]
      BY <1>1, <2>1 DEF Totals
    <2>3. v[i] = t[i + 1] - Head(s) /\ v[i - 1] = t[i] - Head(s)
      BY <1>2, <2>1
    <2>4. t[i] \in Nat /\ t[i + 1] \in Nat /\ s[i + 1] \in Nat
      BY <1>3, <2>1, ElementsAre
    <2>5. u[i] = s[i + 1] /\ Head(s) \in Int
      BY <1>2, <1>4
    <2> HIDE DEF v
    <2>6. (t[i] + s[i + 1]) - Head(s) = (t[i] - Head(s)) + s[i + 1]
      BY <2>4, <2>5
    <2> QED BY <2>2, <2>3, <2>5, <2>6
  <1>8. Totals(u, v)
    BY <1>6, <1>7 DEF Totals
  <1>9. Head(s) <= m
    BY <1>1, <1>2, <1>5
  <1> QED BY <1>6, <1>8, <1>9 DEF AddsUpTo, u

\* An element changed.
LEMMA SumOfExcept ==
  ASSUME NEW s \in Seq(Nat), NEW m, AddsUpTo(s, m), NEW k \in 1..Len(s), NEW n \in Nat
  PROVE  s[k] <= m /\ AddsUpTo([s EXCEPT ![k] = n], m - s[k] + n)
  <1>1. PICK t : Totals(s, t) /\ t[Len(s)] = m
    BY DEF AddsUpTo
  <1> DEFINE u == [s EXCEPT ![k] = n]
             v == [i \in 0..Len(s) |-> IF i < k THEN t[i] ELSE t[i] - s[k] + n]
  <1>2. /\ Len(s) \in Nat /\ Len(u) = Len(s) /\ u[k] = n
        /\ \A i \in 1..Len(s) : s[i] \in Nat /\ (i # k => u[i] = s[i])
    BY ElementsAre
  <1> HIDE DEF u
  <1>3. /\ \A i \in 0..Len(s) : t[i] \in Nat
        /\ t[0] = 0 /\ t[k] = t[k - 1] + s[k] /\ s[k] \in Nat /\ t[k - 1] \in Nat
    <2>1. \A i \in 0..Len(s) : t[i] \in Nat
      BY <1>1 DEF Totals
    <2>2. t[0] = 0 /\ t[k] = t[k - 1] + s[k]
      BY <1>1 DEF Totals
    <2>3. k - 1 \in 0..Len(s) /\ s[k] \in Nat
      BY <1>2
    <2> QED BY <2>1, <2>2, <2>3
  <1>4. \A i \in k..Len(s) : s[k] <= t[i]
    <2>1. k \in 0..Len(s)
      BY <1>2
    <2>2. \A i \in k..Len(s) : t[k] <= t[i] /\ t[i] \in Nat
      BY <1>1, <1>2, <1>3, <2>1, TotalsGrow
    <2> QED BY <1>3, <2>2
  <1>5. s[k] <= m
    BY <1>1, <1>2, <1>4
  <1>6. v \in [0..Len(u) -> Nat] /\ v[0] = 0 /\ v[Len(u)] = m - s[k] + n
    <2>1. ASSUME NEW i \in 0..Len(s), ~(i < k)
          PROVE  t[i] - s[k] + n \in Nat
      <3>1. i \in k..Len(s) /\ k \in Int
        BY <1>2, <2>1
      <3>2. t[i] \in Nat /\ s[k] \in Nat /\ s[k] <= t[i]
        BY <1>3, <1>4, <3>1
      <3>3. t[i] - s[k] \in Nat
        BY <3>2
      <3> QED BY <3>3
    <2>2. 0 < k /\ ~(Len(s) < k) /\ Len(s) \in 0..Len(s) /\ 0 \in 0..Len(s)
      BY <1>2
    <2> QED BY <1>1, <1>2, <1>3, <2>1, <2>2
  <1>7. ASSUME NEW i \in 1..Len(u)
        PROVE  v[i] = v[i - 1] + u[i]
    <2>0. i \in 1..Len(s) /\ i \in 0..Len(s) /\ i - 1 \in 0..Len(s)
      BY <1>2
    <2>1. /\ i \in 0..Len(s) /\ i - 1 \in 0..Len(s) /\ t[i] \in Nat /\ t[i - 1] \in Nat
          /\ t[i] = t[i - 1] + s[i] /\ s[i] \in Nat
      BY <1>1, <1>2, <1>3, <2>0 DEF Totals
    <2>2. CASE i < k
      <3>1. v[i] = t[i] /\ v[i - 1] = t[i - 1] /\ u[i] = s[i]
        BY <1>2, <2>1, <2>2
      <3> QED BY <2>1, <3>1
    <2>3. CASE i = k
      <3>1. v[i] = t[i] - s[k] + n /\ v[i - 1] = t[i - 1] /\ u[i] = n
        BY <1>2, <2>1, <2>3
      <3>2. t[i] = t[i - 1] + s[k]
        BY <2>1, <2>3
      <3>3. t[i - 1] \in Int /\ s[k] \in Int
        BY <1>3, <2>1
      <3> HIDE DEF v
      <3>4. t[i] - s[k] + n = t[i - 1] + n
        BY <3>2, <3>3
      <3> QED BY <3>1, <3>4
    <2>4. CASE i > k
      <3>1. v[i] = t[i] - s[k] + n /\ v[i - 1] = t[i - 1] - s[k] + n /\ u[i] = s[i]
        BY <1>2, <2>1, <2>4
      <3>2. t[i - 1] \in Int /\ s[k] \in Int /\ s[i] \in Int
        BY <1>3, <2>1
      <3>3. t[i] = t[i - 1] + s[i]
        BY <2>1
      <3> HIDE DEF v
      <3>4. (t[i - 1] + s[i]) - s[k] + n = (t[i - 1] - s[k] + n) + s[i]
        BY <3>2
      <3> QED BY <3>1, <3>3, <3>4
    <2> QED BY <1>2, <2>2, <2>3, <2>4
  <1>8. Totals(u, v)
    BY <1>6, <1>7 DEF Totals
  <1> QED BY <1>5, <1>6, <1>8 DEF AddsUpTo, u

----------------------------------------------------------------------------
(* The books of an engine *)

\* What each entry of the log holds beyond what the platform accepted for it.
Gap(log, led) == [i \in 1..Len(log) |-> log[i] - led[i]]

\* led is what the platform accepted for the entries of log, l in all; the rest of
\* today is phantom.
Books(log, led, today, ph, l) ==
  /\ Len(led) = Len(log) /\ \A i \in 1..Len(log) : led[i] <= log[i]
  /\ AddsUpTo(led, l) /\ AddsUpTo(Gap(log, led), ph) /\ today = l + ph

LEMMA GapTyped ==
  ASSUME NEW log \in Seq(Nat), NEW led \in Seq(Nat), Len(led) = Len(log),
         \A i \in 1..Len(log) : led[i] <= log[i]
  PROVE  Gap(log, led) \in Seq(Nat) /\ Len(Gap(log, led)) = Len(log)
  <1>1. /\ Len(log) \in Nat
        /\ \A i \in 1..Len(log) : log[i] \in Nat /\ led[i] \in Nat
    BY ElementsAre
  <1>2. \A i \in 1..Len(log) : log[i] - led[i] \in Nat
    BY <1>1
  <1> QED BY <1>1, <1>2 DEF Gap

LEMMA BooksNew == Books(<<>>, <<>>, 0, 0, 0)
  <1>1. <<>> \in Seq(Nat) /\ Len(<<>>) = 0
    OBVIOUS
  <1>2. \A i \in 1..Len(<<>>) : <<>>[i] = 0 /\ <<>>[i] <= <<>>[i]
    BY <1>1
  <1>3. Gap(<<>>, <<>>) = <<>>
    BY <1>1 DEF Gap
  <1>4. AddsUpTo(<<>>, 0)
    BY <1>1, <1>2, NothingAdds
  <1> QED BY <1>1, <1>2, <1>3, <1>4 DEF Books

LEMMA BooksAppend ==
  ASSUME NEW log \in Seq(Nat), NEW led \in Seq(Nat), NEW today, NEW ph, NEW l,
         Books(log, led, today, ph, l),
         NEW amount \in Nat, NEW spent \in Nat, spent <= amount
  PROVE  Books(Append(log, amount), Append(led, spent), today + amount,
               ph + (amount - spent), l + spent)
  <1> DEFINE log2 == Append(log, amount)
             led2 == Append(led, spent)
             gap  == Gap(log, led)
  <1>1. /\ Len(led) = Len(log) /\ \A i \in 1..Len(log) : led[i] <= log[i]
        /\ AddsUpTo(led, l) /\ AddsUpTo(gap, ph) /\ today = l + ph
    BY DEF Books
  <1>2. gap \in Seq(Nat) /\ Len(gap) = Len(log) /\ Len(log) \in Nat
    BY <1>1, GapTyped, ElementsAre
  <1>3. /\ Len(log2) = Len(log) + 1 /\ Len(led2) = Len(log) + 1
        /\ \A i \in 1..Len(log) : log2[i] = log[i] /\ led2[i] = led[i]
        /\ log2[Len(log) + 1] = amount /\ led2[Len(log) + 1] = spent
    BY <1>1, <1>2
  <1>4. amount - spent \in Nat
    OBVIOUS
  <1> HIDE DEF log2, led2
  <1>5. Gap(log2, led2) = Append(gap, amount - spent)
    <2>1. Append(gap, amount - spent) =
            [i \in 1..(Len(gap) + 1) |-> IF i = Len(gap) + 1 THEN amount - spent ELSE gap[i]]
      BY <1>2
    <2>2. \A i \in 1..Len(log) : gap[i] = log[i] - led[i]
      BY DEF Gap
    <2> HIDE DEF gap
    <2> QED BY <1>2, <1>3, <2>1, <2>2 DEF Gap
  <1>6. AddsUpTo(Gap(log2, led2), ph + (amount - spent))
    BY <1>1, <1>2, <1>4, <1>5, SumOfAppend
  <1>7. AddsUpTo(led2, l + spent)
    BY <1>1, SumOfAppend DEF led2
  <1>8. \A i \in 1..Len(log2) : led2[i] <= log2[i]
    <2> SUFFICES ASSUME NEW i \in 1..Len(log2) PROVE led2[i] <= log2[i]
      OBVIOUS
    <2>1. i \in 1..Len(log) \/ i = Len(log) + 1
      BY <1>2, <1>3
    <2> QED BY <1>1, <1>3, <2>1
  <1>9. today + amount = (l + spent) + (ph + (amount - spent))
    <2>1. l \in Nat /\ ph \in Nat
      BY <1>1, <1>2, SumTyped
    <2> QED BY <1>1, <2>1
  <1>10. Len(led2) = Len(log2)
    BY <1>3
  <1> QED BY <1>6, <1>7, <1>8, <1>9, <1>10 DEF Books, log2, led2

LEMMA BooksPrune ==
  ASSUME NEW log \in Seq(Nat), NEW led \in Seq(Nat), NEW today, NEW ph, NEW l,
         Books(log, led, today, ph, l), log # <<>>
  PROVE  /\ Head(led) \in Nat /\ Head(log) \in Nat /\ Head(led) <= l
         /\ Books(Tail(log), Tail(led), today - Head(log),
                  ph - (Head(log) - Head(led)), l - Head(led))
  <1> DEFINE log2 == Tail(log)
             led2 == Tail(led)
             gap  == Gap(log, led)
  <1>1. /\ Len(led) = Len(log) /\ \A i \in 1..Len(log) : led[i] <= log[i]
        /\ AddsUpTo(led, l) /\ AddsUpTo(gap, ph) /\ today = l + ph
    BY DEF Books
  <1>2. /\ gap \in Seq(Nat) /\ Len(gap) = Len(log) /\ Len(log) \in Nat /\ 1 \in 1..Len(log)
        /\ led # <<>> /\ gap # <<>>
    <2>1. gap \in Seq(Nat) /\ Len(gap) = Len(log) /\ Len(log) \in Nat
      BY <1>1, GapTyped, ElementsAre
    <2>2. Len(log) # 0
      OBVIOUS
    <2> HIDE DEF gap
    <2> QED BY <1>1, <2>1, <2>2
  <1>3. /\ Head(log) = log[1] /\ Head(led) = led[1] /\ log[1] \in Nat /\ led[1] \in Nat
    BY <1>1, <1>2, ElementsAre
  <1>4. Head(gap) = Head(log) - Head(led)
    <2>1. gap[1] = log[1] - led[1]
      BY <1>2 DEF Gap
    <2>2. Head(gap) = gap[1]
      BY <1>2
    <2> QED BY <1>3, <2>1, <2>2
  <1>5. /\ Len(log2) = Len(log) - 1 /\ Len(led2) = Len(log) - 1
        /\ \A i \in 1..(Len(log) - 1) : log2[i] = log[i + 1] /\ led2[i] = led[i + 1]
    BY <1>1, <1>2
  <1>6. Gap(log2, led2) = Tail(gap)
    <2>1. Tail(gap) = [i \in 1..(Len(gap) - 1) |-> gap[i + 1]]
      <3> HIDE DEF gap
      <3>1. /\ Tail(gap) \in Seq(Nat) /\ Len(Tail(gap)) = Len(gap) - 1
            /\ \A i \in 1..(Len(gap) - 1) : Tail(gap)[i] = gap[i + 1]
        BY <1>2
      <3>2. Tail(gap) = [i \in 1..Len(Tail(gap)) |-> Tail(gap)[i]]
        BY <3>1, ElementsAre
      <3> QED BY <3>1, <3>2
    <2>2. \A i \in 1..Len(log) : gap[i] = log[i] - led[i]
      BY DEF Gap
    <2>3. ASSUME NEW i \in 1..(Len(log) - 1)
          PROVE  gap[i + 1] = log2[i] - led2[i]
      <3>1. i + 1 \in 1..Len(log)
        BY <1>2
      <3> QED BY <1>5, <2>2, <3>1
    <2> HIDE DEF gap, log2, led2
    <2> QED BY <1>2, <1>5, <2>1, <2>3 DEF Gap
  <1>7. AddsUpTo(Gap(log2, led2), ph - (Head(log) - Head(led))) /\ Head(gap) <= ph
    BY <1>1, <1>2, <1>4, <1>6, SumOfTail
  <1>8. AddsUpTo(led2, l - Head(led)) /\ Head(led) <= l
    BY <1>1, <1>2, SumOfTail
  <1>9. \A i \in 1..Len(log2) : led2[i] <= log2[i]
    <2> SUFFICES ASSUME NEW i \in 1..Len(log2) PROVE led2[i] <= log2[i]
      OBVIOUS
    <2>1. i \in 1..(Len(log) - 1) /\ i + 1 \in 1..Len(log)
      BY <1>2, <1>5
    <2>2. log2[i] = log[i + 1] /\ led2[i] = led[i + 1]
      BY <1>5, <2>1
    <2> HIDE DEF log2, led2
    <2> QED BY <1>1, <2>1, <2>2
  <1>10. today - Head(log) = (l - Head(led)) + (ph - (Head(log) - Head(led)))
    <2>1. l \in Nat /\ ph \in Nat
      BY <1>1, <1>2, SumTyped
    <2> QED BY <1>1, <1>3, <2>1
  <1> QED BY <1>3, <1>5, <1>7, <1>8, <1>9, <1>10 DEF Books

----------------------------------------------------------------------------
(* Calls on their way *)

\* The threads of a process in some order.
Count(p)   == Cardinality(Of(p))
Threads(p) == CHOOSE f \in Bijection(1..Count(p), Of(p)) : TRUE

LEMMA ThreadsAre ==
  ASSUME NEW p
  PROVE  /\ Count(p) \in Nat
         /\ Threads(p) \in [1..Count(p) -> Of(p)]
         /\ \A i, j \in 1..Count(p) : Threads(p)[i] = Threads(p)[j] => i = j
         /\ \A s \in Of(p) : \E i \in 1..Count(p) : Threads(p)[i] = s
  <1>1. IsFiniteSet(Of(p))
    <2>1. Of(p) \in SUBSET Spenders /\ IsFiniteSet(Spenders)
      BY ProposalAssumption DEF Of
    <2> QED BY <2>1, FS_Subset
  <1>2. Count(p) \in Nat /\ Bijection(1..Count(p), Of(p)) # {}
    BY <1>1, FS_CardinalityType DEF Count, ExistsBijection
  <1>3. Threads(p) \in Bijection(1..Count(p), Of(p))
    BY <1>2 DEF Threads
  <1> HIDE DEF Threads, Count
  <1> QED BY <1>2, <1>3 DEF Bijection, Injection, Surjection, IsInjective

\* The part of a thread's proposal that counts where it is.
Amount(s, a, b, Q) == IF a[s] \in Q THEN b[s] ELSE 0

Amounts(p, a, b, Q) == [i \in 1..Count(p) |-> Amount(Threads(p)[i], a, b, Q)]

LEMMA AmountsTyped ==
  ASSUME NEW p, NEW a, NEW b \in [Spenders -> Nat], NEW Q
  PROVE  /\ Amounts(p, a, b, Q) \in Seq(Nat) /\ Len(Amounts(p, a, b, Q)) = Count(p)
         /\ \A i \in 1..Count(p) : Amounts(p, a, b, Q)[i] = Amount(Threads(p)[i], a, b, Q)
         /\ \A s \in Of(p) : Amount(s, a, b, Q) \in Nat
  <1>1. Count(p) \in Nat /\ Threads(p) \in [1..Count(p) -> Of(p)]
    BY ThreadsAre
  <1>2. \A s \in Of(p) : Amount(s, a, b, Q) \in Nat
    BY DEF Of, Amount
  <1>3. \A i \in 1..Count(p) : Amount(Threads(p)[i], a, b, Q) \in Nat
    BY <1>1, <1>2
  <1> HIDE DEF Amount
  <1> QED BY <1>1, <1>2, <1>3 DEF Amounts

LEMMA AmountsFrame ==
  ASSUME NEW p, NEW a, NEW b, NEW a2, NEW b2, NEW Q,
         \A s \in Of(p) : a2[s] = a[s] /\ b2[s] = b[s]
  PROVE  Amounts(p, a2, b2, Q) = Amounts(p, a, b, Q)
  <1>1. \A i \in 1..Count(p) : Amount(Threads(p)[i], a2, b2, Q) = Amount(Threads(p)[i], a, b, Q)
    BY ThreadsAre DEF Amount
  <1> QED BY <1>1 DEF Amounts

\* One thread moves.
LEMMA AmountMoves ==
  ASSUME NEW p, NEW s \in Of(p), NEW a, NEW a2,
         NEW b \in [Spenders -> Nat], NEW b2 \in [Spenders -> Nat], NEW Q,
         \A r \in Of(p) : r # s => a2[r] = a[r] /\ b2[r] = b[r],
         NEW m, AddsUpTo(Amounts(p, a, b, Q), m)
  PROVE  /\ m \in Nat /\ Amount(s, a, b, Q) <= m
         /\ AddsUpTo(Amounts(p, a2, b2, Q), m - Amount(s, a, b, Q) + Amount(s, a2, b2, Q))
  <1> DEFINE w  == Amounts(p, a, b, Q)
             w2 == Amounts(p, a2, b2, Q)
  <1>1. PICK k \in 1..Count(p) : Threads(p)[k] = s
    BY ThreadsAre
  <1>2. /\ w \in Seq(Nat) /\ Len(w) = Count(p) /\ w[k] = Amount(s, a, b, Q)
        /\ \A i \in 1..Count(p) : w[i] = Amount(Threads(p)[i], a, b, Q)
    <2>1. /\ w \in Seq(Nat) /\ Len(w) = Count(p)
          /\ \A i \in 1..Count(p) : w[i] = Amount(Threads(p)[i], a, b, Q)
      BY AmountsTyped
    <2> HIDE DEF w
    <2> QED BY <1>1, <2>1
  <1>3. /\ w2 \in Seq(Nat) /\ Len(w2) = Count(p) /\ w2[k] = Amount(s, a2, b2, Q)
        /\ \A i \in 1..Count(p) : w2[i] = Amount(Threads(p)[i], a2, b2, Q)
        /\ Amount(s, a2, b2, Q) \in Nat
    <2>1. /\ w2 \in Seq(Nat) /\ Len(w2) = Count(p)
          /\ \A i \in 1..Count(p) : w2[i] = Amount(Threads(p)[i], a2, b2, Q)
      BY AmountsTyped
    <2>2. Amount(s, a2, b2, Q) \in Nat
      BY AmountsTyped
    <2> HIDE DEF w2
    <2> QED BY <1>1, <2>1, <2>2
  <1>4. \A i \in 1..Count(p) : i # k => w2[i] = w[i]
    <2> SUFFICES ASSUME NEW i \in 1..Count(p), i # k PROVE w2[i] = w[i]
      OBVIOUS
    <2>1. Threads(p)[i] \in Of(p) /\ Threads(p)[i] # s
      BY <1>1, ThreadsAre
    <2>2. Amount(Threads(p)[i], a2, b2, Q) = Amount(Threads(p)[i], a, b, Q)
      BY <2>1 DEF Amount
    <2> QED BY <1>2, <1>3, <2>2
  <1>5. w2 = [w EXCEPT ![k] = w2[k]]
    <2> HIDE DEF w, w2
    <2>1. w = [i \in 1..Count(p) |-> w[i]] /\ w2 = [i \in 1..Count(p) |-> w2[i]]
      BY <1>2, <1>3, ElementsAre
    <2> QED BY <1>4, <2>1
  <1>6. w[k] <= m /\ AddsUpTo([w EXCEPT ![k] = w2[k]], m - w[k] + w2[k])
    BY <1>2, <1>3, SumOfExcept
  <1>7. m \in Nat
    BY <1>2, SumTyped
  <1> QED BY <1>2, <1>3, <1>5, <1>6, <1>7

----------------------------------------------------------------------------
(* The spending cap *)

Spending == {"post", "record", "refused"}

\* The accepted calls of p that are not on record come to r, all calls that may
\* still come on record to n.
OnTheWay(p, a, b, r, n) ==
  AddsUpTo(Amounts(p, a, b, {"record"}), r) /\ AddsUpTo(Amounts(p, a, b, Spending), n)

Ceiling(p) == MaxDailySpend + (Cardinality(Of(p)) - 1) * MaxProposal

\* p's part of the account is what its log, its threads and its past account for,
\* and what is on record and on the way stays under the ceiling.
Accounted(p) ==
  \E l, r, n \in Nat :
    /\ Books(engine[p].log, ledger[p], engine[p].today, phantom[p], l)
    /\ OnTheWay(p, at, budget, r, n)
    /\ account[p] = forgotten[p] + l + r
    /\ Of(p) # {} => engine[p].today + n <= Ceiling(p)

MoneyTyped ==
  /\ account \in [Procs -> Int] /\ ledger \in [Procs -> Seq(Nat)]
  /\ forgotten \in [Procs -> Nat] /\ phantom \in [Procs -> Int]
  /\ faults \in 0..MaxFaults

Proposed == \A s \in Spenders : budget[s] <= MaxProposal

LEMMA MaxProposalIs ==
  /\ MaxProposal \in Nat \ {0} /\ \A b \in Budgets \cup Raises : b <= MaxProposal
  /\ \A p : Ceiling(p) \in Int
  <1>1. /\ MaxProposal \in Proposals /\ \A b \in Proposals : b <= MaxProposal
    BY ProposalAssumption DEF MaxProposal, Proposals
  <1>2. MaxProposal \in Nat \ {0}
    BY <1>1, SpendAssumption DEF Proposals
  <1>3. ASSUME NEW p
        PROVE  Ceiling(p) \in Int
    <2>1. Cardinality(Of(p)) \in Nat
      BY ThreadsAre DEF Count
    <2>2. (Cardinality(Of(p)) - 1) * MaxProposal \in Int
      BY <1>2, <2>1
    <2> QED BY <2>2, EngineAssumption DEF Ceiling
  <1> QED BY <1>1, <1>2, <1>3 DEF Proposals

\* The sums when one thread of p moves.
LEMMA OnTheWayMoves ==
  ASSUME NEW p, NEW s \in Of(p), NEW a, NEW a2,
         NEW b \in [Spenders -> Nat], NEW b2 \in [Spenders -> Nat],
         \A r \in Of(p) : r # s => a2[r] = a[r] /\ b2[r] = b[r],
         NEW r, NEW n, OnTheWay(p, a, b, r, n)
  PROVE  LET r1 == Amount(s, a, b, {"record"})
             r2 == Amount(s, a2, b2, {"record"})
             n1 == Amount(s, a, b, Spending)
             n2 == Amount(s, a2, b2, Spending)
         IN  /\ r \in Nat /\ n \in Nat /\ r1 <= r /\ n1 <= n
             /\ r1 \in Nat /\ r2 \in Nat /\ n1 \in Nat /\ n2 \in Nat
             /\ OnTheWay(p, a2, b2, r - r1 + r2, n - n1 + n2)
  <1> USE AmountMoves
  <1>1. AddsUpTo(Amounts(p, a, b, {"record"}), r) /\ AddsUpTo(Amounts(p, a, b, Spending), n)
    BY DEF OnTheWay
  <1>2. /\ r \in Nat /\ Amount(s, a, b, {"record"}) <= r
        /\ AddsUpTo(Amounts(p, a2, b2, {"record"}),
                    r - Amount(s, a, b, {"record"}) + Amount(s, a2, b2, {"record"}))
    BY <1>1
  <1>3. /\ n \in Nat /\ Amount(s, a, b, Spending) <= n
        /\ AddsUpTo(Amounts(p, a2, b2, Spending),
                    n - Amount(s, a, b, Spending) + Amount(s, a2, b2, Spending))
    BY <1>1
  <1>4. /\ Amount(s, a, b, {"record"}) \in Nat /\ Amount(s, a2, b2, {"record"}) \in Nat
        /\ Amount(s, a, b, Spending) \in Nat /\ Amount(s, a2, b2, Spending) \in Nat
    <2>1. s \in Spenders
      BY DEF Of
    <2> QED BY <2>1 DEF Amount
  <1> HIDE DEF Spending, Amount
  <1> QED BY <1>2, <1>3, <1>4 DEF OnTheWay

\* What the other threads have on the way when one has nothing.
LEMMA OthersOnTheWay ==
  ASSUME NEW p, NEW s \in Of(p), NEW a, NEW b \in [Spenders -> Nat],
         \A r \in Spenders : b[r] <= MaxProposal, a[s] \notin Spending,
         NEW n, AddsUpTo(Amounts(p, a, b, Spending), n)
  PROVE  n \in Nat /\ MaxDailySpend + n <= Ceiling(p)
  <1> DEFINE w == Amounts(p, a, b, Spending)
  <1>1. PICK k \in 1..Count(p) : Threads(p)[k] = s
    BY ThreadsAre
  <1>2. /\ w \in Seq(Nat) /\ Len(w) = Count(p)
        /\ \A i \in 1..Count(p) : w[i] = Amount(Threads(p)[i], a, b, Spending)
    BY AmountsTyped
  <1>3. PICK t : Totals(w, t) /\ t[Len(w)] = n
    BY DEF AddsUpTo
  <1>4. \A i \in 1..Count(p) : w[i] <= MaxProposal
    <2> SUFFICES ASSUME NEW i \in 1..Count(p) PROVE w[i] <= MaxProposal
      OBVIOUS
    <2>1. Threads(p)[i] \in Spenders
      BY ThreadsAre DEF Of
    <2>2. Amount(Threads(p)[i], a, b, Spending) <= MaxProposal
      BY <2>1, MaxProposalIs DEF Amount
    <2> QED BY <1>2, <2>2
  <1>5. w[k] = 0
    <2>1. Amount(s, a, b, Spending) = 0
      BY DEF Amount
    <2> HIDE DEF w
    <2> QED BY <1>1, <1>2, <2>1
  <1> HIDE DEF w
  <1>6. t[Len(w)] <= (Len(w) - 1) * MaxProposal
    BY <1>1, <1>2, <1>3, <1>4, <1>5, MaxProposalIs, TotalsCapped
  <1>7. n \in Nat
    BY <1>2, SumTyped DEF w
  <1>8. Ceiling(p) = MaxDailySpend + (Len(w) - 1) * MaxProposal
    BY <1>2 DEF Ceiling, Count
  <1>9. (Len(w) - 1) * MaxProposal \in Int
    BY <1>2, ThreadsAre, MaxProposalIs
  <1> QED BY <1>3, <1>6, <1>7, <1>8, <1>9, EngineAssumption

\* Idle threads have nothing on the way.
LEMMA IdleIsNothing ==
  ASSUME NEW p, NEW a, NEW b \in [Spenders -> Nat], \A s \in Of(p) : a[s] = "idle"
  PROVE  OnTheWay(p, a, b, 0, 0)
  <1>1. ASSUME NEW Q, "idle" \notin Q
        PROVE  AddsUpTo(Amounts(p, a, b, Q), 0)
    <2>1. \A s \in Of(p) : Amount(s, a, b, Q) = 0
      BY <1>1 DEF Amount
    <2>2. /\ Amounts(p, a, b, Q) \in Seq(Nat) /\ Len(Amounts(p, a, b, Q)) = Count(p)
          /\ \A i \in 1..Count(p) : Amounts(p, a, b, Q)[i] = Amount(Threads(p)[i], a, b, Q)
      BY AmountsTyped
    <2>3. \A i \in 1..Count(p) : Threads(p)[i] \in Of(p)
      BY ThreadsAre
    <2>4. \A i \in 1..Len(Amounts(p, a, b, Q)) : Amounts(p, a, b, Q)[i] = 0
      BY <2>1, <2>2, <2>3
    <2> QED BY <2>2, <2>4, NothingAdds
  <1>2. "idle" \notin {"record"} /\ "idle" \notin Spending
    BY DEF Spending
  <1> QED BY <1>1, <1>2 DEF OnTheWay

LEMMA CeilingIsAmount ==
  ASSUME NEW p, Of(p) # {}
  PROVE  0 <= Ceiling(p)
  <1>1. PICK s : s \in Of(p)
    OBVIOUS
  <1> DEFINE idle == [q \in Spenders |-> "idle"]
             none == [q \in Spenders |-> 0]
  <1>2. idle[s] \notin Spending /\ \A q \in Of(p) : idle[q] = "idle"
    BY <1>1 DEF Of, Spending
  <1>3. none \in [Spenders -> Nat] /\ \A q \in Spenders : none[q] <= MaxProposal
    BY MaxProposalIs
  <1> HIDE DEF idle, none
  <1>4. AddsUpTo(Amounts(p, idle, none, Spending), 0)
    BY <1>2, <1>3, IdleIsNothing DEF OnTheWay
  <1>5. MaxDailySpend + 0 <= Ceiling(p)
    BY <1>1, <1>2, <1>3, <1>4, OthersOnTheWay
  <1> QED BY <1>5, MaxProposalIs, EngineAssumption

\* A thread's step leaves the calls of the others alone.
LEMMA OthersCallsStay ==
  ASSUME SpendTyped, NEW s \in Spenders, Spend(s), NEW r \in Spenders, r # s
  PROVE  at'[r] = at[r] /\ budget'[r] = budget[r]
  <1>1. at'[r] = at[r]
    BY OthersStay
  <1>2. budget'[r] = budget[r]
    BY DEF SpendTyped, CallTyped, Spend, BeginLaunch, BeginRaise, Begin, Go, Return, CheckKill,
           RefusedForDrawdown, CheckCap, PostAnswered, PostRefused, PostUnheard, PostFails,
           RecordSpend, MarkLaunched
  <1> QED BY <1>1, <1>2

\* A thread's step keeps the books of its process.
LEMMA ThreadAccounts ==
  ASSUME SpendTyped, MoneyTyped, Proposed, NEW s \in Spenders, Spend(s),
         NEW p \in Procs, Home[s] = p, Accounted(p)
  PROVE  Accounted(p)'
  <1>1. /\ engine \in [Procs -> EngineRecords] /\ CallTyped /\ CallTyped'
        /\ at \in [Spenders -> Places] /\ budget \in [Spenders -> Nat] /\ budget' \in [Spenders -> Nat]
        /\ s \in Of(p) /\ budget[s] \in Nat
    <2>1. CallTyped'
      BY CallKept
    <2> QED BY <2>1 DEF SpendTyped, CallTyped, Of
  <1>2. /\ account \in [Procs -> Int] /\ ledger \in [Procs -> Seq(Nat)]
        /\ forgotten \in [Procs -> Nat] /\ phantom \in [Procs -> Int]
    BY DEF MoneyTyped
  <1>3. /\ engine[p] \in EngineRecords /\ engine[p].log \in Seq(Nat) /\ engine[p].today \in Int
        /\ ledger[p] \in Seq(Nat) /\ forgotten[p] \in Nat /\ phantom[p] \in Int /\ Ceiling(p) \in Int
    BY <1>1, <1>2, MaxProposalIs DEF EngineRecords
  <1>4. PICK l \in Nat, r \in Nat, n \in Nat :
          /\ Books(engine[p].log, ledger[p], engine[p].today, phantom[p], l)
          /\ OnTheWay(p, at, budget, r, n)
          /\ account[p] = forgotten[p] + l + r
          /\ Of(p) # {} => engine[p].today + n <= Ceiling(p)
    BY DEF Accounted
  <1>5. engine[p].today + n <= Ceiling(p)
    BY <1>1, <1>4
  <1> DEFINE r1 == Amount(s, at, budget, {"record"})
             r2 == Amount(s, at', budget', {"record"})
             n1 == Amount(s, at, budget, Spending)
             n2 == Amount(s, at', budget', Spending)
  <1>6. /\ r1 <= r /\ n1 <= n /\ r1 \in Nat /\ r2 \in Nat /\ n1 \in Nat /\ n2 \in Nat
        /\ OnTheWay(p, at', budget', r - r1 + r2, n - n1 + n2)
    <2>1. \A q \in Of(p) : q # s => at'[q] = at[q] /\ budget'[q] = budget[q]
      BY OthersCallsStay DEF Of
    <2> QED BY <1>1, <1>4, <2>1, OnTheWayMoves
  <1>7. r - r1 + r2 \in Nat /\ n - n1 + n2 \in Nat
    BY <1>4, <1>6
  <1>8. /\ r1 = IF at[s] = "record" THEN budget[s] ELSE 0
        /\ r2 = IF at'[s] = "record" THEN budget'[s] ELSE 0
        /\ n1 = IF at[s] \in Spending THEN budget[s] ELSE 0
        /\ n2 = IF at'[s] \in Spending THEN budget'[s] ELSE 0
    BY DEF Amount
  <1> HIDE DEF r1, r2, n1, n2
  \* Steps that leave the money alone and add nothing to what is on the way.
  <1>9. ASSUME UNCHANGED <<engine, money>>, r2 = r1, n2 <= n1
        PROVE  Accounted(p)'
    <2>1. Books(engine'[p].log, ledger'[p], engine'[p].today, phantom'[p], l)
      BY <1>4, <1>9 DEF money
    <2>2. OnTheWay(p, at', budget', r, n - n1 + n2) /\ n - n1 + n2 <= n
      <3>1. r - r1 + r2 = r /\ n - n1 + n2 <= n
        BY <1>4, <1>6, <1>9
      <3> QED BY <1>6, <3>1
    <2>3. engine'[p].today + (n - n1 + n2) <= Ceiling(p)
      BY <1>3, <1>4, <1>5, <1>7, <1>9, <2>2
    <2>4. account'[p] = forgotten'[p] + l + r
      BY <1>4, <1>9 DEF money
    <2> QED BY <1>4, <1>7, <2>1, <2>2, <2>3, <2>4 DEF Accounted, Ceiling
  <1>10. CASE \/ BeginLaunch(s) \/ BeginRaise(s) \/ CheckKill(s) \/ RefusedForDrawdown(s)
              \/ PostFails(s) \/ MarkLaunched(s)
    <2>1. UNCHANGED <<engine, money>>
      BY <1>10 DEF BeginLaunch, BeginRaise, CheckKill, RefusedForDrawdown, PostFails, MarkLaunched
    <2>2. at[s] # "record" /\ at'[s] \notin Spending
      BY <1>1, <1>10 DEF BeginLaunch, BeginRaise, Begin, CheckKill, RefusedForDrawdown, PostFails,
                         MarkLaunched, Go, Return, Spending
    <2>3. r1 = 0 /\ r2 = 0 /\ n2 = 0
      BY <1>8, <2>2 DEF Spending
    <2> QED BY <1>6, <1>9, <2>1, <2>3
  <1>11. CASE PostRefused(s)
    <2>1. UNCHANGED <<engine, money, budget>> /\ at[s] = "post" /\ at'[s] = "refused"
      BY <1>1, <1>11 DEF PostRefused, Go
    <2>2. r1 = 0 /\ r2 = 0 /\ n2 = n1
      BY <1>8, <2>1 DEF Spending
    <2> QED BY <1>6, <1>9, <2>1, <2>2
  <1>12. CASE CheckCap(s)
    <2>1. UNCHANGED <<engine, money>> /\ at[s] = "cap"
      BY <1>12 DEF CheckCap
    <2>2. r1 = 0 /\ n1 = 0
      BY <1>8, <2>1 DEF Spending
    <2>3. CASE Remaining(engine[p]) <= 0
      <3>1. at'[s] = "idle"
        BY <1>1, <1>12, <2>3 DEF CheckCap, Return
      <3>2. r2 = 0 /\ n2 = 0
        BY <1>8, <3>1 DEF Spending
      <3> QED BY <1>6, <1>9, <2>1, <2>2, <3>2
    <2>4. CASE ~(Remaining(engine[p]) <= 0)
      <3>1. at'[s] = "post" /\ budget'[s] = Grant(engine[p], budget[s])
        BY <1>1, <1>12, <2>4 DEF CheckCap
      <3>2. r2 = 0 /\ n2 = Grant(engine[p], budget[s])
        BY <1>8, <3>1 DEF Spending
      <3>3. engine[p].today + n2 <= MaxDailySpend
        <4>1. Grant(engine[p], budget[s]) <= Remaining(engine[p])
          BY <1>1, <1>3, EngineAssumption DEF Grant, Remaining
        <4>2. Remaining(engine[p]) = MaxDailySpend - engine[p].today
          BY DEF Remaining
        <4> QED BY <1>3, <1>6, <3>2, <4>1, <4>2, EngineAssumption
      <3>4. MaxDailySpend + n <= Ceiling(p)
        <4>1. AddsUpTo(Amounts(p, at, budget, Spending), n)
          BY <1>4 DEF OnTheWay
        <4>2. at[s] \notin Spending
          BY <2>1 DEF Spending
        <4> QED BY <1>1, <4>1, <4>2, OthersOnTheWay DEF Proposed
      <3>5. engine[p].today + (n - n1 + n2) <= Ceiling(p)
        <4>1. n - n1 + n2 = n2 + n
          BY <1>4, <1>6, <2>2
        <4>2. MaxDailySpend \in Int /\ n \in Int /\ n2 \in Int
          BY <1>4, <1>6, EngineAssumption
        <4>3. (engine[p].today + n2) + n <= MaxDailySpend + n
          BY <1>3, <3>3, <4>2
        <4>4. engine[p].today + (n2 + n) <= Ceiling(p)
          BY <1>3, <3>4, <4>2, <4>3
        <4> QED BY <4>1, <4>4
      <3>6. r - r1 + r2 = r
        BY <1>4, <2>2, <3>2
      <3>7. OnTheWay(p, at', budget', r, n - n1 + n2)
        BY <1>6, <3>6
      <3>8. /\ Books(engine'[p].log, ledger'[p], engine'[p].today, phantom'[p], l)
            /\ account'[p] = forgotten'[p] + l + r /\ engine'[p] = engine[p]
        BY <1>4, <2>1 DEF money
      <3> QED BY <1>4, <1>7, <3>5, <3>7, <3>8 DEF Accounted, Ceiling
    <2> QED BY <2>3, <2>4
  <1>13. CASE PostAnswered(s)
    <2>1. /\ UNCHANGED <<engine, ledger, forgotten, phantom, budget>>
          /\ at[s] = "post" /\ at'[s] = "record" /\ account'[p] = account[p] + budget[s]
      BY <1>1, <1>2, <1>13 DEF PostAnswered, Accepted, Go
    <2>2. r1 = 0 /\ r2 = budget[s] /\ n2 = n1
      BY <1>8, <2>1 DEF Spending
    <2>3. r - r1 + r2 = r + budget[s] /\ n - n1 + n2 = n
      BY <1>4, <1>6, <2>2
    <2>4. OnTheWay(p, at', budget', r + budget[s], n)
      BY <1>6, <2>3
    <2>5. account'[p] = forgotten'[p] + l + (r + budget[s])
      BY <1>1, <1>3, <1>4, <2>1
    <2>6. r + budget[s] \in Nat
      BY <1>1, <1>4
    <2> QED BY <1>4, <2>1, <2>4, <2>5, <2>6 DEF Accounted, Ceiling
  <1>14. CASE PostUnheard(s)
    <2>1. /\ UNCHANGED <<engine, ledger, phantom>> /\ at[s] = "post" /\ at'[s] = "idle"
          /\ account'[p] = account[p] + budget[s] /\ forgotten'[p] = forgotten[p] + budget[s]
      BY <1>1, <1>2, <1>14 DEF PostUnheard, Accepted, Return
    <2>2. r1 = 0 /\ r2 = 0 /\ n2 = 0
      BY <1>8, <2>1 DEF Spending
    <2>3. r - r1 + r2 = r /\ n - n1 + n2 <= n
      BY <1>4, <1>6, <2>2
    <2>4. OnTheWay(p, at', budget', r, n - n1 + n2)
      BY <1>6, <2>3
    <2>5. account'[p] = forgotten'[p] + l + r
      BY <1>1, <1>3, <1>4, <2>1
    <2>6. engine'[p].today + (n - n1 + n2) <= Ceiling(p)
      BY <1>3, <1>4, <1>5, <1>7, <2>1, <2>3
    <2> QED BY <1>4, <1>7, <2>1, <2>4, <2>5, <2>6 DEF Accounted, Ceiling
  <1>15. CASE RecordSpend(s)
    <2> DEFINE spent == IF at[s] = "record" THEN budget[s] ELSE 0
    <2>1. /\ at[s] \in {"record", "refused"} /\ at'[s] \notin Spending
          /\ engine'[p] = Recorded(engine[p], budget[s])
          /\ ledger'[p] = Append(ledger[p], spent)
          /\ phantom'[p] = phantom[p] + (budget[s] - spent)
          /\ UNCHANGED <<account, forgotten>>
      BY <1>1, <1>2, <1>15 DEF RecordSpend, Go, Return, Spending
    <2>2. spent \in Nat /\ spent <= budget[s]
      BY <1>1
    <2>3. r1 = spent /\ r2 = 0 /\ n1 = budget[s] /\ n2 = 0
      BY <1>8, <2>1 DEF Spending
    <2> HIDE DEF spent
    <2>4. engine'[p].log = Append(engine[p].log, budget[s]) /\ engine'[p].today = engine[p].today + budget[s]
      BY <1>3, <2>1 DEF Recorded, EngineRecords
    <2>5. Books(engine'[p].log, ledger'[p], engine'[p].today, phantom'[p], l + spent)
      <3>1. Books(Append(engine[p].log, budget[s]), Append(ledger[p], spent), engine[p].today + budget[s],
                  phantom[p] + (budget[s] - spent), l + spent)
        BY <1>1, <1>3, <1>4, <2>2, BooksAppend
      <3> QED BY <2>1, <2>4, <3>1
    <2>6. OnTheWay(p, at', budget', r - spent, n - budget[s]) /\ r - spent \in Nat /\ n - budget[s] \in Nat
      <3>1. r - r1 + r2 = r - spent /\ n - n1 + n2 = n - budget[s]
        BY <1>1, <1>4, <2>2, <2>3
      <3> QED BY <1>6, <1>7, <3>1
    <2>7. account'[p] = forgotten'[p] + (l + spent) + (r - spent)
      BY <1>3, <1>4, <2>1, <2>2
    <2>8. engine'[p].today + (n - budget[s]) <= Ceiling(p)
      BY <1>1, <1>3, <1>4, <1>5, <2>4
    <2>9. l + spent \in Nat
      BY <1>4, <2>2
    <2> QED BY <2>5, <2>6, <2>7, <2>8, <2>9 DEF Accounted, Ceiling
  <1> QED BY <1>10, <1>11, <1>12, <1>13, <1>14, <1>15 DEF Spend

\* Another thread's step leaves the process as it is.
LEMMA AccountedFrame ==
  ASSUME NEW p \in Procs, Accounted(p),
         engine'[p].log = engine[p].log, engine'[p].today = engine[p].today,
         ledger'[p] = ledger[p], phantom'[p] = phantom[p],
         account'[p] = account[p], forgotten'[p] = forgotten[p],
         \A s \in Of(p) : at'[s] = at[s] /\ budget'[s] = budget[s]
  PROVE  Accounted(p)'
  <1>1. PICK l \in Nat, r \in Nat, n \in Nat :
          /\ Books(engine[p].log, ledger[p], engine[p].today, phantom[p], l)
          /\ OnTheWay(p, at, budget, r, n)
          /\ account[p] = forgotten[p] + l + r
          /\ Of(p) # {} => engine[p].today + n <= Ceiling(p)
    BY DEF Accounted
  <1>2. /\ Amounts(p, at', budget', {"record"}) = Amounts(p, at, budget, {"record"})
        /\ Amounts(p, at', budget', Spending) = Amounts(p, at, budget, Spending)
    BY AmountsFrame
  <1>3. OnTheWay(p, at', budget', r, n)
    BY <1>1, <1>2 DEF OnTheWay
  <1>4. Books(engine'[p].log, ledger'[p], engine'[p].today, phantom'[p], l)
    BY <1>1
  <1> QED BY <1>1, <1>3, <1>4 DEF Accounted, Ceiling

\* The steps of the switch, of time and of a process that ends.
LEMMA ProcessAccounts ==
  ASSUME SpendTyped, MoneyTyped, NEW p \in Procs, Accounted(p),
         SwitchKill(p) \/ Expire(p) \/ CooldownEnds(p) \/ Ends(p)
  PROVE  Accounted(p)'
  <1>1. /\ engine \in [Procs -> EngineRecords]
        /\ at \in [Spenders -> Places] /\ budget \in [Spenders -> Nat]
        /\ account \in [Procs -> Int] /\ ledger \in [Procs -> Seq(Nat)]
        /\ forgotten \in [Procs -> Nat] /\ phantom \in [Procs -> Int]
    BY DEF SpendTyped, CallTyped, MoneyTyped
  <1>2. /\ engine[p] \in EngineRecords /\ engine[p].log \in Seq(Nat) /\ engine[p].today \in Int
        /\ ledger[p] \in Seq(Nat) /\ forgotten[p] \in Nat /\ phantom[p] \in Int /\ Ceiling(p) \in Int
    BY <1>1, MaxProposalIs DEF EngineRecords
  <1>3. CASE SwitchKill(p)
    <2>1. engine'[p] = Switched(engine[p], ~engine[p].kill) /\ UNCHANGED <<money, at, budget>>
      BY <1>1, <1>3 DEF SwitchKill, call
    <2>2. engine'[p].log = engine[p].log /\ engine'[p].today = engine[p].today
      BY <1>2, <2>1 DEF Switched, EngineRecords
    <2> QED BY <2>1, <2>2, AccountedFrame DEF money
  <1>4. CASE CooldownEnds(p)
    BY <1>4, AccountedFrame DEF CooldownEnds, money, call
  <1>5. CASE Expire(p)
    <2>1. PICK l \in Nat, r \in Nat, n \in Nat :
            /\ Books(engine[p].log, ledger[p], engine[p].today, phantom[p], l)
            /\ OnTheWay(p, at, budget, r, n)
            /\ account[p] = forgotten[p] + l + r
            /\ Of(p) # {} => engine[p].today + n <= Ceiling(p)
      BY DEF Accounted
    <2>2. /\ engine[p].log # <<>>
          /\ engine'[p] = Pruned(engine[p]) /\ ledger'[p] = Tail(ledger[p])
          /\ account'[p] = account[p] - Head(ledger[p])
          /\ phantom'[p] = phantom[p] - (Head(engine[p].log) - Head(ledger[p]))
          /\ UNCHANGED <<at, budget, forgotten>>
      BY <1>1, <1>5 DEF Expire, call
    <2>3. /\ engine'[p].log = Tail(engine[p].log)
          /\ engine'[p].today = engine[p].today - Head(engine[p].log)
      BY <1>2, <2>2 DEF Pruned, EngineRecords
    <2>4. /\ Head(ledger[p]) \in Nat /\ Head(engine[p].log) \in Nat /\ Head(ledger[p]) <= l
          /\ Books(Tail(engine[p].log), Tail(ledger[p]), engine[p].today - Head(engine[p].log),
                   phantom[p] - (Head(engine[p].log) - Head(ledger[p])), l - Head(ledger[p]))
      BY <1>2, <2>1, <2>2, BooksPrune
    <2>5. Books(engine'[p].log, ledger'[p], engine'[p].today, phantom'[p], l - Head(ledger[p]))
      BY <2>2, <2>3, <2>4
    <2>6. l - Head(ledger[p]) \in Nat
      BY <2>1, <2>4
    <2> DEFINE h == Head(ledger[p])
               g == Head(engine[p].log)
    <2>7. account'[p] = forgotten'[p] + (l - Head(ledger[p])) + r
      <3>1. h \in Int /\ account'[p] = account[p] - h /\ forgotten'[p] = forgotten[p]
        BY <2>2, <2>4
      <3> HIDE DEF h
      <3>2. (forgotten[p] + l + r) - h = forgotten[p] + (l - h) + r
        BY <1>2, <3>1
      <3>3. account'[p] = forgotten'[p] + (l - h) + r
        BY <2>1, <3>1, <3>2
      <3> QED BY <3>3 DEF h
    <2>8. Of(p) # {} => engine'[p].today + n <= Ceiling(p)
      <3>1. g \in Nat /\ engine'[p].today = engine[p].today - g
        BY <2>3, <2>4
      <3> HIDE DEF g
      <3>2. engine'[p].today + n <= engine[p].today + n
        BY <1>2, <3>1
      <3>3. engine'[p].today + n \in Int /\ engine[p].today + n \in Int
        BY <1>2, <3>1
      <3> QED BY <1>2, <2>1, <3>2, <3>3
    <2>9. OnTheWay(p, at', budget', r, n)
      BY <2>1, <2>2
    <2> QED BY <2>1, <2>5, <2>6, <2>7, <2>8, <2>9 DEF Accounted, Ceiling
  <1>6. CASE Ends(p)
    <2>1. /\ engine'[p] = NewEngine /\ ledger'[p] = <<>> /\ phantom'[p] = 0
          /\ forgotten'[p] = account[p] /\ account' = account
          /\ \A s \in Of(p) : at'[s] = "idle"
      BY <1>1, <1>6 DEF Ends, Of
    <2>2. Books(engine'[p].log, ledger'[p], engine'[p].today, phantom'[p], 0)
      BY <2>1, BooksNew DEF NewEngine
    <2>3. budget' \in [Spenders -> Nat]
      BY <1>1, <1>6 DEF Ends
    <2>4. OnTheWay(p, at', budget', 0, 0)
      BY <2>1, <2>3, IdleIsNothing
    <2>5. account'[p] = forgotten'[p] + 0 + 0 /\ engine'[p].today + 0 = 0
      BY <1>1, <2>1 DEF NewEngine
    <2>6. Of(p) # {} => 0 <= Ceiling(p)
      BY CeilingIsAmount
    <2> QED BY <2>2, <2>4, <2>5, <2>6 DEF Accounted, Ceiling
  <1> QED BY <1>3, <1>4, <1>5, <1>6

LEMMA MoneyTypedKept ==
  ASSUME SpendTyped, MoneyTyped, Proposed, \A p \in Procs : Accounted(p), SpendMove
  PROVE  MoneyTyped' /\ Proposed'
  <1>1. /\ account \in [Procs -> Int] /\ ledger \in [Procs -> Seq(Nat)]
        /\ forgotten \in [Procs -> Nat] /\ phantom \in [Procs -> Int]
        /\ faults \in 0..MaxFaults /\ MaxFaults \in Nat
        /\ engine \in [Procs -> EngineRecords]
        /\ at \in [Spenders -> Places] /\ budget \in [Spenders -> Nat]
        /\ \A s \in Spenders : budget[s] <= MaxProposal
    BY SpendAssumption DEF SpendTyped, CallTyped, MoneyTyped, Proposed
  <1>2. Fault => faults' \in 0..MaxFaults
    BY <1>1 DEF Fault
  <1>3. ASSUME NEW s \in Spenders, Spend(s)
        PROVE  MoneyTyped'
    <2>1. Home[s] \in Procs /\ budget[s] \in Nat
      BY <1>1, SpendAssumption
    <2>2. CASE PostAnswered(s)
      BY <1>1, <2>1, <2>2 DEF PostAnswered, Accepted, MoneyTyped
    <2>3. CASE PostUnheard(s)
      BY <1>1, <1>2, <2>1, <2>3 DEF PostUnheard, Accepted, MoneyTyped
    <2>4. CASE RecordSpend(s)
      <3> DEFINE spent == IF at[s] = "record" THEN budget[s] ELSE 0
      <3>1. /\ ledger' = [ledger EXCEPT ![Home[s]] = Append(ledger[Home[s]], spent)]
            /\ phantom' = [phantom EXCEPT ![Home[s]] = phantom[Home[s]] + (budget[s] - spent)]
            /\ UNCHANGED <<account, forgotten, faults>>
        BY <2>4 DEF RecordSpend
      <3>2. spent \in Nat
        BY <2>1
      <3> HIDE DEF spent
      <3>3. ledger[Home[s]] \in Seq(Nat) /\ phantom[Home[s]] \in Int
        BY <1>1, <2>1
      <3>4. Append(ledger[Home[s]], spent) \in Seq(Nat) /\ phantom[Home[s]] + (budget[s] - spent) \in Int
        BY <2>1, <3>2, <3>3
      <3>5. ledger' \in [Procs -> Seq(Nat)] /\ phantom' \in [Procs -> Int]
        BY <1>1, <2>1, <3>1, <3>4
      <3> QED BY <1>1, <3>1, <3>5 DEF MoneyTyped
    <2>5. CASE MarkLaunched(s)
      <3>1. faults' \in 0..MaxFaults /\ UNCHANGED money
        BY <1>1, <1>2, <2>5 DEF MarkLaunched
      <3> QED BY <1>1, <3>1 DEF money, MoneyTyped
    <2>6. CASE UNCHANGED <<money, faults>>
      BY <1>1, <2>6 DEF money, MoneyTyped
    <2> QED BY <1>3, <2>2, <2>3, <2>4, <2>5, <2>6
         DEF Spend, BeginLaunch, BeginRaise, CheckKill, RefusedForDrawdown, CheckCap,
             PostRefused, PostFails
  <1>4. ASSUME NEW s \in Spenders, Spend(s), NEW r \in Spenders
        PROVE  budget'[r] <= MaxProposal
    <2>1. CASE r # s
      BY <1>1, <1>4, <2>1, OthersCallsStay
    <2>2. CASE budget'[s] \in {0, budget[s]} \cup Budgets \cup Raises
      <3>1. 0 <= MaxProposal /\ \A b \in Budgets \cup Raises : b <= MaxProposal
        BY MaxProposalIs
      <3> QED BY <1>1, <2>1, <2>2, <3>1
    <2>3. CASE CheckCap(s)
      <3>1. CASE Remaining(engine[Home[s]]) <= 0
        <4>1. budget'[s] = 0
          BY <1>1, <2>3, <3>1 DEF CheckCap, Return
        <4> QED BY <2>2, <4>1
      <3>2. CASE ~(Remaining(engine[Home[s]]) <= 0)
        <4>1. budget'[s] = Grant(engine[Home[s]], budget[s])
          BY <1>1, <2>3, <3>2 DEF CheckCap
        <4>2. engine[Home[s]].today \in Int /\ budget[s] \in Nat /\ budget[s] <= MaxProposal
          BY <1>1, SpendAssumption DEF EngineRecords
        <4>3. Remaining(engine[Home[s]]) \in Int
          BY <4>2, EngineAssumption DEF Remaining
        <4>4. Grant(engine[Home[s]], budget[s]) <= budget[s] /\ Grant(engine[Home[s]], budget[s]) \in Int
          BY <4>2, <4>3 DEF Grant
        <4>5. budget'[s] <= MaxProposal
          BY <4>1, <4>2, <4>4, MaxProposalIs
        <4> QED BY <2>1, <4>5
      <3> QED BY <3>1, <3>2
    <2>4. CASE BeginLaunch(s) \/ BeginRaise(s)
      BY <1>1, <2>2, <2>4 DEF BeginLaunch, BeginRaise, Begin
    <2>5. CASE \/ CheckKill(s) \/ RefusedForDrawdown(s) \/ PostAnswered(s) \/ PostRefused(s)
               \/ PostUnheard(s) \/ PostFails(s) \/ RecordSpend(s) \/ MarkLaunched(s)
      BY <1>1, <2>2, <2>5 DEF CheckKill, RefusedForDrawdown, PostAnswered, PostRefused,
           PostUnheard, PostFails, RecordSpend, MarkLaunched, Go, Return
    <2> QED BY <1>4, <2>3, <2>4, <2>5 DEF Spend
  <1>5. ASSUME NEW p \in Procs, SwitchKill(p) \/ CooldownEnds(p)
        PROVE  MoneyTyped' /\ Proposed'
    BY <1>1, <1>5 DEF SwitchKill, CooldownEnds, call, money, MoneyTyped, Proposed
  <1>6. ASSUME NEW p \in Procs, Expire(p)
        PROVE  MoneyTyped' /\ Proposed'
    <2>1. Accounted(p)
      OBVIOUS
    <2>2. PICK l \in Nat : Books(engine[p].log, ledger[p], engine[p].today, phantom[p], l)
      BY <2>1 DEF Accounted
    <2>3. engine[p].log \in Seq(Nat) /\ ledger[p] \in Seq(Nat) /\ engine[p].log # <<>>
      BY <1>1, <1>6 DEF EngineRecords, Expire
    <2>4. Head(ledger[p]) \in Nat /\ Head(engine[p].log) \in Nat /\ ledger[p] # <<>>
      <3>1. Head(ledger[p]) \in Nat /\ Head(engine[p].log) \in Nat
        BY <2>2, <2>3, BooksPrune
      <3>2. Len(ledger[p]) = Len(engine[p].log)
        BY <2>2 DEF Books
      <3>3. ledger[p] # <<>>
        BY <2>3, <3>2
      <3> QED BY <3>1, <3>3
    <2>5. Tail(ledger[p]) \in Seq(Nat)
      BY <2>3, <2>4
    <2>6. /\ account' = [account EXCEPT ![p] = account[p] - Head(ledger[p])]
          /\ ledger' = [ledger EXCEPT ![p] = Tail(ledger[p])]
          /\ phantom' = [phantom EXCEPT ![p] = phantom[p] - (Head(engine[p].log) - Head(ledger[p]))]
          /\ UNCHANGED <<forgotten, faults, budget>>
      BY <1>6 DEF Expire, call
    <2>7. /\ account[p] - Head(ledger[p]) \in Int
          /\ phantom[p] - (Head(engine[p].log) - Head(ledger[p])) \in Int
      BY <1>1, <2>4
    <2>8. account' \in [Procs -> Int] /\ ledger' \in [Procs -> Seq(Nat)] /\ phantom' \in [Procs -> Int]
      BY <1>1, <2>5, <2>6, <2>7
    <2> QED BY <1>1, <2>6, <2>8 DEF MoneyTyped, Proposed
  <1>7. ASSUME NEW p \in Procs, Ends(p)
        PROVE  MoneyTyped' /\ Proposed'
    <2>1. account[p] \in Nat
      <3>1. PICK l \in Nat, r \in Nat : account[p] = forgotten[p] + l + r
        BY DEF Accounted
      <3> QED BY <1>1, <3>1
    <2>2. /\ ledger' = [ledger EXCEPT ![p] = <<>>] /\ forgotten' = [forgotten EXCEPT ![p] = account[p]]
          /\ phantom' = [phantom EXCEPT ![p] = 0] /\ account' = account
          /\ faults' \in 0..MaxFaults
          /\ budget' = [s \in Spenders |-> IF Home[s] = p THEN 0 ELSE budget[s]]
      BY <1>2, <1>7 DEF Ends
    <2>3. <<>> \in Seq(Nat)
      OBVIOUS
    <2>4. ledger' \in [Procs -> Seq(Nat)] /\ forgotten' \in [Procs -> Nat] /\ phantom' \in [Procs -> Int]
      BY <1>1, <2>1, <2>2, <2>3
    <2>5. \A s \in Spenders : budget'[s] <= MaxProposal
      BY <1>1, <2>2, MaxProposalIs
    <2> QED BY <1>1, <2>2, <2>4, <2>5 DEF MoneyTyped, Proposed
  <1>8. CASE UNCHANGED spendVars
    BY <1>1, <1>8 DEF spendVars, call, money, MoneyTyped, Proposed
  <1> QED BY <1>3, <1>4, <1>5, <1>6, <1>7, <1>8 DEF SpendMove, Proposed

MoneyInv == MoneyTyped /\ Proposed /\ \A p \in Procs : Accounted(p)

LEMMA MoneyKept ==
  ASSUME SpendTyped, MoneyInv, SpendMove
  PROVE  MoneyInv'
  <1>1. MoneyTyped /\ Proposed /\ \A p \in Procs : Accounted(p)
    BY DEF MoneyInv
  <1>2. MoneyTyped' /\ Proposed'
    BY <1>1, MoneyTypedKept
  <1>3. /\ engine \in [Procs -> EngineRecords] /\ at \in [Spenders -> Places] /\ budget \in [Spenders -> Nat]
        /\ account \in [Procs -> Int] /\ ledger \in [Procs -> Seq(Nat)]
        /\ forgotten \in [Procs -> Nat] /\ phantom \in [Procs -> Int]
    BY <1>1 DEF SpendTyped, CallTyped, MoneyTyped
  <1>4. ASSUME NEW s \in Spenders, Spend(s), NEW p \in Procs
        PROVE  Accounted(p)'
    <2>1. CASE Home[s] = p
      BY <1>1, <1>4, <2>1, ThreadAccounts
    <2>2. CASE Home[s] # p
      <3>1. \A r \in Of(p) : at'[r] = at[r] /\ budget'[r] = budget[r]
        <4>1. \A r \in Of(p) : r \in Spenders /\ r # s
          BY <2>2 DEF Of
        <4> QED BY <1>4, <4>1, OthersCallsStay
      <3>2. /\ engine'[p] = engine[p] /\ ledger'[p] = ledger[p] /\ phantom'[p] = phantom[p]
            /\ account'[p] = account[p] /\ forgotten'[p] = forgotten[p]
        <4>1. CASE PostAnswered(s) \/ PostUnheard(s)
          BY <1>3, <2>2, <4>1 DEF PostAnswered, PostUnheard, Accepted
        <4>2. CASE RecordSpend(s)
          BY <1>3, <2>2, <4>2 DEF RecordSpend
        <4>3. CASE UNCHANGED <<engine, money>>
          BY <4>3 DEF money
        <4> QED BY <1>4, <4>1, <4>2, <4>3
             DEF Spend, BeginLaunch, BeginRaise, CheckKill, RefusedForDrawdown, CheckCap,
                 PostRefused, PostFails, MarkLaunched
      <3> QED BY <1>1, <3>1, <3>2, AccountedFrame
    <2> QED BY <2>1, <2>2
  <1>5. ASSUME NEW q \in Procs, SwitchKill(q) \/ Expire(q) \/ CooldownEnds(q) \/ Ends(q),
               NEW p \in Procs
        PROVE  Accounted(p)'
    <2>1. CASE p = q
      BY <1>1, <1>5, <2>1, ProcessAccounts
    <2>2. CASE p # q
      <3>1. \A r \in Of(p) : at'[r] = at[r] /\ budget'[r] = budget[r]
        BY <1>3, <1>5, <2>2 DEF SwitchKill, Expire, CooldownEnds, Ends, call, Of
      <3>2. /\ engine'[p] = engine[p] /\ ledger'[p] = ledger[p] /\ phantom'[p] = phantom[p]
            /\ account'[p] = account[p] /\ forgotten'[p] = forgotten[p]
        BY <1>3, <1>5, <2>2 DEF SwitchKill, Expire, CooldownEnds, Ends, money
      <3> QED BY <1>1, <3>1, <3>2, AccountedFrame
    <2> QED BY <2>1, <2>2
  <1>6. ASSUME UNCHANGED spendVars, NEW p \in Procs
        PROVE  Accounted(p)'
    BY <1>1, <1>6, AccountedFrame DEF spendVars, call, money
  <1>7. \A p \in Procs : Accounted(p)'
    BY <1>4, <1>5, <1>6 DEF SpendMove
  <1> QED BY <1>2, <1>7 DEF MoneyInv

LEMMA MoneyInitial == Init => MoneyInv
  <1> SUFFICES ASSUME Init PROVE MoneyInv
    OBVIOUS
  <1>1. SpendInit
    BY DEF Init
  <1>2. budget \in [Spenders -> Nat]
    BY <1>1 DEF SpendInit
  <1>3. MoneyTyped
    <2>1. <<>> \in Seq(Nat)
      OBVIOUS
    <2> QED BY <1>1, <2>1, SpendAssumption DEF SpendInit, MoneyTyped
  <1>4. Proposed
    BY <1>1, MaxProposalIs DEF SpendInit, Proposed
  <1>5. ASSUME NEW p \in Procs
        PROVE  Accounted(p)
    <2>1. /\ engine[p].log = <<>> /\ engine[p].today = 0 /\ ledger[p] = <<>>
          /\ phantom[p] = 0 /\ account[p] = 0 /\ forgotten[p] = 0
          /\ \A s \in Of(p) : at[s] = "idle"
      BY <1>1 DEF SpendInit, NewEngine, Of
    <2>2. Books(engine[p].log, ledger[p], engine[p].today, phantom[p], 0)
      BY <2>1, BooksNew
    <2>3. OnTheWay(p, at, budget, 0, 0)
      BY <1>2, <2>1, IdleIsNothing
    <2>4. Of(p) # {} => engine[p].today + 0 <= Ceiling(p)
      BY <2>1, CeilingIsAmount
    <2>5. account[p] = forgotten[p] + 0 + 0
      BY <2>1
    <2> QED BY <2>2, <2>3, <2>4, <2>5 DEF Accounted
  <1> QED BY <1>3, <1>4, <1>5 DEF MoneyInv

\* The books of every process are in order in every reachable state.
THEOREM MoneyAlways == Spec => []MoneyInv
  <1>1. SpendInv /\ MoneyInv /\ [Next]_vars => MoneyInv'
    BY NextMovesSpend, MoneyKept DEF SpendInv
  <1> QED BY <1>1, MoneyInitial, SpendAlways, PTL DEF Spec

\* What MoneyInv says of one process.
LEMMA MoneyOf ==
  ASSUME SpendTyped, MoneyInv, NEW p \in Procs
  PROVE  \E l, r, n \in Nat :
           /\ phantom[p] \in Nat /\ forgotten[p] \in Nat /\ engine[p].today = l + phantom[p]
           /\ account[p] = forgotten[p] + l + r
           /\ Of(p) # {} => engine[p].today + n <= Ceiling(p)
           /\ OnTheWay(p, at, budget, r, n)
  <1>1. PICK l \in Nat, r \in Nat, n \in Nat :
          /\ Books(engine[p].log, ledger[p], engine[p].today, phantom[p], l)
          /\ OnTheWay(p, at, budget, r, n)
          /\ account[p] = forgotten[p] + l + r
          /\ Of(p) # {} => engine[p].today + n <= Ceiling(p)
    BY DEF MoneyInv, Accounted
  <1>2. engine[p].log \in Seq(Nat) /\ ledger[p] \in Seq(Nat) /\ forgotten[p] \in Nat
    BY DEF MoneyInv, MoneyTyped, SpendTyped, EngineRecords
  <1>3. /\ Gap(engine[p].log, ledger[p]) \in Seq(Nat)
        /\ AddsUpTo(Gap(engine[p].log, ledger[p]), phantom[p])
        /\ engine[p].today = l + phantom[p]
    BY <1>1, <1>2, GapTyped DEF Books
  <1>4. phantom[p] \in Nat
    BY <1>3, SumTyped
  <1> QED BY <1>1, <1>2, <1>3, <1>4

\* Accepted calls are among those on the way.
LEMMA AcceptedIsOnTheWay ==
  ASSUME NEW p, NEW a, NEW b \in [Spenders -> Nat], NEW r, NEW n, OnTheWay(p, a, b, r, n)
  PROVE  r \in Nat /\ n \in Nat /\ r <= n
  <1> DEFINE u == Amounts(p, a, b, {"record"})
             w == Amounts(p, a, b, Spending)
  <1>1. /\ u \in Seq(Nat) /\ Len(u) = Count(p)
        /\ \A i \in 1..Count(p) : u[i] = Amount(Threads(p)[i], a, b, {"record"})
    BY AmountsTyped
  <1>2. /\ w \in Seq(Nat) /\ Len(w) = Count(p)
        /\ \A i \in 1..Count(p) : w[i] = Amount(Threads(p)[i], a, b, Spending)
    BY AmountsTyped
  <1>3. \A s \in Of(p) : Amount(s, a, b, {"record"}) <= Amount(s, a, b, Spending)
    BY DEF Amount, Spending, Of
  <1>4. \A i \in 1..Count(p) : Threads(p)[i] \in Of(p)
    BY ThreadsAre
  <1>5. AddsUpTo(u, r) /\ AddsUpTo(w, n)
    BY DEF OnTheWay
  <1> HIDE DEF u, w
  <1>6. \A i \in 1..Len(u) : u[i] <= w[i]
    BY <1>1, <1>2, <1>3, <1>4
  <1>7. PICK t : Totals(u, t) /\ t[Len(u)] = r
    BY <1>5 DEF AddsUpTo
  <1>8. PICK v : Totals(w, v) /\ v[Len(w)] = n
    BY <1>5 DEF AddsUpTo
  <1>9. Len(u) \in 0..Len(u) /\ Len(u) = Len(w)
    BY <1>1, <1>2, ElementsAre
  <1>10. t[Len(u)] <= v[Len(u)]
    BY <1>1, <1>2, <1>6, <1>7, <1>8, <1>9, TotalsCompare
  <1>11. r \in Nat /\ n \in Nat
    BY <1>1, <1>2, <1>5, SumTyped
  <1> QED BY <1>7, <1>8, <1>9, <1>10, <1>11

\* For any number of processes and threads: the daily cap is passed by at most one
\* proposal for each thread but one.
THEOREM CapIsKept == Spec => []CapHolds
  <1>1. SpendInv /\ MoneyInv => CapHolds
    <2> SUFFICES ASSUME SpendTyped, MoneyInv, NEW p \in Procs, Of(p) # {}
                 PROVE  account[p] - forgotten[p]
                          <= MaxDailySpend + (Cardinality(Of(p)) - 1) * MaxProposal
      BY DEF SpendInv, CapHolds
    <2>1. PICK l \in Nat, r \in Nat, n \in Nat :
            /\ phantom[p] \in Nat /\ forgotten[p] \in Nat /\ engine[p].today = l + phantom[p]
            /\ account[p] = forgotten[p] + l + r
            /\ engine[p].today + n <= Ceiling(p)
            /\ OnTheWay(p, at, budget, r, n)
      BY MoneyOf
    <2>2. r <= n
      BY <2>1, AcceptedIsOnTheWay DEF SpendTyped, CallTyped
    <2>3. account[p] - forgotten[p] = l + r
      BY <2>1
    <2>4. l + r <= (l + phantom[p]) + n /\ (l + phantom[p]) + n <= Ceiling(p)
      BY <2>1, <2>2
    <2>5. l + r <= Ceiling(p)
      BY <2>1, <2>4, MaxProposalIs
    <2> QED BY <2>3, <2>5 DEF Ceiling
  <1> QED BY <1>1, SpendAlways, MoneyAlways, PTL

\* For any number of processes and threads: today_spend is what the platform
\* accepted, but for what its definition names.
THEOREM SpendIsReal == Spec => []TodaySpendIsReal
  <1>1. SpendInv /\ MoneyInv => TodaySpendIsReal
    <2> SUFFICES ASSUME SpendTyped, MoneyInv, NEW p \in Procs,
                        {s \in Of(p) : at[s] = "record"} = {}
                 PROVE  engine[p].today = account[p] - forgotten[p] + phantom[p]
      BY DEF SpendInv, TodaySpendIsReal
    <2>1. PICK l \in Nat, r \in Nat, n \in Nat :
            /\ phantom[p] \in Nat /\ forgotten[p] \in Nat /\ engine[p].today = l + phantom[p]
            /\ account[p] = forgotten[p] + l + r
            /\ OnTheWay(p, at, budget, r, n)
      BY MoneyOf
    <2> DEFINE u == Amounts(p, at, budget, {"record"})
    <2>2. /\ u \in Seq(Nat) /\ Len(u) = Count(p)
          /\ \A i \in 1..Count(p) : u[i] = Amount(Threads(p)[i], at, budget, {"record"})
      BY AmountsTyped DEF SpendTyped, CallTyped
    <2>3. \A s \in Of(p) : Amount(s, at, budget, {"record"}) = 0
      BY DEF Amount
    <2>4. \A i \in 1..Count(p) : Threads(p)[i] \in Of(p)
      BY ThreadsAre
    <2>5. AddsUpTo(u, r)
      BY <2>1 DEF OnTheWay
    <2> HIDE DEF u
    <2>6. \A i \in 1..Len(u) : u[i] = 0
      BY <2>2, <2>3, <2>4
    <2>7. r = 0
      BY <2>2, <2>5, <2>6, NothingAdds
    <2> QED BY <2>1, <2>7
  <1> QED BY <1>1, SpendAlways, MoneyAlways, PTL

\* Engines, calls, account, histories and the pair are typed: no expiry takes the sum
\* of a log, the account or its history below zero.
THEOREM DeploymentTyped == Spec => []TypeOK
  <1>1. SpendInv /\ MoneyInv /\ PairInv => TypeOK
    <2> SUFFICES ASSUME SpendInv, MoneyInv, PairInv PROVE TypeOK
      OBVIOUS
    <2>1. SpendTyped /\ deployed \in Deployments /\ TakeoverTypeOK
      BY DEF SpendInv, PairInv
    <2>2. ASSUME NEW p \in Procs
          PROVE  engine[p] \in Engines /\ account[p] \in Nat /\ phantom[p] \in Nat
      <3>1. PICK l \in Nat, r \in Nat :
              /\ phantom[p] \in Nat /\ forgotten[p] \in Nat /\ engine[p].today = l + phantom[p]
              /\ account[p] = forgotten[p] + l + r
        BY <2>1, MoneyOf
      <3>2. engine[p] \in EngineRecords /\ engine[p].today \in Nat
        BY <2>1, <3>1 DEF SpendTyped
      <3>3. engine[p] \in Engines
        BY <3>2 DEF EngineRecords, Engines
      <3> QED BY <3>1, <3>3
    <2>3. SpendTypeOK
      BY <2>1, <2>2 DEF SpendTypeOK, SpendTyped, CallTyped, HistoryTyped, MoneyInv, MoneyTyped
    <2> QED BY <2>1, <2>3 DEF TypeOK
  <1> QED BY <1>1, SpendAlways, MoneyAlways, PairAlways, PTL
=============================================================================
