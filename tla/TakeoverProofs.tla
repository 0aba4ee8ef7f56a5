-------------------------- MODULE TakeoverProofs --------------------------
(***************************************************************************)
(* Theorems about Deployment, for any processes, threads, amounts and      *)
(* intervals: the types of Takeover, and how silent a primary that is up   *)
(* has to be before it is taken over.                                      *)
(***************************************************************************)
EXTENDS Deployment, TLAPS

(* Heartbeats and takeover *)

\* What a step of the deployment does to the pair.
PairStep ==
  \/ \E n \in Nodes : Boot(n) \/ Tick(n) \/ Stop(n) \/ Crash(n)
  \/ TakeOver \/ Elapse \/ UNCHANGED takeoverVars

\* Every step of the deployment is a step of the pair or leaves it alone.
LEMMA NextMovesPair == [Next]_vars => PairStep
  BY DEF Next, SpendStep, RestartApi, NodeStep, EndNode, PairStep, vars

\* tick_count modulo the interval counts up and starts again.
LEMMA NextTickIs ==
  ASSUME NEW t \in 0..(CheckpointEvery - 1)
  PROVE  NextTick(t) = IF t + 1 = CheckpointEvery THEN 0 ELSE t + 1
  <1> CheckpointEvery \in Nat \ {0}
    BY TakeoverAssumption
  <1>1. CASE t + 1 = CheckpointEvery
    BY <1>1 DEF NextTick
  <1>2. CASE t + 1 # CheckpointEvery
    BY <1>2 DEF NextTick
  <1> QED BY <1>1, <1>2

LEMMA PairTyped ==
  ASSUME TakeoverTypeOK, PairStep
  PROVE  TakeoverTypeOK'
  <1> USE TakeoverAssumption DEF TakeoverTypeOK, Nodes, NoHeartbeat, MaxAge
  <1>1. ASSUME NEW n \in Nodes, NEW there \in {"down", "wait", "run"}, Enter(n, there),
               n = Primary => there # "wait"
        PROVE  /\ node' \in [Nodes -> {"down", "wait", "run"}] /\ node'[Primary] # "wait"
               /\ ticks' \in [Nodes -> 0..(CheckpointEvery - 1)]
               /\ slack' \in 0..TickMax /\ overrun' \in 0..MaxOverrun
    BY <1>1 DEF Enter, lateness
  <1>2. ASSUME NEW n \in Nodes, Boot(n)
        PROVE  TakeoverTypeOK'
    <2>1. CASE n = Standby
      <3>1. Enter(n, "wait")
        BY <1>2, <2>1 DEF Boot
      <3> QED BY <1>2, <2>1, <3>1, <1>1 DEF Boot
    <2>2. CASE n = Primary
      <3>1. Enter(n, "run")
        BY <1>2, <2>2 DEF Boot
      <3>2. missed' = 0 /\ pushed' = FALSE /\ age' = age
        BY <1>2, <2>2 DEF Boot
      <3>3. missed' \in 0..MaxMissed /\ age' \in NoHeartbeat..MaxAge
        BY <3>2
      <3>4. pushed' \in BOOLEAN
        BY <3>2
      <3> QED BY <3>1, <3>3, <3>4, <1>1
    <2> QED BY <2>1, <2>2
  <1>3. ASSUME NEW n \in Nodes, WriteCheckpoint(n)
        PROVE  age' \in NoHeartbeat..MaxAge /\ missed' \in 0..MaxMissed /\ pushed' \in BOOLEAN
    <2>1. CASE HeartbeatPut(n)
      <3>1. age' = 0 /\ (n = Primary => missed' = 0 /\ pushed') /\ (n # Primary => UNCHANGED <<missed, pushed>>)
        BY <2>1 DEF HeartbeatPut
      <3>2. pushed' \in BOOLEAN
        BY <3>1
      <3> QED BY <3>1, <3>2
    <2>2. CASE HeartbeatLost(n)
      <3>1. age' = age /\ pushed' = pushed
        BY <2>2 DEF HeartbeatLost
      <3>2. missed' \in 0..MaxMissed
        BY <2>2 DEF HeartbeatLost
      <3> QED BY <3>1, <3>2
    <2> QED BY <1>3, <2>1, <2>2 DEF WriteCheckpoint
  <1>4. ASSUME NEW n \in Nodes, Tick(n)
        PROVE  TakeoverTypeOK'
    <2>1. NextTick(ticks[n]) \in 0..(CheckpointEvery - 1)
      BY NextTickIs
    <2>2. /\ node' = node
          /\ ticks' = [ticks EXCEPT ![n] = NextTick(ticks[n])]
          /\ slack' = IF n = Primary THEN 0 ELSE slack
      BY <1>4 DEF Tick
    <2>3. age' \in NoHeartbeat..MaxAge /\ missed' \in 0..MaxMissed /\ pushed' \in BOOLEAN
      <3>1. CASE WriteCheckpoint(n)
        BY <1>3, <3>1
      <3>2. CASE UNCHANGED <<age, missed, pushed>>
        BY <3>2
      <3> QED BY <1>4, <3>1, <3>2 DEF Tick, WriteCheckpoint
    <2>4. overrun' \in 0..MaxOverrun
      BY <1>4 DEF Tick
    <2>5. slack' \in 0..TickMax
      BY <2>2
    <2> QED BY <2>1, <2>2, <2>3, <2>4, <2>5
  <1>5. ASSUME NEW n \in Nodes, Stop(n)
        PROVE  TakeoverTypeOK'
    BY <1>1, <1>3, <1>5 DEF Stop
  <1>6. ASSUME NEW n \in Nodes, Crash(n)
        PROVE  TakeoverTypeOK'
    BY <1>1, <1>6 DEF Crash
  <1>7. CASE TakeOver
    BY <1>1, <1>7 DEF TakeOver
  <1>8. CASE Elapse
    <2>1. age' \in NoHeartbeat..MaxAge
      BY <1>8 DEF Elapse
    <2>2. slack' \in 0..TickMax /\ overrun' \in 0..MaxOverrun
      BY <1>8 DEF Elapse
    <2> QED BY <1>8, <2>1, <2>2 DEF Elapse
  <1>9. CASE UNCHANGED takeoverVars
    BY <1>9 DEF takeoverVars, lateness
  <1> QED BY <1>2, <1>4, <1>5, <1>6, <1>7, <1>8, <1>9 DEF PairStep

\* Products of bounds, which the arithmetic below uses as they are.
LEMMA Times ==
  ASSUME NEW a \in Nat, NEW b \in Nat
  PROVE  a * b \in Nat /\ (a + 1) * b = a * b + b /\ 0 * b = 0
  <1>1. a * b \in Nat
    OBVIOUS
  <1>2. (a + 1) * b = a * b + b
    OBVIOUS
  <1>3. 0 * b = 0
    OBVIOUS
  <1> QED BY <1>1, <1>2, <1>3

LEMMA Reassociated ==
  ASSUME NEW a \in Nat, NEW b \in Nat, NEW c \in Nat
  PROVE  a * b * c = a * (b * c)
  OBVIOUS

LEMMA TimesGrows ==
  ASSUME NEW a \in Nat, NEW b \in Nat, NEW c \in Nat, a <= b
  PROVE  a * c <= b * c
  <1>1. PICK d \in Nat : b = a + d
    <2>1. b - a \in Nat /\ b = a + (b - a)
      OBVIOUS
    <2> QED BY <2>1
  <1>2. (a + d) * c = a * c + d * c
    OBVIOUS
  <1>3. a * c \in Nat /\ d * c \in Nat
    BY Times
  <1> QED BY <1>1, <1>2, <1>3

\* An age within the silence of m missed checkpoints (of t ticks, s more and an
\* overrun o), one step later: the same facts with the products as plain numbers.
LEMMA Bounds ==
  ASSUME NEW m \in Nat, NEW t \in Nat, NEW p \in Nat, NEW tm \in Nat, NEW s \in 0..tm,
         NEW o \in Nat, NEW a \in Int, a <= m + t + s + o
  PROVE  /\ t + tm <= p => a <= m + p + o
         /\ a <= m + (t + tm) + o
         /\ a + 1 <= m + t + (s + 1) + o /\ a <= m + t + (s + 1) + o
         /\ a + 1 <= m + t + s + (o + 1) /\ a <= m + t + s + (o + 1)
  OBVIOUS

\* Time between two checkpoints.
Period == CheckpointEvery * TickMax

LEMMA PeriodIs ==
  /\ Period \in Nat
  /\ \A t \in Nat : t + 1 = CheckpointEvery => t * TickMax + TickMax = Period
  <1>1. CheckpointEvery \in Nat /\ TickMax \in Nat
    BY TakeoverAssumption
  <1>2. Period \in Nat
    BY <1>1, Times DEF Period
  <1>3. ASSUME NEW t \in Nat, t + 1 = CheckpointEvery
        PROVE  t * TickMax + TickMax = Period
    <2>1. (t + 1) * TickMax = t * TickMax + TickMax
      BY <1>1, Times
    <2> QED BY <1>3, <2>1 DEF Period
  <1> QED BY <1>2, <1>3

LEMMA SilenceIs ==
  ASSUME NEW k \in Nat
  PROVE  Silence(k) = k * Period + Period
  <1>1. CheckpointEvery \in Nat /\ TickMax \in Nat
    BY TakeoverAssumption
  <1>2. (k + 1) * CheckpointEvery * TickMax = (k + 1) * (CheckpointEvery * TickMax)
    <2>1. k + 1 \in Nat
      OBVIOUS
    <2> QED BY <1>1, <2>1, Reassociated
  <1>3. (k + 1) * Period = k * Period + Period
    BY PeriodIs, Times
  <1> QED BY <1>2, <1>3 DEF Silence, Period

\* How old the heartbeat can be, given the heartbeats missed, the ticks since the
\* last checkpoint, the time since the last tick and the overrun.
Oldest == missed * Period + ticks[Primary] * TickMax + slack + overrun

HeardInv == Announced => age <= Oldest \/ overrun = MaxOverrun

PairInv == TakeoverTypeOK /\ HeardInv

LEMMA SumIsNat ==
  ASSUME NEW m \in Nat, NEW t \in Nat, NEW s \in Nat, NEW o \in Nat
  PROVE  /\ m * Period \in Nat /\ t * TickMax \in Nat
         /\ m * Period + t * TickMax + s + o \in Nat
  <1>1. m * Period \in Nat
    BY PeriodIs, Times
  <1>2. t * TickMax \in Nat
    BY TakeoverAssumption, Times
  <1> QED BY <1>1, <1>2

LEMMA HeardKept ==
  ASSUME PairInv, PairStep
  PROVE  HeardInv'
  <1>1. TakeoverTypeOK /\ HeardInv
    BY DEF PairInv
  <1>2. TakeoverTypeOK'
    BY <1>1, PairTyped
  <1>3. Oldest \in Nat /\ Oldest' \in Nat
    <2>1. missed \in Nat /\ ticks[Primary] \in Nat /\ slack \in Nat /\ overrun \in Nat
      BY <1>1, TakeoverAssumption DEF TakeoverTypeOK, Nodes
    <2>2. missed' \in Nat /\ ticks'[Primary] \in Nat /\ slack' \in Nat /\ overrun' \in Nat
      BY <1>2, TakeoverAssumption DEF TakeoverTypeOK, Nodes
    <2> QED BY <2>1, <2>2, SumIsNat DEF Oldest
  <1>4. SUFFICES ASSUME node'[Primary] = "run", pushed', overrun' # MaxOverrun
                 PROVE  age' <= Oldest'
    BY DEF HeardInv, Announced
  <1>5. age \in Int /\ missed \in Nat /\ ticks[Primary] \in Nat /\ slack \in 0..TickMax
        /\ overrun \in Nat /\ TickMax \in Nat /\ Period \in Nat
    BY <1>1, TakeoverAssumption, PeriodIs DEF TakeoverTypeOK, Nodes, NoHeartbeat, MaxAge
  <1>6. Primary \in Nodes /\ Standby \in Nodes /\ Primary # Standby
    BY TakeoverAssumption DEF Nodes
  <1>7. age' = 0 => age' <= Oldest'
    BY <1>3
  \* Steps that leave the primary's own counters as they are.
  <1>8. ASSUME node[Primary] = "run", pushed, age' = age \/ age' = 0, missed' = missed,
               ticks'[Primary] = ticks[Primary], slack' = slack, overrun' = overrun
        PROVE  age' <= Oldest'
    <2>1. Oldest' = Oldest
      BY <1>8 DEF Oldest
    <2> QED BY <1>1, <1>4, <1>7, <1>8, <2>1 DEF HeardInv, Announced
  <1>9. ASSUME NEW n \in Nodes, Boot(n)
        PROVE  age' <= Oldest'
    <2>1. n = Standby
      BY <1>4, <1>9, <1>6 DEF Boot, Nodes
    <2>2. node'[Primary] = node[Primary] /\ ticks'[Primary] = ticks[Primary]
          /\ slack' = slack /\ overrun' = overrun
      BY <1>1, <1>6, <1>9, <2>1 DEF Boot, Enter, TakeoverTypeOK, lateness
    <2>3. missed' = missed /\ pushed' = pushed /\ age' = age
      BY <1>6, <1>9, <2>1 DEF Boot
    <2> QED BY <1>4, <1>8, <2>2, <2>3
  <1>10. ASSUME NEW n \in Nodes, Tick(n)
         PROVE  age' <= Oldest'
    <2>1. CASE n = Primary
      <3>1. node[Primary] = "run" /\ slack' = 0
            /\ ticks'[Primary] = NextTick(ticks[Primary])
        BY <1>1, <1>6, <1>10, <2>1 DEF Tick, TakeoverTypeOK
      <3>2. ticks[Primary] \in 0..(CheckpointEvery - 1)
        BY <1>1, <1>6 DEF TakeoverTypeOK
      <3>3. CASE HeartbeatPut(Primary)
        BY <1>7, <3>3 DEF HeartbeatPut
      <3>4. CASE NextTick(ticks[Primary]) = 0 /\ HeartbeatLost(Primary) /\ UNCHANGED overrun
        <4>1. missed' = missed + 1 /\ age' = age /\ pushed' = pushed /\ overrun' = overrun
          BY <3>4 DEF HeartbeatLost
        <4>2. age <= Oldest
          BY <1>1, <1>4, <3>1, <4>1 DEF HeardInv, Announced
        <4>3. ticks[Primary] + 1 = CheckpointEvery
          <5>1. ticks[Primary] + 1 # 0
            BY <1>5
          <5> QED BY <3>2, <3>4, <5>1, NextTickIs
        <4>4. ticks[Primary] * TickMax + TickMax = Period
          BY <1>5, <4>3, PeriodIs
        <4>5. missed' * Period = missed * Period + Period
          BY <1>5, <4>1, Times
        <4>6. ticks'[Primary] * TickMax = 0
          BY <1>5, <3>1, <3>4, Times
        <4>7. missed * Period \in Nat /\ ticks[Primary] * TickMax \in Nat
          BY <1>5, SumIsNat
        <4>8. Oldest' = missed * Period + Period + overrun
          <5>1. Oldest' = missed' * Period + ticks'[Primary] * TickMax + slack' + overrun'
            BY DEF Oldest, Period
          <5>2. missed * Period + Period \in Nat
            BY <1>5, <4>7
          <5> QED BY <1>5, <3>1, <4>1, <4>5, <4>6, <5>1, <5>2
        <4>9. age <= missed * Period + ticks[Primary] * TickMax + slack + overrun
          BY <4>2 DEF Oldest
        <4>10. ticks[Primary] * TickMax + TickMax <= Period
          BY <1>5, <4>4
        <4>11. age <= missed * Period + Period + overrun
          BY <1>5, <4>7, <4>9, <4>10, Bounds
        <4> QED BY <4>1, <4>8, <4>11
      <3>5. CASE NextTick(ticks[Primary]) # 0 /\ UNCHANGED <<age, missed, overrun, pushed>>
        <4>1. NextTick(ticks[Primary]) = ticks[Primary] + 1
          BY <3>2, <3>5, NextTickIs
        <4>2. age <= Oldest
          BY <1>1, <1>4, <3>1, <3>5 DEF HeardInv, Announced
        <4>3. ticks'[Primary] * TickMax = ticks[Primary] * TickMax + TickMax
          BY <1>5, <3>1, <4>1, Times
        <4>4. missed * Period \in Nat /\ ticks[Primary] * TickMax \in Nat
          BY <1>5, SumIsNat
        <4>5. Oldest' = missed * Period + (ticks[Primary] * TickMax + TickMax) + overrun
          <5>1. Oldest' = missed' * Period + ticks'[Primary] * TickMax + slack' + overrun'
            BY DEF Oldest, Period
          <5>2. missed * Period + (ticks[Primary] * TickMax + TickMax) \in Nat
            BY <1>5, <4>4
          <5> QED BY <1>5, <3>1, <3>5, <4>3, <5>1, <5>2
        <4>6. age <= missed * Period + ticks[Primary] * TickMax + slack + overrun
          BY <4>2 DEF Oldest
        <4>7. age <= missed * Period + (ticks[Primary] * TickMax + TickMax) + overrun
          BY <1>5, <4>4, <4>6, Bounds
        <4> QED BY <3>5, <4>5, <4>7
      <3> QED BY <1>10, <2>1, <3>3, <3>4, <3>5 DEF Tick
    <2>2. CASE n = Standby
      <3>1. node'[Primary] = node[Primary] /\ ticks'[Primary] = ticks[Primary]
            /\ slack' = slack /\ overrun' = overrun
        BY <1>1, <1>6, <1>10, <2>2 DEF Tick, TakeoverTypeOK
      <3>2. (age' = age \/ age' = 0) /\ missed' = missed /\ pushed' = pushed
        BY <1>6, <1>10, <2>2 DEF Tick, HeartbeatPut, HeartbeatLost
      <3> QED BY <1>4, <1>8, <3>1, <3>2
    <2> QED BY <2>1, <2>2 DEF Nodes
  <1>11. ASSUME NEW n \in Nodes, Stop(n) \/ Crash(n)
         PROVE  age' <= Oldest'
    <2>1. Enter(n, "down")
      BY <1>11 DEF Stop, Crash
    <2>2. n = Standby
      BY <1>1, <1>4, <1>6, <2>1 DEF Enter, TakeoverTypeOK, Nodes
    <2>3. node'[Primary] = node[Primary] /\ ticks'[Primary] = ticks[Primary]
          /\ slack' = slack /\ overrun' = overrun
      BY <1>1, <1>6, <2>1, <2>2 DEF Enter, TakeoverTypeOK, lateness
    <2>4. (age' = age \/ age' = 0) /\ missed' = missed /\ pushed' = pushed
      BY <1>6, <1>11, <2>2 DEF Stop, Crash, WriteCheckpoint, HeartbeatPut, HeartbeatLost
    <2> QED BY <1>4, <1>8, <2>3, <2>4
  <1>12. CASE TakeOver
    <2>1. node'[Primary] = node[Primary] /\ ticks'[Primary] = ticks[Primary]
          /\ slack' = slack /\ overrun' = overrun
      BY <1>1, <1>6, <1>12 DEF TakeOver, Enter, TakeoverTypeOK, lateness
    <2> QED BY <1>4, <1>8, <1>12, <2>1 DEF TakeOver
  <1>13. CASE Elapse
    <2>1. node' = node /\ ticks' = ticks /\ missed' = missed /\ pushed' = pushed
      BY <1>13 DEF Elapse
    <2>2. Announced
      BY <1>4, <2>1 DEF Announced
    <2>3. /\ slack' = IF slack < TickMax THEN slack + 1 ELSE slack
          /\ overrun' = IF slack = TickMax /\ overrun < MaxOverrun THEN overrun + 1 ELSE overrun
      BY <1>13, <2>2 DEF Elapse
    <2>4. age' = age \/ age' = age + 1
      BY <1>13 DEF Elapse
    <2>5. overrun \in 0..MaxOverrun /\ MaxOverrun \in Nat
      BY <1>1, TakeoverAssumption DEF TakeoverTypeOK
    <2>6. overrun < MaxOverrun
      BY <1>4, <2>3, <2>5
    <2>7. age <= Oldest
      BY <1>1, <2>2, <2>5, <2>6 DEF HeardInv
    <2>8. missed * Period \in Nat /\ ticks[Primary] * TickMax \in Nat
      BY <1>5, SumIsNat
    <2>9. age <= missed * Period + ticks[Primary] * TickMax + slack + overrun
      BY <2>7 DEF Oldest
    <2>10. Oldest' = missed * Period + ticks[Primary] * TickMax + slack' + overrun'
      BY <2>1 DEF Oldest
    <2>11. CASE slack < TickMax
      <3>1. slack' = slack + 1 /\ overrun' = overrun
        BY <1>5, <2>3, <2>11
      <3>2. /\ age + 1 <= missed * Period + ticks[Primary] * TickMax + (slack + 1) + overrun
            /\ age <= missed * Period + ticks[Primary] * TickMax + (slack + 1) + overrun
        BY <1>5, <2>8, <2>9, Bounds
      <3> QED BY <2>4, <2>10, <3>1, <3>2
    <2>12. CASE slack = TickMax
      <3>1. slack' = slack /\ overrun' = overrun + 1
        BY <1>5, <2>3, <2>6, <2>12
      <3>2. /\ age + 1 <= missed * Period + ticks[Primary] * TickMax + slack + (overrun + 1)
            /\ age <= missed * Period + ticks[Primary] * TickMax + slack + (overrun + 1)
        BY <1>5, <2>8, <2>9, Bounds
      <3> QED BY <2>4, <2>10, <3>1, <3>2
    <2> QED BY <1>5, <2>11, <2>12
  <1>14. CASE UNCHANGED takeoverVars
    BY <1>4, <1>8, <1>14 DEF takeoverVars, lateness
  <1> QED BY <1>9, <1>10, <1>11, <1>12, <1>13, <1>14 DEF PairStep

\* A poll that finds the heartbeat overdue finds it no older than the silence of
\* the heartbeats missed and the overrun.
LEMMA TakenOverOnlyInSilence ==
  ASSUME PairInv, PairStep, Announced, node[Standby] = "wait", node'[Standby] = "run"
  PROVE  Silence(missed) + overrun + Skew >= TakeoverAfter
  <1>1. TakeoverTypeOK /\ HeardInv
    BY DEF PairInv
  <1>2. Primary \in Nodes /\ Standby \in Nodes /\ Primary # Standby
    BY TakeoverAssumption DEF Nodes
  <1>3. ASSUME NEW n \in Nodes, Boot(n) \/ Tick(n) \/ Stop(n) \/ Crash(n)
        PROVE  FALSE
    <2>1. n = Standby \/ node'[Standby] = node[Standby]
      BY <1>1, <1>2, <1>3 DEF Boot, Tick, Stop, Crash, Enter, TakeoverTypeOK
    <2>2. n # Standby
      BY <1>1, <1>2, <1>3 DEF Boot, Tick, Stop, Crash, Enter, TakeoverTypeOK
    <2> QED BY <2>1, <2>2
  <1>4. CASE TakeOver
    <2>1. (age <= Oldest \/ overrun = MaxOverrun) /\ age + Skew >= TakeoverAfter
      BY <1>1, <1>4 DEF HeardInv, TakeOver, Overdue
    <2>2. missed \in Nat /\ ticks[Primary] \in 0..(CheckpointEvery - 1) /\ slack \in 0..TickMax
          /\ overrun \in Nat /\ TickMax \in Nat /\ CheckpointEvery \in Nat \ {0} /\ Skew \in Nat /\ TakeoverAfter \in Nat
          /\ age \in Int
      BY <1>1, <1>2, TakeoverAssumption DEF TakeoverTypeOK, NoHeartbeat, MaxAge
    <2>3. ticks[Primary] * TickMax + TickMax <= Period
      <3>1. (CheckpointEvery - 1) * TickMax + TickMax = Period
        BY <2>2, PeriodIs
      <3>2. ticks[Primary] * TickMax <= (CheckpointEvery - 1) * TickMax
        <4>1. ticks[Primary] \in Nat /\ CheckpointEvery - 1 \in Nat
              /\ ticks[Primary] <= CheckpointEvery - 1
          BY <2>2
        <4> QED BY <2>2, <4>1, TimesGrows
      <3>3. ticks[Primary] * TickMax \in Nat /\ (CheckpointEvery - 1) * TickMax \in Nat
        BY <2>2, Times
      <3> QED BY <2>2, <3>1, <3>2, <3>3
    <2>4. missed * Period \in Nat /\ ticks[Primary] * TickMax \in Nat /\ Period \in Nat
      BY <2>2, SumIsNat, PeriodIs
    <2>5. Silence(missed) = missed * Period + Period
      BY <2>2, SilenceIs
    <2>6. Silence(missed) \in Nat
      BY <2>4, <2>5
    <2>7. CASE age <= Oldest
      <3>1. age <= missed * Period + ticks[Primary] * TickMax + slack + overrun
        BY <2>7 DEF Oldest
      <3>2. age <= missed * Period + Period + overrun
        BY <2>2, <2>3, <2>4, <3>1, Bounds
      <3>3. age <= Silence(missed) + overrun
        BY <2>5, <3>2
      <3> QED BY <2>1, <2>2, <2>6, <3>3
    <2>8. CASE overrun = MaxOverrun
      <3>1. Period + MaxOverrun + Skew >= TakeoverAfter
        BY OverrunAssumption DEF Period
      <3>2. Silence(missed) >= Period
        BY <2>4, <2>5
      <3>3. MaxOverrun \in Nat
        BY TakeoverAssumption
      <3> QED BY <2>2, <2>4, <2>6, <2>8, <3>1, <3>2, <3>3
    <2> QED BY <2>1, <2>7, <2>8
  <1>5. CASE Elapse \/ UNCHANGED takeoverVars
    BY <1>5 DEF Elapse, takeoverVars
  <1> QED BY <1>3, <1>4, <1>5 DEF PairStep

LEMMA PairInitial == Init => PairInv
  <1> SUFFICES ASSUME Init
               PROVE  PairInv
    OBVIOUS
  <1>1. TakeoverInit
    BY DEF Init
  <1>2. TakeoverTypeOK
    <2>1. pushed \in BOOLEAN
      BY <1>1 DEF TakeoverInit
    <2> QED BY <1>1, <2>1, TakeoverAssumption
          DEF TakeoverInit, TakeoverTypeOK, Nodes, NoHeartbeat, MaxAge
  <1>3. HeardInv
    BY <1>1 DEF TakeoverInit, HeardInv, Announced
  <1> QED BY <1>2, <1>3 DEF PairInv

LEMMA PairInductive == PairInv /\ [Next]_vars => PairInv'
  BY NextMovesPair, PairTyped, HeardKept DEF PairInv

\* The loops, the heartbeat and the standby keep their types, and the heartbeat of a
\* primary in its loop is no older than its missed checkpoints and slow ticks explain.
THEOREM PairAlways == Spec => []PairInv
  BY PairInitial, PairInductive, PTL DEF Spec

\* For any intervals, any number of lost heartbeats and ticks of any length: whoever is
\* taken over while up has lost heartbeats and time that make up the takeover interval
\* less the skew.
THEOREM HealthyStays == Spec => HealthyIsNotTakenOver
  <1>1. PairInv /\ [Next]_vars =>
          [ Announced /\ node[Standby] = "wait" /\ node'[Standby] = "run"
              => Silence(missed) + overrun + Skew >= TakeoverAfter ]_takeoverVars
    BY NextMovesPair, TakenOverOnlyInSilence
  <1> QED BY <1>1, PairAlways, PTL DEF Spec, HealthyIsNotTakenOver
=============================================================================
