------------------------ MODULE PlatformAdapterProofs ------------------------
(***************************************************************************)
(* Theorems about the circuit breaker and the rate mesh under concurrent   *)
(* callers, for every set of platforms and callers, every threshold, every *)
(* cooldown and every penalty.                                             *)
(*                                                                         *)
(* CircuitCountsFailures is inductive together with the type of the health *)
(* records; the mesh's variables do not matter to it.  PenaltyNeverCut     *)
(* needs that a window is never longer than the penalty of the platform's  *)
(* factor, which is an invariant of the mesh.                              *)
(***************************************************************************)
EXTENDS PlatformAdapter, TLAPS

\* What CircuitCountsFailures says of one health record.
Counts(h) ==
  /\ h.state \in {"failed", "recovering"} => h.failures = FailureThreshold
  /\ h.state = "healthy" => h.failures = 0

\* The records the breaker can be in.
Good(h) == h \in Health /\ Counts(h)

BreakerInv == BreakerTypeOK /\ \A p \in Platforms : Counts(health[p])

(***************************************************************************)
(* Each method of PlatformHealth keeps a good record good.                 *)
(***************************************************************************)

\* The ranges of the counters are not empty.
LEMMA Ranges ==
  /\ FailureThreshold \in Nat \ {0} /\ OpenCooldown \in Nat /\ RateLimitCooldown \in Nat
  /\ 0 \in 0..FailureThreshold /\ 0 \in 0..OpenCooldown /\ 0 \in 0..RateLimitCooldown
  /\ FailureThreshold \in 0..FailureThreshold
  /\ OpenCooldown \in 0..OpenCooldown /\ RateLimitCooldown \in 0..RateLimitCooldown
BY HealthAssumption

\* Counting stays within the threshold.
LEMMA OneMoreType ==
  ASSUME NEW n \in 0..FailureThreshold
  PROVE  /\ OneMore(n) \in 0..FailureThreshold
         /\ n = FailureThreshold => OneMore(n) = FailureThreshold
         /\ OneMore(n) >= FailureThreshold => OneMore(n) = FailureThreshold
BY Ranges DEF OneMore

LEMMA LessType ==
  ASSUME NEW m \in Nat, NEW n \in 0..m
  PROVE  Less(n) \in 0..m
BY DEF Less

\* A platform registered for the first time is healthy with nothing pending.
LEMMA NewHealthGood == Good(NewHealth)
BY Ranges DEF Good, Counts, NewHealth, Health, HealthStates

\* record_success closes the circuit and forgets the failures, from any state.
LEMMA RecordSuccessGood ==
  ASSUME NEW h, Good(h)
  PROVE  Good(RecordSuccess(h))
BY Ranges DEF Good, Counts, RecordSuccess, Health, HealthStates

\* A 429 leaves the count alone and neither opens nor closes the circuit.
LEMMA RecordRateLimitGood ==
  ASSUME NEW h, Good(h)
  PROVE  Good(RecordRateLimit(h))
BY Ranges DEF Good, Counts, RecordRateLimit, Health, HealthStates

\* record_failure opens the circuit only on a full count: in the half-open
\* state the count is full already.
LEMMA RecordFailureGood ==
  ASSUME NEW h, Good(h)
  PROVE  Good(RecordFailure(h))
<1> DEFINE counted == [h EXCEPT !.failures = OneMore(@)]
<1>1. h \in Health /\ counted \in Health /\ counted.state = h.state
  BY OneMoreType DEF Good, Health, HealthStates
<1>2. h.state = "recovering" => counted.failures = FailureThreshold
  BY OneMoreType DEF Good, Counts, Health
<1>3. CASE h.state = "recovering" \/ counted.failures >= FailureThreshold
  <2>1. counted.failures = FailureThreshold
    BY <1>1, <1>2, <1>3, OneMoreType DEF Health
  <2>2. RecordFailure(h) = OpenCircuit(counted)
    BY <1>3 DEF RecordFailure
  <2> QED
    BY <1>1, <2>1, <2>2, Ranges
    DEF Good, Counts, OpenCircuit, Health, HealthStates
<1>4. CASE ~(h.state = "recovering" \/ counted.failures >= FailureThreshold)
  <2>1. RecordFailure(h) = [counted EXCEPT !.state = "degraded"]
    BY <1>4 DEF RecordFailure
  <2> QED
    BY <1>1, <2>1 DEF Good, Counts, Health, HealthStates
<1> QED
  BY <1>3, <1>4

\* allow_request moves an open circuit to half open and a rate-limited platform
\* to degraded, and nothing else.
LEMMA AfterAllowGood ==
  ASSUME NEW h, Good(h)
  PROVE  Good(AfterAllow(h))
BY DEF Good, Counts, AfterAllow, Allowed, Health, HealthStates

\* Time only runs the cooldowns down.
LEMMA ElapseGood ==
  ASSUME NEW h, Good(h)
  PROVE  Good(Elapse(h))
<1>1. h \in Health /\ Less(h.openLeft) \in 0..OpenCooldown /\ Less(h.limitLeft) \in 0..RateLimitCooldown
  BY Ranges, LessType DEF Good, Health
<1> QED
  BY <1>1 DEF Good, Counts, Elapse, Health

(***************************************************************************)
(* The invariant.                                                          *)
(***************************************************************************)

\* Replacing one platform's record by a good one keeps the invariant.
LEMMA OneRecordChanges ==
  ASSUME BreakerInv, NEW p \in Platforms, NEW h, Good(h),
         health' = [health EXCEPT ![p] = h], at' \in [Callers -> Platforms]
  PROVE  BreakerInv'
BY DEF BreakerInv, BreakerTypeOK, Good

LEMMA BreakerInit == Init => BreakerInv
BY NewHealthGood DEF Init, BreakerInv, BreakerTypeOK, Good

LEMMA BreakerStep == BreakerInv /\ [Next]_vars => BreakerInv'
<1> SUFFICES ASSUME BreakerInv, [Next]_vars PROVE BreakerInv'
  OBVIOUS
<1>g. \A p \in Platforms : Good(health[p])
  BY DEF BreakerInv, BreakerTypeOK, Good
<1>a. \A c \in Callers : at[c] \in Platforms
  BY DEF BreakerInv, BreakerTypeOK
<1>t. at \in [Callers -> Platforms]
  BY DEF BreakerInv, BreakerTypeOK
<1>1. ASSUME NEW c \in Callers, NEW p \in Platforms, Gate(c, p) PROVE BreakerInv'
  <2>1. health' = [health EXCEPT ![p] = AfterAllow(health[p])] /\ at' = [at EXCEPT ![c] = p]
    BY <1>1, <1>g DEF Gate, BreakerInv, BreakerTypeOK
  <2>2. Good(AfterAllow(health[p]))
    BY <1>g, AfterAllowGood
  <2>3. at' \in [Callers -> Platforms]
    BY <1>t, <2>1
  <2> QED
    BY <2>1, <2>2, <2>3, OneRecordChanges
<1>2. ASSUME NEW c \in Callers, CallReturns(c) PROVE BreakerInv'
  BY <1>2, <1>g, <1>a, <1>t, RecordSuccessGood, OneRecordChanges DEF CallReturns
<1>3. ASSUME NEW c \in Callers, ThrottleRecorded(c) PROVE BreakerInv'
  BY <1>3, <1>g, <1>a, <1>t, RecordRateLimitGood, OneRecordChanges DEF ThrottleRecorded
<1>4. ASSUME NEW c \in Callers, CallFails(c) PROVE BreakerInv'
  BY <1>4, <1>g, <1>a, <1>t, RecordFailureGood, OneRecordChanges DEF CallFails
<1>5. ASSUME NEW p \in Platforms, Available(p) PROVE BreakerInv'
  BY <1>5, <1>g, <1>t, AfterAllowGood, OneRecordChanges DEF Available
<1>6. ASSUME Tick PROVE BreakerInv'
  BY <1>6, <1>g, <1>t, ElapseGood DEF Tick, BreakerInv, BreakerTypeOK, Good
<1>7. ASSUME UNCHANGED <<health, at>> PROVE BreakerInv'
  BY <1>7 DEF BreakerInv, BreakerTypeOK
<1>8. ASSUME NEW c \in Callers, Advance(c) PROVE BreakerInv'
  BY <1>8, <1>2, <1>3, <1>4, <1>7
  DEF Advance, MeshRefuses, MeshClears, WindowGrants, WindowRefuses, MeshSuccess, CallThrottled
<1>9. ASSUME NEW p \in Platforms, Cure(p) PROVE BreakerInv'
  BY <1>9, <1>7 DEF Cure
<1> QED
  BY <1>1, <1>5, <1>6, <1>7, <1>8, <1>9 DEF Next, vars

\* The records of the breaker keep their type in every behaviour.
THEOREM BreakerTyped == Spec => []BreakerTypeOK
<1>1. BreakerInv => BreakerTypeOK
  BY DEF BreakerInv
<1> QED
  BY <1>1, BreakerInit, BreakerStep, PTL DEF Spec

\* In every behaviour of any number of concurrent callers, the circuit is open or
\* half open only on FailureThreshold failures with no success between them.
THEOREM CircuitCounts == Spec => []CircuitCountsFailures
<1>1. BreakerInv => CircuitCountsFailures
  BY DEF BreakerInv, Counts, CircuitCountsFailures
<1> QED
  BY <1>1, BreakerInit, BreakerStep, PTL DEF Spec

(***************************************************************************)
(* The rate mesh.                                                          *)
(***************************************************************************)

\* A penalty window never outlasts the penalty its platform's factor stands for.
PenaltyInv == \A p \in Platforms : penaltyLeft[p] <= BasePenalty * penaltyFactor[p]

MeshInv == TypeOK /\ PenaltyInv

\* The bounds of the mesh are numbers and none is negative.
LEMMA MeshRanges ==
  /\ BasePenalty \in Nat /\ MaxPenalty \in Nat /\ GlobalBrake \in Nat /\ MaxFactor \in Nat \ {0}
  /\ 0 \in 0..MaxPenalty /\ 0 \in 0..MaxFactor /\ 0 \in 0..GlobalBrake
  /\ GlobalBrake \in 0..GlobalBrake
BY MeshAssumption

\* A throttle doubles a platform's factor up to its bound and never lowers it.
LEMMA DoubledGrows ==
  ASSUME NEW f \in 0..MaxFactor
  PROVE  Doubled(f) \in 0..MaxFactor /\ Doubled(f) >= f
BY MeshRanges DEF Doubled, Smaller

\* Multiplication by a penalty is monotone.
LEMMA TimesGrows ==
  ASSUME NEW b \in Nat, NEW f \in Nat, NEW g \in Nat, g >= f
  PROVE  b * f \in Nat /\ b * g \in Nat /\ b * g >= b * f
<1>1. PICK d \in Nat : g = f + d
  <2>1. g - f \in Nat /\ g = f + (g - f)
    OBVIOUS
  <2> QED
    BY <2>1
<1>2. b * (f + d) = b * f + b * d
  OBVIOUS
<1>3. b * f \in Nat /\ b * d \in Nat
  OBVIOUS
<1> QED
  BY <1>1, <1>2, <1>3

\* The penalty of a factor is within the cap and within the product, and it is at
\* least any window that both allow.
LEMMA PenaltyRange ==
  ASSUME NEW f \in Nat
  PROVE  /\ BasePenalty * f \in Nat
         /\ Penalty(f) \in 0..MaxPenalty /\ Penalty(f) <= BasePenalty * f
         /\ \A n \in 0..MaxPenalty : n <= BasePenalty * f => n <= Penalty(f)
<1>1. BasePenalty * f \in Nat
  BY MeshRanges, TimesGrows
<1> QED
  BY <1>1, MeshRanges DEF Penalty, Smaller

\* A caller moves along call() and changes nothing else.
LEMMA GotoTyped ==
  ASSUME pc \in [Callers -> Steps], NEW c \in Callers, NEW from, NEW to \in Steps, Goto(c, from, to)
  PROVE  pc' \in [Callers -> Steps]
BY DEF Goto

\* A 429 neither shortens the platform's window nor the brake.
LEMMA ThrottleLengthens ==
  ASSUME MeshInv, NEW c \in Callers, CallThrottled(c)
  PROVE  /\ penaltyFactor' \in [Platforms -> 0..MaxFactor]
         /\ penaltyLeft' \in [Platforms -> 0..MaxPenalty]
         /\ PenaltyInv'
         /\ \A p \in Platforms : penaltyLeft'[p] >= penaltyLeft[p]
<1>1. PICK q \in Platforms : q = at[c]
  BY DEF MeshInv, TypeOK, BreakerTypeOK
<1>2. /\ penaltyFactor \in [Platforms -> 0..MaxFactor] /\ penaltyLeft \in [Platforms -> 0..MaxPenalty]
      /\ penaltyLeft[q] <= BasePenalty * penaltyFactor[q]
  BY DEF MeshInv, TypeOK, PenaltyInv
<1>3. PICK g : g = Doubled(penaltyFactor[q])
  OBVIOUS
<1>4. g \in 0..MaxFactor /\ g >= penaltyFactor[q]
  BY <1>2, <1>3, DoubledGrows
<1>5. BasePenalty * g >= BasePenalty * penaltyFactor[q] /\ BasePenalty * penaltyFactor[q] \in Nat
  BY <1>2, <1>4, MeshRanges, TimesGrows
<1>6. PICK n : n = Penalty(g)
  OBVIOUS
<1>7. BasePenalty * g \in Nat /\ n \in 0..MaxPenalty /\ n <= BasePenalty * g
      /\ (penaltyLeft[q] <= BasePenalty * g => penaltyLeft[q] <= n)
  BY <1>2, <1>4, <1>6, PenaltyRange
<1>8. n >= penaltyLeft[q]
  BY <1>2, <1>5, <1>7
<1>9. penaltyFactor' = [penaltyFactor EXCEPT ![q] = g] /\ penaltyLeft' = [penaltyLeft EXCEPT ![q] = n]
  BY <1>1, <1>2, <1>3, <1>6 DEF CallThrottled
<1>10. ASSUME NEW p \in Platforms
       PROVE  penaltyLeft'[p] <= BasePenalty * penaltyFactor'[p] /\ penaltyLeft'[p] >= penaltyLeft[p]
  <2>1. CASE p = q
    BY <1>2, <1>7, <1>8, <1>9, <2>1
  <2>2. CASE p # q
    <3>1. penaltyLeft'[p] = penaltyLeft[p] /\ penaltyFactor'[p] = penaltyFactor[p]
      BY <1>2, <1>9, <2>2
    <3>2. penaltyLeft[p] <= BasePenalty * penaltyFactor[p] /\ penaltyLeft[p] \in Int
      BY <1>2 DEF MeshInv, PenaltyInv
    <3> QED
      BY <3>1, <3>2
  <2> QED
    BY <2>1, <2>2
<1> QED
  BY <1>2, <1>4, <1>7, <1>9, <1>10 DEF PenaltyInv

\* A clean call drops a penalty only when its window is over.
LEMMA SuccessKeepsWindows ==
  ASSUME MeshInv, NEW c \in Callers, MeshSuccess(c)
  PROVE  /\ penaltyFactor' \in [Platforms -> 0..MaxFactor]
         /\ penaltyLeft' = penaltyLeft
         /\ PenaltyInv'
<1>1. /\ penaltyFactor \in [Platforms -> 0..MaxFactor] /\ penaltyLeft \in [Platforms -> 0..MaxPenalty]
      /\ at[c] \in Platforms /\ PenaltyInv
  BY DEF MeshInv, TypeOK, BreakerTypeOK
<1>2. CASE ~Decayed(at[c])
  <2>1. penaltyFactor' = penaltyFactor /\ penaltyLeft' = penaltyLeft
    BY <1>2 DEF MeshSuccess
  <2> QED
    BY <1>1, <2>1 DEF PenaltyInv
<1>3. CASE Decayed(at[c])
  <2>1. penaltyFactor' = [penaltyFactor EXCEPT ![at[c]] = 0] /\ penaltyLeft' = [penaltyLeft EXCEPT ![at[c]] = 0]
    BY <1>3 DEF MeshSuccess
  <2>2. penaltyLeft[at[c]] = 0
    BY <1>3 DEF Decayed
  <2>3. penaltyLeft' = penaltyLeft
    BY <1>1, <2>1, <2>2
  <2>4. penaltyFactor' \in [Platforms -> 0..MaxFactor]
    BY <1>1, <2>1, MeshRanges
  <2>5. ASSUME NEW p \in Platforms
        PROVE  penaltyLeft'[p] <= BasePenalty * penaltyFactor'[p]
    <3>1. CASE p = at[c]
      <4>1. penaltyFactor'[p] = 0 /\ penaltyLeft'[p] = 0
        BY <1>1, <2>1, <3>1
      <4>2. BasePenalty * 0 = 0
        BY MeshRanges
      <4> QED
        BY <4>1, <4>2
    <3>2. CASE p # at[c]
      <4>1. penaltyFactor'[p] = penaltyFactor[p] /\ penaltyLeft'[p] = penaltyLeft[p]
        BY <1>1, <2>1, <3>2
      <4> QED
        BY <1>1, <4>1 DEF PenaltyInv
    <3> QED
      BY <3>1, <3>2
  <2> QED
    BY <2>3, <2>4, <2>5 DEF PenaltyInv
<1> QED
  BY <1>2, <1>3

\* Time shortens every window and never makes one negative.
LEMMA TickKeepsMesh ==
  ASSUME MeshInv, Tick
  PROVE  /\ penaltyLeft' \in [Platforms -> 0..MaxPenalty] /\ brakeLeft' \in 0..GlobalBrake
         /\ sleepLeft' \in [Callers -> 0..GlobalBrake]
         /\ PenaltyInv'
<1>1. /\ penaltyLeft \in [Platforms -> 0..MaxPenalty] /\ brakeLeft \in 0..GlobalBrake
      /\ sleepLeft \in [Callers -> 0..GlobalBrake] /\ penaltyFactor \in [Platforms -> 0..MaxFactor]
  BY DEF MeshInv, TypeOK
<1>2. penaltyLeft' \in [Platforms -> 0..MaxPenalty]
  BY <1>1, MeshRanges, LessType DEF Tick
<1>3. brakeLeft' \in 0..GlobalBrake /\ sleepLeft' \in [Callers -> 0..GlobalBrake]
  BY <1>1, MeshRanges, LessType DEF Tick
<1>4. ASSUME NEW p \in Platforms
      PROVE  penaltyLeft'[p] <= BasePenalty * penaltyFactor'[p]
  <2>1. penaltyFactor'[p] = penaltyFactor[p] /\ penaltyLeft'[p] = Less(penaltyLeft[p])
    BY DEF Tick
  <2>2. Less(penaltyLeft[p]) <= penaltyLeft[p] /\ Less(penaltyLeft[p]) \in Int /\ penaltyLeft[p] \in Int
    BY <1>1 DEF Less
  <2>3. BasePenalty * penaltyFactor[p] \in Nat
    BY <1>1, MeshRanges, TimesGrows
  <2>4. penaltyLeft[p] <= BasePenalty * penaltyFactor[p]
    BY DEF MeshInv, PenaltyInv
  <2> QED
    BY <2>1, <2>2, <2>3, <2>4
<1> QED
  BY <1>2, <1>3, <1>4 DEF PenaltyInv

\* Every step but the passing of time leaves the windows alone or lengthens them.
StepKeepsWindows ==
  /\ \A p \in Platforms : penaltyLeft'[p] >= penaltyLeft[p]
  /\ brakeLeft' >= brakeLeft

\* A step that leaves the windows and the brake alone.
LEMMA MeshAlone ==
  ASSUME MeshInv, UNCHANGED meshVars, BreakerTypeOK', pc' \in [Callers -> Steps],
         sleepLeft' \in [Callers -> 0..GlobalBrake], probing' \in [Callers -> BOOLEAN],
         cured' \subseteq Platforms
  PROVE  MeshInv' /\ StepKeepsWindows
<1>1. penaltyLeft' = penaltyLeft /\ penaltyFactor' = penaltyFactor /\ brakeLeft' = brakeLeft
  BY DEF meshVars
<1>2. TypeOK'
  BY <1>1 DEF MeshInv, TypeOK
<1>3. PenaltyInv'
  BY <1>1 DEF MeshInv, PenaltyInv
<1>4. \A p \in Platforms : penaltyLeft[p] \in Int
  BY DEF MeshInv, TypeOK
<1>5. brakeLeft \in Int
  BY DEF MeshInv, TypeOK
<1> QED
  BY <1>1, <1>2, <1>3, <1>4, <1>5 DEF MeshInv, StepKeepsWindows

LEMMA MeshInit == Init => MeshInv
<1> SUFFICES ASSUME Init
             PROVE  MeshInv
  OBVIOUS
<1>1. BreakerTypeOK
  BY BreakerInit DEF BreakerInv
<1>2. TypeOK
  BY <1>1, MeshRanges DEF Init, TypeOK, Steps
<1>3. \A p \in Platforms : penaltyLeft[p] = 0 /\ penaltyFactor[p] = 0
  BY DEF Init
<1>4. BasePenalty * 0 = 0
  BY MeshRanges
<1> QED
  BY <1>2, <1>3, <1>4 DEF MeshInv, PenaltyInv

LEMMA MeshStep ==
  ASSUME BreakerInv, MeshInv, [Next]_vars
  PROVE  MeshInv' /\ (Tick \/ StepKeepsWindows)
<1>b. BreakerTypeOK'
  BY BreakerStep DEF BreakerInv
<1>t. /\ pc \in [Callers -> Steps] /\ sleepLeft \in [Callers -> 0..GlobalBrake]
      /\ probing \in [Callers -> BOOLEAN] /\ cured \subseteq Platforms
      /\ \A p \in Platforms : penaltyLeft[p] \in Int
      /\ brakeLeft \in 0..GlobalBrake
  BY DEF MeshInv, TypeOK
<1>g. ASSUME NEW c \in Callers, NEW from, NEW to \in Steps, Goto(c, from, to)
      PROVE  pc' \in [Callers -> Steps]
  BY <1>t, <1>g, GotoTyped
<1>s. {"idle", "gated", "braking", "calling", "succeeded", "throttled"} = Steps
  BY DEF Steps
<1>1. ASSUME NEW c \in Callers, NEW p \in Platforms, Gate(c, p)
      PROVE  MeshInv' /\ StepKeepsWindows
  <2>1. pc' \in [Callers -> Steps]
    BY <1>1, <1>g, <1>s DEF Gate
  <2>2. probing' \in [Callers -> BOOLEAN]
    BY <1>1, <1>t DEF Gate
  <2>3. UNCHANGED <<meshVars, sleepLeft, cured>>
    BY <1>1 DEF Gate
  <2> QED
    BY <1>b, <1>t, <2>1, <2>2, <2>3, MeshAlone
<1>2. ASSUME NEW c \in Callers, MeshRefuses(c) \/ WindowGrants(c) \/ WindowRefuses(c)
                                \/ CallReturns(c) \/ ThrottleRecorded(c) \/ CallFails(c)
      PROVE  MeshInv' /\ StepKeepsWindows
  <2>1. pc' \in [Callers -> Steps]
    BY <1>2, <1>g, <1>s
    DEF MeshRefuses, WindowGrants, WindowRefuses, CallReturns, ThrottleRecorded, CallFails
  <2>2. UNCHANGED <<meshVars, sleepLeft, probing, cured>>
    BY <1>2 DEF MeshRefuses, WindowGrants, WindowRefuses, CallReturns, ThrottleRecorded, CallFails
  <2> QED
    BY <1>b, <1>t, <2>1, <2>2, MeshAlone
<1>3. ASSUME NEW c \in Callers, MeshClears(c)
      PROVE  MeshInv' /\ StepKeepsWindows
  <2>1. pc' \in [Callers -> Steps]
    BY <1>3, <1>g, <1>s DEF MeshClears
  <2>2. Smaller(brakeLeft, GlobalBrake) \in 0..GlobalBrake
    BY <1>t, MeshRanges DEF Smaller
  <2>3. sleepLeft' \in [Callers -> 0..GlobalBrake]
    BY <1>3, <1>t, <2>2 DEF MeshClears
  <2>4. UNCHANGED <<meshVars, probing, cured>>
    BY <1>3 DEF MeshClears
  <2> QED
    BY <1>b, <1>t, <2>1, <2>3, <2>4, MeshAlone
<1>4. ASSUME NEW c \in Callers, MeshSuccess(c)
      PROVE  MeshInv' /\ StepKeepsWindows
  <2>1. pc' \in [Callers -> Steps]
    BY <1>4, <1>g, <1>s DEF MeshSuccess
  <2>2. penaltyFactor' \in [Platforms -> 0..MaxFactor] /\ penaltyLeft' = penaltyLeft /\ PenaltyInv'
    BY <1>4, SuccessKeepsWindows
  <2>3. UNCHANGED <<brakeLeft, sleepLeft, probing, cured>>
    BY <1>4 DEF MeshSuccess
  <2>4. penaltyLeft' \in [Platforms -> 0..MaxPenalty]
    BY <2>2 DEF MeshInv, TypeOK
  <2>5. TypeOK'
    BY <1>b, <1>t, <2>1, <2>2, <2>3, <2>4 DEF TypeOK
  <2>6. StepKeepsWindows
    BY <1>t, <2>2, <2>3 DEF StepKeepsWindows
  <2> QED
    BY <2>2, <2>5, <2>6 DEF MeshInv
<1>5. ASSUME NEW c \in Callers, CallThrottled(c)
      PROVE  MeshInv' /\ StepKeepsWindows
  <2>1. pc' \in [Callers -> Steps]
    BY <1>5, <1>g, <1>s DEF CallThrottled
  <2>2. brakeLeft' = GlobalBrake /\ UNCHANGED <<sleepLeft, probing, cured>>
    BY <1>5 DEF CallThrottled
  <2>3. brakeLeft' \in 0..GlobalBrake /\ brakeLeft' >= brakeLeft
    BY <1>t, <2>2, MeshRanges
  <2>4. TypeOK'
    BY <1>b, <1>t, <1>5, <2>1, <2>2, <2>3, ThrottleLengthens DEF TypeOK
  <2> QED
    BY <1>5, <2>3, <2>4, ThrottleLengthens DEF MeshInv, StepKeepsWindows
<1>6. ASSUME NEW p \in Platforms, Available(p) \/ Cure(p)
      PROVE  MeshInv' /\ StepKeepsWindows
  <2>1. cured' \subseteq Platforms
    BY <1>6, <1>t DEF Available, Cure
  <2>2. UNCHANGED <<meshVars, pc, sleepLeft, probing>>
    BY <1>6 DEF Available, Cure
  <2> QED
    BY <1>b, <1>t, <2>1, <2>2, MeshAlone
<1>7. CASE Tick
  <2>1. TypeOK'
    <3>1. UNCHANGED <<penaltyFactor, pc, probing, cured>>
      BY <1>7 DEF Tick
    <3>2. penaltyFactor' \in [Platforms -> 0..MaxFactor]
      BY <3>1 DEF MeshInv, TypeOK
    <3> QED
      BY <1>b, <1>t, <1>7, <3>1, <3>2, TickKeepsMesh DEF TypeOK
  <2> QED
    BY <1>7, <2>1, TickKeepsMesh DEF MeshInv
<1>8. CASE UNCHANGED vars
  <2>1. UNCHANGED <<meshVars, pc, sleepLeft, probing, cured>>
    BY <1>8 DEF vars
  <2> QED
    BY <1>b, <1>t, <2>1, MeshAlone
<1>9. ASSUME NEW c \in Callers, Advance(c)
      PROVE  MeshInv' /\ StepKeepsWindows
  BY <1>2, <1>3, <1>4, <1>5, <1>9 DEF Advance
<1> QED
  BY <1>1, <1>6, <1>7, <1>8, <1>9 DEF Next

\* The breaker and the mesh together.
AdapterInv == BreakerInv /\ MeshInv

LEMMA AdapterAlways == Spec => []AdapterInv
<1>1. Init => AdapterInv
  BY BreakerInit, MeshInit DEF AdapterInv
<1>2. AdapterInv /\ [Next]_vars => AdapterInv'
  BY BreakerStep, MeshStep DEF AdapterInv
<1> QED
  BY <1>1, <1>2, PTL DEF Spec

\* Every variable of the adapter keeps its type, and a window is never longer than
\* the penalty its platform has earned.
THEOREM AdapterTyped == Spec => []TypeOK
<1>1. AdapterInv => TypeOK
  BY DEF AdapterInv, MeshInv
<1> QED
  BY <1>1, AdapterAlways, PTL

\* Whatever late successes and weaker throttles arrive, only time shortens a
\* penalty window or the brake.
THEOREM PenaltyIsNeverCut == Spec => PenaltyNeverCut
<1>1. AdapterInv /\ [Next]_vars =>
        [ \/ Tick
          \/ /\ \A p \in Platforms : penaltyLeft'[p] >= penaltyLeft[p]
             /\ brakeLeft' >= brakeLeft ]_vars
  BY MeshStep DEF AdapterInv, StepKeepsWindows
<1> QED
  BY <1>1, AdapterAlways, PTL DEF Spec, PenaltyNeverCut
=============================================================================
