--------------------------- MODULE PlatformAdapter ---------------------------
(***************************************************************************)
(* backend/orchestration/adapter.py and rate_mesh.py: concurrent callers   *)
(* whose requests to ad platforms pass the circuit breaker, the penalty    *)
(* window, the global brake and the sliding-window limiter, and whose      *)
(* outcomes feed the breaker and the mesh.                                 *)
(*                                                                         *)
(* The mesh's lock and the breaker's lock are different, so acquire,       *)
(* throttle and success are each several steps.  Deadlines (_penalty_until,*)
(* _global_brake_until) are kept as the time left until them.  The sliding *)
(* window is module RateLimiter; here it grants or refuses.                *)
(***************************************************************************)
EXTENDS PlatformHealth, FiniteSets

CONSTANTS Platforms, Callers,
          BasePenalty, MaxPenalty, GlobalBrake,
          MaxFactor,    \* bound on penaltyFactor: the penalty is at its cap there
          Outcomes,     \* what a platform's client may answer while it is troubled
          Curable       \* the platforms whose trouble may end

ASSUME MeshAssumption ==
  /\ BasePenalty \in Nat \ {0} /\ MaxPenalty \in Nat /\ GlobalBrake \in Nat
  /\ MaxFactor \in Nat \ {0} /\ BasePenalty * MaxFactor >= MaxPenalty
  /\ Outcomes \subseteq {"ok", "error", "throttled"} /\ Curable \subseteq Platforms

VARIABLES
  health,        \* health_registry: one PlatformHealth per platform
  penaltyLeft,   \* _penalty_until - now, 0 once passed
  penaltyFactor, \* 2^(_penalty_mult - 1); 0: the platform has no entry
  brakeLeft,     \* _global_brake_until - now
  pc, at,        \* per caller: where it is in call(), and the platform it calls
  sleepLeft,     \* per caller: what is left of the brake's sleep
  probing,       \* per caller: admitted while the circuit was half open
  cured          \* platforms that answer every request from now on

meshVars == <<penaltyLeft, penaltyFactor, brakeLeft>>
vars == <<health, meshVars, pc, at, sleepLeft, probing, cured>>

Steps == {"idle", "gated", "braking", "calling", "succeeded", "throttled"}

BreakerTypeOK ==
  /\ health \in [Platforms -> Health]
  /\ at \in [Callers -> Platforms]

TypeOK ==
  /\ BreakerTypeOK
  /\ penaltyLeft \in [Platforms -> 0..MaxPenalty]
  /\ penaltyFactor \in [Platforms -> 0..MaxFactor]
  /\ brakeLeft \in 0..GlobalBrake
  /\ pc \in [Callers -> Steps]
  /\ sleepLeft \in [Callers -> 0..GlobalBrake]
  /\ probing \in [Callers -> BOOLEAN]
  /\ cured \subseteq Platforms

Goto(c, from, to) == pc[c] = from /\ pc' = [pc EXCEPT ![c] = to]

Smaller(m, n) == IF m <= n THEN m ELSE n

(***************************************************************************)
(* rate_mesh.acquire, in its order.  A refusal raises RetryableError and   *)
(* the caller is idle again; one that changes no state is no step here.    *)
(***************************************************************************)

\* 1. allow_request(): an admission may half-open the circuit.
Gate(c, p) ==
  /\ Goto(c, "idle", "gated")
  /\ Allowed(health[p])
  /\ health' = [health EXCEPT ![p] = AfterAllow(@)]
  /\ at' = [at EXCEPT ![c] = p]
  /\ probing' = [probing EXCEPT ![c] = health'[p].state = "recovering"]
  /\ UNCHANGED <<meshVars, sleepLeft, cured>>

\* 2. refused within the penalty window; 3. otherwise sleep out the brake.
MeshRefuses(c) ==
  /\ Goto(c, "gated", "idle") /\ penaltyLeft[at[c]] > 0
  /\ UNCHANGED <<health, meshVars, at, sleepLeft, probing, cured>>

MeshClears(c) ==
  /\ Goto(c, "gated", "braking") /\ penaltyLeft[at[c]] = 0
  /\ sleepLeft' = [sleepLeft EXCEPT ![c] = Smaller(brakeLeft, GlobalBrake)]
  /\ UNCHANGED <<health, meshVars, at, probing, cured>>

\* 4. the sliding window grants a slot, or refuses at its timeout.
WindowGrants(c) ==
  /\ Goto(c, "braking", "calling") /\ sleepLeft[c] = 0
  /\ UNCHANGED <<health, meshVars, at, sleepLeft, probing, cured>>

WindowRefuses(c) ==
  /\ Goto(c, "braking", "idle") /\ sleepLeft[c] = 0
  /\ UNCHANGED <<health, meshVars, at, sleepLeft, probing, cured>>

(***************************************************************************)
(* The client returns or raises.                                           *)
(***************************************************************************)

Answer(c, outcome) == outcome \in IF at[c] \in cured THEN {"ok"} ELSE Outcomes

\* record_success, then mesh.success under its own lock.
CallReturns(c) ==
  /\ Goto(c, "calling", "succeeded") /\ Answer(c, "ok")
  /\ health' = [health EXCEPT ![at[c]] = RecordSuccess(@)]
  /\ UNCHANGED <<meshVars, at, sleepLeft, probing, cured>>

\* Mutation: a clean call ends a penalty window that is still running.
DecayedAtOnce(p) == penaltyFactor[p] > 0

\* mesh.success drops a penalty only once its window is over.
Decayed(p) == penaltyFactor[p] > 0 /\ penaltyLeft[p] = 0

MeshSuccess(c) ==
  LET p == at[c]
  IN /\ Goto(c, "succeeded", "idle")
     /\ penaltyFactor' = IF Decayed(p) THEN [penaltyFactor EXCEPT ![p] = 0] ELSE penaltyFactor
     /\ penaltyLeft' = IF Decayed(p) THEN [penaltyLeft EXCEPT ![p] = 0] ELSE penaltyLeft
     /\ UNCHANGED <<health, brakeLeft, at, sleepLeft, probing, cured>>

\* The factor one throttle later, and the penalty it stands for.
Doubled(f) == Smaller(IF f = 0 THEN 1 ELSE 2 * f, MaxFactor)

\* Mutation: the penalty is not capped.
PenaltyUncapped(f) == BasePenalty * f

Penalty(f) == Smaller(BasePenalty * f, MaxPenalty)

\* A 429: mesh.throttle doubles the penalty (capped) and sets the brake, then
\* records the failure in the breaker.
CallThrottled(c) ==
  LET p == at[c]
  IN /\ Goto(c, "calling", "throttled") /\ Answer(c, "throttled")
     /\ penaltyFactor' = [penaltyFactor EXCEPT ![p] = Doubled(@)]
     /\ penaltyLeft' = [penaltyLeft EXCEPT ![p] = Penalty(Doubled(penaltyFactor[p]))]
     /\ brakeLeft' = GlobalBrake
     /\ UNCHANGED <<health, at, sleepLeft, probing, cured>>

ThrottleRecorded(c) ==
  /\ Goto(c, "throttled", "idle")
  /\ health' = [health EXCEPT ![at[c]] = RecordRateLimit(@)]
  /\ UNCHANGED <<meshVars, at, sleepLeft, probing, cured>>

CallFails(c) ==
  /\ Goto(c, "calling", "idle") /\ Answer(c, "error")
  /\ health' = [health EXCEPT ![at[c]] = RecordFailure(@)]
  /\ UNCHANGED <<meshVars, at, sleepLeft, probing, cured>>

\* PlatformAdapter.available(), and the prepare gate of a launch transaction:
\* the question itself half-opens a cooled circuit.
Available(p) ==
  /\ health' = [health EXCEPT ![p] = AfterAllow(@)]
  /\ UNCHANGED <<meshVars, pc, at, sleepLeft, probing, cured>>

Tick ==
  /\ health' = [p \in Platforms |-> Elapse(health[p])]
  /\ penaltyLeft' = [p \in Platforms |-> Less(penaltyLeft[p])]
  /\ brakeLeft' = Less(brakeLeft)
  /\ sleepLeft' = [c \in Callers |-> Less(sleepLeft[c])]
  /\ UNCHANGED <<penaltyFactor, pc, at, probing, cured>>

\* The environment: platform p's trouble is over.
Cure(p) ==
  /\ p \in Curable \ cured
  /\ cured' = cured \cup {p}
  /\ UNCHANGED <<health, meshVars, pc, at, sleepLeft, probing>>

Init ==
  /\ health = [p \in Platforms |-> NewHealth]
  /\ penaltyLeft = [p \in Platforms |-> 0] /\ penaltyFactor = [p \in Platforms |-> 0]
  /\ brakeLeft = 0
  /\ pc = [c \in Callers |-> "idle"] /\ at \in [Callers -> Platforms]
  /\ sleepLeft = [c \in Callers |-> 0] /\ probing = [c \in Callers |-> FALSE]
  /\ cured = {}

Advance(c) ==
  \/ MeshRefuses(c) \/ MeshClears(c) \/ WindowGrants(c) \/ WindowRefuses(c)
  \/ CallReturns(c) \/ MeshSuccess(c)
  \/ CallThrottled(c) \/ ThrottleRecorded(c) \/ CallFails(c)

Next ==
  \/ \E c \in Callers, p \in Platforms : Gate(c, p)
  \/ \E c \in Callers : Advance(c)
  \/ \E p \in Platforms : Available(p) \/ Cure(p)
  \/ Tick

Spec == Init /\ [][Next]_vars

\* Time passes and an admitted call runs on to its end; the platform's window does not
\* refuse for ever.  That the platform is asked again and again is an assumption on the
\* callers: the breaker heals only when it is asked, and nothing in it asks.
Fairness ==
  /\ WF_vars(Tick)
  /\ \A c \in Callers : WF_vars(Advance(c))
  /\ \A c \in Callers, p \in Platforms : SF_vars(at[c] = p /\ WindowGrants(c))
  /\ \A p \in Platforms : SF_vars(\E c \in Callers : Gate(c, p))

FairSpec == Spec /\ Fairness

(***************************************************************************)
(* Properties                                                              *)
(***************************************************************************)

\* The circuit of a platform is open or half open only after FailureThreshold
\* failures with no success between them, and a healthy platform has none
\* pending, whatever the order in which concurrent outcomes are recorded.
CircuitCountsFailures ==
  \A p \in Platforms :
    /\ health[p].state \in {"failed", "recovering"} => health[p].failures = FailureThreshold
    /\ health[p].state = "healthy" => health[p].failures = 0

\* "RECOVERING: half-open, one probe request allowed".
OneProbe ==
  \A p \in Platforms : health[p].state = "recovering" =>
    Cardinality({c \in Callers : pc[c] = "calling" /\ at[c] = p /\ probing[c]}) <= 1

\* Only time shortens a penalty window or the global brake: no outcome that
\* arrives late (a success of an older call, a weaker throttle) cuts either.
PenaltyNeverCut ==
  [][ \/ Tick
      \/ /\ \A p \in Platforms : penaltyLeft'[p] >= penaltyLeft[p]
         /\ brakeLeft' >= brakeLeft ]_vars

\* A platform that works again is eventually healthy: no order of late failures,
\* throttles, refused probes and cooldowns wedges the breaker.
Recovers == \A p \in Platforms : p \in cured ~> health[p].state = "healthy"
=============================================================================
