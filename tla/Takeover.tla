------------------------------ MODULE Takeover ------------------------------
(***************************************************************************)
(* The primary orchestrator and its standby on another host:               *)
(* orchestrator/main.py (run, _write_checkpoint, _await_takeover) and      *)
(* backend/aws/heartbeat.py.  All they share is one object in S3, whose    *)
(* age the standby reads; nothing fences the primary.                      *)
(*                                                                         *)
(* A tick with its workers and its sleep is meant to take TickMax at most, *)
(* but nothing bounds one: workers run one after the other and call out.   *)
(* What the primary's ticks take beyond it is counted.                     *)
(***************************************************************************)
EXTENDS Integers

CONSTANTS
  Primary, Standby,
  CheckpointEvery,  \* CHECKPOINT_EVERY_N_TICKS
  TickMax,          \* how long a tick takes when nothing is slow
  TakeoverAfter,    \* AWS_TAKEOVER_AFTER_S
  Skew,             \* how far the standby's clock is ahead of S3's
  MaxMissed,        \* bound on heartbeats of the primary lost in a row
  MaxOverrun        \* how much of the time that ticks take too long is counted

ASSUME TakeoverAssumption ==
  /\ Primary # Standby
  /\ CheckpointEvery \in Nat \ {0} /\ TickMax \in Nat \ {0}
  /\ TakeoverAfter \in Nat \ {0} /\ Skew \in Nat /\ MaxMissed \in Nat /\ MaxOverrun \in Nat

\* With an overrun of that much the heartbeat may be overdue, whatever else happened.
ASSUME OverrunAssumption == CheckpointEvery * TickMax + MaxOverrun + Skew >= TakeoverAfter

Nodes == {Primary, Standby}

VARIABLES
  node,    \* "down", "wait" (in _await_takeover) or "run"
  age,     \* age of the heartbeat object, counted up to MaxAge; NoHeartbeat before it
  ticks,   \* tick_count % CHECKPOINT_EVERY_N_TICKS
  slack,   \* history: time since the primary's last tick began, up to TickMax,
  overrun, \*   and what its ticks took beyond TickMax since its last heartbeat,
           \*   up to MaxOverrun; both from its first heartbeat on
  missed,  \* history: heartbeats the primary failed to put since the last one it put
  pushed   \* history: the primary has put one since it started

lateness == <<slack, overrun>>

takeoverVars == <<node, age, ticks, lateness, missed, pushed>>

NoHeartbeat == -1
MaxAge == TakeoverAfter + 1

TakeoverTypeOK ==
  /\ node \in [Nodes -> {"down", "wait", "run"}] /\ node[Primary] # "wait"
  /\ age \in NoHeartbeat..MaxAge
  /\ ticks \in [Nodes -> 0..(CheckpointEvery - 1)]
  /\ slack \in 0..TickMax /\ overrun \in 0..MaxOverrun
  /\ missed \in 0..MaxMissed /\ pushed \in BOOLEAN

\* The node enters its loop with tick_count = 0, or begins to wait.
Enter(n, there) ==
  /\ node' = [node EXCEPT ![n] = there]
  /\ ticks' = [ticks EXCEPT ![n] = 0]
  /\ IF n = Primary THEN slack' = 0 /\ overrun' = 0 ELSE UNCHANGED lateness

Boot(n) ==
  /\ node[n] = "down"
  /\ Enter(n, IF n = Standby THEN "wait" ELSE "run")
  /\ IF n = Primary THEN missed' = 0 /\ pushed' = FALSE ELSE UNCHANGED <<missed, pushed>>
  /\ UNCHANGED age

\* Mutation: a poll must fall on the very second.
OverdueExactly == age + Skew = TakeoverAfter

\* heartbeat_age_s is None before the first heartbeat: "unknown", never "stale".
Overdue == age # NoHeartbeat /\ age + Skew >= TakeoverAfter

\* A poll that S3 answers; one it does not answer changes nothing.
TakeOver ==
  /\ node[Standby] = "wait" /\ Overdue
  /\ Enter(Standby, "run")
  /\ UNCHANGED <<age, missed, pushed>>

HeartbeatPut(n) ==
  /\ age' = 0
  /\ IF n = Primary THEN missed' = 0 /\ pushed' = TRUE ELSE UNCHANGED <<missed, pushed>>

\* The save raises, and the heartbeat with it, or S3 refuses the object.
HeartbeatLost(n) ==
  /\ IF n = Primary THEN missed < MaxMissed /\ missed' = missed + 1 ELSE UNCHANGED missed
  /\ UNCHANGED <<age, pushed>>

WriteCheckpoint(n) == HeartbeatPut(n) \/ HeartbeatLost(n)

\* Mutation: one tick too many between checkpoints.
NextTickLate(t) == IF t = CheckpointEvery THEN 0 ELSE t + 1

NextTick(t) == (t + 1) % CheckpointEvery

Tick(n) ==
  /\ node[n] = "run"
  /\ ticks' = [ticks EXCEPT ![n] = NextTick(@)]
  /\ slack' = IF n = Primary THEN 0 ELSE slack
  /\ \/ NextTick(ticks[n]) = 0 /\ HeartbeatPut(n)
        /\ overrun' = IF n = Primary THEN 0 ELSE overrun
     \/ NextTick(ticks[n]) = 0 /\ HeartbeatLost(n) /\ UNCHANGED overrun
     \/ NextTick(ticks[n]) # 0 /\ UNCHANGED <<age, missed, overrun, pushed>>
  /\ UNCHANGED node

\* SIGTERM: a last checkpoint after the loop; a waiting standby just returns.
Stop(n) ==
  /\ node[n] # "down"
  /\ Enter(n, "down")
  /\ IF node[n] = "run" THEN WriteCheckpoint(n) ELSE UNCHANGED <<age, missed, pushed>>

Crash(n) ==
  /\ node[n] # "down"
  /\ Enter(n, "down")
  /\ UNCHANGED <<age, missed, pushed>>

\* The primary is in its loop and was heard of.
Announced == node[Primary] = "run" /\ pushed

Elapse ==
  /\ age' = IF age \in {NoHeartbeat, MaxAge} THEN age ELSE age + 1
  /\ slack' = IF Announced /\ slack < TickMax THEN slack + 1 ELSE slack
  /\ overrun' = IF Announced /\ slack = TickMax /\ overrun < MaxOverrun
                THEN overrun + 1
                ELSE overrun
  /\ UNCHANGED <<node, ticks, missed, pushed>>

TakeoverInit ==
  /\ node = [n \in Nodes |-> "down"]
  /\ age = NoHeartbeat
  /\ ticks = [n \in Nodes |-> 0]
  /\ slack = 0 /\ overrun = 0 /\ missed = 0 /\ pushed = FALSE

----------------------------------------------------------------------------
(* Properties *)

\* The longest time between two heartbeats when k in a row are lost and no tick is slow.
Silence(k) == (k + 1) * CheckpointEvery * TickMax

\* Nothing tells the standby a slow primary from a dead one; this bounds how slow it
\* has to be.  The standby takes over from a primary that is up and has announced
\* itself only if the heartbeats it lost in a row and the time its ticks took too
\* long make up AWS_TAKEOVER_AFTER_S, on a clock Skew ahead.
HealthyIsNotTakenOver ==
  [][ Announced /\ node[Standby] = "wait" /\ node'[Standby] = "run"
        => Silence(missed) + overrun + Skew >= TakeoverAfter ]_takeoverVars

\* A primary that was heard of and stays down is replaced, whenever it went down
\* and whenever the polls fall.
StandbyTakesOver ==
  (age # NoHeartbeat /\ node[Primary] = "down" /\ node[Standby] = "wait")
    ~> (node[Standby] # "wait" \/ node[Primary] # "down")
=============================================================================
