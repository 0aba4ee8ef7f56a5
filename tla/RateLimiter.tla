----------------------------- MODULE RateLimiter -----------------------------
(***************************************************************************)
(* backend/integrations/rate_limiter.py: the sliding window of one service *)
(* (each service has its own), shared by concurrent callers of acquire.    *)
(*                                                                         *)
(* The deque holds, for every time stamp in it, how long it still counts;  *)
(* a caller holds what is left until its deadline.  Time is counted in     *)
(* units of the 0.25 s the loop sleeps at most.                            *)
(***************************************************************************)
EXTENDS Integers, Sequences, FiniteSetsExt

CONSTANTS Callers, MaxRequests, Window, Timeout

ASSUME LimiterAssumption ==
  MaxRequests \in Nat \ {0} /\ Window \in Nat \ {0} /\ Timeout \in Nat

VARIABLES
  queue,         \* _windows[service]
  pc,            \* per caller: "idle", "try", "full" (the lock is released), "sleep"
  deadlineLeft,  \* per caller: deadline - time.time(), 0 once passed
  wait, nap,     \* per caller: q[0] + window - now as read, and the sleep under way
  granted        \* history: of every grant younger than Window, what is left until then

vars == <<queue, pc, deadlineLeft, wait, nap, granted>>

TypeOK ==
  /\ queue \in Seq(0..Window)
  /\ pc \in [Callers -> {"idle", "try", "full", "sleep"}]
  /\ deadlineLeft \in [Callers -> 0..Timeout]
  /\ wait \in [Callers -> 0..Window] /\ nap \in [Callers -> 0..1]
  /\ granted \in Seq(1..Window)

Acquire(c) ==
  /\ pc[c] = "idle"
  /\ pc' = [pc EXCEPT ![c] = "try"]
  /\ deadlineLeft' = [deadlineLeft EXCEPT ![c] = Timeout]
  /\ UNCHANGED <<queue, wait, nap, granted>>

\* s from its first element above n on.
From(s, n) == SubSeq(s, Min({i \in DOMAIN s : s[i] > n} \cup {Len(s) + 1}), Len(s))

\* Mutation: a stamp is dropped one unit before it leaves the window.
PurgedEarly(q) == From(q, 1)

\* popleft while q[0] <= now - window.
Purged(q) == From(q, 0)

\* The critical section: a slot is taken, or the wait for the oldest is read.
TrySlot(c) ==
  LET q == Purged(queue)
  IN /\ pc[c] = "try"
     /\ IF Len(q) < MaxRequests
        THEN /\ queue' = Append(q, Window) /\ granted' = Append(granted, Window)
             /\ pc' = [pc EXCEPT ![c] = "idle"]
             /\ UNCHANGED wait
        ELSE /\ queue' = q
             /\ wait' = [wait EXCEPT ![c] = Head(q)]
             /\ pc' = [pc EXCEPT ![c] = "full"]
             /\ UNCHANGED granted
     /\ UNCHANGED <<deadlineLeft, nap>>

\* Mutation: the deadline is never looked at.
NeverTooLate(c) == FALSE

TooLate(c) == wait[c] > deadlineLeft[c]

\* Outside the lock: give up (acquire returns False) or sleep, at most one unit.
Refuse(c) ==
  /\ pc[c] = "full" /\ TooLate(c)
  /\ pc' = [pc EXCEPT ![c] = "idle"]
  /\ UNCHANGED <<queue, deadlineLeft, wait, nap, granted>>

\* Mutation: the whole wait is slept at once.
NapThrough(c) == wait[c]

NapFor(c) == IF wait[c] < 1 THEN wait[c] ELSE 1

Sleep(c) ==
  /\ pc[c] = "full" /\ ~TooLate(c)
  /\ pc' = [pc EXCEPT ![c] = "sleep"]
  /\ nap' = [nap EXCEPT ![c] = NapFor(c)]
  /\ UNCHANGED <<queue, deadlineLeft, wait, granted>>

Wake(c) ==
  /\ pc[c] = "sleep" /\ nap[c] = 0
  /\ pc' = [pc EXCEPT ![c] = "try"]
  /\ UNCHANGED <<queue, deadlineLeft, wait, nap, granted>>

Less(n) == IF n > 0 THEN n - 1 ELSE 0

Aged(s) == [i \in DOMAIN s |-> Less(s[i])]

Tick ==
  /\ queue' = Aged(queue)
  /\ deadlineLeft' = [c \in Callers |-> Less(deadlineLeft[c])]
  /\ nap' = [c \in Callers |-> Less(nap[c])]
  /\ granted' = From(Aged(granted), 0)
  /\ UNCHANGED <<pc, wait>>

Init ==
  /\ queue = <<>> /\ granted = <<>>
  /\ pc = [c \in Callers |-> "idle"]
  /\ deadlineLeft = [c \in Callers |-> 0]
  /\ wait = [c \in Callers |-> 0] /\ nap = [c \in Callers |-> 0]

Loop(c) == TrySlot(c) \/ Refuse(c) \/ Sleep(c) \/ Wake(c)

Next == Tick \/ \E c \in Callers : Acquire(c) \/ Loop(c)

Spec == Init /\ [][Next]_vars

\* The clock runs and a thread inside acquire is scheduled.
FairSpec == Spec /\ WF_vars(Tick) /\ \A c \in Callers : WF_vars(Loop(c))

(***************************************************************************)
(* Properties                                                              *)
(***************************************************************************)

\* acquire never grants more than MaxRequests slots in any interval of one window,
\* however many threads ask and whenever they wake.  What a caller does with its answer
\* is its own: meta_ads_client.py:87 posts on a refusal too, and up to three times.
WindowBound == Len(granted) <= MaxRequests

\* acquire returns: with every slot taken again and again by the other callers,
\* the deadline still ends the wait.
AcquireReturns == \A c \in Callers : pc[c] # "idle" ~> pc[c] = "idle"
=============================================================================
