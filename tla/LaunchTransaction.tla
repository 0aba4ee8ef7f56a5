-------------------------- MODULE LaunchTransaction --------------------------
(***************************************************************************)
(* backend/orchestration/transaction.py: LaunchTransaction.execute, its    *)
(* launch threads, the pause-compensation of an atomic launch, its journal *)
(* records, and the death of the process at any point.                     *)
(*                                                                         *)
(* Transactions are the calls of execute in one process.  A platform is    *)
(* known by what its campaign for the transaction does; a campaign's id is *)
(* the pair of transaction and platform.  The journal is the set of the    *)
(* records appended; how the log file can lose one is module EventStore.   *)
(***************************************************************************)
EXTENDS Naturals, FiniteSets

CONSTANTS Txs, AtomicTxs, Platforms,
          MayTimeOut,      \* a launcher may outlast t.join(timeout=120)
          MayLoseAnswer,   \* a launcher may fail after the campaign went live
          Unread,          \* the platforms whose client does not read a refusal (tiktok)
          MayFailPause,    \* a pauser may fail
          MaxCrashes,      \* bound on the deaths of the process
          NoTx

ASSUME TxAssumption ==
  /\ AtomicTxs \subseteq Txs /\ NoTx \notin Txs /\ Platforms # {} /\ MaxCrashes \in Nat
  /\ {MayTimeOut, MayLoseAnswer, MayFailPause} \subseteq BOOLEAN /\ Unread \subseteq Platforms

VARIABLES
  txLock,         \* _tx_lock: its holder
  pc,             \* pc[t]: where execute is
  healthy,        \* healthy[t]: the platforms that passed the gate
  thread,         \* thread[t][p]: where the launch thread is
  results,        \* results[t][p]: "none" until the thread stores "live" or "error"
  live, failed,   \* live[t], failed[t]: execute's two reads of results
  compensated,    \* compensated[t]: the campaigns _compensate reports paused
  tried,          \* tried[t]: the live campaigns whose pauser has answered
  unwritten,      \* unwritten[t]: the record of the last pauser, not yet appended
  refused,        \* history: the pauses the platform refused and the pauser did not see
  status,         \* status[t]: the TransactionResult's, "open" before it exists
  campaign,       \* campaign[t][p]: "none", "running" or "paused" on the platform
  journal,        \* the records appended to the event store
  crashes

pausing == <<compensated, tried, unwritten, refused>>
main == <<pc, healthy, live, failed, pausing, status>>
vars == <<txLock, main, thread, results, campaign, journal, crashes>>

Events == {"workflow_started", "prepare_failed", "prepare_completed",
           "launch_completed", "launch_failed", "compensated", "compensate_failed",
           "workflow_failed", "workflow_completed"}
Anywhere == Platforms \cup {NoTx}
Record(t, event, p) == [tx |-> t, event |-> event, at |-> p]
PauseRecords == {Record(t, e, p) : t \in Txs, e \in {"compensated", "compensate_failed"}, p \in Platforms}

TypeOK ==
  /\ txLock \in Txs \cup {NoTx}
  /\ pc \in [Txs -> {"new", "prepare", "gated", "join", "live", "failed", "settle", "done", "dead"}]
  /\ thread \in [Txs -> [Platforms -> {"off", "launching", "created", "returned", "ended"}]]
  /\ results \in [Txs -> [Platforms -> {"none", "live", "error"}]]
  /\ healthy \in [Txs -> SUBSET Platforms]
  /\ live \in [Txs -> SUBSET Platforms] /\ failed \in [Txs -> SUBSET Platforms]
  /\ compensated \in [Txs -> SUBSET Platforms] /\ tried \in [Txs -> SUBSET Platforms]
  /\ unwritten \in [Txs -> SUBSET PauseRecords] /\ refused \in [Txs -> SUBSET Platforms]
  /\ status \in [Txs -> {"open", "ok", "partial", "failed"}]
  /\ campaign \in [Txs -> [Platforms -> {"none", "running", "paused"}]]
  /\ journal \subseteq [tx : Txs, event : Events, at : Anywhere]
  /\ crashes \in 0..MaxCrashes

Goto(t, from, to) == pc[t] = from /\ pc' = [pc EXCEPT ![t] = to]

(***************************************************************************)
(* Prepare                                                                 *)
(***************************************************************************)

\* Mutation: the launches are not serialized.
NoLockAsked == TRUE

LockFree == txLock = NoTx

\* with _tx_lock: workflow_started.
Begin(t) ==
  /\ Goto(t, "new", "prepare")
  /\ LockFree /\ txLock' = t
  /\ journal' = journal \cup {Record(t, "workflow_started", NoTx)}
  /\ UNCHANGED <<healthy, live, failed, pausing, status, thread, results, campaign, crashes>>

SkipRecords(t, ok) == {Record(t, "prepare_failed", NoTx) : p \in Platforms \ ok}

\* The platforms ok pass the health gate; the others are on record as skipped.
PassGate(t, ok) ==
  /\ Goto(t, "prepare", "gated")
  /\ healthy' = [healthy EXCEPT ![t] = ok]
  /\ journal' = journal \cup SkipRecords(t, ok)
  /\ UNCHANGED <<txLock, live, failed, pausing, status, thread, results, campaign, crashes>>

GateFails(t) == healthy[t] = {} \/ (t \in AtomicTxs /\ healthy[t] # Platforms)

\* The gate left nothing to launch, or too little for an atomic launch.
PrepareFails(t) ==
  /\ Goto(t, "gated", "done") /\ GateFails(t)
  /\ status' = [status EXCEPT ![t] = "failed"]
  /\ txLock' = NoTx
  /\ journal' = journal \cup {Record(t, "workflow_failed", NoTx)}
  /\ UNCHANGED <<healthy, live, failed, pausing, thread, results, campaign, crashes>>

\* Budgets are allocated and a thread per healthy platform is started.
PrepareLaunches(t) ==
  /\ Goto(t, "gated", "join") /\ ~GateFails(t)
  /\ journal' = journal \cup {Record(t, "prepare_completed", NoTx)}
  /\ thread' = [thread EXCEPT ![t] =
                  [p \in Platforms |-> IF p \in healthy[t] THEN "launching" ELSE "off"]]
  /\ UNCHANGED <<txLock, healthy, live, failed, pausing, status, results, campaign, crashes>>

(***************************************************************************)
(* A launch thread                                                         *)
(***************************************************************************)

StepThread(t, p, from, to) ==
  thread[t][p] = from /\ thread' = [thread EXCEPT ![t][p] = to]

Store(t, p, r) == results' = [results EXCEPT ![t][p] = r]

\* The platform puts the campaign and its ads live.
PlatformCreates(t, p) ==
  /\ StepThread(t, p, "launching", "created")
  /\ campaign' = [campaign EXCEPT ![t][p] = "running"]
  /\ UNCHANGED <<txLock, main, results, journal, crashes>>

\* The launcher reports the campaign live.  A client that does not read the code in
\* the platform's answer reports a refused one live too, under a made-up id.
LauncherReturns(t, p) ==
  /\ \/ StepThread(t, p, "created", "returned")
     \/ p \in Unread /\ StepThread(t, p, "launching", "returned")
  /\ Store(t, p, "live")
  /\ UNCHANGED <<txLock, main, campaign, journal, crashes>>

\* The launcher raises or reports an error: nothing went live, or the platform's
\* answer was lost (the clients' safe_call turns that into an empty id).
LauncherErrs(t, p) ==
  /\ \/ StepThread(t, p, "launching", "returned")
     \/ MayLoseAnswer /\ StepThread(t, p, "created", "returned")
  /\ Store(t, p, "error")
  /\ UNCHANGED <<txLock, main, campaign, journal, crashes>>

EventOf(r) == IF r = "live" THEN "launch_completed" ELSE "launch_failed"

ThreadJournals(t, p) ==
  /\ StepThread(t, p, "returned", "ended")
  /\ journal' = journal \cup {Record(t, EventOf(results[t][p]), p)}
  /\ UNCHANGED <<txLock, main, results, campaign, crashes>>

(***************************************************************************)
(* Join and settle                                                         *)
(***************************************************************************)

Ended(t) == \A p \in healthy[t] : thread[t][p] = "ended"

\* Mutation: the threads are joined without a timeout.
NeverJoinsLate(t) == FALSE

JoinsLate(t) == MayTimeOut /\ ~Ended(t)

AllJoined(t) == Ended(t) \/ JoinsLate(t)

Join(t) ==
  /\ Goto(t, "join", "live") /\ AllJoined(t)
  /\ UNCHANGED <<txLock, healthy, live, failed, pausing, status, thread, results, campaign,
                 journal, crashes>>

Holding(t, r) == {p \in Platforms : results[t][p] = r}

\* results.values() is read for the live campaigns, then for the failed ones.
ReadLive(t) ==
  /\ Goto(t, "live", "failed")
  /\ live' = [live EXCEPT ![t] = Holding(t, "live")]
  /\ UNCHANGED <<txLock, healthy, failed, pausing, status, thread, results, campaign, journal,
                 crashes>>

ReadFailed(t) ==
  /\ Goto(t, "failed", "settle")
  /\ failed' = [failed EXCEPT ![t] = Holding(t, "error")]
  /\ UNCHANGED <<txLock, healthy, live, pausing, status, thread, results, campaign, journal,
                 crashes>>

RollsBack(t) == t \in AtomicTxs /\ failed[t] # {} /\ live[t] # {}

\* Mutation: _compensate is handed the failed results.
ToPauseFailed(t) == IF RollsBack(t) THEN failed[t] \ tried[t] ELSE {}

ToPause(t) == IF RollsBack(t) THEN live[t] \ tried[t] ELSE {}

\* A round of _compensate starts: the last one's record is written.
AskPauser(t, p) ==
  /\ pc[t] = "settle" /\ unwritten[t] = {} /\ p \in ToPause(t)
  /\ tried' = [tried EXCEPT ![t] = @ \cup {p}]
  /\ UNCHANGED <<txLock, pc, healthy, live, failed, status, thread, results, journal, crashes>>

PlatformPauses(t, p) ==
  campaign[t][p] = "running" /\ campaign' = [campaign EXCEPT ![t][p] = "paused"]

\* The pauser returns True: the campaign is paused, or the platform refused and its
\* answer was not looked at.
PauseSucceeds(t, p) ==
  /\ AskPauser(t, p)
  /\ \/ PlatformPauses(t, p) /\ UNCHANGED refused
     \/ /\ p \in Unread
        /\ refused' = [refused EXCEPT ![t] = @ \cup {p}] /\ UNCHANGED campaign
  /\ compensated' = [compensated EXCEPT ![t] = @ \cup {p}]
  /\ unwritten' = [unwritten EXCEPT ![t] = {Record(t, "compensated", p)}]

\* Mutation: the pauser's answer is not looked at.
FailedPauseRecordsTrusting(t, p) == {{Record(t, "compensated", p)}}

\* A pauser that raises is journaled, one that returns False is not.
FailedPauseRecords(t, p) == {{Record(t, "compensate_failed", p)}, {}}

\* The pauser fails; its answer may be lost after the campaign was paused.
PauseFails(t, p) ==
  /\ MayFailPause /\ AskPauser(t, p)
  /\ \E r \in FailedPauseRecords(t, p) : unwritten' = [unwritten EXCEPT ![t] = r]
  /\ PlatformPauses(t, p) \/ UNCHANGED campaign
  /\ UNCHANGED <<compensated, refused>>

JournalPause(t) ==
  /\ pc[t] = "settle" /\ unwritten[t] # {}
  /\ journal' = journal \cup unwritten[t]
  /\ unwritten' = [unwritten EXCEPT ![t] = {}]
  /\ UNCHANGED <<txLock, pc, healthy, live, failed, compensated, tried, refused, status, thread,
                 results, campaign, crashes>>

\* Mutations: the status words of launch_product; only failures among the launched platforms make
\* a launch partial.
VerdictOfProduct(t) == IF live[t] = {} THEN "error" ELSE "ok"

VerdictIgnoresSkipped(t) ==
  IF RollsBack(t) \/ live[t] = {} THEN "failed" ELSE IF failed[t] = {} THEN "ok" ELSE "partial"

Verdict(t) ==
  IF RollsBack(t) \/ live[t] = {} THEN "failed"
  ELSE IF failed[t] = {} /\ healthy[t] = Platforms THEN "ok" ELSE "partial"

\* Mutation: a partial launch is not given a terminal record.
TerminalUnlessPartial(v) ==
  CASE v = "failed" -> "workflow_failed" [] v = "ok" -> "workflow_completed"
    [] v = "partial" -> "launch_failed"

Terminal(v) == IF v = "failed" THEN "workflow_failed" ELSE "workflow_completed"

\* The terminal record, the result, and the lock is free.
Settle(t) ==
  /\ Goto(t, "settle", "done") /\ ToPause(t) = {} /\ unwritten[t] = {}
  /\ status' = [status EXCEPT ![t] = Verdict(t)]
  /\ journal' = journal \cup {Record(t, Terminal(Verdict(t)), NoTx)}
  /\ txLock' = NoTx
  /\ UNCHANGED <<healthy, live, failed, pausing, thread, results, campaign, crashes>>

(***************************************************************************)
(* The process dies and is started again: every thread is gone, what the   *)
(* journal and the platforms hold stays.                                   *)
(***************************************************************************)

InProgress(t) == pc[t] \notin {"new", "done", "dead"}

\* A local of execute, with those of the transactions in progress lost.
Lost(local) == [t \in Txs |-> IF InProgress(t) THEN {} ELSE local[t]]

Crash ==
  /\ crashes < MaxCrashes /\ crashes' = crashes + 1
  /\ pc' = [t \in Txs |-> IF InProgress(t) THEN "dead" ELSE pc[t]]
  /\ thread' = [t \in Txs |-> [p \in Platforms |-> "off"]]
  /\ results' = [t \in Txs |-> IF InProgress(t) THEN [p \in Platforms |-> "none"] ELSE results[t]]
  /\ healthy' = Lost(healthy) /\ live' = Lost(live) /\ failed' = Lost(failed)
  /\ compensated' = Lost(compensated) /\ tried' = Lost(tried) /\ unwritten' = Lost(unwritten)
  /\ txLock' = NoTx
  /\ UNCHANGED <<refused, status, campaign, journal>>

Init ==
  /\ txLock = NoTx /\ journal = {} /\ crashes = 0
  /\ pc = [t \in Txs |-> "new"] /\ status = [t \in Txs |-> "open"]
  /\ healthy = [t \in Txs |-> {}] /\ live = [t \in Txs |-> {}] /\ failed = [t \in Txs |-> {}]
  /\ compensated = [t \in Txs |-> {}] /\ tried = [t \in Txs |-> {}]
  /\ unwritten = [t \in Txs |-> {}] /\ refused = [t \in Txs |-> {}]
  /\ thread = [t \in Txs |-> [p \in Platforms |-> "off"]]
  /\ results = [t \in Txs |-> [p \in Platforms |-> "none"]]
  /\ campaign = [t \in Txs |-> [p \in Platforms |-> "none"]]

Launch(t, p) ==
  PlatformCreates(t, p) \/ LauncherReturns(t, p) \/ LauncherErrs(t, p) \/ ThreadJournals(t, p)

Execute(t) ==
  \/ Begin(t)
  \/ \E ok \in SUBSET Platforms : PassGate(t, ok)
  \/ PrepareFails(t) \/ PrepareLaunches(t)
  \/ Join(t) \/ ReadLive(t) \/ ReadFailed(t)
  \/ \E p \in Platforms : PauseSucceeds(t, p) \/ PauseFails(t, p)
  \/ JournalPause(t) \/ Settle(t)

Next ==
  \/ \E t \in Txs : Execute(t) \/ \E p \in Platforms : Launch(t, p)
  \/ Crash

Spec == Init /\ [][Next]_vars

\* The thread that called execute is scheduled; nothing is asked of a launcher,
\* which may hang in the platform's API for ever.
FairSpec == Spec /\ \A t \in Txs : WF_vars(Execute(t))

(***************************************************************************)
(* Properties                                                              *)
(***************************************************************************)

Running(t) == {p \in Platforms : campaign[t][p] = "running"}

\* The transaction's promise, with every launcher and pauser answering truly and
\* in time: the verdict is honest and nothing changes after it.
Promise == INSTANCE LaunchPromise
             WITH spending <- [t \in Txs |-> Running(t)], verdict <- status

KeepsPromise == Promise!Spec

InHand(t) == {p \in Platforms : thread[t][p] \in {"launching", "created"}}

\* Join gave up on the threads still at work: execute has returned without their answers.
LeftBehind(t) == pc[t] = "done" /\ InHand(t) \cap (live[t] \cup failed[t]) = {}

\* Platforms are called for two launches at a time only where join's timeout gave up
\* on a thread: one of the two has returned, without the answers it had not got.
OneAtATime ==
  \A t, u \in Txs :
    t # u /\ InHand(t) # {} /\ InHand(u) # {} => LeftBehind(t) \/ LeftBehind(u)

\* A failed atomic launch with live campaigns leaves none of them unattended: each has
\* stopped, or its pauser was called and failed, or was called and did not see the
\* platform's refusal.  A launch that is not rolled back has no campaign paused.
RollbackReachesAll ==
  \A t \in Txs : status[t] # "open" =>
    IF RollsBack(t)
    THEN /\ status[t] = "failed"
         /\ \A p \in live[t] :
              campaign[t][p] # "running" \/ p \in (tried[t] \ compensated[t]) \cup refused[t]
    ELSE \A p \in Platforms : campaign[t][p] # "paused"

\* "any platform failure pauses the campaigns that did go live": a settled atomic
\* launch runs everywhere or nowhere.
AtomicAllOrNothing ==
  \A t \in AtomicTxs : pc[t] = "done" => Running(t) \in {{}, Platforms}

Incomplete(t) ==
  /\ Record(t, "workflow_started", NoTx) \in journal
  /\ \A e \in {"workflow_failed", "workflow_completed"} : Record(t, e, NoTx) \notin journal

\* "a crash mid-launch is visible via incomplete_workflows()": every transaction
\* the crash cut short is incomplete, and every one that returned is not.
CrashVisible ==
  \A t \in Txs : (pc[t] = "dead" => Incomplete(t)) /\ (pc[t] = "done" => ~Incomplete(t))

\* A record of compensation means that the campaign does not spend, then and later,
\* unless the pauser took the platform's refusal for success.
CompensatedIsPaused ==
  \A t \in Txs, p \in Platforms :
    Record(t, "compensated", p) \in journal => campaign[t][p] # "running" \/ p \in refused[t]

\* A launcher that hangs for ever delays the callers behind it but blocks none:
\* every call of execute returns, unless its process dies.
EveryLaunchEnds == <>(\A t \in Txs : pc[t] \in {"done", "dead"})
=============================================================================
