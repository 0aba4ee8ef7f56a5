----------------------- MODULE LaunchTransactionProofs -----------------------
(***************************************************************************)
(* Theorems about LaunchTransaction, for every set of transactions and     *)
(* platforms.                                                              *)
(***************************************************************************)
EXTENDS LaunchTransaction, TLAPS

\* What is appended to the journal is a record.
LEMMA RecordType ==
  ASSUME NEW t \in Txs, NEW e \in Events, NEW p \in Anywhere
  PROVE  Record(t, e, p) \in [tx : Txs, event : Events, at : Anywhere]
BY DEF Record

\* Updating one entry of a function, or of a function of functions.
LEMMA Entry ==
  ASSUME NEW S, NEW T, NEW f \in [S -> T], NEW s \in S, NEW v \in T
  PROVE  [f EXCEPT ![s] = v] \in [S -> T]
OBVIOUS

LEMMA EntryOfEntry ==
  ASSUME NEW S, NEW R, NEW T, NEW f \in [S -> [R -> T]], NEW s \in S, NEW r \in R, NEW v \in T
  PROVE  [f EXCEPT ![s][r] = v] \in [S -> [R -> T]]
OBVIOUS

\* The events chosen by a status are events.
LEMMA EventTypes ==
  /\ \A v : Terminal(v) \in Events
  /\ \A r : EventOf(r) \in Events
  /\ NoTx \in Anywhere /\ \A p \in Platforms : p \in Anywhere
BY DEF Anywhere, Terminal, EventOf, Events

LEMMA VerdictType == \A t : Verdict(t) \in {"ok", "partial", "failed"}
BY DEF Verdict

LEMMA TypeInit == Init => TypeOK
BY TxAssumption DEF Init, TypeOK

LEMMA TypeStep == TypeOK /\ [Next]_vars => TypeOK'
<1> SUFFICES ASSUME TypeOK, [Next]_vars PROVE TypeOK'
  OBVIOUS
<1> USE DEF TypeOK
<1>1. ASSUME NEW t \in Txs, Begin(t) PROVE TypeOK'
  <2>1. journal' \subseteq [tx : Txs, event : Events, at : Anywhere]
    BY <1>1, EventTypes, RecordType DEF Begin, Events
  <2> QED
    BY <1>1, <2>1 DEF Begin, Goto, pausing
<1>2. ASSUME NEW t \in Txs, NEW ok \in SUBSET Platforms, PassGate(t, ok) PROVE TypeOK'
  BY <1>2, EventTypes, RecordType DEF PassGate, Goto, Events, SkipRecords, pausing
<1>3. ASSUME NEW t \in Txs, PrepareFails(t) \/ PrepareLaunches(t) PROVE TypeOK'
  <2>1. journal' \subseteq [tx : Txs, event : Events, at : Anywhere]
    BY <1>3, EventTypes, RecordType DEF PrepareFails, PrepareLaunches, Events
  <2>2. thread' \in [Txs -> [Platforms -> {"off", "launching", "created", "returned", "ended"}]]
    <3>1. CASE PrepareFails(t)
      BY <3>1 DEF PrepareFails
    <3>2. CASE PrepareLaunches(t)
      BY <3>2 DEF PrepareLaunches
    <3> QED
      BY <1>3, <3>1, <3>2
  <2> QED
    BY <1>3, <2>1, <2>2 DEF PrepareFails, PrepareLaunches, Goto, pausing
<1>4. ASSUME NEW t \in Txs, Join(t) PROVE TypeOK'
  BY <1>4 DEF Join, Goto, pausing
<1>5. ASSUME NEW t \in Txs, ReadLive(t) PROVE TypeOK'
  BY <1>5 DEF ReadLive, Goto, Holding, pausing
<1>6. ASSUME NEW t \in Txs, ReadFailed(t) PROVE TypeOK'
  BY <1>6 DEF ReadFailed, Goto, Holding, pausing
<1>7. ASSUME NEW t \in Txs, NEW p \in Platforms, PauseSucceeds(t, p) \/ PauseFails(t, p) PROVE TypeOK'
  <2>1. campaign' \in [Txs -> [Platforms -> {"none", "running", "paused"}]]
    <3>1. CASE campaign' = campaign
      BY <3>1
    <3>2. CASE campaign' = [campaign EXCEPT ![t][p] = "paused"]
      BY <3>2, EntryOfEntry
    <3> QED
      BY <1>7, <3>1, <3>2 DEF PauseSucceeds, PauseFails, PlatformPauses
  <2>2. unwritten' \in [Txs -> SUBSET PauseRecords]
    <3>1. \A e \in {"compensated", "compensate_failed"} : {Record(t, e, p)} \in SUBSET PauseRecords
      BY DEF PauseRecords
    <3>2. \E R \in SUBSET PauseRecords : unwritten' = [unwritten EXCEPT ![t] = R]
      BY <1>7, <3>1 DEF PauseSucceeds, PauseFails, FailedPauseRecords
    <3> QED
      BY <3>2, Entry
  <2>3. UNCHANGED <<txLock, pc, healthy, live, failed, status, thread, results, journal, crashes>>
    BY <1>7 DEF PauseSucceeds, PauseFails, AskPauser
  <2>4. /\ tried' \in [Txs -> SUBSET Platforms]
        /\ compensated' \in [Txs -> SUBSET Platforms]
        /\ refused' \in [Txs -> SUBSET Platforms]
    <3>1. CASE PauseSucceeds(t, p)
      BY <3>1 DEF PauseSucceeds, AskPauser
    <3>2. CASE PauseFails(t, p)
      BY <3>2 DEF PauseFails, AskPauser
    <3> QED
      BY <1>7, <3>1, <3>2
  <2> QED
    BY <2>1, <2>2, <2>3, <2>4
<1>8. ASSUME NEW t \in Txs, JournalPause(t) PROVE TypeOK'
  <2>1. PauseRecords \subseteq [tx : Txs, event : Events, at : Anywhere]
    BY EventTypes, RecordType DEF PauseRecords, Events
  <2> QED
    BY <1>8, <2>1 DEF JournalPause
<1>9. ASSUME NEW t \in Txs, Settle(t) PROVE TypeOK'
  <2>1. status' \in [Txs -> {"open", "ok", "partial", "failed"}]
    BY <1>9, VerdictType, Entry DEF Settle
  <2>2. journal' \subseteq [tx : Txs, event : Events, at : Anywhere]
    BY <1>9, EventTypes, RecordType DEF Settle
  <2> QED
    BY <1>9, <2>1, <2>2 DEF Settle, Goto, pausing
<1>10. ASSUME NEW t \in Txs, NEW p \in Platforms, Launch(t, p) PROVE TypeOK'
  <2>1. thread' \in [Txs -> [Platforms -> {"off", "launching", "created", "returned", "ended"}]]
    <3>1. \E s \in {"created", "returned", "ended"} : thread' = [thread EXCEPT ![t][p] = s]
      BY <1>10
      DEF Launch, PlatformCreates, LauncherReturns, LauncherErrs, ThreadJournals, StepThread
    <3> QED
      BY <3>1, EntryOfEntry
  <2>2. results' \in [Txs -> [Platforms -> {"none", "live", "error"}]]
    <3>1. CASE UNCHANGED results
      BY <3>1
    <3>2. CASE results' = [results EXCEPT ![t][p] = "live"]
      BY <3>2, EntryOfEntry
    <3>3. CASE results' = [results EXCEPT ![t][p] = "error"]
      BY <3>3, EntryOfEntry
    <3> QED
      BY <1>10, <3>1, <3>2, <3>3
      DEF Launch, PlatformCreates, LauncherReturns, LauncherErrs, ThreadJournals, Store
  <2>3. campaign' \in [Txs -> [Platforms -> {"none", "running", "paused"}]]
    <3>1. CASE UNCHANGED campaign
      BY <3>1
    <3>2. CASE campaign' = [campaign EXCEPT ![t][p] = "running"]
      BY <3>2, EntryOfEntry
    <3> QED
      BY <1>10, <3>1, <3>2
      DEF Launch, PlatformCreates, LauncherReturns, LauncherErrs, ThreadJournals
  <2>4. journal' \subseteq [tx : Txs, event : Events, at : Anywhere]
    <3>1. journal' = journal \/ journal' = journal \cup {Record(t, EventOf(results[t][p]), p)}
      BY <1>10 DEF Launch, PlatformCreates, LauncherReturns, LauncherErrs, ThreadJournals
    <3> QED
      BY <3>1, EventTypes, RecordType
  <2>5. UNCHANGED <<txLock, main, crashes>>
    BY <1>10 DEF Launch, PlatformCreates, LauncherReturns, LauncherErrs, ThreadJournals
  <2> QED
    BY <2>1, <2>2, <2>3, <2>4, <2>5 DEF main, pausing
<1>11. ASSUME Crash PROVE TypeOK'
  <2>1. /\ pc' \in [Txs -> {"new", "prepare", "gated", "join", "live", "failed", "settle", "done", "dead"}]
        /\ thread' \in [Txs -> [Platforms -> {"off", "launching", "created", "returned", "ended"}]]
    BY <1>11 DEF Crash
  <2>3. \A f \in [Txs -> SUBSET Platforms] : Lost(f) \in [Txs -> SUBSET Platforms]
    BY DEF Lost
  <2>4. Lost(unwritten) \in [Txs -> SUBSET PauseRecords]
    BY DEF Lost
  <2>5. results' \in [Txs -> [Platforms -> {"none", "live", "error"}]]
    BY <1>11 DEF Crash
  <2>2. crashes' \in 0..MaxCrashes
    BY <1>11, TxAssumption DEF Crash
  <2> QED
    BY <1>11, <2>1, <2>2, <2>3, <2>4, <2>5 DEF Crash
<1>12. ASSUME UNCHANGED vars PROVE TypeOK'
  BY <1>12 DEF vars, main, pausing
<1> QED
  BY <1>1, <1>2, <1>3, <1>4, <1>5, <1>6, <1>7, <1>8, <1>9, <1>10, <1>11, <1>12 DEF Next, Execute

\* Every variable keeps its type.
THEOREM Typed == Spec => []TypeOK
BY TypeInit, TypeStep, PTL DEF Spec

(***************************************************************************)
(* CrashVisible: what the journal says of a transaction follows execute.   *)
(***************************************************************************)

Begun(t) == Record(t, "workflow_started", NoTx) \in journal
Terminated(t) == \E e \in {"workflow_failed", "workflow_completed"} : Record(t, e, NoTx) \in journal

JournalInv == \A t \in Txs : (Begun(t) <=> pc[t] # "new") /\ (Terminated(t) <=> pc[t] = "done")

\* Records are equal when their parts are.
LEMMA RecordEqual ==
  ASSUME NEW t, NEW e, NEW p, NEW u, NEW f, NEW q
  PROVE  Record(t, e, p) = Record(u, f, q) <=> t = u /\ e = f /\ p = q
BY DEF Record

\* A step that moves execute elsewhere than to its end, and appends no record of
\* the start or the end, keeps JournalInv.
LEMMA JournalKept ==
  ASSUME TypeOK, JournalInv, NEW R, journal' = journal \cup R,
         \A t \in Txs, e \in {"workflow_started", "workflow_failed", "workflow_completed"} :
           Record(t, e, NoTx) \notin R,
         \A t \in Txs : (pc'[t] = "new" <=> pc[t] = "new") /\ (pc'[t] = "done" <=> pc[t] = "done")
  PROVE  JournalInv'
BY DEF JournalInv, Begun, Terminated

LEMMA JournalStep == TypeOK /\ JournalInv /\ [Next]_vars => JournalInv'
<1> SUFFICES ASSUME TypeOK, JournalInv, [Next]_vars PROVE JournalInv'
  OBVIOUS
<1>0. pc \in [Txs -> {"new", "prepare", "gated", "join", "live", "failed", "settle", "done", "dead"}]
  BY DEF TypeOK
<1>1. ASSUME NEW t \in Txs, Begin(t) PROVE JournalInv'
  BY <1>0, <1>1, RecordEqual DEF Begin, Goto, JournalInv, Begun, Terminated
<1>2. ASSUME NEW t \in Txs, NEW ok \in SUBSET Platforms, PassGate(t, ok) PROVE JournalInv'
  <2>1. \A u \in Txs, e \in {"workflow_started", "workflow_failed", "workflow_completed"} :
          Record(u, e, NoTx) \notin SkipRecords(t, ok)
    BY RecordEqual DEF SkipRecords
  <2> QED
    BY <1>0, <1>2, <2>1, JournalKept DEF PassGate, Goto
<1>3. ASSUME NEW t \in Txs, PrepareFails(t) \/ PrepareLaunches(t) PROVE JournalInv'
  BY <1>0, <1>3, RecordEqual
  DEF PrepareFails, PrepareLaunches, Goto, JournalInv, Begun, Terminated
<1>4. ASSUME NEW t \in Txs, Join(t) \/ ReadLive(t) \/ ReadFailed(t) PROVE JournalInv'
  BY <1>0, <1>4 DEF Join, ReadLive, ReadFailed, Goto, JournalInv, Begun, Terminated
<1>5. ASSUME NEW t \in Txs, NEW p \in Platforms, PauseSucceeds(t, p) \/ PauseFails(t, p)
      PROVE  JournalInv'
  BY <1>5 DEF PauseSucceeds, PauseFails, AskPauser, JournalInv, Begun, Terminated
<1>6. ASSUME NEW t \in Txs, JournalPause(t) PROVE JournalInv'
  <2>1. \A u \in Txs, e \in {"workflow_started", "workflow_failed", "workflow_completed"} :
          Record(u, e, NoTx) \notin PauseRecords
    BY RecordEqual DEF PauseRecords
  <2>2. unwritten[t] \subseteq PauseRecords
    BY DEF TypeOK
  <2> QED
    BY <1>0, <1>6, <2>1, <2>2, JournalKept DEF JournalPause
<1>7. ASSUME NEW t \in Txs, Settle(t) PROVE JournalInv'
  <2>1. Terminal(Verdict(t)) \in {"workflow_failed", "workflow_completed"}
    BY DEF Terminal
  <2> QED
    BY <1>0, <1>7, <2>1, RecordEqual DEF Settle, Goto, JournalInv, Begun, Terminated
<1>8. ASSUME NEW t \in Txs, NEW p \in Platforms, Launch(t, p) PROVE JournalInv'
  <2>1. pc' = pc
    BY <1>8 DEF Launch, PlatformCreates, LauncherReturns, LauncherErrs, ThreadJournals, main
  <2>2. CASE UNCHANGED journal
    BY <2>1, <2>2 DEF JournalInv, Begun, Terminated
  <2>3. CASE ThreadJournals(t, p)
    <3>1. \A u \in Txs, e \in {"workflow_started", "workflow_failed", "workflow_completed"} :
            Record(u, e, NoTx) \notin {Record(t, EventOf(results[t][p]), p)}
      BY RecordEqual DEF EventOf
    <3> QED
      BY <2>1, <2>3, <3>1, JournalKept DEF ThreadJournals
  <2> QED
    BY <1>8, <2>2, <2>3 DEF Launch, PlatformCreates, LauncherReturns, LauncherErrs
<1>9. ASSUME Crash PROVE JournalInv'
  BY <1>0, <1>9 DEF Crash, InProgress, JournalInv, Begun, Terminated
<1>10. ASSUME UNCHANGED vars PROVE JournalInv'
  BY <1>10 DEF vars, main, JournalInv, Begun, Terminated
<1> QED
  BY <1>1, <1>2, <1>3, <1>4, <1>5, <1>6, <1>7, <1>8, <1>9, <1>10 DEF Next, Execute

\* "a crash mid-launch is visible via incomplete_workflows()": the journal names
\* every transaction a crash cut short, and none that returned.
THEOREM CrashIsVisible == Spec => []CrashVisible
<1>1. Init => JournalInv
  BY DEF Init, JournalInv, Begun, Terminated
<1>2. JournalInv => CrashVisible
  BY DEF JournalInv, Begun, Terminated, CrashVisible, Incomplete
<1> QED
  BY <1>1, <1>2, Typed, JournalStep, PTL DEF Spec

(***************************************************************************)
(* CompensatedIsPaused: only PlatformCreates could set a campaign running  *)
(* again, and its thread has answered long before a pause is asked for,    *)
(* even when join gave up on the other threads.                            *)
(***************************************************************************)

\* Where a transaction's threads, answers and reads of the answers stand.
ReadAt(t, p) ==
  /\ pc[t] \in {"new", "prepare", "gated"} => thread[t][p] = "off" /\ results[t][p] = "none"
  /\ pc[t] = "dead" => thread[t][p] = "off"
  /\ pc[t] \in {"new", "prepare", "gated", "join", "live"} => p \notin live[t] /\ p \notin failed[t]
  /\ pc[t] \notin {"settle", "done", "dead"} => p \notin tried[t]
  /\ results[t][p] # "none" => thread[t][p] \notin {"launching", "created"}
  /\ p \in live[t] => results[t][p] = "live"
  /\ p \in failed[t] => results[t][p] = "error"
  /\ p \in tried[t] => p \in live[t]

ReadInv == \A t \in Txs, p \in Platforms : ReadAt(t, p)

LEMMA ReadStep == TypeOK /\ ReadInv /\ [Next]_vars => ReadInv'
<1> SUFFICES ASSUME TypeOK, ReadInv, [Next]_vars PROVE ReadInv'
  OBVIOUS
<1> USE DEF TypeOK, ReadInv, ReadAt, pausing
<1>1. ASSUME NEW t \in Txs, Begin(t) PROVE ReadInv'
  BY <1>1 DEF Begin, Goto
<1>2. ASSUME NEW t \in Txs, NEW ok \in SUBSET Platforms, PassGate(t, ok) PROVE ReadInv'
  BY <1>2 DEF PassGate, Goto
<1>3. ASSUME NEW t \in Txs, PrepareFails(t) PROVE ReadInv'
  BY <1>3 DEF PrepareFails, Goto
<1>4. ASSUME NEW t \in Txs, PrepareLaunches(t) PROVE ReadInv'
  BY <1>4 DEF PrepareLaunches, Goto
<1>5. ASSUME NEW t \in Txs, Join(t) PROVE ReadInv'
  BY <1>5 DEF Join, Goto
<1>6. ASSUME NEW t \in Txs, ReadLive(t) PROVE ReadInv'
  BY <1>6 DEF ReadLive, Goto, Holding
<1>7. ASSUME NEW t \in Txs, ReadFailed(t) PROVE ReadInv'
  BY <1>7 DEF ReadFailed, Goto, Holding
<1>8. ASSUME NEW t \in Txs, NEW p \in Platforms, PauseSucceeds(t, p) \/ PauseFails(t, p)
      PROVE  ReadInv'
  <2>1. p \in live[t] /\ pc[t] = "settle" /\ tried' = [tried EXCEPT ![t] = @ \cup {p}]
        /\ UNCHANGED <<pc, thread, results, live, failed>>
    BY <1>8 DEF PauseSucceeds, PauseFails, AskPauser, ToPause
  <2> QED
    BY <2>1
<1>9. ASSUME NEW t \in Txs, JournalPause(t) PROVE ReadInv'
  BY <1>9 DEF JournalPause
<1>10. ASSUME NEW t \in Txs, Settle(t) PROVE ReadInv'
  BY <1>10 DEF Settle, Goto
<1>11. ASSUME NEW t \in Txs, NEW p \in Platforms, Launch(t, p) PROVE ReadInv'
  <2>0. UNCHANGED <<pc, live, failed, tried>>
    BY <1>11 DEF Launch, PlatformCreates, LauncherReturns, LauncherErrs, ThreadJournals, main
  <2>1. CASE PlatformCreates(t, p)
    BY <2>0, <2>1 DEF PlatformCreates, StepThread
  <2>2. CASE LauncherReturns(t, p)
    BY <2>0, <2>2 DEF LauncherReturns, StepThread, Store
  <2>3. CASE LauncherErrs(t, p)
    BY <2>0, <2>3 DEF LauncherErrs, StepThread, Store
  <2>4. CASE ThreadJournals(t, p)
    BY <2>0, <2>4 DEF ThreadJournals, StepThread
  <2> QED
    BY <1>11, <2>1, <2>2, <2>3, <2>4 DEF Launch
<1>12. ASSUME Crash PROVE ReadInv'
  <2>1. ASSUME NEW t \in Txs, InProgress(t), NEW p \in Platforms
        PROVE  /\ pc'[t] = "dead" /\ thread'[t][p] = "off" /\ results'[t][p] = "none"
               /\ live'[t] = {} /\ failed'[t] = {} /\ tried'[t] = {}
    BY <1>12, <2>1 DEF Crash, Lost
  <2>2. ASSUME NEW t \in Txs, ~InProgress(t), NEW p \in Platforms
        PROVE  /\ pc'[t] = pc[t] /\ thread'[t][p] = "off" /\ results'[t] = results[t]
               /\ live'[t] = live[t] /\ failed'[t] = failed[t] /\ tried'[t] = tried[t]
    BY <1>12, <2>2 DEF Crash, Lost
  <2>3. ASSUME NEW t \in Txs, InProgress(t), NEW p \in Platforms
        PROVE  /\ p \notin live'[t] /\ p \notin failed'[t] /\ p \notin tried'[t]
               /\ thread'[t][p] = "off" /\ pc'[t] = "dead"
    BY <2>1, <2>3
  <2>4. ASSUME NEW t \in Txs, ~InProgress(t), NEW p \in Platforms
        PROVE  /\ pc[t] \in {"new", "prepare", "gated"} => results[t][p] = "none"
               /\ pc[t] \in {"new", "prepare", "gated", "join", "live"} =>
                    p \notin live[t] /\ p \notin failed[t]
               /\ pc[t] \notin {"settle", "done", "dead"} => p \notin tried[t]
               /\ p \in live[t] => results[t][p] = "live"
               /\ p \in failed[t] => results[t][p] = "error"
               /\ p \in tried[t] => p \in live[t]
    OBVIOUS
  <2> HIDE DEF TypeOK
  <2>5. ASSUME NEW t \in Txs, NEW p \in Platforms, ~InProgress(t)
        PROVE  ReadAt(t, p)'
    BY <2>2, <2>4, <2>5 DEF ReadAt
  <2>6. ASSUME NEW t \in Txs, NEW p \in Platforms, InProgress(t)
        PROVE  ReadAt(t, p)'
    BY <2>3, <2>6 DEF ReadAt
  <2> QED
    BY <2>5, <2>6 DEF ReadInv
<1>13. ASSUME UNCHANGED vars PROVE ReadInv'
  BY <1>13 DEF vars, main
<1> QED
  BY <1>1, <1>2, <1>3, <1>4, <1>5, <1>6, <1>7, <1>8, <1>9, <1>10, <1>11, <1>12, <1>13
  DEF Next, Execute

\* A record of compensation that is appended, or about to be.
OnRecord(t, p) ==
  Record(t, "compensated", p) \in journal \/ \E u \in Txs : Record(t, "compensated", p) \in unwritten[u]

PausedInv == \A t \in Txs, p \in Platforms : OnRecord(t, p) =>
  /\ p \in tried[t] \/ pc[t] = "dead"
  /\ campaign[t][p] # "running" \/ p \in refused[t]

\* A step that puts no compensation on record, takes no pauser's answer back and
\* starts no campaign that may be on record keeps PausedInv.
LEMMA PausedKept ==
  ASSUME PausedInv, NEW R, journal' = journal \cup R,
         \A u \in Txs : unwritten'[u] \subseteq unwritten[u],
         \A t \in Txs, p \in Platforms :
           /\ Record(t, "compensated", p) \notin R
           /\ p \in tried[t] \/ pc[t] = "dead" => p \in tried'[t] \/ pc'[t] = "dead"
           /\ p \in refused[t] => p \in refused'[t]
           /\ (p \in tried[t] \/ pc[t] = "dead") /\ campaign'[t][p] = "running"
                => campaign[t][p] = "running"
  PROVE  PausedInv'
BY DEF PausedInv, OnRecord

LEMMA PausedStep == TypeOK /\ ReadInv /\ PausedInv /\ [Next]_vars => PausedInv'
<1> SUFFICES ASSUME TypeOK, ReadInv, PausedInv, [Next]_vars PROVE PausedInv'
  OBVIOUS
<1>0. pc \in [Txs -> {"new", "prepare", "gated", "join", "live", "failed", "settle", "done", "dead"}]
  BY DEF TypeOK
<1>1. ASSUME NEW t \in Txs, Begin(t) PROVE PausedInv'
  <2>1. \A u \in Txs, q \in Platforms :
          Record(u, "compensated", q) \notin {Record(t, "workflow_started", NoTx)}
    BY RecordEqual
  <2> QED
    BY <1>0, <1>1, <2>1, PausedKept DEF Begin, Goto, pausing
<1>2. ASSUME NEW t \in Txs, NEW ok \in SUBSET Platforms, PassGate(t, ok) PROVE PausedInv'
  <2>1. \A u \in Txs, q \in Platforms : Record(u, "compensated", q) \notin SkipRecords(t, ok)
    BY RecordEqual DEF SkipRecords
  <2> QED
    BY <1>0, <1>2, <2>1, PausedKept DEF PassGate, Goto, pausing
<1>3. ASSUME NEW t \in Txs, PrepareFails(t) PROVE PausedInv'
  <2>1. \A u \in Txs, q \in Platforms :
          Record(u, "compensated", q) \notin {Record(t, "workflow_failed", NoTx)}
    BY RecordEqual
  <2> QED
    BY <1>0, <1>3, <2>1, PausedKept DEF PrepareFails, Goto, pausing
<1>4. ASSUME NEW t \in Txs, PrepareLaunches(t) PROVE PausedInv'
  <2>1. \A u \in Txs, q \in Platforms :
          Record(u, "compensated", q) \notin {Record(t, "prepare_completed", NoTx)}
    BY RecordEqual
  <2> QED
    BY <1>0, <1>4, <2>1, PausedKept DEF PrepareLaunches, Goto, pausing
<1>5. ASSUME NEW t \in Txs, Join(t) \/ ReadLive(t) \/ ReadFailed(t) PROVE PausedInv'
  <2>1. UNCHANGED <<journal, unwritten, tried, refused, campaign>>
    BY <1>5 DEF Join, ReadLive, ReadFailed, pausing
  <2>2. \A u \in Txs : pc[u] = "dead" => pc'[u] = "dead"
    BY <1>0, <1>5 DEF Join, ReadLive, ReadFailed, Goto
  <2> QED
    BY <2>1, <2>2 DEF PausedInv, OnRecord
<1>6. ASSUME NEW t \in Txs, NEW p \in Platforms, PauseSucceeds(t, p) PROVE PausedInv'
  <2> SUFFICES ASSUME NEW u \in Txs, NEW q \in Platforms, OnRecord(u, q)'
               PROVE  /\ q \in tried'[u] \/ pc'[u] = "dead"
                      /\ campaign'[u][q] # "running" \/ q \in refused'[u]
    BY DEF PausedInv
  <2>0. /\ journal' = journal /\ pc' = pc /\ tried' = [tried EXCEPT ![t] = @ \cup {p}]
        /\ unwritten' = [unwritten EXCEPT ![t] = {Record(t, "compensated", p)}]
    BY <1>6 DEF PauseSucceeds, AskPauser
  <2>1. CASE u = t /\ q = p
    BY <1>6, <2>0, <2>1 DEF PauseSucceeds, PlatformPauses, TypeOK
  <2>2. CASE ~(u = t /\ q = p)
    <3>1. OnRecord(u, q)
      BY <2>0, <2>2, RecordEqual DEF OnRecord, TypeOK
    <3>2. campaign'[u][q] = campaign[u][q] /\ refused[u] \subseteq refused'[u]
      BY <1>6, <2>2 DEF PauseSucceeds, PlatformPauses, TypeOK
    <3>3. tried[u] \subseteq tried'[u]
      BY <2>0 DEF TypeOK
    <3> QED
      BY <2>0, <3>1, <3>2, <3>3 DEF PausedInv
  <2> QED
    BY <2>1, <2>2
<1>7. ASSUME NEW t \in Txs, NEW p \in Platforms, PauseFails(t, p) PROVE PausedInv'
  <2> SUFFICES ASSUME NEW u \in Txs, NEW q \in Platforms, OnRecord(u, q)'
               PROVE  /\ q \in tried'[u] \/ pc'[u] = "dead"
                      /\ campaign'[u][q] # "running" \/ q \in refused'[u]
    BY DEF PausedInv
  <2>1. journal' = journal /\ pc' = pc /\ refused' = refused
        /\ tried' = [tried EXCEPT ![t] = @ \cup {p}]
    BY <1>7 DEF PauseFails, AskPauser
  <2>2. PICK R \in FailedPauseRecords(t, p) : unwritten' = [unwritten EXCEPT ![t] = R]
    BY <1>7 DEF PauseFails
  <2>3. Record(u, "compensated", q) \notin R
    BY RecordEqual DEF FailedPauseRecords
  <2>4. OnRecord(u, q)
    BY <2>1, <2>2, <2>3 DEF OnRecord, TypeOK
  <2>5. campaign'[u][q] = "running" => campaign[u][q] = "running"
    <3>1. campaign \in [Txs -> [Platforms -> {"none", "running", "paused"}]]
      BY DEF TypeOK
    <3>2. campaign' = campaign \/ campaign' = [campaign EXCEPT ![t][p] = "paused"]
      BY <1>7 DEF PauseFails, PlatformPauses
    <3> QED
      BY <3>1, <3>2
  <2>6. tried[u] \subseteq tried'[u]
    BY <2>1 DEF TypeOK
  <2> QED
    BY <2>1, <2>4, <2>5, <2>6 DEF PausedInv
<1>8. ASSUME NEW t \in Txs, JournalPause(t) PROVE PausedInv'
  <2>1. ASSUME NEW u \in Txs, NEW q \in Platforms, OnRecord(u, q)'
        PROVE  OnRecord(u, q)
    BY <1>8, <2>1 DEF JournalPause, OnRecord, TypeOK
  <2> QED
    BY <1>8, <2>1 DEF JournalPause, PausedInv
<1>9. ASSUME NEW t \in Txs, Settle(t) PROVE PausedInv'
  <2>1. \A u \in Txs, q \in Platforms :
          Record(u, "compensated", q) \notin {Record(t, Terminal(Verdict(t)), NoTx)}
    BY RecordEqual DEF Terminal
  <2> QED
    BY <1>0, <1>9, <2>1, PausedKept DEF Settle, Goto, pausing
<1>10. ASSUME NEW t \in Txs, NEW p \in Platforms, Launch(t, p) PROVE PausedInv'
  <2>0. UNCHANGED <<pc, tried, unwritten, refused>>
    BY <1>10
    DEF Launch, PlatformCreates, LauncherReturns, LauncherErrs, ThreadJournals, main, pausing
  <2>1. CASE PlatformCreates(t, p)
    <3>1. p \notin tried[t] /\ pc[t] # "dead"
      BY <2>1 DEF PlatformCreates, StepThread, ReadInv, ReadAt
    <3> QED
      BY <2>0, <2>1, <3>1 DEF PlatformCreates, PausedInv, OnRecord, TypeOK
  <2>2. CASE LauncherReturns(t, p) \/ LauncherErrs(t, p)
    BY <2>0, <2>2 DEF LauncherReturns, LauncherErrs, PausedInv, OnRecord
  <2>3. CASE ThreadJournals(t, p)
    <3>1. \A u \in Txs, q \in Platforms :
            Record(u, "compensated", q) \notin {Record(t, EventOf(results[t][p]), p)}
      BY RecordEqual DEF EventOf
    <3> QED
      BY <2>0, <2>3, <3>1, PausedKept DEF ThreadJournals
  <2> QED
    BY <1>10, <2>1, <2>2, <2>3 DEF Launch
<1>11. ASSUME Crash PROVE PausedInv'
  <2>1. \A u \in Txs : unwritten'[u] \subseteq unwritten[u]
    BY <1>11 DEF Crash, Lost
  <2>2. \A u \in Txs, q \in Platforms :
          q \in tried[u] \/ pc[u] = "dead" => q \in tried'[u] \/ pc'[u] = "dead"
    BY <1>11 DEF Crash, Lost, InProgress
  <2>3. UNCHANGED <<journal, refused, campaign>>
    BY <1>11 DEF Crash
  <2> QED
    BY <2>1, <2>2, <2>3 DEF PausedInv, OnRecord
<1>12. ASSUME UNCHANGED vars PROVE PausedInv'
  BY <1>12 DEF vars, main, pausing, PausedInv, OnRecord
<1> QED
  BY <1>1, <1>2, <1>3, <1>4, <1>5, <1>6, <1>7, <1>8, <1>9, <1>10, <1>11, <1>12 DEF Next, Execute

\* A campaign on record as compensated does not spend, then and later, with launchers
\* that outlast their join, lost answers, failing pausers and crashes, unless its
\* pauser took the platform's refusal for success.
THEOREM CompensatedStaysPaused == Spec => []CompensatedIsPaused
<1>1. Init => ReadInv /\ PausedInv
  BY DEF Init, ReadInv, ReadAt, PausedInv, OnRecord
<1>2. PausedInv => CompensatedIsPaused
  BY DEF PausedInv, OnRecord, CompensatedIsPaused
<1> QED
  BY <1>1, <1>2, Typed, ReadStep, PausedStep, PTL DEF Spec

(***************************************************************************)
(* RollbackReachesAll: a pauser is asked only by a launch that rolls back, *)
(* nothing else pauses a campaign, and a rollback ends when all live       *)
(* campaigns have been asked for.                                          *)
(***************************************************************************)

RollbackOf(t) ==
  /\ \A p \in Platforms : campaign[t][p] = "paused" => p \in tried[t] \/ pc[t] = "dead"
  /\ \A p \in compensated[t] :
       p \in Platforms /\ p \in tried[t] /\ (campaign[t][p] # "running" \/ p \in refused[t])
  /\ tried[t] # {} => RollsBack(t)
  /\ status[t] # "open" <=> pc[t] = "done"
  /\ pc[t] = "done" /\ RollsBack(t) => status[t] = "failed" /\ live[t] \subseteq tried[t]

RollbackInv == \A t \in Txs : RollbackOf(t)

\* A step that leaves a transaction's own results, campaigns and verdict alone,
\* and does not move it into or out of its end, keeps its part of the invariant.
LEMMA RollbackKept ==
  ASSUME NEW t \in Txs, RollbackOf(t),
         live'[t] = live[t], failed'[t] = failed[t], tried'[t] = tried[t],
         compensated'[t] = compensated[t], refused'[t] = refused[t], status'[t] = status[t],
         campaign'[t] = campaign[t],
         pc'[t] = "done" <=> pc[t] = "done", pc'[t] = "dead" <=> pc[t] = "dead"
  PROVE  RollbackOf(t)'
BY DEF RollbackOf, RollsBack

LEMMA RollbackStep == TypeOK /\ ReadInv /\ RollbackInv /\ [Next]_vars => RollbackInv'
<1> SUFFICES ASSUME TypeOK, ReadInv, RollbackInv, [Next]_vars, NEW u \in Txs
             PROVE  RollbackOf(u)'
  BY DEF RollbackInv
<1>0. RollbackOf(u)
  BY DEF RollbackInv
<1>p. pc \in [Txs -> {"new", "prepare", "gated", "join", "live", "failed", "settle", "done", "dead"}]
  BY DEF TypeOK
<1>1. ASSUME NEW t \in Txs, NEW ok \in SUBSET Platforms,
             Begin(t) \/ PassGate(t, ok) \/ PrepareLaunches(t) \/ Join(t)
      PROVE  RollbackOf(u)'
  <2>1. UNCHANGED <<live, failed, tried, compensated, refused, status, campaign>>
    BY <1>1 DEF Begin, PassGate, PrepareLaunches, Join, pausing
  <2>2. (pc'[u] = "done" <=> pc[u] = "done") /\ (pc'[u] = "dead" <=> pc[u] = "dead")
    BY <1>1, <1>p DEF Begin, PassGate, PrepareLaunches, Join, Goto
  <2> QED
    BY <1>0, <2>1, <2>2, RollbackKept
<1>3. ASSUME NEW t \in Txs, PrepareFails(t) PROVE RollbackOf(u)'
  <2>1. UNCHANGED <<live, failed, tried, compensated, refused, campaign>>
    BY <1>3 DEF PrepareFails, pausing
  <2>2. CASE u = t
    <3>1. live[u] = {} /\ pc[u] = "gated" /\ pc'[u] = "done" /\ status'[u] = "failed"
      BY <1>3, <1>p, <2>2 DEF PrepareFails, Goto, ReadInv, ReadAt, TypeOK
    <3> QED
      BY <1>0, <2>1, <3>1 DEF RollbackOf, RollsBack
  <2>3. CASE u # t
    <3>1. status'[u] = status[u] /\ pc'[u] = pc[u]
      BY <1>3, <1>p, <2>3 DEF PrepareFails, Goto, TypeOK
    <3> QED
      BY <1>0, <2>1, <3>1, RollbackKept
  <2> QED
    BY <2>2, <2>3
<1>4. ASSUME NEW t \in Txs, ReadLive(t) \/ ReadFailed(t) PROVE RollbackOf(u)'
  <2>1. UNCHANGED <<tried, compensated, refused, status, campaign>>
    BY <1>4 DEF ReadLive, ReadFailed, pausing
  <2>2. CASE u = t
    <3>1. pc[u] \in {"live", "failed"} /\ pc'[u] \in {"failed", "settle"}
      BY <1>4, <1>p, <2>2 DEF ReadLive, ReadFailed, Goto
    <3>2. tried[u] = {}
      BY <3>1 DEF ReadInv, ReadAt, TypeOK
    <3> QED
      BY <1>0, <2>1, <3>1, <3>2 DEF RollbackOf
  <2>3. CASE u # t
    <3>1. live'[u] = live[u] /\ failed'[u] = failed[u] /\ pc'[u] = pc[u]
      BY <1>4, <1>p, <2>3 DEF ReadLive, ReadFailed, Goto, TypeOK
    <3> QED
      BY <1>0, <2>1, <3>1, RollbackKept
  <2> QED
    BY <2>2, <2>3
<1>5. ASSUME NEW t \in Txs, NEW p \in Platforms, PauseSucceeds(t, p) \/ PauseFails(t, p)
      PROVE  RollbackOf(u)'
  <2>1. /\ RollsBack(t) /\ p \notin tried[t] /\ pc[t] = "settle"
        /\ tried' = [tried EXCEPT ![t] = @ \cup {p}]
        /\ UNCHANGED <<pc, live, failed, status>>
    BY <1>5 DEF PauseSucceeds, PauseFails, AskPauser, ToPause
  <2>2. CASE u = t
    <3>1. RollsBack(u)' /\ pc'[u] = "settle" /\ status'[u] = status[u]
      BY <2>1, <2>2 DEF RollsBack
    <3>2. tried'[u] = tried[u] \cup {p}
      BY <2>1, <2>2 DEF TypeOK
    <3>3. \A q \in Platforms : q # p => campaign'[u][q] = campaign[u][q]
      BY <1>5, <2>2 DEF PauseSucceeds, PauseFails, PlatformPauses, TypeOK
    <3>4. refused[u] \subseteq refused'[u]
      BY <1>5, <2>2 DEF PauseSucceeds, PauseFails, TypeOK
    <3>5. \A q \in compensated[u] : q \in Platforms /\ q # p
      BY <1>0, <2>1, <2>2 DEF RollbackOf
    <3>6. CASE PauseFails(t, p)
      <4>1. compensated' = compensated
        BY <3>6 DEF PauseFails
      <4>2. \A q \in compensated'[u] :
              q \in Platforms /\ q \in tried'[u] /\ (campaign'[u][q] # "running" \/ q \in refused'[u])
        BY <1>0, <3>2, <3>3, <3>4, <3>5, <4>1 DEF RollbackOf
      <4> QED
        BY <1>0, <2>1, <2>2, <3>1, <3>2, <3>3, <4>2 DEF RollbackOf
    <3>7. CASE PauseSucceeds(t, p)
      <4>1. compensated'[u] = compensated[u] \cup {p}
        BY <2>2, <3>7 DEF PauseSucceeds, TypeOK
      <4>2. campaign'[u][p] # "running" \/ p \in refused'[u]
        BY <2>2, <3>7 DEF PauseSucceeds, PlatformPauses, TypeOK
      <4>3. \A q \in compensated'[u] :
              q \in Platforms /\ q \in tried'[u] /\ (campaign'[u][q] # "running" \/ q \in refused'[u])
        BY <1>0, <3>2, <3>3, <3>4, <3>5, <4>1, <4>2 DEF RollbackOf
      <4> QED
        BY <1>0, <2>1, <2>2, <3>1, <3>2, <3>3, <4>3 DEF RollbackOf
    <3> QED
      BY <1>5, <3>6, <3>7
  <2>3. CASE u # t
    <3>1. /\ tried'[u] = tried[u] /\ compensated'[u] = compensated[u] /\ refused'[u] = refused[u]
          /\ campaign'[u] = campaign[u]
      BY <1>5, <2>1, <2>3 DEF PauseSucceeds, PauseFails, PlatformPauses, TypeOK
    <3> QED
      BY <1>0, <2>1, <3>1, RollbackKept
  <2> QED
    BY <2>2, <2>3
<1>6. ASSUME NEW t \in Txs, JournalPause(t) PROVE RollbackOf(u)'
  BY <1>0, <1>6, RollbackKept DEF JournalPause
<1>7. ASSUME NEW t \in Txs, Settle(t) PROVE RollbackOf(u)'
  <2>1. UNCHANGED <<live, failed, tried, compensated, refused, campaign>> /\ ToPause(t) = {}
    BY <1>7 DEF Settle, pausing
  <2>2. CASE u = t
    <3>1. pc[u] = "settle" /\ pc'[u] = "done" /\ status'[u] = Verdict(u)
      BY <1>7, <1>p, <2>2 DEF Settle, Goto, TypeOK
    <3>2. RollsBack(u) => Verdict(u) = "failed" /\ live[u] \subseteq tried[u]
      BY <2>1, <2>2 DEF Verdict, ToPause
    <3>3. RollsBack(u)' <=> RollsBack(u)
      BY <2>1 DEF RollsBack
    <3>4. Verdict(u) # "open"
      BY VerdictType
    <3> QED
      BY <1>0, <2>1, <3>1, <3>2, <3>3, <3>4 DEF RollbackOf
  <2>3. CASE u # t
    <3>1. status'[u] = status[u] /\ pc'[u] = pc[u]
      BY <1>7, <1>p, <2>3 DEF Settle, Goto, TypeOK
    <3> QED
      BY <1>0, <2>1, <3>1, RollbackKept
  <2> QED
    BY <2>2, <2>3
<1>8. ASSUME NEW t \in Txs, NEW p \in Platforms, Launch(t, p) PROVE RollbackOf(u)'
  <2>1. UNCHANGED <<pc, live, failed, tried, compensated, refused, status>>
    BY <1>8
    DEF Launch, PlatformCreates, LauncherReturns, LauncherErrs, ThreadJournals, main, pausing
  <2>2. CASE campaign' = campaign
    BY <1>0, <2>1, <2>2, RollbackKept
  <2>3. CASE PlatformCreates(t, p)
    <3>1. p \notin tried[t] /\ campaign' = [campaign EXCEPT ![t][p] = "running"]
      BY <2>3 DEF PlatformCreates, StepThread, ReadInv, ReadAt
    <3>2. CASE u = t
      <4>1. \A q \in Platforms : campaign'[u][q] = IF q = p THEN "running" ELSE campaign[u][q]
        BY <3>1, <3>2 DEF TypeOK
      <4>2. \A q \in compensated[u] : q \in Platforms /\ q # p
        BY <1>0, <3>1, <3>2 DEF RollbackOf
      <4>3. RollsBack(u)' <=> RollsBack(u)
        BY <2>1 DEF RollsBack
      <4> QED
        BY <1>0, <2>1, <4>1, <4>2, <4>3 DEF RollbackOf
    <3>3. CASE u # t
      <4>1. campaign'[u] = campaign[u]
        BY <3>1, <3>3 DEF TypeOK
      <4> QED
        BY <1>0, <2>1, <4>1, RollbackKept
    <3> QED
      BY <3>2, <3>3
  <2> QED
    BY <1>8, <2>2, <2>3 DEF Launch, LauncherReturns, LauncherErrs, ThreadJournals
<1>9. CASE Crash
  <2>1. UNCHANGED <<refused, status, campaign>>
    BY <1>9 DEF Crash
  <2>2. CASE InProgress(u)
    <3>1. /\ pc'[u] = "dead" /\ pc[u] # "done" /\ live'[u] = {} /\ failed'[u] = {}
          /\ tried'[u] = {} /\ compensated'[u] = {}
      BY <1>9, <2>2 DEF Crash, Lost, InProgress
    <3> QED
      BY <1>0, <2>1, <3>1 DEF RollbackOf
  <2>3. CASE ~InProgress(u)
    <3>1. /\ pc'[u] = pc[u] /\ live'[u] = live[u] /\ failed'[u] = failed[u]
          /\ tried'[u] = tried[u] /\ compensated'[u] = compensated[u]
      BY <1>9, <2>3 DEF Crash, Lost
    <3> QED
      BY <1>0, <2>1, <3>1, RollbackKept
  <2> QED
    BY <2>2, <2>3
<1>10. CASE UNCHANGED vars
  BY <1>0, <1>10, RollbackKept DEF vars, main, pausing
<1> QED
  BY <1>1, <1>3, <1>4, <1>5, <1>6, <1>7, <1>8, <1>9, <1>10 DEF Next, Execute

\* A failed atomic launch leaves no campaign it read as live unattended: each stopped, or
\* its pauser was called and failed or did not see a refusal; no other launch pauses any.
THEOREM RollbackIsComplete == Spec => []RollbackReachesAll
<1>1. Init => ReadInv /\ RollbackInv
  BY DEF Init, ReadInv, ReadAt, RollbackInv, RollbackOf, RollsBack
<1>2. RollbackInv => RollbackReachesAll
  <2> SUFFICES ASSUME RollbackInv, NEW t \in Txs, status[t] # "open"
               PROVE  IF RollsBack(t)
                      THEN /\ status[t] = "failed"
                           /\ \A p \in live[t] : \/ campaign[t][p] # "running"
                                                 \/ p \in (tried[t] \ compensated[t]) \cup refused[t]
                      ELSE \A p \in Platforms : campaign[t][p] # "paused"
    BY DEF RollbackReachesAll
  <2>1. RollbackOf(t) /\ pc[t] = "done"
    BY DEF RollbackInv, RollbackOf
  <2>2. CASE RollsBack(t)
    BY <2>1, <2>2 DEF RollbackOf
  <2>3. CASE ~RollsBack(t)
    BY <2>1, <2>3 DEF RollbackOf
  <2> QED
    BY <2>2, <2>3
<1> QED
  BY <1>1, <1>2, Typed, ReadStep, RollbackStep, PTL DEF Spec

(***************************************************************************)
(* OneAtATime: execute holds the lock from its first record to its last,   *)
(* and a thread that is still at work has stored no answer to be read.     *)
(***************************************************************************)

LockOf(t) == InProgress(t) => txLock = t

\* The lock is held by the one transaction in progress.
LEMMA LockStep ==
  ASSUME TypeOK, \A t \in Txs : LockOf(t), [Next]_vars
  PROVE  \A t \in Txs : LockOf(t)'
<1> USE DEF LockOf, InProgress
<1>0. pc \in [Txs -> {"new", "prepare", "gated", "join", "live", "failed", "settle", "done", "dead"}]
  BY DEF TypeOK
<1>1. ASSUME NEW t \in Txs, Begin(t)
      PROVE  \A u \in Txs : LockOf(u)'
  BY <1>0, <1>1, TxAssumption DEF Begin, LockFree, Goto
<1>2. ASSUME NEW t \in Txs, PrepareFails(t) \/ Settle(t)
      PROVE  \A u \in Txs : LockOf(u)'
  BY <1>0, <1>2, TxAssumption DEF PrepareFails, Settle, Goto
<1>3. ASSUME NEW t \in Txs, NEW ok \in SUBSET Platforms, PassGate(t, ok)
      PROVE  \A u \in Txs : LockOf(u)'
  BY <1>0, <1>3 DEF PassGate, Goto
<1>4. ASSUME NEW t \in Txs, PrepareLaunches(t)
      PROVE  \A u \in Txs : LockOf(u)'
  BY <1>0, <1>4 DEF PrepareLaunches, Goto
<1>5. ASSUME NEW t \in Txs, Join(t) \/ ReadLive(t) \/ ReadFailed(t)
      PROVE  \A u \in Txs : LockOf(u)'
  BY <1>0, <1>5 DEF Join, ReadLive, ReadFailed, Goto
<1>6. ASSUME UNCHANGED <<pc, txLock>>
      PROVE  \A u \in Txs : LockOf(u)'
  BY <1>6
<1>7. ASSUME NEW t \in Txs, NEW p \in Platforms,
             PauseSucceeds(t, p) \/ PauseFails(t, p) \/ Launch(t, p)
      PROVE  UNCHANGED <<pc, txLock>>
  BY <1>7 DEF PauseSucceeds, PauseFails, AskPauser, Launch, PlatformCreates,
              LauncherReturns, LauncherErrs, ThreadJournals, main
<1>8. ASSUME NEW t \in Txs, JournalPause(t)
      PROVE  UNCHANGED <<pc, txLock>>
  BY <1>8 DEF JournalPause
<1>9. CASE Crash
  BY <1>9 DEF Crash
<1>10. CASE UNCHANGED vars
  BY <1>6, <1>10 DEF vars, main
<1> QED
  BY <1>1, <1>2, <1>3, <1>4, <1>5, <1>6, <1>7, <1>8, <1>9, <1>10 DEF Next, Execute

\* Whatever launchers outlast their join: two launches have platforms called at the same
\* time only when one of them has returned, and not with the answers still to come.
THEOREM OneLaunchAtATime == Spec => []OneAtATime
<1> DEFINE AllLocked == \A t \in Txs : LockOf(t)
<1>1. Init => ReadInv /\ AllLocked
  BY DEF Init, ReadInv, ReadAt, LockOf, InProgress
<1>2. TypeOK /\ AllLocked /\ [Next]_vars => AllLocked'
  BY LockStep
<1>3. TypeOK /\ ReadInv /\ AllLocked => OneAtATime
  <2> SUFFICES ASSUME TypeOK, ReadInv, AllLocked,
                      NEW t \in Txs, NEW u \in Txs, t # u, InHand(t) # {}, InHand(u) # {}
               PROVE  LeftBehind(t) \/ LeftBehind(u)
    BY DEF OneAtATime
  <2>1. ASSUME NEW v \in Txs, InHand(v) # {}
        PROVE  LeftBehind(v) \/ txLock = v
    <3>1. PICK p \in Platforms : thread[v][p] \in {"launching", "created"}
      BY <2>1 DEF InHand
    <3>2. pc[v] \notin {"new", "dead"}
      BY <3>1 DEF ReadInv, ReadAt
    <3>3. InHand(v) \cap (live[v] \cup failed[v]) = {}
      BY DEF ReadInv, ReadAt, InHand
    <3> QED
      BY <3>2, <3>3 DEF LeftBehind, LockOf, InProgress
  <2>2. txLock # t \/ txLock # u
    OBVIOUS
  <2> QED
    BY <2>1, <2>2
<1> HIDE DEF AllLocked
<1> QED
  BY <1>1, <1>2, <1>3, Typed, ReadStep, PTL DEF Spec

(***************************************************************************)
(* Without a timeout execute waits for all of its threads.                 *)
(***************************************************************************)

\* What belongs to one transaction.
OwnAlone(t) ==
  /\ pc'[t] = pc[t] /\ healthy'[t] = healthy[t] /\ thread'[t] = thread[t]
  /\ results'[t] = results[t] /\ live'[t] = live[t] /\ failed'[t] = failed[t]
  /\ compensated'[t] = compensated[t] /\ tried'[t] = tried[t]
  /\ status'[t] = status[t] /\ campaign'[t] = campaign[t]

\* A step of one transaction touches no other.
LEMMA OthersAlone ==
  ASSUME TypeOK, NEW t \in Txs, NEW u \in Txs, u # t,
         Execute(t) \/ \E p \in Platforms : Launch(t, p)
  PROVE  OwnAlone(u)
<1> USE DEF TypeOK, OwnAlone, pausing
<1>1. CASE Begin(t) \/ PrepareFails(t) \/ PrepareLaunches(t) \/ Join(t)
  BY <1>1 DEF Begin, PrepareFails, PrepareLaunches, Join, Goto
<1>2. ASSUME NEW ok \in SUBSET Platforms, PassGate(t, ok)
      PROVE  OwnAlone(u)
  BY <1>2 DEF PassGate, Goto
<1>3. CASE ReadLive(t) \/ ReadFailed(t) \/ JournalPause(t) \/ Settle(t)
  BY <1>3 DEF ReadLive, ReadFailed, JournalPause, Settle, Goto
<1>4. ASSUME NEW p \in Platforms, PauseSucceeds(t, p) \/ PauseFails(t, p)
      PROVE  OwnAlone(u)
  <2>1. campaign'[u] = campaign[u]
    BY <1>4 DEF PauseSucceeds, PauseFails, PlatformPauses
  <2> QED
    BY <1>4, <2>1 DEF PauseSucceeds, PauseFails, AskPauser
<1>5. ASSUME NEW p \in Platforms, Launch(t, p)
      PROVE  OwnAlone(u)
  <2>1. UNCHANGED main
    BY <1>5 DEF Launch, PlatformCreates, LauncherReturns, LauncherErrs, ThreadJournals
  <2>2. thread'[u] = thread[u] /\ campaign'[u] = campaign[u] /\ results'[u] = results[u]
    BY <1>5
    DEF Launch, PlatformCreates, LauncherReturns, LauncherErrs, ThreadJournals, StepThread, Store
  <2> QED
    BY <2>1, <2>2 DEF main
<1> QED
  BY <1>1, <1>2, <1>3, <1>4, <1>5 DEF Execute

\* A thread of the launch that has not ended.
Underway == {"launching", "created", "returned"}

JoinedOf(t) == \A p \in Platforms :
  /\ thread[t][p] \in Underway => pc[t] = "join"
  /\ pc[t] = "join" /\ thread[t][p] # "off" => p \in healthy[t]

JoinedInv == \A t \in Txs : JoinedOf(t)

LEMMA OwnAloneKeeps ==
  ASSUME NEW u \in Txs, OwnAlone(u), JoinedOf(u)
  PROVE  JoinedOf(u)'
BY DEF OwnAlone, JoinedOf

\* One step of a transaction, as seen by itself.
LEMMA JoinedOwnStep ==
  ASSUME ~MayTimeOut, TypeOK, ReadInv, NEW t \in Txs, JoinedOf(t),
         Execute(t) \/ \E p \in Platforms : Launch(t, p)
  PROVE  JoinedOf(t)'
<1> USE DEF JoinedOf, Underway
<1>0. /\ pc \in [Txs -> {"new", "prepare", "gated", "join", "live", "failed", "settle", "done", "dead"}]
      /\ thread \in [Txs -> [Platforms -> {"off", "launching", "created", "returned", "ended"}]]
      /\ healthy \in [Txs -> SUBSET Platforms]
  BY DEF TypeOK
<1>1. ASSUME pc[t] \in {"new", "prepare", "gated"}
      PROVE  \A p \in Platforms : thread[t][p] = "off"
  BY <1>1 DEF ReadInv, ReadAt
<1>2. CASE Begin(t) \/ PrepareFails(t)
  BY <1>0, <1>1, <1>2 DEF Begin, PrepareFails, Goto
<1>3. ASSUME NEW ok \in SUBSET Platforms, PassGate(t, ok)
      PROVE  JoinedOf(t)'
  BY <1>0, <1>1, <1>3 DEF PassGate, Goto
<1>4. CASE PrepareLaunches(t)
  <2>1. healthy' = healthy /\ pc'[t] = "join"
        /\ \A p \in Platforms : thread'[t][p] = IF p \in healthy[t] THEN "launching" ELSE "off"
    BY <1>0, <1>4 DEF PrepareLaunches, Goto
  <2> QED
    BY <2>1
<1>5. CASE Join(t)
  <2>1. pc[t] = "join" /\ Ended(t) /\ thread' = thread /\ pc'[t] = "live"
    BY <1>0, <1>5 DEF Join, Goto, AllJoined, JoinsLate
  <2> QED
    BY <2>1 DEF Ended
<1>6. CASE ReadLive(t) \/ ReadFailed(t) \/ Settle(t)
  <2>1. pc[t] # "join" /\ pc'[t] # "join" /\ thread' = thread
    BY <1>0, <1>6 DEF ReadLive, ReadFailed, Settle, Goto
  <2> QED
    BY <2>1
<1>7. CASE JournalPause(t)
  BY <1>7 DEF JournalPause
<1>8. ASSUME NEW p \in Platforms, PauseSucceeds(t, p) \/ PauseFails(t, p)
      PROVE  JoinedOf(t)'
  BY <1>8 DEF PauseSucceeds, PauseFails, AskPauser
<1>9. ASSUME NEW p \in Platforms, Launch(t, p)
      PROVE  JoinedOf(t)'
  <2>1. UNCHANGED <<pc, healthy>>
    BY <1>9 DEF Launch, PlatformCreates, LauncherReturns, LauncherErrs, ThreadJournals, main
  <2>2. thread[t][p] \in Underway
        /\ \E to \in {"created", "returned", "ended"} : thread' = [thread EXCEPT ![t][p] = to]
    BY <1>9
    DEF Launch, PlatformCreates, LauncherReturns, LauncherErrs, ThreadJournals, StepThread
  <2>3. pc[t] = "join" /\ p \in healthy[t]
    BY <2>2
  <2>4. \A q \in Platforms : q # p => thread'[t][q] = thread[t][q]
    BY <1>0, <2>2
  <2> QED
    BY <2>1, <2>3, <2>4
<1> QED
  BY <1>2, <1>3, <1>4, <1>5, <1>6, <1>7, <1>8, <1>9 DEF Execute

LEMMA JoinedStep ==
  ASSUME ~MayTimeOut, TypeOK, ReadInv, JoinedInv, [Next]_vars
  PROVE  JoinedInv'
<1> SUFFICES ASSUME NEW u \in Txs
             PROVE  JoinedOf(u)'
  BY DEF JoinedInv
<1>0. JoinedOf(u)
  BY DEF JoinedInv
<1>1. ASSUME NEW t \in Txs, Execute(t) \/ \E p \in Platforms : Launch(t, p)
      PROVE  JoinedOf(u)'
  <2>1. CASE u = t
    BY <1>0, <1>1, <2>1, JoinedOwnStep
  <2>2. CASE u # t
    BY <1>0, <1>1, <2>2, OthersAlone, OwnAloneKeeps
  <2> QED
    BY <2>1, <2>2
<1>2. CASE Crash
  <2>1. \A p \in Platforms : thread'[u][p] = "off"
    BY <1>2 DEF Crash
  <2> QED
    BY <2>1 DEF JoinedOf, Underway
<1>3. CASE UNCHANGED vars
  BY <1>0, <1>3 DEF vars, main, JoinedOf
<1> QED
  BY <1>1, <1>2, <1>3 DEF Next

LEMMA JoinedAlways ==
  ASSUME ~MayTimeOut
  PROVE  Spec => [](TypeOK /\ ReadInv /\ JoinedInv)
<1>1. Init => ReadInv /\ JoinedInv
  BY DEF Init, ReadInv, ReadAt, JoinedInv, JoinedOf, Underway
<1>2. TypeOK /\ ReadInv /\ JoinedInv /\ [Next]_vars => JoinedInv'
  BY JoinedStep
<1> QED
  BY <1>1, <1>2, Typed, ReadStep, PTL DEF Spec

(***************************************************************************)
(* KeepsPromise: with launchers and pausers that answer truly and in time, *)
(* execute implements LaunchPromise.                                       *)
(***************************************************************************)

NoFaults == ~MayTimeOut /\ ~MayLoseAnswer /\ ~MayFailPause /\ Unread = {}

\* A thread's answer says what became of its campaign.
Truthful(t, p) ==
  /\ thread[t][p] = "launching" => results[t][p] = "none" /\ campaign[t][p] = "none"
  /\ thread[t][p] = "created" => results[t][p] = "none" /\ campaign[t][p] = "running"
  /\ thread[t][p] \in {"returned", "ended"} =>
       /\ results[t][p] \in {"live", "error"}
       /\ results[t][p] = "error" <=> campaign[t][p] = "none"

\* The threads are those of the healthy platforms, all of them for an atomic
\* launch, and no other platform has a campaign.
Prepared(t) ==
  /\ \A p \in Platforms : p \in healthy[t] <=> thread[t][p] # "off"
  /\ \A p \in Platforms \ healthy[t] : results[t][p] = "none" /\ campaign[t][p] = "none"
  /\ healthy[t] = Platforms \/ t \notin AtomicTxs

PromiseOf(t) ==
  /\ pc[t] \in {"new", "prepare", "gated"} => \A p \in Platforms : campaign[t][p] = "none"
  /\ \A p \in Platforms : Truthful(t, p)
  /\ \A p \in tried[t] : p \in Platforms /\ campaign[t][p] = "paused"
  /\ pc[t] \in {"join", "live", "failed", "settle"} => Prepared(t)
  /\ pc[t] \in {"failed", "settle"} => live[t] = Holding(t, "live")
  /\ pc[t] = "settle" => failed[t] = Holding(t, "error")

PromiseInv == \A t \in Txs : PromiseOf(t)

LEMMA PromiseAlone ==
  ASSUME NEW t \in Txs, OwnAlone(t), PromiseOf(t)
  PROVE  PromiseOf(t)'
BY DEF OwnAlone, PromiseOf, Truthful, Prepared, Holding

LEMMA PromiseLaunch ==
  ASSUME NoFaults, TypeOK, ReadInv, NEW t \in Txs, JoinedOf(t), PromiseOf(t),
         NEW p \in Platforms, Launch(t, p)
  PROVE  PromiseOf(t)'
<1>0. /\ thread \in [Txs -> [Platforms -> {"off", "launching", "created", "returned", "ended"}]]
      /\ results \in [Txs -> [Platforms -> {"none", "live", "error"}]]
      /\ campaign \in [Txs -> [Platforms -> {"none", "running", "paused"}]]
  BY DEF TypeOK
<1>1. UNCHANGED <<pc, healthy, live, failed, compensated, tried, status>>
  BY DEF Launch, PlatformCreates, LauncherReturns, LauncherErrs, ThreadJournals, main, pausing
<1>2. thread[t][p] \in Underway /\ pc[t] = "join"
  BY DEF Launch, PlatformCreates, LauncherReturns, LauncherErrs, ThreadJournals, StepThread,
         JoinedOf, Underway
<1>3. \A q \in Platforms : q # p => /\ thread'[t][q] = thread[t][q]
                                    /\ results'[t][q] = results[t][q]
                                    /\ campaign'[t][q] = campaign[t][q]
  BY <1>0 DEF Launch, PlatformCreates, LauncherReturns, LauncherErrs, ThreadJournals, StepThread,
              Store
<1>4. thread'[t][p] # "off" /\ p \in healthy[t]
  <2>1. thread'[t][p] # "off"
    BY <1>0 DEF Launch, PlatformCreates, LauncherReturns, LauncherErrs, ThreadJournals, StepThread
  <2>2. p \in healthy[t]
    BY <1>2 DEF JoinedOf, Underway
  <2> QED
    BY <2>1, <2>2
<1>5. Truthful(t, p)
  BY DEF PromiseOf
<1>6. Truthful(t, p)'
  <2>1. CASE PlatformCreates(t, p)
    BY <1>0, <1>5, <2>1 DEF PlatformCreates, StepThread, Truthful
  <2>2. CASE LauncherReturns(t, p)
    BY <1>0, <1>5, <2>2 DEF LauncherReturns, StepThread, Store, Truthful, NoFaults
  <2>3. CASE LauncherErrs(t, p)
    BY <1>0, <1>5, <2>3 DEF LauncherErrs, StepThread, Store, Truthful, NoFaults
  <2>4. CASE ThreadJournals(t, p)
    BY <1>0, <1>5, <2>4 DEF ThreadJournals, StepThread, Truthful
  <2> QED
    BY <2>1, <2>2, <2>3, <2>4 DEF Launch
<1>7. \A q \in Platforms : Truthful(t, q)'
  BY <1>3, <1>6 DEF PromiseOf, Truthful
<1>8. Prepared(t)'
  <2>1. Prepared(t)
    BY <1>2 DEF PromiseOf
  <2> QED
    BY <1>1, <1>2, <1>3, <1>4, <2>1 DEF Prepared, Underway
<1>9. tried[t] = {}
  BY <1>2 DEF ReadInv, ReadAt, TypeOK
<1> QED
  BY <1>1, <1>2, <1>7, <1>8, <1>9 DEF PromiseOf

LEMMA PromiseExecute ==
  ASSUME NoFaults, TypeOK, ReadInv, NEW t \in Txs, JoinedOf(t), PromiseOf(t), Execute(t)
  PROVE  PromiseOf(t)'
<1>0. /\ pc \in [Txs -> {"new", "prepare", "gated", "join", "live", "failed", "settle", "done", "dead"}]
      /\ thread \in [Txs -> [Platforms -> {"off", "launching", "created", "returned", "ended"}]]
      /\ healthy \in [Txs -> SUBSET Platforms] /\ tried \in [Txs -> SUBSET Platforms]
      /\ live \in [Txs -> SUBSET Platforms] /\ failed \in [Txs -> SUBSET Platforms]
      /\ compensated \in [Txs -> SUBSET Platforms]
      /\ status \in [Txs -> {"open", "ok", "partial", "failed"}]
      /\ campaign \in [Txs -> [Platforms -> {"none", "running", "paused"}]]
  BY DEF TypeOK
<1>1. ASSUME pc[t] \in {"new", "prepare", "gated"}
      PROVE  \A p \in Platforms : thread[t][p] = "off" /\ results[t][p] = "none"
  BY <1>1 DEF ReadInv, ReadAt
<1>t. pc[t] \notin {"settle", "done", "dead"} => tried[t] = {}
  BY <1>0 DEF ReadInv, ReadAt
<1>2. CASE Begin(t)
  BY <1>0, <1>2 DEF Begin, Goto, PromiseOf, Truthful, pausing
<1>3. ASSUME NEW ok \in SUBSET Platforms, PassGate(t, ok)
      PROVE  PromiseOf(t)'
  BY <1>0, <1>3 DEF PassGate, Goto, PromiseOf, Truthful, pausing
<1>4. CASE PrepareFails(t)
  <2>1. pc'[t] = "done" /\ UNCHANGED <<thread, results, campaign, tried>>
    BY <1>0, <1>4 DEF PrepareFails, Goto, pausing
  <2> QED
    BY <2>1 DEF PromiseOf, Truthful
<1>5. CASE PrepareLaunches(t)
  <2>1. pc[t] = "gated" /\ pc'[t] = "join" /\ healthy' = healthy
        /\ \A p \in Platforms : thread'[t][p] = IF p \in healthy[t] THEN "launching" ELSE "off"
    BY <1>0, <1>5 DEF PrepareLaunches, Goto
  <2>2. UNCHANGED <<live, failed, results, campaign, tried>> /\ ~GateFails(t)
    BY <1>5 DEF PrepareLaunches, pausing
  <2>3. \A p \in Platforms : results[t][p] = "none" /\ campaign[t][p] = "none"
    BY <1>1, <2>1 DEF PromiseOf
  <2>4. Prepared(t)'
    BY <2>1, <2>2, <2>3 DEF Prepared, GateFails
  <2>5. \A p \in Platforms : Truthful(t, p)'
    BY <2>1, <2>2, <2>3 DEF Truthful
  <2> QED
    BY <1>t, <2>1, <2>2, <2>4, <2>5 DEF PromiseOf
<1>6. CASE Join(t)
  BY <1>0, <1>6 DEF Join, Goto, PromiseOf, Truthful, Prepared, pausing
<1>7. CASE ReadLive(t)
  BY <1>0, <1>t, <1>7 DEF ReadLive, Goto, PromiseOf, Truthful, Prepared, Holding, pausing
<1>8. CASE ReadFailed(t)
  BY <1>0, <1>t, <1>8 DEF ReadFailed, Goto, PromiseOf, Truthful, Prepared, Holding, pausing
<1>9. ASSUME NEW p \in Platforms, PauseSucceeds(t, p)
      PROVE  PromiseOf(t)'
  <2>1. pc[t] = "settle" /\ p \in live[t] /\ campaign' = [campaign EXCEPT ![t][p] = "paused"]
        /\ tried'[t] = tried[t] \cup {p}
        /\ UNCHANGED <<pc, healthy, live, failed, status, thread, results>>
    BY <1>0, <1>9 DEF PauseSucceeds, AskPauser, PlatformPauses, ToPause, NoFaults
  <2>2. results[t][p] = "live"
    BY <2>1 DEF PromiseOf, Holding
  <2>3. p \in healthy[t]
    BY <2>1, <2>2 DEF PromiseOf, Prepared
  <2>4. \A q \in Platforms : campaign'[t][q] = IF q = p THEN "paused" ELSE campaign[t][q]
    BY <1>0, <2>1
  <2>5. campaign[t][p] # "none" /\ thread[t][p] \in {"returned", "ended"}
    <3>1. thread[t][p] # "off" /\ thread[t][p] \notin Underway
      BY <2>1, <2>3 DEF PromiseOf, Prepared, JoinedOf
    <3>2. thread[t][p] \in {"returned", "ended"}
      BY <1>0, <3>1 DEF Underway
    <3> QED
      BY <2>2, <3>2 DEF PromiseOf, Truthful
  <2>6. \A q \in Platforms : Truthful(t, q)'
    BY <2>1, <2>2, <2>4, <2>5 DEF PromiseOf, Truthful
  <2>7. Prepared(t)'
    BY <2>1, <2>3, <2>4 DEF PromiseOf, Prepared
  <2>8. \A q \in tried'[t] : q \in Platforms /\ campaign'[t][q] = "paused"
    BY <2>1, <2>4 DEF PromiseOf
  <2> QED
    BY <2>1, <2>6, <2>7, <2>8 DEF PromiseOf, Holding
<1>10. ASSUME NEW p \in Platforms, PauseFails(t, p)
      PROVE  PromiseOf(t)'
  BY <1>10 DEF PauseFails, NoFaults
<1>11. CASE JournalPause(t)
  BY <1>11 DEF JournalPause, PromiseOf, Truthful, Prepared, Holding
<1>12. CASE Settle(t)
  <2>1. pc'[t] = "done" /\ UNCHANGED <<thread, results, campaign, tried>>
    BY <1>0, <1>12 DEF Settle, Goto, pausing
  <2> QED
    BY <2>1 DEF PromiseOf, Truthful
<1> QED
  BY <1>2, <1>3, <1>4, <1>5, <1>6, <1>7, <1>8, <1>9, <1>10, <1>11, <1>12 DEF Execute

LEMMA PromiseStep ==
  ASSUME NoFaults, TypeOK, ReadInv, JoinedInv, RollbackInv, PromiseInv, [Next]_vars
  PROVE  PromiseInv'
<1> SUFFICES ASSUME NEW u \in Txs
             PROVE  PromiseOf(u)'
  BY DEF PromiseInv
<1>0. PromiseOf(u) /\ JoinedOf(u)
  BY DEF PromiseInv, JoinedInv
<1>1. ASSUME NEW t \in Txs, Execute(t) \/ \E p \in Platforms : Launch(t, p)
      PROVE  PromiseOf(u)'
  <2>1. CASE u = t
    BY <1>0, <1>1, <2>1, PromiseExecute, PromiseLaunch
  <2>2. CASE u # t
    BY <1>0, <1>1, <2>2, OthersAlone, PromiseAlone
  <2> QED
    BY <2>1, <2>2
<1>2. CASE Crash
  <2>1. CASE InProgress(u)
    <3>1. pc'[u] = "dead" /\ tried'[u] = {} /\ \A p \in Platforms : thread'[u][p] = "off"
      BY <1>2, <2>1 DEF Crash, Lost
    <3> QED
      BY <3>1 DEF PromiseOf, Truthful
  <2>2. CASE ~InProgress(u)
    <3>1. /\ pc'[u] = pc[u] /\ tried'[u] = tried[u] /\ campaign' = campaign
          /\ \A p \in Platforms : thread'[u][p] = "off"
      BY <1>2, <2>2 DEF Crash, Lost
    <3> QED
      BY <1>0, <2>2, <3>1 DEF PromiseOf, Truthful, InProgress
  <2> QED
    BY <2>1, <2>2
<1>3. CASE UNCHANGED vars
  <2>1. OwnAlone(u)
    BY <1>3 DEF vars, main, pausing, OwnAlone
  <2> QED
    BY <1>0, <2>1, PromiseAlone
<1> QED
  BY <1>1, <1>2, <1>3 DEF Next

\* What runs of a launch that has read its answers: the live campaigns, unless all
\* of them were paused.
LEMMA RunningIs ==
  ASSUME TypeOK, NEW t \in Txs, JoinedOf(t), RollbackOf(t), PromiseOf(t), pc[t] = "settle"
  PROVE  /\ Running(t) = live[t] \ tried[t]
         /\ live[t] \subseteq healthy[t] /\ live[t] \cap failed[t] = {}
<1>1. /\ thread \in [Txs -> [Platforms -> {"off", "launching", "created", "returned", "ended"}]]
      /\ campaign \in [Txs -> [Platforms -> {"none", "running", "paused"}]]
  BY DEF TypeOK
<1>2. live[t] = Holding(t, "live") /\ failed[t] = Holding(t, "error") /\ Prepared(t)
      /\ \A p \in Platforms : Truthful(t, p)
  BY DEF PromiseOf
<1>3. ASSUME NEW p \in Platforms
      PROVE  p \in Running(t) <=> p \in live[t] /\ p \notin tried[t]
  <2>1. CASE p \in healthy[t]
    <3>1. thread[t][p] \in {"returned", "ended"}
      BY <1>1, <1>2, <2>1 DEF Prepared, JoinedOf, Underway
    <3>2. p \in live[t] <=> campaign[t][p] # "none"
      BY <1>2, <3>1 DEF Truthful, Holding
    <3>3. campaign[t][p] = "paused" <=> p \in tried[t]
      BY DEF PromiseOf, RollbackOf
    <3>4. campaign[t][p] \in {"none", "running", "paused"}
      BY <1>1
    <3> QED
      BY <3>2, <3>3, <3>4 DEF Running
  <2>2. CASE p \notin healthy[t]
    BY <1>2, <2>2 DEF Prepared, Running, Holding
  <2> QED
    BY <2>1, <2>2
<1>4. Running(t) \subseteq Platforms /\ live[t] \subseteq Platforms
  BY <1>2 DEF Running, Holding
<1>5. live[t] \subseteq healthy[t] /\ live[t] \cap failed[t] = {}
  BY <1>2 DEF Holding, Prepared
<1> QED
  BY <1>3, <1>4, <1>5

\* The verdict tells the truth about the campaigns that run.
LEMMA VerdictHonest ==
  ASSUME TypeOK, NEW t \in Txs, JoinedOf(t), RollbackOf(t), PromiseOf(t), Settle(t)
  PROVE  Verdict(t) \in Promise!Honest(t, Running(t))
<1>1. pc[t] = "settle" /\ ToPause(t) = {}
  BY DEF Settle, Goto
<1>2. /\ Running(t) = live[t] \ tried[t]
      /\ live[t] \subseteq healthy[t] /\ live[t] \cap failed[t] = {}
  BY <1>1, RunningIs
<1>3. Platforms # {}
  BY TxAssumption
<1>4. healthy[t] = Platforms \/ t \notin AtomicTxs
  BY <1>1 DEF PromiseOf, Prepared
<1>5. healthy[t] \subseteq Platforms /\ failed[t] \subseteq Platforms
  BY DEF TypeOK
<1>6. CASE RollsBack(t)
  <2>1. Running(t) = {}
    BY <1>1, <1>2, <1>6 DEF ToPause
  <2> QED
    BY <1>3, <1>6, <2>1 DEF Verdict, Promise!Honest
<1>7. CASE ~RollsBack(t)
  <2>1. Running(t) = live[t]
    BY <1>2, <1>7 DEF RollbackOf
  <2>2. CASE live[t] = {}
    BY <1>3, <2>1, <2>2 DEF Verdict, Promise!Honest
  <2>3. CASE live[t] # {} /\ failed[t] = {} /\ healthy[t] = Platforms
    <3>1. Verdict(t) = "ok"
      BY <1>7, <2>3 DEF Verdict
    <3>2. live[t] = Platforms
      <4>1. ASSUME NEW p \in Platforms
            PROVE  p \in live[t]
        <5>1. thread[t][p] \in {"returned", "ended"}
          BY <1>1, <2>3, <4>1 DEF PromiseOf, Prepared, JoinedOf, Underway, TypeOK
        <5>2. results[t][p] \in {"live", "error"}
          BY <5>1 DEF PromiseOf, Truthful
        <5>3. live[t] = Holding(t, "live") /\ failed[t] = Holding(t, "error")
          BY <1>1 DEF PromiseOf
        <5> QED
          BY <2>3, <5>2, <5>3 DEF Holding
      <4> QED
        BY <1>2, <1>5, <4>1
    <3> QED
      BY <1>3, <2>1, <3>1, <3>2 DEF Promise!Honest
  <2>4. CASE live[t] # {} /\ ~(failed[t] = {} /\ healthy[t] = Platforms)
    <3>1. Verdict(t) = "partial"
      BY <1>7, <2>4 DEF Verdict
    <3>2. live[t] # Platforms
      BY <1>2, <1>5, <2>4
    <3>3. t \notin AtomicTxs
      BY <1>4, <1>7, <2>4 DEF RollsBack
    <3> QED
      BY <2>1, <2>4, <3>1, <3>2, <3>3 DEF Promise!Honest
  <2> QED
    BY <2>2, <2>3, <2>4
<1> QED
  BY <1>6, <1>7

\* The abstract state: who spends, and the verdicts.
Spending == [t \in Txs |-> Running(t)]

LEMMA StepImplements ==
  ASSUME NoFaults, TypeOK, ReadInv, JoinedInv, RollbackInv, PromiseInv, [Next]_vars
  PROVE  [Promise!Next]_(Promise!pvars)
<1> DEFINE Quiet == Spending' = Spending /\ status' = status
<1>q. Quiet => UNCHANGED Promise!pvars
  BY DEF Promise!pvars, Spending
<1>0. /\ campaign \in [Txs -> [Platforms -> {"none", "running", "paused"}]]
      /\ status \in [Txs -> {"open", "ok", "partial", "failed"}]
  BY DEF TypeOK
<1>1. ASSUME campaign' = campaign
      PROVE  Spending' = Spending
  BY <1>1 DEF Spending, Running
<1>2. ASSUME NEW t \in Txs, NEW p \in Platforms, NEW c, campaign' = [campaign EXCEPT ![t][p] = c]
      PROVE  /\ c = "running" => Spending' = [Spending EXCEPT ![t] = @ \cup {p}]
             /\ c = "paused" => Spending' = [Spending EXCEPT ![t] = @ \ {p}]
  <2>1. \A u \in Txs, q \in Platforms :
          campaign'[u][q] = IF u = t /\ q = p THEN c ELSE campaign[u][q]
    BY <1>0, <1>2
  <2>2. ASSUME NEW u \in Txs, u # t
        PROVE  Running(u)' = Running(u)
    BY <2>1, <2>2 DEF Running
  <2>3. c = "running" => Running(t)' = Running(t) \cup {p}
    BY <2>1 DEF Running
  <2>4. c = "paused" => Running(t)' = Running(t) \ {p}
    BY <2>1 DEF Running
  <2> QED
    BY <2>2, <2>3, <2>4 DEF Spending
<1>3. \A t \in Txs : PromiseOf(t) /\ JoinedOf(t) /\ RollbackOf(t)
  BY DEF PromiseInv, JoinedInv, RollbackInv
<1>4. ASSUME NEW t \in Txs, Begin(t) \/ Join(t) \/ ReadLive(t) \/ ReadFailed(t)
      PROVE  Quiet
  BY <1>1, <1>4 DEF Begin, Join, ReadLive, ReadFailed
<1>5. ASSUME NEW t \in Txs, NEW ok \in SUBSET Platforms,
             PassGate(t, ok) \/ PrepareLaunches(t) \/ JournalPause(t)
      PROVE  Quiet
  BY <1>1, <1>5 DEF PassGate, PrepareLaunches, JournalPause
<1>6. ASSUME NEW t \in Txs, PrepareFails(t)
      PROVE  Promise!Next
  <2>1. pc[t] = "gated" /\ campaign' = campaign /\ status' = [status EXCEPT ![t] = "failed"]
    BY <1>6 DEF PrepareFails, Goto
  <2>2. status[t] = "open" /\ Running(t) = {}
    BY <1>3, <2>1 DEF PromiseOf, RollbackOf, Running
  <2>3. "failed" \in Promise!Honest(t, Running(t))
    BY <2>2, TxAssumption DEF Promise!Honest
  <2>4. Promise!Settle(t)
    BY <1>1, <2>1, <2>2, <2>3 DEF Promise!Settle, Spending
  <2> QED
    BY <2>4 DEF Promise!Next
<1>7. ASSUME NEW t \in Txs, Settle(t)
      PROVE  Promise!Next
  <2>1. pc[t] = "settle" /\ campaign' = campaign /\ status' = [status EXCEPT ![t] = Verdict(t)]
    BY <1>7 DEF Settle, Goto
  <2>2. status[t] = "open"
    BY <1>3, <2>1 DEF RollbackOf
  <2>3. Verdict(t) \in Promise!Honest(t, Running(t))
    BY <1>3, <1>7, VerdictHonest
  <2>4. Promise!Settle(t)
    BY <1>1, <2>1, <2>2, <2>3 DEF Promise!Settle, Spending
  <2> QED
    BY <2>4 DEF Promise!Next
<1>8. ASSUME NEW t \in Txs, NEW p \in Platforms, PauseSucceeds(t, p)
      PROVE  Promise!Next
  <2>1. pc[t] = "settle" /\ campaign' = [campaign EXCEPT ![t][p] = "paused"] /\ status' = status
    BY <1>8 DEF PauseSucceeds, AskPauser, PlatformPauses, NoFaults
  <2>2. status[t] = "open"
    BY <1>3, <2>1 DEF RollbackOf
  <2>3. Promise!Pause(t, p)
    BY <1>2, <2>1, <2>2 DEF Promise!Pause, Spending
  <2> QED
    BY <2>3 DEF Promise!Next
<1>9. ASSUME NEW t \in Txs, NEW p \in Platforms, PauseFails(t, p)
      PROVE  FALSE
  BY <1>9 DEF PauseFails, NoFaults
<1>10. ASSUME NEW t \in Txs, NEW p \in Platforms, PlatformCreates(t, p)
       PROVE  Promise!Next
  <2>1. thread[t][p] = "launching" /\ campaign' = [campaign EXCEPT ![t][p] = "running"]
        /\ status' = status
    BY <1>10 DEF PlatformCreates, StepThread, main
  <2>2. status[t] = "open"
    BY <1>3, <2>1 DEF RollbackOf, JoinedOf, Underway
  <2>3. Promise!GoLive(t, p)
    BY <1>2, <2>1, <2>2 DEF Promise!GoLive, Spending
  <2> QED
    BY <2>3 DEF Promise!Next
<1>11. ASSUME NEW t \in Txs, NEW p \in Platforms,
              LauncherReturns(t, p) \/ LauncherErrs(t, p) \/ ThreadJournals(t, p)
       PROVE  Quiet
  BY <1>1, <1>11 DEF LauncherReturns, LauncherErrs, ThreadJournals, main
<1>12. CASE Crash
  <2>1. Quiet
    BY <1>1, <1>12 DEF Crash
  <2> QED
    BY <1>q, <2>1
<1>13. CASE UNCHANGED vars
  <2>1. Quiet
    BY <1>1, <1>13 DEF vars, main
  <2> QED
    BY <1>q, <2>1
<1> HIDE DEF Quiet
<1> QED
  BY <1>q, <1>4, <1>5, <1>6, <1>7, <1>8, <1>9, <1>10, <1>11, <1>12, <1>13 DEF Next, Execute, Launch

LEMMA InitImplements == Init => Promise!Init
<1> SUFFICES ASSUME Init
             PROVE  Promise!Init
  OBVIOUS
<1>1. \A t \in Txs : Running(t) = {}
  BY DEF Init, Running
<1>2. status = [t \in Txs |-> "open"]
  BY DEF Init
<1> QED
  BY <1>1, <1>2 DEF Promise!Init

\* When launchers and pausers answer truly and in time, every step of execute, its
\* threads and a crash is a step of the promise or none.
THEOREM PromiseIsKept ==
  ASSUME ~MayTimeOut, ~MayLoseAnswer, ~MayFailPause, Unread = {}
  PROVE  Spec => KeepsPromise
<1>0. NoFaults
  BY DEF NoFaults
<1>1. Init => RollbackInv /\ PromiseInv
  BY DEF Init, RollbackInv, RollbackOf, RollsBack, PromiseInv, PromiseOf, Truthful
<1>2. TypeOK /\ ReadInv /\ JoinedInv /\ RollbackInv /\ PromiseInv /\ [Next]_vars
        => RollbackInv' /\ PromiseInv' /\ [Promise!Next]_(Promise!pvars)
  BY <1>0, RollbackStep, PromiseStep, StepImplements
<1>3. Spec => [](TypeOK /\ ReadInv /\ JoinedInv)
  BY JoinedAlways
<1> QED
  BY <1>1, <1>2, <1>3, InitImplements, PTL DEF Spec, KeepsPromise, Promise!Spec
=============================================================================
