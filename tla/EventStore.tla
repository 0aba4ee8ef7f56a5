----------------------------- MODULE EventStore -----------------------------
(***************************************************************************)
(* backend/orchestration/event_store.py: the append-only JSONL journal     *)
(* that several processes share, the by-event-type index each process      *)
(* keeps of it, and the workflow_started / terminal records that           *)
(* incomplete_workflows() pairs up after a crash.                          *)
(*                                                                         *)
(* A log entry is the text one append left in the file:                    *)
(*   "whole"         the JSON text and its newline;                        *)
(*   "partial"       the text cut somewhere: undecodable;                  *)
(*   "unterminated"  the whole text without its newline.                   *)
(* The next append continues the line a cut entry left open.  Entries have *)
(* positive length, so Len(log) stands for the (mtime, size) pair of stat. *)
(***************************************************************************)
EXTENDS Naturals, Sequences, FiniteSets

CONSTANTS Threads, Procs, ProcOf, Workflows,
          MaxCrashes,   \* bound on the processes killed
          MaxTorn,      \* bound on the kills that cut a write short
          MaxRaised,    \* bound on the appends that raise (disk full)
          NoOne         \* the lock's value when it is free

ASSUME ThreadAssumption == ProcOf \in [Threads -> Procs] /\ NoOne \notin Threads
ASSUME BoundAssumption ==
  MaxCrashes \in Nat /\ MaxTorn \in Nat /\ MaxRaised \in Nat

VARIABLES
  log,        \* the file: a sequence of entries
  index,      \* index[p]: process p's _by_type with its mtime/size stamp
  lock,       \* lock[p]: who holds EventStore._lock in process p
  pc, snap,   \* per thread: where it is in append / _ensure_index, and its locals
  wf,         \* per workflow: its state and the thread that runs it
  crashes, torn, raised

vars == <<log, index, lock, pc, snap, wf, crashes, torn, raised>>

Kinds     == {"whole", "partial", "unterminated"}
Events    == {"workflow_started", "terminal"}
Entry     == [wid : Workflows, ev : Events, kind : Kinds]
NoIndex   == [built |-> FALSE, size |-> 0, recs |-> {}]
NoSnap    == [size |-> 0, recs |-> {}]
NewWf     == [st |-> "new", by |-> NoOne]

TypeOK ==
  /\ log \in Seq(Entry)
  /\ index \in [Procs -> [built : BOOLEAN, size : 0..Len(log), recs : SUBSET DOMAIN log]]
  /\ lock \in [Procs -> Threads \cup {NoOne}]
  /\ pc \in [Threads -> {"idle", "wrote", "scan", "publish"}]
  /\ snap \in [Threads -> [size : Nat, recs : SUBSET Nat]]
  /\ wf \in [Workflows -> [st : {"new", "running", "done", "dead", "aborted"},
                           by : Threads \cup {NoOne}]]
  /\ crashes \in 0..MaxCrashes /\ torn \in 0..MaxTorn /\ raised \in 0..MaxRaised

(***************************************************************************)
(* Reading: json.loads over the lines of the file.                         *)
(***************************************************************************)

\* Mutations of the decoding loop: undecodable text is served as a record; it
\* stops the scan; it makes the whole scan fail.
ReadableLax(l, i) == i = 1 \/ l[i - 1].kind = "whole"
ReadableUntilCut(l, i) == \A j \in 1..i : l[j].kind = "whole"
ReadableIfNoneCut(l, i) == \A j \in DOMAIN l : l[j].kind = "whole"

\* Entry i decodes iff it begins a line, is not cut, and nothing was glued to it.
Readable(l, i) ==
  /\ l[i].kind # "partial"
  /\ i = 1 \/ l[i - 1].kind = "whole"
  /\ l[i].kind = "unterminated" => i = Len(l)

\* Mutation: only the last two records are looked at (a tail instead of a scan).
IterEventsTail(l) == {i \in DOMAIN l : Readable(l, i) /\ i + 2 > Len(l)}

\* _iter_events(): the positions of the records a scan of the file returns.
IterEvents(l) == {i \in DOMAIN l : Readable(l, i)}

\* incomplete_workflows(): started, and no terminal record found.
Started(l)  == {l[i].wid : i \in {j \in IterEvents(l) : l[j].ev = "workflow_started"}}
Finished(l) == {l[i].wid : i \in {j \in IterEvents(l) : l[j].ev = "terminal"}}
IncompleteWorkflows(l) == Started(l) \ Finished(l)

(***************************************************************************)
(* Writing.  A workflow appends its started record, then its terminal one. *)
(***************************************************************************)

\* The record thread t is about to journal for workflow w.
Due(t, w, ev) ==
  \/ ev = "workflow_started" /\ wf[w].st = "new" /\ \A v \in Workflows : wf[v] # [st |-> "running", by |-> t]
  \/ ev = "terminal" /\ wf[w] = [st |-> "running", by |-> t]

\* Thread t may enter the critical section of append.
MayAppend(t) == pc[t] = "idle" /\ lock[ProcOf[t]] = NoOne

After(ev) == IF ev = "workflow_started" THEN "running" ELSE "done"

\* append, under the lock, up to the write: the line is in the file.
AppendWrite(t, w, ev) ==
  /\ MayAppend(t) /\ Due(t, w, ev)
  /\ log' = Append(log, [wid |-> w, ev |-> ev, kind |-> "whole"])
  /\ lock' = [lock EXCEPT ![ProcOf[t]] = t]
  /\ pc' = [pc EXCEPT ![t] = "wrote"]
  /\ snap' = [snap EXCEPT ![t] = [size |-> Len(log'), recs |-> {Len(log')}]]
  /\ wf' = [wf EXCEPT ![w] = [st |-> After(ev), by |-> t]]
  /\ UNCHANGED <<index, crashes, torn, raised>>

\* Mutation: the stamp counts the new record twice.
IndexAhead(x, recs, size) == [x EXCEPT !.recs = @ \cup recs, !.size = size + 1]

IndexWith(x, recs, size) == [x EXCEPT !.recs = @ \cup recs, !.size = size]

\* append, rest: the record joins an existing index, and the index is stamped
\* with a stat of the file as it is now, whoever wrote to it since.
AppendIndex(t) ==
  LET p == ProcOf[t]
  IN /\ pc[t] = "wrote"
     /\ index' = IF index[p].built
                 THEN [index EXCEPT ![p] = IndexWith(@, snap[t].recs, Len(log))]
                 ELSE index
     /\ lock' = [lock EXCEPT ![p] = NoOne]
     /\ pc' = [pc EXCEPT ![t] = "idle"]
     /\ snap' = [snap EXCEPT ![t] = NoSnap]
     /\ UNCHANGED <<log, wf, crashes, torn, raised>>

\* The text an interrupted write leaves: nothing, or a cut entry.
Remains(w, ev) ==
  {log} \cup {Append(log, [wid |-> w, ev |-> ev, kind |-> k]) : k \in Kinds \ {"whole"}}

\* The write raises (disk full): the lock is released, the index untouched, and
\* the exception leaves the workflow; the process goes on.
AppendRaises(t, w, ev) ==
  /\ MayAppend(t) /\ Due(t, w, ev) /\ raised < MaxRaised
  /\ log' \in Remains(w, ev)
  /\ wf' = [wf EXCEPT ![w] = [st |-> "aborted", by |-> t]]
  /\ raised' = raised + 1
  /\ UNCHANGED <<index, lock, pc, snap, crashes, torn>>

(***************************************************************************)
(* Reading through the index: events_of_type -> _ensure_index.             *)
(***************************************************************************)

\* os.stat before the scan; a stamp that matches serves the index as it is.
ReadStat(t) ==
  LET p == ProcOf[t]
  IN /\ pc[t] = "idle"
     /\ ~(index[p].built /\ index[p].size = Len(log))
     /\ pc' = [pc EXCEPT ![t] = "scan"]
     /\ snap' = [snap EXCEPT ![t].size = Len(log)]
     /\ UNCHANGED <<log, index, lock, wf, crashes, torn, raised>>

\* The full scan, without the lock.
ReadScan(t) ==
  /\ pc[t] = "scan"
  /\ pc' = [pc EXCEPT ![t] = "publish"]
  /\ snap' = [snap EXCEPT ![t].recs = IterEvents(log)]
  /\ UNCHANGED <<log, index, lock, wf, crashes, torn, raised>>

\* The index and the stat taken before the scan are published under the lock.
\* A file that did not exist leaves the index unbuilt.
ReadPublish(t) ==
  LET p == ProcOf[t]
  IN /\ pc[t] = "publish" /\ lock[p] = NoOne
     /\ index' = [index EXCEPT ![p] = [built |-> snap[t].size # 0,
                                       size |-> snap[t].size, recs |-> snap[t].recs]]
     /\ pc' = [pc EXCEPT ![t] = "idle"]
     /\ snap' = [snap EXCEPT ![t] = NoSnap]
     /\ UNCHANGED <<log, lock, wf, crashes, torn, raised>>

(***************************************************************************)
(* A process is killed and started again: its memory and threads are gone, *)
(* the workflows its threads ran are dead.                                 *)
(***************************************************************************)

Mine(p) == {t \in Threads : ProcOf[t] = p}

KillMemory(p) ==
  /\ crashes < MaxCrashes
  /\ crashes' = crashes + 1
  /\ index' = [index EXCEPT ![p] = NoIndex]
  /\ lock' = [lock EXCEPT ![p] = NoOne]
  /\ pc' = [t \in Threads |-> IF t \in Mine(p) THEN "idle" ELSE pc[t]]
  /\ snap' = [t \in Threads |-> IF t \in Mine(p) THEN NoSnap ELSE snap[t]]
  /\ raised' = raised

Killed(f, p) ==
  [w \in Workflows |-> IF f[w].st = "running" /\ f[w].by \in Mine(p)
                       THEN [f[w] EXCEPT !.st = "dead"] ELSE f[w]]

Crash(p) ==
  /\ KillMemory(p)
  /\ wf' = Killed(wf, p)
  /\ UNCHANGED <<log, torn>>

\* The kill hits thread t inside its write.
CrashInWrite(t, w, ev) ==
  /\ MayAppend(t) /\ Due(t, w, ev) /\ torn < MaxTorn
  /\ KillMemory(ProcOf[t])
  /\ log' \in Remains(w, ev)
  /\ wf' = Killed([wf EXCEPT ![w] = [st |-> "dead", by |-> t]], ProcOf[t])
  /\ torn' = torn + 1

Init ==
  /\ log = <<>>
  /\ index = [p \in Procs |-> NoIndex]
  /\ lock = [p \in Procs |-> NoOne]
  /\ pc = [t \in Threads |-> "idle"]
  /\ snap = [t \in Threads |-> NoSnap]
  /\ wf = [w \in Workflows |-> NewWf]
  /\ crashes = 0 /\ torn = 0 /\ raised = 0

Next ==
  \/ \E t \in Threads, w \in Workflows, ev \in Events :
       AppendWrite(t, w, ev) \/ AppendRaises(t, w, ev) \/ CrashInWrite(t, w, ev)
  \/ \E t \in Threads : AppendIndex(t) \/ ReadStat(t) \/ ReadScan(t) \/ ReadPublish(t)
  \/ \E p \in Procs : Crash(p)

Spec == Init /\ [][Next]_vars

(***************************************************************************)
(* Properties                                                              *)
(***************************************************************************)

\* _ensure_index is "always correct": an index whose stamp matches the file
\* holds every record a scan of the file would return, so that an append of
\* another thread or process is "never silently missed" by events_of_type.
IndexComplete ==
  \A p \in Procs : index[p].built /\ index[p].size = Len(log)
                     => IterEvents(log) \subseteq index[p].recs

\* What events_of_type serves was written out to its last character: no index holds a
\* record whose text was cut.  A record that lacks its newline alone may be served, though
\* its append raised or its process died, and even after the next append has spoilt it.
IndexHoldsFullTexts ==
  \A p \in Procs : index[p].recs \subseteq {i \in DOMAIN log : log[i].kind # "partial"}

\* A record of workflow w was cut, or glued to a cut one.
Damaged(w) == \E i \in DOMAIN log :
  log[i].wid = w /\ (log[i].kind # "whole" \/ ~Readable(log, i))

\* incomplete_workflows() is exact but for damaged records, whichever process wrote
\* what since: it misses no workflow that journaled its start and whose process died in
\* it, and surfaces none that ended.  It does surface the workflow another process is
\* running, and the one an append that raised has left, where event_store.py:10-13 says
\* that a start without a terminal record "means the process died".
RecoveryExact ==
  \A w \in Workflows : ~Damaged(w) =>
    /\ w \in IncompleteWorkflows(log) => wf[w].st \in {"running", "dead", "aborted"}
    /\ /\ wf[w].st = "dead"
       /\ \E i \in DOMAIN log : log[i] = [wid |-> w, ev |-> "workflow_started", kind |-> "whole"]
       => w \in IncompleteWorkflows(log)

\* A cut write costs at most one complete record: the one glued to its line.
TornCostsOne ==
  Cardinality({i \in DOMAIN log : log[i].kind = "whole" /\ ~Readable(log, i)})
    <= Cardinality({i \in DOMAIN log : log[i].kind # "whole"})

\* A torn tail line never corrupts earlier events: a record that ends its line
\* and could be read once can be read for ever, whatever is appended after it.
TerminatedStaysReadable ==
  [][\A i \in IterEvents(log) : log[i].kind = "whole" => i \in IterEvents(log')]_vars
=============================================================================
