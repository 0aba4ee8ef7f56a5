-------------------------- MODULE EventStoreProofs --------------------------
(***************************************************************************)
(* Theorems about EventStore, for any threads, processes and workflows and *)
(* any number of crashes, cut writes and appends that raise.               *)
(***************************************************************************)
EXTENDS EventStore, FiniteSetTheorems, TLAPS

(* The file only grows *)

\* What a step does to the file: nothing, or one more entry.
LogStep == log' = log \/ \E e \in Entry : log' = Append(log, e)

\* m is l or l with one more entry.
GrownTo(l, m) ==
  /\ m \in Seq(Entry) /\ Len(l) <= Len(m)
  /\ DOMAIN l \subseteq DOMAIN m /\ \A i \in DOMAIN l : m[i] = l[i]
  /\ m = l \/ Len(m) = Len(l) + 1

LEMMA AppendGrows ==
  ASSUME NEW l \in Seq(Entry), NEW e \in Entry
  PROVE  /\ GrownTo(l, Append(l, e))
         /\ Len(Append(l, e)) = Len(l) + 1
         /\ DOMAIN Append(l, e) = DOMAIN l \cup {Len(l) + 1}
         /\ Append(l, e)[Len(l) + 1] = e
  BY DEF GrownTo

LEMMA RemainsGrows ==
  ASSUME log \in Seq(Entry), NEW w \in Workflows, NEW ev \in Events, NEW l \in Remains(w, ev)
  PROVE  l = log \/ \E e \in Entry : l = Append(log, e)
  <1>1. \A k \in Kinds : [wid |-> w, ev |-> ev, kind |-> k] \in Entry
    BY DEF Entry
  <1> QED BY <1>1 DEF Remains

LEMMA NextMovesLog ==
  ASSUME TypeOK, [Next]_vars
  PROVE  LogStep
  <1> USE DEF LogStep
  <1> log \in Seq(Entry)
    BY DEF TypeOK
  <1>1. ASSUME NEW t \in Threads, NEW w \in Workflows, NEW ev \in Events, AppendWrite(t, w, ev)
        PROVE  LogStep
    <2>1. [wid |-> w, ev |-> ev, kind |-> "whole"] \in Entry
      BY DEF Entry, Kinds
    <2> QED BY <1>1, <2>1 DEF AppendWrite
  <1>2. ASSUME NEW t \in Threads, NEW w \in Workflows, NEW ev \in Events,
               AppendRaises(t, w, ev) \/ CrashInWrite(t, w, ev)
        PROVE  LogStep
    <2>1. log' \in Remains(w, ev)
      BY <1>2 DEF AppendRaises, CrashInWrite
    <2> QED BY <2>1, RemainsGrows
  <1>3. ASSUME NEW t \in Threads, AppendIndex(t) \/ ReadStat(t) \/ ReadScan(t) \/ ReadPublish(t)
        PROVE  LogStep
    BY <1>3 DEF AppendIndex, ReadStat, ReadScan, ReadPublish
  <1>4. ASSUME NEW p \in Procs, Crash(p)
        PROVE  LogStep
    BY <1>4 DEF Crash
  <1>5. CASE UNCHANGED vars
    BY <1>5 DEF vars
  <1> QED BY <1>1, <1>2, <1>3, <1>4, <1>5 DEF Next

LEMMA LogStepGrows ==
  ASSUME log \in Seq(Entry), LogStep
  PROVE  GrownTo(log, log')
  <1>1. CASE log' = log
    BY <1>1 DEF GrownTo
  <1>2. CASE \E e \in Entry : log' = Append(log, e)
    BY <1>2, AppendGrows
  <1> QED BY <1>1, <1>2 DEF LogStep

(* What a scan returns *)

\* The records written to their last byte.
Complete(l) == {i \in DOMAIN l : l[i].kind # "partial"}

LEMMA GrownKeepsComplete ==
  ASSUME NEW l, NEW m, GrownTo(l, m)
  PROVE  Complete(l) \subseteq Complete(m)
  BY DEF GrownTo, Complete

LEMMA ScanIsComplete ==
  ASSUME NEW l
  PROVE  IterEvents(l) \subseteq Complete(l) /\ Complete(l) \subseteq DOMAIN l
  BY DEF IterEvents, Readable, Complete

LEMMA GrownKeepsScanned ==
  ASSUME NEW l \in Seq(Entry), NEW m, GrownTo(l, m), NEW i \in IterEvents(l), l[i].kind = "whole"
  PROVE  i \in IterEvents(m)
  <1>1. i \in DOMAIN l /\ i \in 1..Len(l) /\ Readable(l, i) /\ m[i] = l[i] /\ i \in DOMAIN m
    BY DEF IterEvents, GrownTo
  <1>2. i = 1 \/ m[i - 1].kind = "whole"
    <2>1. CASE i # 1
      <3>1. i - 1 \in DOMAIN l
        BY <1>1, <2>1
      <3> QED BY <1>1, <2>1, <3>1 DEF Readable, GrownTo
    <2> QED BY <2>1
  <1> QED BY <1>1, <1>2 DEF Readable, IterEvents

(* Types, and what the indexes hold *)

IndexOf(l) == [built : BOOLEAN, size : 0..Len(l), recs : SUBSET Complete(l)]
SnapOf(l)  == [size : 0..Len(l), recs : SUBSET Complete(l)]

\* What a process remembers of the file is about a file no longer than it is, and
\* of records that were written in full.  TypeOK alone does not bound a snapshot by
\* the file, which is what its publication needs.
MemoryInv ==
  /\ index \in [Procs -> IndexOf(log)]
  /\ snap \in [Threads -> SnapOf(log)]

StoreInv == TypeOK /\ MemoryInv

LEMMA GrownKeepsMemory ==
  ASSUME NEW l \in Seq(Entry), NEW m, GrownTo(l, m)
  PROVE  /\ IndexOf(l) \subseteq IndexOf(m)
         /\ SnapOf(l) \subseteq SnapOf(m)
         /\ NoSnap \in SnapOf(l) /\ NoIndex \in IndexOf(l)
  <1>1. Complete(l) \subseteq Complete(m)
    BY GrownKeepsComplete
  <1>2. Len(l) \in Nat /\ Len(m) \in Nat /\ Len(l) <= Len(m)
    BY DEF GrownTo
  <1>3. 0..Len(l) \subseteq 0..Len(m) /\ 0 \in 0..Len(l)
    BY <1>2
  <1> QED BY <1>1, <1>3 DEF IndexOf, SnapOf, NoSnap, NoIndex

\* The memory of before fits the file of after.
LEMMA MemoryFits ==
  ASSUME TypeOK, MemoryInv, [Next]_vars
  PROVE  /\ log' \in Seq(Entry) /\ log \in Seq(Entry) /\ GrownTo(log, log')
         /\ index \in [Procs -> IndexOf(log')]
         /\ snap \in [Threads -> SnapOf(log')]
         /\ NoSnap \in SnapOf(log') /\ NoIndex \in IndexOf(log')
  <1>1. log \in Seq(Entry) /\ GrownTo(log, log')
    BY NextMovesLog, LogStepGrows DEF TypeOK
  <1>2. log' \in Seq(Entry)
    BY <1>1 DEF GrownTo
  <1>3. IndexOf(log) \subseteq IndexOf(log') /\ SnapOf(log) \subseteq SnapOf(log')
    BY <1>1, GrownKeepsMemory
  <1>4. NoSnap \in SnapOf(log') /\ NoIndex \in IndexOf(log')
    BY <1>1, <1>3, GrownKeepsMemory
  <1> QED BY <1>1, <1>2, <1>3, <1>4 DEF MemoryInv

LEMMA MemoryStep ==
  ASSUME TypeOK, MemoryInv, [Next]_vars
  PROVE  MemoryInv'
  <1> DEFINE I == IndexOf(log')
             S == SnapOf(log')
  <1>0. /\ log' \in Seq(Entry) /\ log \in Seq(Entry) /\ GrownTo(log, log')
        /\ index \in [Procs -> I] /\ snap \in [Threads -> S]
        /\ NoSnap \in S /\ NoIndex \in I
    BY MemoryFits
  <1> SUFFICES index' \in [Procs -> I] /\ snap' \in [Threads -> S]
    BY DEF MemoryInv
  <1>p. ASSUME NEW t \in Threads
        PROVE  ProcOf[t] \in Procs
    BY ThreadAssumption
  <1> HIDE DEF I, S
  <1>1. ASSUME NEW t \in Threads, NEW w \in Workflows, NEW ev \in Events, AppendWrite(t, w, ev)
        PROVE  index' \in [Procs -> I] /\ snap' \in [Threads -> S]
    <2> DEFINE e == [wid |-> w, ev |-> ev, kind |-> "whole"]
    <2>1. e \in Entry /\ log' = Append(log, e)
      BY <1>1 DEF Entry, Kinds, AppendWrite
    <2>2. Len(log') \in DOMAIN log' /\ log'[Len(log')] = e /\ Len(log') \in 0..Len(log')
      BY <1>0, <2>1, AppendGrows
    <2>3. Len(log') \in Complete(log')
      BY <2>2 DEF Complete
    <2>4. [size |-> Len(log'), recs |-> {Len(log')}] \in S
      BY <2>2, <2>3 DEF S, SnapOf
    <2>5. snap' = [snap EXCEPT ![t] = [size |-> Len(log'), recs |-> {Len(log')}]] /\ index' = index
      BY <1>1 DEF AppendWrite
    <2> QED BY <1>0, <2>4, <2>5
  <1>2. ASSUME NEW t \in Threads, NEW w \in Workflows, NEW ev \in Events, AppendRaises(t, w, ev)
        PROVE  index' \in [Procs -> I] /\ snap' \in [Threads -> S]
    BY <1>0, <1>2 DEF AppendRaises
  <1>3. ASSUME NEW p \in Procs, KillMemory(p)
        PROVE  index' \in [Procs -> I] /\ snap' \in [Threads -> S]
    BY <1>0, <1>3 DEF KillMemory
  <1>4. ASSUME NEW t \in Threads, AppendIndex(t)
        PROVE  index' \in [Procs -> I] /\ snap' \in [Threads -> S]
    <2>1. log' = log /\ snap' = [snap EXCEPT ![t] = NoSnap]
      BY <1>4 DEF AppendIndex
    <2>2. index[ProcOf[t]] \in I /\ snap[t] \in S /\ Len(log) \in 0..Len(log')
      BY <1>0, <1>p, <2>1
    <2>3. IndexWith(index[ProcOf[t]], snap[t].recs, Len(log)) \in I
      BY <2>2 DEF IndexWith, I, S, IndexOf, SnapOf
    <2>4. \/ index' = index
          \/ index' = [index EXCEPT ![ProcOf[t]] = IndexWith(index[ProcOf[t]], snap[t].recs, Len(log))]
      BY <1>4 DEF AppendIndex
    <2> QED BY <1>0, <1>p, <2>1, <2>3, <2>4
  <1>5. ASSUME NEW t \in Threads, ReadStat(t)
        PROVE  index' \in [Procs -> I] /\ snap' \in [Threads -> S]
    <2>1. log' = log /\ index' = index /\ snap' = [snap EXCEPT ![t] = [snap[t] EXCEPT !.size = Len(log)]]
      BY <1>5 DEF ReadStat
    <2>2. snap[t] \in S /\ Len(log) \in 0..Len(log')
      BY <1>0, <2>1
    <2>3. [snap[t] EXCEPT !.size = Len(log)] \in S
      BY <2>2 DEF S, SnapOf
    <2> QED BY <1>0, <2>1, <2>3
  <1>6. ASSUME NEW t \in Threads, ReadScan(t)
        PROVE  index' \in [Procs -> I] /\ snap' \in [Threads -> S]
    <2>1. log' = log /\ index' = index /\ snap' = [snap EXCEPT ![t] = [snap[t] EXCEPT !.recs = IterEvents(log)]]
      BY <1>6 DEF ReadScan
    <2>2. snap[t] \in S /\ IterEvents(log) \subseteq Complete(log')
      BY <1>0, <2>1, ScanIsComplete
    <2>3. [snap[t] EXCEPT !.recs = IterEvents(log)] \in S
      BY <2>2 DEF S, SnapOf
    <2> QED BY <1>0, <2>1, <2>3
  <1>7. ASSUME NEW t \in Threads, ReadPublish(t)
        PROVE  index' \in [Procs -> I] /\ snap' \in [Threads -> S]
    <2> DEFINE x == [built |-> snap[t].size # 0, size |-> snap[t].size, recs |-> snap[t].recs]
    <2>1. snap[t] \in S
      BY <1>0
    <2>2. x \in I
      BY <2>1 DEF I, S, IndexOf, SnapOf
    <2>3. index' = [index EXCEPT ![ProcOf[t]] = x] /\ snap' = [snap EXCEPT ![t] = NoSnap]
      BY <1>7 DEF ReadPublish
    <2> QED BY <1>0, <1>p, <2>2, <2>3
  <1>8. CASE UNCHANGED vars
    BY <1>0, <1>8 DEF vars
  <1>9. ASSUME NEW t \in Threads, NEW w \in Workflows, NEW ev \in Events, CrashInWrite(t, w, ev)
        PROVE  index' \in [Procs -> I] /\ snap' \in [Threads -> S]
    BY <1>9, <1>3, <1>p DEF CrashInWrite
  <1>10. ASSUME NEW p \in Procs, Crash(p)
        PROVE  index' \in [Procs -> I] /\ snap' \in [Threads -> S]
    BY <1>10, <1>3 DEF Crash
  <1> QED BY <1>1, <1>2, <1>4, <1>5, <1>6, <1>7, <1>8, <1>9, <1>10 DEF Next

LEMMA MemoryIsTyped ==
  ASSUME NEW l \in Seq(Entry)
  PROVE  /\ IndexOf(l) \subseteq [built : BOOLEAN, size : 0..Len(l), recs : SUBSET DOMAIN l]
         /\ SnapOf(l) \subseteq [size : Nat, recs : SUBSET Nat]
  <1>1. Complete(l) \subseteq DOMAIN l /\ DOMAIN l \subseteq Nat
    BY ScanIsComplete
  <1> QED BY <1>1 DEF IndexOf, SnapOf

WfStates == [st : {"new", "running", "done", "dead", "aborted"}, by : Threads \cup {NoOne}]

LEMMA KilledIsTyped ==
  ASSUME NEW f \in [Workflows -> WfStates], NEW p \in Procs
  PROVE  Killed(f, p) \in [Workflows -> WfStates]
  <1>1. ASSUME NEW w \in Workflows
        PROVE  [f[w] EXCEPT !.st = "dead"] \in WfStates /\ f[w] \in WfStates
    BY DEF WfStates
  <1> QED BY <1>1 DEF Killed

LEMMA RestIsTyped ==
  ASSUME TypeOK, [Next]_vars
  PROVE  /\ lock' \in [Procs -> Threads \cup {NoOne}]
         /\ pc' \in [Threads -> {"idle", "wrote", "scan", "publish"}]
         /\ wf' \in [Workflows -> WfStates]
         /\ crashes' \in 0..MaxCrashes /\ torn' \in 0..MaxTorn /\ raised' \in 0..MaxRaised
  <1> DEFINE Typed ==
        /\ lock' \in [Procs -> Threads \cup {NoOne}]
        /\ pc' \in [Threads -> {"idle", "wrote", "scan", "publish"}]
        /\ wf' \in [Workflows -> WfStates]
        /\ crashes' \in 0..MaxCrashes /\ torn' \in 0..MaxTorn /\ raised' \in 0..MaxRaised
  <1> SUFFICES Typed
    OBVIOUS
  <1> USE BoundAssumption
  <1>0. /\ lock \in [Procs -> Threads \cup {NoOne}]
        /\ pc \in [Threads -> {"idle", "wrote", "scan", "publish"}]
        /\ wf \in [Workflows -> WfStates]
        /\ crashes \in 0..MaxCrashes /\ torn \in 0..MaxTorn /\ raised \in 0..MaxRaised
    BY DEF TypeOK, WfStates
  <1>p. ASSUME NEW t \in Threads
        PROVE  ProcOf[t] \in Procs
    BY ThreadAssumption
  <1>s. ASSUME NEW t \in Threads, NEW st \in {"running", "done", "dead", "aborted"}
        PROVE  [st |-> st, by |-> t] \in WfStates
    BY DEF WfStates
  <1>1. ASSUME NEW t \in Threads, NEW w \in Workflows, NEW ev \in Events, AppendWrite(t, w, ev)
        PROVE  Typed
    <2>1. wf' = [wf EXCEPT ![w] = [st |-> After(ev), by |-> t]] /\ After(ev) \in {"running", "done"}
      BY <1>1 DEF AppendWrite, After
    <2>2. wf' \in [Workflows -> WfStates]
      BY <1>0, <1>s, <2>1
    <2> QED BY <1>0, <1>1, <1>p, <2>2 DEF AppendWrite
  <1>2. ASSUME NEW t \in Threads, NEW w \in Workflows, NEW ev \in Events, AppendRaises(t, w, ev)
        PROVE  Typed
    <2>1. wf' \in [Workflows -> WfStates]
      BY <1>0, <1>s, <1>2 DEF AppendRaises
    <2> QED BY <1>0, <1>2, <2>1 DEF AppendRaises
  <1>3. ASSUME NEW p \in Procs, KillMemory(p)
        PROVE  /\ lock' \in [Procs -> Threads \cup {NoOne}]
               /\ pc' \in [Threads -> {"idle", "wrote", "scan", "publish"}]
               /\ crashes' \in 0..MaxCrashes /\ raised' \in 0..MaxRaised
    BY <1>0, <1>3 DEF KillMemory
  <1>4. ASSUME NEW t \in Threads, NEW w \in Workflows, NEW ev \in Events, CrashInWrite(t, w, ev)
        PROVE  Typed
    <2>1. [wf EXCEPT ![w] = [st |-> "dead", by |-> t]] \in [Workflows -> WfStates]
      BY <1>0, <1>s
    <2>2. wf' \in [Workflows -> WfStates]
      BY <1>4, <1>p, <2>1, KilledIsTyped DEF CrashInWrite
    <2>3. torn' \in 0..MaxTorn
      BY <1>0, <1>4 DEF CrashInWrite
    <2> QED BY <1>4, <1>3, <1>p, <2>2, <2>3 DEF CrashInWrite
  <1>5. ASSUME NEW p \in Procs, Crash(p)
        PROVE  Typed
    <2>1. wf' \in [Workflows -> WfStates]
      BY <1>0, <1>5, KilledIsTyped DEF Crash
    <2> QED BY <1>0, <1>5, <1>3, <2>1 DEF Crash
  <1>6. ASSUME NEW t \in Threads, AppendIndex(t)
        PROVE  Typed
    BY <1>0, <1>6, <1>p DEF AppendIndex
  <1>7. ASSUME NEW t \in Threads, ReadStat(t) \/ ReadScan(t) \/ ReadPublish(t)
        PROVE  Typed
    BY <1>0, <1>7 DEF ReadStat, ReadScan, ReadPublish
  <1>8. CASE UNCHANGED vars
    BY <1>0, <1>8 DEF vars
  <1> QED BY <1>1, <1>2, <1>4, <1>5, <1>6, <1>7, <1>8 DEF Next

LEMMA StoreInit == Init => StoreInv
  <1> SUFFICES ASSUME Init PROVE StoreInv
    OBVIOUS
  <1> USE DEF Init
  <1>1. log \in Seq(Entry) /\ Len(log) = 0 /\ GrownTo(log, log)
    BY DEF GrownTo
  <1>2. MemoryInv
    BY <1>1, GrownKeepsMemory DEF MemoryInv
  <1>3. wf \in [Workflows -> WfStates]
    BY DEF NewWf, WfStates
  <1>4. /\ index \in [Procs -> [built : BOOLEAN, size : 0..Len(log), recs : SUBSET DOMAIN log]]
        /\ snap \in [Threads -> [size : Nat, recs : SUBSET Nat]]
    BY <1>1, <1>2, MemoryIsTyped DEF MemoryInv
  <1> QED BY <1>1, <1>2, <1>3, <1>4, BoundAssumption DEF StoreInv, TypeOK, WfStates

LEMMA StoreStep == StoreInv /\ [Next]_vars => StoreInv'
  <1> SUFFICES ASSUME StoreInv, [Next]_vars PROVE StoreInv'
    OBVIOUS
  <1>1. MemoryInv' /\ log' \in Seq(Entry)
    BY MemoryStep, MemoryFits DEF StoreInv
  <1>2. /\ index' \in [Procs -> [built : BOOLEAN, size : 0..Len(log'), recs : SUBSET DOMAIN log']]
        /\ snap' \in [Threads -> [size : Nat, recs : SUBSET Nat]]
    BY <1>1, MemoryIsTyped DEF MemoryInv
  <1> QED BY <1>1, <1>2, RestIsTyped DEF StoreInv, TypeOK, WfStates

LEMMA StoreAlways == Spec => []StoreInv
  BY StoreInit, StoreStep, PTL DEF Spec

\* Types of the journal, of every process's index and of what its threads hold, and
\* the bounds on crashes, cut writes and raised appends.
THEOREM StoreTyped == Spec => []TypeOK
  <1>1. StoreInv => TypeOK
    BY DEF StoreInv
  <1> QED BY <1>1, StoreAlways, PTL

\* events_of_type never serves a record whose text was cut: an index takes records from
\* a scan, which skips undecodable text, and from an append that wrote its line, and
\* neither becomes cut later.  A text that lacks only its newline decodes, and is not
\* excluded.
THEOREM IndexIsHonest == Spec => []IndexHoldsFullTexts
  <1>1. StoreInv => IndexHoldsFullTexts
    BY DEF StoreInv, MemoryInv, IndexOf, Complete, IndexHoldsFullTexts
  <1> QED BY <1>1, StoreAlways, PTL

\* A record that ended its line and decoded once decodes for ever: the file only
\* grows at its end and a cut spoils its own line and the next.
THEOREM TerminatedIsForEver == Spec => TerminatedStaysReadable
  <1>1. StoreInv /\ [Next]_vars
        => [\A i \in IterEvents(log) : log[i].kind = "whole" => i \in IterEvents(log')]_vars
    BY MemoryFits, GrownKeepsScanned DEF StoreInv
  <1> QED BY <1>1, StoreAlways, PTL DEF Spec, TerminatedStaysReadable

(* Recovery *)

Ended(w, l) == \E i \in DOMAIN l : l[i] = [wid |-> w, ev |-> "terminal", kind |-> "whole"]
Untouched(w, l) == \A i \in DOMAIN l : l[i].wid # w

Matches(l, f) ==
  \A w \in Workflows : /\ f[w].st = "new" => Untouched(w, l)
                       /\ f[w].st = "done" <=> Ended(w, l)

\* The file is true to the workflows: nothing is on file of one that has not begun,
\* and a whole terminal record of exactly those that are done.  RecoveryExact says
\* nothing of a workflow while its records are damaged, so it does not carry over a
\* step by itself.
WfInv == Matches(log, wf)

\* A step that adds at most an entry of workflow w, which was not done, and makes
\* every other workflow at most die.
LEMMA MatchesStep ==
  ASSUME NEW l \in Seq(Entry), NEW m, NEW e \in Entry, m = l \/ m = Append(l, e),
         NEW w \in Workflows, e.wid = w, NEW f, NEW g, Matches(l, f),
         f[w].st # "done", g[w].st # "new",
         g[w].st = "done" <=> m = Append(l, e) /\ e.ev = "terminal" /\ e.kind = "whole",
         \A v \in Workflows \ {w} : g[v].st = f[v].st \/ (f[v].st = "running" /\ g[v].st = "dead")
  PROVE  Matches(m, g)
  <1> SUFFICES ASSUME NEW v \in Workflows
               PROVE  /\ g[v].st = "new" => Untouched(v, m)
                      /\ g[v].st = "done" <=> Ended(v, m)
    BY DEF Matches
  <1>0. /\ f[v].st = "new" => Untouched(v, l)
        /\ f[v].st = "done" <=> Ended(v, l)
    BY DEF Matches
  <1>1. CASE v # w
    <2>1. Untouched(v, l) => Untouched(v, m)
      BY <1>1, AppendGrows DEF Untouched, GrownTo
    <2>2. Ended(v, l) <=> Ended(v, m)
      BY <1>1, AppendGrows DEF Ended, GrownTo
    <2> QED BY <1>0, <1>1, <2>1, <2>2
  <1>2. CASE v = w
    <2>1. ~Ended(w, l)
      BY <1>0, <1>2
    <2>2. CASE m = l
      <3>1. m # Append(l, e)
        BY <2>2, AppendGrows
      <3> QED BY <1>2, <2>1, <2>2, <3>1
    <2>3. CASE m = Append(l, e)
      <3>1. Ended(w, m) <=> e = [wid |-> w, ev |-> "terminal", kind |-> "whole"]
        BY <2>1, <2>3, AppendGrows DEF Ended, GrownTo
      <3>2. e = [wid |-> w, ev |-> "terminal", kind |-> "whole"] <=> e.ev = "terminal" /\ e.kind = "whole"
        BY DEF Entry
      <3> QED BY <1>2, <2>3, <3>1, <3>2
    <2> QED BY <2>2, <2>3
  <1> QED BY <1>1, <1>2

LEMMA KilledStates ==
  ASSUME NEW f \in [Workflows -> WfStates], NEW p \in Procs, NEW v \in Workflows
  PROVE  Killed(f, p)[v].st = f[v].st \/ (f[v].st = "running" /\ Killed(f, p)[v].st = "dead")
  <1>1. f[v] \in WfStates /\ (Killed(f, p)[v] = f[v]
                             \/ (f[v].st = "running" /\ Killed(f, p)[v] = [f[v] EXCEPT !.st = "dead"]))
    BY DEF Killed
  <1> QED BY <1>1 DEF WfStates

LEMMA MatchesDies ==
  ASSUME NEW l, NEW f, NEW g, Matches(l, f),
         \A v \in Workflows : g[v].st = f[v].st \/ (f[v].st = "running" /\ g[v].st = "dead")
  PROVE  Matches(l, g)
  BY DEF Matches

\* What an interrupted write leaves of a record is not the record.
LEMMA RemainsAreCut ==
  ASSUME log \in Seq(Entry), NEW w \in Workflows, NEW ev \in Events, NEW l \in Remains(w, ev)
  PROVE  \E e \in Entry : e.wid = w /\ e.kind # "whole" /\ (l = log \/ l = Append(log, e))
  <1>1. CASE l = log
    <2>1. [wid |-> w, ev |-> ev, kind |-> "partial"] \in Entry
      BY DEF Entry, Kinds
    <2> QED BY <1>1, <2>1
  <1>2. ASSUME NEW k \in Kinds \ {"whole"}, l = Append(log, [wid |-> w, ev |-> ev, kind |-> k])
        PROVE  \E e \in Entry : e.wid = w /\ e.kind # "whole" /\ (l = log \/ l = Append(log, e))
    <2>1. [wid |-> w, ev |-> ev, kind |-> k] \in Entry
      BY DEF Entry
    <2> QED BY <1>2, <2>1
  <1> QED BY <1>1, <1>2 DEF Remains

\* A workflow that is due a record has not ended.
LEMMA DueIsOpen ==
  ASSUME NEW t \in Threads, NEW w \in Workflows, NEW ev \in Events, Due(t, w, ev)
  PROVE  wf[w].st # "done"
  BY DEF Due

LEMMA WfStep ==
  ASSUME TypeOK, WfInv, [Next]_vars
  PROVE  WfInv'
  <1>0. log \in Seq(Entry) /\ wf \in [Workflows -> WfStates] /\ Matches(log, wf)
    BY DEF TypeOK, WfStates, WfInv
  <1> SUFFICES Matches(log', wf')
    BY DEF WfInv
  <1>p. ASSUME NEW t \in Threads
        PROVE  ProcOf[t] \in Procs
    BY ThreadAssumption
  <1>1. ASSUME NEW t \in Threads, NEW w \in Workflows, NEW ev \in Events, AppendWrite(t, w, ev)
        PROVE  Matches(log', wf')
    <2>1. PICK e \in Entry : e.wid = w /\ e.ev = ev /\ e.kind = "whole" /\ log' = Append(log, e)
      <3>1. [wid |-> w, ev |-> ev, kind |-> "whole"] \in Entry
        BY DEF Entry, Kinds
      <3> QED BY <1>1, <3>1 DEF AppendWrite
    <2>2. wf' = [wf EXCEPT ![w] = [st |-> After(ev), by |-> t]]
      BY <1>1 DEF AppendWrite
    <2>3. wf[w].st # "done"
      BY <1>1, DueIsOpen DEF AppendWrite
    <2>4. wf'[w].st # "new" /\ (wf'[w].st = "done" <=> ev = "terminal")
      BY <1>0, <2>2 DEF After, Events
    <2>5. \A v \in Workflows \ {w} : wf'[v].st = wf[v].st
      BY <1>0, <2>2
    <2>6. wf'[w].st = "done" <=> log' = Append(log, e) /\ e.ev = "terminal" /\ e.kind = "whole"
      BY <2>1, <2>4
    <2>7. wf'[w].st # "new" /\ e.wid = w /\ (log' = log \/ log' = Append(log, e))
      BY <2>1, <2>4
    <2> QED BY <1>0, <2>3, <2>5, <2>6, <2>7, MatchesStep
  <1>2. ASSUME NEW t \in Threads, NEW w \in Workflows, NEW ev \in Events, AppendRaises(t, w, ev)
        PROVE  Matches(log', wf')
    <2>1. PICK e \in Entry : e.wid = w /\ e.kind # "whole" /\ (log' = log \/ log' = Append(log, e))
      BY <1>0, <1>2, RemainsAreCut DEF AppendRaises
    <2>2. wf' = [wf EXCEPT ![w] = [st |-> "aborted", by |-> t]]
      BY <1>2 DEF AppendRaises
    <2>3. wf[w].st # "done"
      BY <1>2, DueIsOpen DEF AppendRaises
    <2>4. wf'[w].st = "aborted" /\ \A v \in Workflows \ {w} : wf'[v].st = wf[v].st
      BY <1>0, <2>2
    <2> QED BY <1>0, <2>1, <2>3, <2>4, MatchesStep
  <1>3. ASSUME NEW t \in Threads, NEW w \in Workflows, NEW ev \in Events, CrashInWrite(t, w, ev)
        PROVE  Matches(log', wf')
    <2> DEFINE f == [wf EXCEPT ![w] = [st |-> "dead", by |-> t]]
    <2>1. PICK e \in Entry : e.wid = w /\ e.kind # "whole" /\ (log' = log \/ log' = Append(log, e))
      BY <1>0, <1>3, RemainsAreCut DEF CrashInWrite
    <2>2. wf' = Killed(f, ProcOf[t]) /\ wf[w].st # "done"
      BY <1>3, DueIsOpen DEF CrashInWrite
    <2>3. f \in [Workflows -> WfStates]
      BY <1>0 DEF WfStates
    <2>4. f[w].st = "dead" /\ \A v \in Workflows \ {w} : f[v].st = wf[v].st
      BY <1>0
    <2> HIDE DEF f
    <2>5. \A v \in Workflows : wf'[v].st = f[v].st \/ (f[v].st = "running" /\ wf'[v].st = "dead")
      BY <1>p, <2>2, <2>3, KilledStates
    <2>6. Matches(log', f)
      BY <1>0, <2>1, <2>2, <2>4, MatchesStep
    <2> QED BY <2>5, <2>6, MatchesDies
  <1>4. ASSUME NEW p \in Procs, Crash(p)
        PROVE  Matches(log', wf')
    <2>1. log' = log /\ wf' = Killed(wf, p)
      BY <1>4 DEF Crash
    <2> QED BY <1>0, <2>1, KilledStates, MatchesDies
  <1>5. ASSUME NEW t \in Threads, AppendIndex(t) \/ ReadStat(t) \/ ReadScan(t) \/ ReadPublish(t)
        PROVE  Matches(log', wf')
    BY <1>0, <1>5 DEF AppendIndex, ReadStat, ReadScan, ReadPublish
  <1>6. CASE UNCHANGED vars
    BY <1>0, <1>6 DEF vars
  <1> QED BY <1>1, <1>2, <1>3, <1>4, <1>5, <1>6 DEF Next

LEMMA WfAlways == Spec => []WfInv
  <1>1. Init => WfInv
    BY DEF Init, NewWf, WfInv, Matches, Untouched, Ended
  <1>2. StoreInv /\ WfInv /\ [Next]_vars => WfInv'
    BY WfStep DEF StoreInv
  <1> QED BY <1>1, <1>2, StoreAlways, PTL DEF Spec

\* incomplete_workflows() is exact where the records are sound: whom it names did
\* not end, and whom a crash left behind with a start on file it names.
THEOREM RecoveryIsExact == Spec => []RecoveryExact
  <1>1. StoreInv /\ WfInv => RecoveryExact
    <2> SUFFICES ASSUME TypeOK, WfInv, NEW w \in Workflows, ~Damaged(w)
                 PROVE  /\ w \in IncompleteWorkflows(log) => wf[w].st \in {"running", "dead", "aborted"}
                        /\ /\ wf[w].st = "dead"
                           /\ \E i \in DOMAIN log : log[i] = [wid |-> w, ev |-> "workflow_started", kind |-> "whole"]
                           => w \in IncompleteWorkflows(log)
      BY DEF RecoveryExact, StoreInv
    <2>1. log \in Seq(Entry) /\ wf[w].st \in {"new", "running", "done", "dead", "aborted"}
      BY DEF TypeOK
    <2>2. \A i \in DOMAIN log : log[i].wid = w => log[i].kind = "whole" /\ i \in IterEvents(log)
      BY DEF Damaged, IterEvents
    <2>3. \A i \in IterEvents(log) : i \in DOMAIN log
      BY DEF IterEvents
    <2>4. w \in Finished(log) <=> Ended(w, log)
      <3>1. ASSUME NEW i \in IterEvents(log), log[i].ev = "terminal", log[i].wid = w
            PROVE  Ended(w, log)
        <4>1. log[i] \in Entry /\ log[i].kind = "whole" /\ i \in DOMAIN log
          BY <2>1, <2>2, <2>3, <3>1
        <4>2. log[i] = [wid |-> w, ev |-> "terminal", kind |-> "whole"]
          BY <3>1, <4>1 DEF Entry
        <4> QED BY <4>1, <4>2 DEF Ended
      <3>2. ASSUME Ended(w, log)
            PROVE  w \in Finished(log)
        BY <3>2, <2>2 DEF Ended, Finished
      <3> QED BY <3>1, <3>2 DEF Finished
    <2>5. wf[w].st = "new" => w \notin Started(log)
      BY <2>3 DEF WfInv, Matches, Untouched, Started
    <2>6. wf[w].st = "done" <=> Ended(w, log)
      BY DEF WfInv, Matches
    <2>7. ASSUME NEW i \in DOMAIN log, log[i] = [wid |-> w, ev |-> "workflow_started", kind |-> "whole"]
          PROVE  w \in Started(log)
      BY <2>2, <2>7 DEF Started
    <2> QED BY <2>1, <2>4, <2>5, <2>6, <2>7 DEF IncompleteWorkflows
  <1> QED BY <1>1, StoreAlways, WfAlways, PTL

\* A cut write costs at most the record glued to its line: a whole record that no
\* scan returns stands right after a cut one, and two never after the same.
THEOREM CutsCostOne == Spec => []TornCostsOne
  <1>1. TypeOK => TornCostsOne
    <2> SUFFICES ASSUME TypeOK PROVE TornCostsOne
      OBVIOUS
    <2> DEFINE Lost == {i \in DOMAIN log : log[i].kind = "whole" /\ ~Readable(log, i)}
               Cut  == {i \in DOMAIN log : log[i].kind # "whole"}
               before == [i \in Lost |-> i - 1]
    <2>1. log \in Seq(Entry) /\ DOMAIN log = 1..Len(log) /\ Len(log) \in Nat
      BY DEF TypeOK
    <2>2. IsFiniteSet(Cut)
      <3>1. IsFiniteSet(1..Len(log))
        BY <2>1, FS_Interval
      <3>2. Cut \subseteq 1..Len(log)
        BY <2>1
      <3> QED BY <3>1, <3>2, FS_Subset
    <2>3. ASSUME NEW i \in Lost
          PROVE  i - 1 \in Cut
      <3>1. i # 1 /\ log[i - 1].kind # "whole"
        BY DEF Readable
      <3> QED BY <2>1, <3>1
    <2>4. before \in Injection(Lost, Cut)
      <3>1. before \in [Lost -> Cut]
        BY <2>3
      <3>2. \A i, j \in Lost : before[i] = before[j] => i = j
        BY <2>1
      <3> QED BY <3>1, <3>2 DEF Injection, IsInjective
    <2>5. Cardinality(Lost) <= Cardinality(Cut)
      BY <2>2, <2>4, FS_Injection
    <2> QED BY <2>5 DEF TornCostsOne
  <1> QED BY <1>1, StoreTyped, PTL
=============================================================================
