--------------------------- MODULE WorkflowProofs ---------------------------
(***************************************************************************)
(* Theorems about Workflow, for any number of steps and every well-formed  *)
(* plan, whatever raises and wherever the process dies.                    *)
(***************************************************************************)
EXTENDS Workflow, TLAPS

(* Sequences *)

LEMMA ReverseIs ==
  ASSUME NEW S, NEW s \in Seq(S)
  PROVE  /\ Reverse(s) \in Seq(S) /\ Len(Reverse(s)) = Len(s)
         /\ \A j \in 1..Len(s) : Reverse(s)[j] = s[Len(s) - j + 1]
  <1>1. \A j \in 1..Len(s) : Len(s) - j + 1 \in 1..Len(s) /\ s[Len(s) - j + 1] \in S
    OBVIOUS
  <1> QED BY <1>1 DEF Reverse

LEMMA TailIs ==
  ASSUME NEW S, NEW s \in Seq(S), s # <<>>
  PROVE  /\ Tail(s) \in Seq(S) /\ Len(s) \in Nat \ {0} /\ Len(Tail(s)) = Len(s) - 1
         /\ Head(s) = s[1] /\ Head(s) \in S
         /\ \A j \in 1..(Len(s) - 1) : Tail(s)[j] = s[j + 1]
  OBVIOUS

LEMMA TailKeepsOthers ==
  ASSUME NEW S, NEW s \in Seq(S), s # <<>>, NEW x \in ToSet(s), x # Head(s)
  PROVE  x \in ToSet(Tail(s))
  <1>1. PICK j \in 1..Len(s) : s[j] = x
    BY DEF ToSet
  <1>2. j # 1 /\ j - 1 \in 1..(Len(s) - 1)
    BY <1>1, TailIs
  <1>3. Tail(s)[j - 1] = x /\ j - 1 \in DOMAIN Tail(s)
    BY <1>1, <1>2, TailIs
  <1> QED BY <1>3 DEF ToSet

LEMMA ReverseKeepsAll ==
  ASSUME NEW S, NEW s \in Seq(S)
  PROVE  ToSet(Reverse(s)) = ToSet(s)
  <1>0. DOMAIN s = 1..Len(s) /\ DOMAIN Reverse(s) = 1..Len(s)
    BY ReverseIs
  <1>1. ASSUME NEW j \in 1..Len(s)
        PROVE  /\ Len(s) - j + 1 \in 1..Len(s)
               /\ Reverse(s)[j] = s[Len(s) - j + 1]
               /\ s[j] = Reverse(s)[Len(s) - j + 1]
    BY ReverseIs
  <1>2. ASSUME NEW x \in ToSet(s)
        PROVE  x \in ToSet(Reverse(s))
    BY <1>0, <1>1 DEF ToSet
  <1>3. ASSUME NEW x \in ToSet(Reverse(s))
        PROVE  x \in ToSet(s)
    BY <1>0, <1>1 DEF ToSet
  <1> QED BY <1>2, <1>3

(* What a step of run() does *)

\* run() takes an outcome: the next step if the loop goes on, or compensation.
LEMMA TakesIs ==
  ASSUME NEW r, Takes(r)
  PROVE  /\ res' = [res EXCEPT ![cur] = r]
         /\ r = "ok" => ~Fatal(r)
         /\ completed' = IF r = "ok" THEN Append(completed, cur) ELSE completed
         /\ Fatal(r) => cur' = cur /\ undo' = Reverse(completed)
         /\ ~Fatal(r) => cur' = cur + 1 /\ undo' = undo
         /\ ~Fatal(r) /\ cur \in plan.required => r = "ok"
  BY DEF Takes, Fatal, UndoOrder

(* Types *)

Forward == {"new", "gate", "run", "returned", "raised"}
InStep  == {"run", "returned", "raised", "compensate", "undone", "undofailed"}

\* Where run() is and what it holds there: a step of the list, something to undo
\* while a compensation is journaled, nothing to undo before; a verdict at the end.
PlaceInv ==
  /\ pc \in InStep => cur \in Step
  /\ pc \in {"undone", "undofailed"} => undo # <<>>
  /\ pc \in Forward => undo = <<>> /\ compensated = <<>>
  /\ status # "open" => pc = "done"

RunInv == TypeOK /\ PlaceInv

LEMMA JournalsTyped ==
  ASSUME TypeOK, NEW event \in Events, NEW i \in 0..N, NEW to, Journals(event, i, to)
  PROVE  journal' \in Seq([event : Events, step : 0..N]) /\ pc' = to
  <1>1. [event |-> event, step |-> i] \in [event : Events, step : 0..N]
    OBVIOUS
  <1> QED BY <1>1 DEF Journals, TypeOK

LEMMA TakesTyped ==
  ASSUME TypeOK, cur \in Step, NEW r \in {"ok", "failed", "skipped"}, Takes(r)
  PROVE  /\ cur' \in 1..(N + 1) /\ {completed', undo'} \subseteq Seq(Step)
         /\ res' \in [Step -> {"none", "ok", "failed", "skipped"}]
         /\ Fatal(r) => cur' \in Step
         /\ ~Fatal(r) => undo' = undo
  <1> N \in Nat /\ completed \in Seq(Step) /\ undo \in Seq(Step)
    BY WorkflowAssumption DEF TypeOK
  <1>1. cur' = cur \/ cur' = cur + 1
    BY DEF Takes
  <1>2. completed' = completed \/ completed' = Append(completed, cur)
    BY DEF Takes
  <1>3. undo' = undo \/ undo' = Reverse(completed)
    BY DEF Takes, UndoOrder
  <1>4. completed' \in Seq(Step)
    BY <1>2
  <1>5. undo' \in Seq(Step)
    BY <1>3, ReverseIs
  <1>6. res' \in [Step -> {"none", "ok", "failed", "skipped"}]
    BY DEF Takes, TypeOK
  <1>7. (Fatal(r) => cur' = cur) /\ (~Fatal(r) => undo' = undo)
    BY DEF Takes
  <1> QED BY <1>1, <1>4, <1>5, <1>6, <1>7 DEF Step

LEMMA RunInit == Init => RunInv
  <1> SUFFICES ASSUME Init PROVE RunInv
    OBVIOUS
  <1> USE DEF Init
  <1>1. N \in Nat \ {0} /\ 1 \in 1..(N + 1)
    BY WorkflowAssumption
  <1>2. {completed, undo, compensated} \subseteq Seq(Step) /\ journal \in Seq([event : Events, step : 0..N])
    OBVIOUS
  <1>3. TypeOK
    BY <1>1, <1>2 DEF TypeOK
  <1>4. PlaceInv
    BY DEF PlaceInv, InStep, Forward
  <1> QED BY <1>3, <1>4 DEF RunInv

LEMMA RunStep == RunInv /\ [Next]_vars => RunInv'
  <1> SUFFICES ASSUME TypeOK, PlaceInv, [Next]_vars PROVE RunInv'
    BY DEF RunInv
  <1> USE DEF RunInv
  <1>0. /\ N \in Nat \ {0} /\ cur \in 1..(N + 1) /\ 0 \in 0..N /\ Step \subseteq 0..N /\ Step \subseteq 1..(N + 1)
        /\ completed \in Seq(Step) /\ undo \in Seq(Step) /\ compensated \in Seq(Step)
        /\ MoreSteps => cur \in Step
    BY WorkflowAssumption DEF TypeOK, Step, MoreSteps
  <1>t. ASSUME undo # <<>>
        PROVE  Head(undo) \in Step /\ Tail(undo) \in Seq(Step)
    BY <1>0, <1>t, TailIs
  <1>1. CASE Start
    <2>1. journal' \in Seq([event : Events, step : 0..N]) /\ pc' = "gate"
      BY <1>0, <1>1, JournalsTyped DEF Start, Events
    <2> QED BY <1>1, <2>1 DEF Start, TypeOK, PlaceInv, code, InStep, Forward
  <1>2. ASSUME NEW r \in {"ok", "failed", "skipped"}, NEW event \in Events, cur \in Step, Takes(r),
               Journals(event, cur, After(r)), pc \in Forward,
               UNCHANGED <<plan, compensated, status, effect>>
        PROVE  RunInv'
    <2>1. journal' \in Seq([event : Events, step : 0..N]) /\ pc' = After(r)
      BY <1>0, <1>2, JournalsTyped
    <2>2. /\ cur' \in 1..(N + 1) /\ {completed', undo'} \subseteq Seq(Step)
          /\ res' \in [Step -> {"none", "ok", "failed", "skipped"}]
          /\ Fatal(r) => cur' \in Step
          /\ ~Fatal(r) => undo' = undo
      BY <1>2, TakesTyped
    <2>3. (Fatal(r) => pc' = "compensate") /\ (~Fatal(r) => pc' = "gate")
      BY <2>1 DEF After
    <2>4. TypeOK'
      BY <1>2, <2>1, <2>2, <2>3 DEF TypeOK
    <2>5. PlaceInv'
      BY <1>2, <2>2, <2>3 DEF PlaceInv, InStep, Forward
    <2> QED BY <2>4, <2>5
  <1>3. CASE GateSkips
    BY <1>0, <1>3, <1>2 DEF GateSkips, Forward, Events
  <1>4. CASE StepStarts
    <2>1. journal' \in Seq([event : Events, step : 0..N]) /\ pc' = "run"
      BY <1>0, <1>4, JournalsTyped DEF StepStarts, Events
    <2> QED BY <1>0, <1>4, <2>1 DEF StepStarts, TypeOK, PlaceInv, code, InStep, Forward
  <1>5. CASE FnReturns
    BY <1>5 DEF FnReturns, TypeOK, PlaceInv, code, InStep, Forward
  <1>6. CASE FnRaises
    BY <1>6 DEF FnRaises, TypeOK, PlaceInv, code, InStep, Forward
  <1>7. CASE StepCompleted
    <2>1. After("ok") = "gate" /\ cur \in Step
      BY <1>7 DEF After, Fatal, StepCompleted, PlaceInv, InStep
    <2> QED BY <1>7, <2>1, <1>2 DEF StepCompleted, Forward, Events
  <1>8. CASE StepFailed
    <2>1. cur \in Step
      BY <1>8 DEF StepFailed, PlaceInv, InStep
    <2> QED BY <1>8, <2>1, <1>2 DEF StepFailed, Forward, Events
  <1>9. CASE NothingToUndo
    <2>1. Tail(undo) \in Seq(Step)
      BY <1>9, <1>t DEF NothingToUndo, Undoing
    <2> QED BY <1>9, <2>1 DEF NothingToUndo, Undoing, TypeOK, PlaceInv, InStep, Forward
  <1>10. CASE UndoReturns
    <2>1. NextUndo \in Step
      BY <1>10, <1>t DEF UndoReturns, Undoing, NextUndo
    <2>2. compensated' \in Seq(Step)
      BY <1>0, <1>10, <2>1 DEF UndoReturns
    <2>3. effect' \in [Step -> {"none", "done", "undone"}]
      BY <1>10, <2>1 DEF UndoReturns, TypeOK
    <2> QED BY <1>10, <2>2, <2>3 DEF UndoReturns, Undoing, TypeOK, PlaceInv, InStep, Forward
  <1>11. CASE UndoRaises
    BY <1>11 DEF UndoRaises, Undoing, TypeOK, PlaceInv, code, InStep, Forward
  <1>12. ASSUME NEW event \in {"step_compensated", "compensation_failed"}, Undone(event),
                pc \in {"undone", "undofailed"}
         PROVE  RunInv'
    <2>1. undo # <<>> /\ event \in Events
      BY <1>12 DEF PlaceInv, Events
    <2>2. NextUndo \in 0..N /\ Tail(undo) \in Seq(Step)
      BY <1>0, <1>t, <2>1 DEF NextUndo
    <2>3. journal' \in Seq([event : Events, step : 0..N]) /\ pc' = "compensate"
      BY <1>12, <2>1, <2>2, JournalsTyped DEF Undone
    <2> QED BY <1>12, <2>2, <2>3 DEF Undone, TypeOK, PlaceInv, InStep, Forward
  <1>13. CASE UndoJournaled
    BY <1>13, <1>12 DEF UndoJournaled
  <1>14. CASE UndoFailureJournaled
    BY <1>14, <1>12 DEF UndoFailureJournaled
  <1>15. CASE Fail
    <2>1. cur \in 0..N
      BY <1>0, <1>15 DEF Fail, PlaceInv, InStep
    <2>2. journal' \in Seq([event : Events, step : 0..N]) /\ pc' = "done"
      BY <1>15, <2>1, JournalsTyped DEF Fail, Events
    <2> QED BY <1>15, <2>2 DEF Fail, TypeOK, PlaceInv, InStep, Forward
  <1>16. CASE Complete
    <2>1. journal' \in Seq([event : Events, step : 0..N]) /\ pc' = "done"
      BY <1>0, <1>16, JournalsTyped DEF Complete, Events
    <2> QED BY <1>16, <2>1 DEF Complete, TypeOK, PlaceInv, InStep, Forward
  <1>17. CASE UndoAppendRaises
    BY <1>17 DEF UndoAppendRaises, TypeOK, PlaceInv, code, InStep, Forward
  <1>18. CASE AppendRaises
    BY <1>18 DEF AppendRaises, AppendDue, TypeOK, PlaceInv, code, InStep, Forward
  <1>19. CASE Die
    BY <1>19 DEF Die, TypeOK, PlaceInv, code, InStep, Forward
  <1>20. CASE UNCHANGED vars
    BY <1>20 DEF vars, TypeOK, PlaceInv, code, InStep, Forward
  <1> QED BY <1>1, <1>3, <1>4, <1>5, <1>6, <1>7, <1>8, <1>9, <1>10, <1>11, <1>13, <1>14, <1>15,
             <1>16, <1>17, <1>18, <1>19, <1>20 DEF Next, Run

LEMMA RunAlways == Spec => []RunInv
  BY RunInit, RunStep, PTL DEF Spec

\* Types of the locals of run(), of what the steps did and of the journal.
THEOREM RunTyped == Spec => []TypeOK
  <1>1. RunInv => TypeOK
    BY DEF RunInv
  <1> QED BY <1>1, RunAlways, PTL

(* The results move in three ways, the effects in two *)

\* run() takes the outcome of step cur.
Outcome(r) ==
  /\ pc \in Forward /\ cur \in Step /\ Takes(r) /\ pc' = After(r)
  /\ r = "ok" => pc = "returned"
  /\ UNCHANGED <<plan, compensated, effect>>

\* The loop of _compensate is through with a step.
Undoes ==
  /\ NothingToUndo \/ UndoJournaled \/ UndoFailureJournaled
  /\ undo # <<>> /\ undo' = Tail(undo) /\ pc' = "compensate"
  /\ pc \in {"compensate", "undone", "undofailed"}
  /\ UNCHANGED <<plan, cur, res, completed, compensated, effect>>

SameResults == UNCHANGED <<plan, cur, res, completed, undo>>

LEMMA ResultSteps ==
  ASSUME RunInv, [Next]_vars
  PROVE  (\E r \in {"ok", "failed", "skipped"} : Outcome(r)) \/ Undoes \/ SameResults
  <1>1. MoreSteps => cur \in Step
    BY WorkflowAssumption DEF RunInv, TypeOK, Step, MoreSteps
  <1>2. pc \in InStep => cur \in Step
    BY DEF RunInv, PlaceInv
  <1>3. pc \in {"undone", "undofailed"} => undo # <<>>
    BY DEF RunInv, PlaceInv
  <1>4. CASE GateSkips
    BY <1>1, <1>4 DEF GateSkips, Outcome, Forward, Journals
  <1>5. CASE StepCompleted
    <2>1. ~Fatal("ok") /\ After("ok") = "gate"
      BY DEF Fatal, After
    <2>2. Outcome("ok")
      BY <1>2, <1>5, <2>1 DEF StepCompleted, Outcome, Forward, InStep, Journals
    <2> QED BY <2>2
  <1>6. CASE StepFailed
    <2>1. Outcome("failed")
      BY <1>2, <1>6 DEF StepFailed, Outcome, Forward, InStep, Journals
    <2> QED BY <2>1
  <1>7. CASE NothingToUndo
    BY <1>7 DEF NothingToUndo, Undoing, Undoes
  <1>8. CASE UndoJournaled
    BY <1>3, <1>8 DEF UndoJournaled, Undone, Undoes, Journals
  <1>9. CASE UndoFailureJournaled
    BY <1>3, <1>9 DEF UndoFailureJournaled, Undone, Undoes, Journals
  <1>10. CASE Start \/ StepStarts \/ FnReturns \/ FnRaises
    BY <1>10 DEF Start, StepStarts, FnReturns, FnRaises, code, SameResults
  <1>11. CASE UndoReturns \/ UndoRaises \/ Fail \/ Complete
    BY <1>11 DEF UndoReturns, UndoRaises, Fail, Complete, code, SameResults
  <1>12. CASE UndoAppendRaises \/ AppendRaises \/ Die \/ UNCHANGED vars
    BY <1>12 DEF UndoAppendRaises, AppendRaises, Die, vars, code, SameResults
  <1> QED BY <1>4, <1>5, <1>6, <1>7, <1>8, <1>9, <1>10, <1>11, <1>12 DEF Next, Run

\* A step's function acted, or not; a compensation acted, or not.
Acts ==
  /\ pc = "run" /\ pc' \in {"returned", "raised"} /\ UNCHANGED journal
  /\ \E e \in {"none", "done"} :
       effect' = [effect EXCEPT ![cur] = e] /\ (pc' = "returned" => e = "done")

UndoActs ==
  /\ pc = "compensate" /\ undo # <<>> /\ pc' \in {"undone", "undofailed"}
  /\ UNCHANGED journal
  /\ \E e \in {"done", "undone"} :
       effect' = [effect EXCEPT ![Head(undo)] = e] /\ (pc' = "undone" => e = "undone")

LEMMA EffectSteps ==
  ASSUME [Next]_vars
  PROVE  \/ (Acts /\ SameResults) \/ (UndoActs /\ SameResults)
         \/ UNCHANGED effect /\ (pc' = pc \/ pc' \notin {"returned", "raised", "undone"})
  <1>1. CASE FnReturns
    BY <1>1 DEF FnReturns, Acts, code, SameResults
  <1>2. CASE FnRaises
    BY <1>2 DEF FnRaises, Acts, code, SameResults
  <1>3. CASE UndoReturns
    BY <1>3 DEF UndoReturns, Undoing, NextUndo, UndoActs, SameResults
  <1>4. CASE UndoRaises
    BY <1>4 DEF UndoRaises, Undoing, NextUndo, UndoActs, code, SameResults
  <1>5. CASE Start \/ GateSkips \/ StepStarts \/ StepCompleted \/ StepFailed
    BY <1>5 DEF Start, GateSkips, StepStarts, StepCompleted, StepFailed, After, Journals
  <1>6. CASE NothingToUndo \/ UndoJournaled \/ UndoFailureJournaled \/ Fail \/ Complete
    BY <1>6 DEF NothingToUndo, UndoJournaled, UndoFailureJournaled, Undone, Fail, Complete, Journals
  <1>7. CASE UndoAppendRaises \/ AppendRaises \/ Die \/ UNCHANGED vars
    BY <1>7 DEF UndoAppendRaises, AppendRaises, Die, vars, code
  <1> QED BY <1>1, <1>2, <1>3, <1>4, <1>5, <1>6, <1>7 DEF Next, Run

LEMMA ActsIs ==
  ASSUME TypeOK, Acts, cur \in Step
  PROVE  /\ effect'[cur] \in {"none", "done"} /\ (pc' = "returned" => effect'[cur] = "done")
         /\ \A i \in Step \ {cur} : effect'[i] = effect[i]
  <1>1. effect \in [Step -> {"none", "done", "undone"}]
    BY DEF TypeOK
  <1>2. PICK e \in {"none", "done"} : effect' = [effect EXCEPT ![cur] = e] /\ (pc' = "returned" => e = "done")
    BY DEF Acts
  <1>3. effect'[cur] = e /\ \A i \in Step \ {cur} : effect'[i] = effect[i]
    BY <1>1, <1>2
  <1> QED BY <1>2, <1>3

LEMMA UndoActsIs ==
  ASSUME TypeOK, UndoActs, Head(undo) \in Step
  PROVE  /\ effect'[Head(undo)] \in {"done", "undone"}
         /\ pc' = "undone" => effect'[Head(undo)] = "undone"
         /\ \A i \in Step \ {Head(undo)} : effect'[i] = effect[i]
  <1> DEFINE h == Head(undo)
  <1>1. effect \in [Step -> {"none", "done", "undone"}] /\ h \in Step
    BY DEF TypeOK
  <1>2. PICK e \in {"done", "undone"} : effect' = [effect EXCEPT ![h] = e] /\ (pc' = "undone" => e = "undone")
    BY DEF UndoActs
  <1> HIDE DEF h
  <1>3. effect'[h] = e /\ \A i \in Step \ {h} : effect'[i] = effect[i]
    BY <1>1, <1>2
  <1> QED BY <1>2, <1>3 DEF h

(* What is left to undo *)

\* undo is what is left of completed, from its end.
UndoInv ==
  /\ Len(undo) <= Len(completed)
  /\ \A j \in 1..Len(undo) : undo[j] = completed[Len(undo) - j + 1]

LEMMA UndoStep ==
  ASSUME RunInv, UndoInv, [Next]_vars
  PROVE  UndoInv'
  <1>0. completed \in Seq(Step) /\ undo \in Seq(Step) /\ Len(completed) \in Nat /\ Len(undo) \in Nat
    BY DEF RunInv, TypeOK
  <1>1. ASSUME NEW r \in {"ok", "failed", "skipped"}, Outcome(r)
        PROVE  UndoInv'
    <2>1. undo = <<>> /\ Len(undo) = 0
      BY <1>1 DEF RunInv, PlaceInv, Outcome
    <2>2. Takes(r)
      BY <1>1 DEF Outcome
    <2>3. CASE Fatal(r)
      <3>1. undo' = Reverse(completed) /\ completed' = completed
        BY <2>2, <2>3, TakesIs
      <3> QED BY <1>0, <3>1, ReverseIs DEF UndoInv
    <2>4. CASE ~Fatal(r)
      <3>1. undo' = <<>> /\ Len(undo') = 0
        BY <2>1, <2>2, <2>4, TakesIs
      <3>2. Len(completed') \in Nat
        BY <1>0, <2>2, TakesIs
      <3> QED BY <3>1, <3>2 DEF UndoInv
    <2> QED BY <2>3, <2>4
  <1>2. CASE Undoes
    <2>1. undo # <<>> /\ undo' = Tail(undo) /\ completed' = completed
      BY <1>2 DEF Undoes
    <2>2. /\ Len(undo) \in Nat \ {0} /\ Len(undo') = Len(undo) - 1
          /\ \A j \in 1..(Len(undo) - 1) : undo'[j] = undo[j + 1]
      BY <1>0, <2>1, TailIs
    <2>3. Len(undo') <= Len(completed')
      BY <1>0, <2>1, <2>2 DEF UndoInv
    <2>4. ASSUME NEW j \in 1..Len(undo')
          PROVE  undo'[j] = completed'[Len(undo') - j + 1]
      <3>1. j + 1 \in 1..Len(undo) /\ Len(undo') - j + 1 = Len(undo) - (j + 1) + 1
        BY <2>2
      <3>2. undo[j + 1] = completed[Len(undo) - (j + 1) + 1]
        BY <3>1 DEF UndoInv
      <3> QED BY <2>1, <2>2, <3>1, <3>2
    <2> QED BY <2>3, <2>4 DEF UndoInv
  <1>3. CASE SameResults
    BY <1>3 DEF SameResults, UndoInv
  <1> QED BY <1>1, <1>2, <1>3, ResultSteps

\* The step to undo next is the last of the completed ones that are left.
LEMMA NextUndoIs ==
  ASSUME RunInv, UndoInv, undo # <<>>
  PROVE  /\ Len(undo) \in DOMAIN completed /\ Head(undo) = completed[Len(undo)]
         /\ Head(undo) \in Step
  <1>0. completed \in Seq(Step) /\ undo \in Seq(Step) /\ Len(completed) \in Nat
    BY DEF RunInv, TypeOK
  <1>1. Len(undo) \in Nat \ {0} /\ Head(undo) = undo[1] /\ Head(undo) \in Step
    BY <1>0, TailIs
  <1>2. undo[1] = completed[Len(undo)]
    BY <1>1 DEF UndoInv
  <1> QED BY <1>0, <1>1, <1>2 DEF UndoInv

(* Inputs *)

\* Where run() comes from.
LEMMA PlaceSteps ==
  ASSUME [Next]_vars
  PROVE  /\ pc' \in Forward => pc \in Forward
         /\ pc' = "run" => pc = "run" \/ StepStarts
         /\ pc' \in {"returned", "raised"} => pc' = pc \/ pc = "run"
         /\ pc' \in {"compensate", "undone", "undofailed"} => status' = status
         /\ status' = status \/ (pc' = "done" /\ pc \in {"gate", "compensate"})
  <1> USE DEF Forward
  <1>1. CASE Start \/ FnReturns \/ FnRaises
    BY <1>1 DEF Start, FnReturns, FnRaises, Journals, code
  <1>2. CASE StepStarts
    BY <1>2 DEF StepStarts, Journals, code
  <1>3. CASE GateSkips \/ StepCompleted \/ StepFailed
    BY <1>3 DEF GateSkips, StepCompleted, StepFailed, After, Journals
  <1>4. CASE NothingToUndo \/ UndoReturns \/ UndoRaises
    BY <1>4 DEF NothingToUndo, UndoReturns, UndoRaises, Undoing, code
  <1>5. CASE UndoJournaled \/ UndoFailureJournaled
    BY <1>5 DEF UndoJournaled, UndoFailureJournaled, Undone, Journals
  <1>6. CASE Fail \/ Complete
    BY <1>6 DEF Fail, Complete, Journals
  <1>7. CASE UndoAppendRaises \/ AppendRaises \/ Die \/ UNCHANGED vars
    BY <1>7 DEF UndoAppendRaises, AppendRaises, Die, vars, code
  <1> QED BY <1>1, <1>2, <1>3, <1>4, <1>5, <1>6, <1>7 DEF Next, Run

\* Steps to come have no result.
FreshInv == pc \in Forward => \A i \in Step : i >= cur => res[i] = "none"

\* A completed step is ok, has acted, and is completed once.
DoneInv ==
  /\ \A a \in 1..Len(completed) : res[completed[a]] = "ok" /\ effect[completed[a]] # "none"
  /\ \A a, b \in 1..Len(completed) : completed[a] = completed[b] => a = b

\* The step that runs has its inputs, and acted if it returned.
InputInv ==
  /\ pc \in {"run", "returned", "raised"} => InputsReady
  /\ pc = "returned" => effect[cur] = "done"

DataInv == RunInv /\ UndoInv /\ FreshInv /\ DoneInv /\ InputInv /\ NeverOnMissingInputs

LEMMA DepsAreSteps ==
  ASSUME TypeOK, NEW i \in Step
  PROVE  plan.deps[i] \subseteq Step
  <1>1. plan \in Plans
    BY DEF TypeOK
  <1>2. plan.deps \in [Step -> SUBSET Step]
    BY <1>1 DEF Plans
  <1> QED BY <1>2

\* A result that is taken is the first of its step.
LEMMA OutcomeIs ==
  ASSUME RunInv, FreshInv, NEW r \in {"ok", "failed", "skipped"}, Outcome(r)
  PROVE  /\ cur \in Step /\ res[cur] = "none" /\ res'[cur] = r
         /\ \A i \in Step \ {cur} : res'[i] = res[i]
         /\ pc' \in {"gate", "compensate"} /\ (pc' = "gate" => cur' = cur + 1)
         /\ completed' = IF r = "ok" THEN Append(completed, cur) ELSE completed
         /\ effect' = effect /\ plan' = plan /\ compensated' = compensated
  <1>1. cur \in Step /\ Takes(r) /\ pc \in Forward /\ pc' = After(r)
    BY DEF Outcome
  <1>2. res \in [Step -> {"none", "ok", "failed", "skipped"}] /\ Step \subseteq Nat
    BY DEF RunInv, TypeOK, Step
  <1>3. res[cur] = "none"
    BY <1>1, <1>2 DEF FreshInv
  <1>4. res' = [res EXCEPT ![cur] = r]
    BY <1>1, TakesIs
  <1>5. res'[cur] = r /\ \A i \in Step \ {cur} : res'[i] = res[i]
    BY <1>1, <1>2, <1>4
  <1>6. pc' = IF Fatal(r) THEN "compensate" ELSE "gate"
    BY <1>1 DEF After
  <1>7. ~Fatal(r) => cur' = cur + 1
    BY <1>1, TakesIs
  <1>8. completed' = IF r = "ok" THEN Append(completed, cur) ELSE completed
    BY <1>1, TakesIs
  <1>9. effect' = effect /\ plan' = plan /\ compensated' = compensated
    BY DEF Outcome
  <1> QED BY <1>1, <1>3, <1>5, <1>6, <1>7, <1>8, <1>9

LEMMA FreshStep ==
  ASSUME RunInv, FreshInv, [Next]_vars
  PROVE  FreshInv'
  <1>0. cur \in 1..(N + 1) /\ Step \subseteq Nat
    BY WorkflowAssumption DEF RunInv, TypeOK, Step
  <1>1. ASSUME NEW r \in {"ok", "failed", "skipped"}, Outcome(r)
        PROVE  FreshInv'
    <2>1. pc \in Forward
      BY <1>1 DEF Outcome
    <2> QED BY <1>0, <1>1, <2>1, OutcomeIs DEF FreshInv, Forward
  <1>2. CASE Undoes
    BY <1>2 DEF Undoes, FreshInv, Forward
  <1>3. CASE SameResults
    BY <1>3, PlaceSteps DEF SameResults, FreshInv
  <1> QED BY <1>1, <1>2, <1>3, ResultSteps

LEMMA DoneStep ==
  ASSUME DataInv, [Next]_vars
  PROVE  DoneInv'
  <1>0. /\ completed \in Seq(Step) /\ Len(completed) \in Nat /\ effect \in [Step -> {"none", "done", "undone"}]
        /\ \A a \in 1..Len(completed) : completed[a] \in Step
    BY DEF DataInv, RunInv, TypeOK
  <1>6. RunInv
    BY DEF DataInv
  <1>1. ASSUME NEW r \in {"ok", "failed", "skipped"}, Outcome(r)
        PROVE  DoneInv'
    <2>1. /\ cur \in Step /\ res[cur] = "none" /\ res'[cur] = r /\ effect' = effect
          /\ \A i \in Step \ {cur} : res'[i] = res[i]
      BY <1>1, OutcomeIs DEF DataInv
    <2>2. \A a \in 1..Len(completed) : completed[a] # cur
      BY <2>1 DEF DataInv, DoneInv
    <2>3. CASE r # "ok"
      <3>1. completed' = completed
        BY <1>1, <2>3, OutcomeIs DEF DataInv
      <3> QED BY <1>0, <2>1, <2>2, <3>1 DEF DataInv, DoneInv
    <2>4. CASE r = "ok"
      <3>1. completed' = Append(completed, cur)
        BY <1>1, <2>4, OutcomeIs DEF DataInv
      <3>2. effect[cur] # "none"
        BY <1>1, <2>4 DEF Outcome, DataInv, InputInv
      <3>3. /\ Len(completed') = Len(completed) + 1 /\ completed'[Len(completed) + 1] = cur
            /\ \A a \in 1..Len(completed) : completed'[a] = completed[a]
        BY <1>0, <2>1, <3>1
      <3>4. \A a \in 1..Len(completed') : a \in 1..Len(completed) \/ a = Len(completed) + 1
        BY <1>0, <3>3
      <3>5. \A a \in 1..Len(completed') : res'[completed'[a]] = "ok" /\ effect'[completed'[a]] # "none"
        BY <1>0, <2>1, <2>2, <2>4, <3>2, <3>3, <3>4 DEF DataInv, DoneInv
      <3>6. \A a, b \in 1..Len(completed') : completed'[a] = completed'[b] => a = b
        BY <2>2, <3>3, <3>4 DEF DataInv, DoneInv
      <3> QED BY <3>5, <3>6 DEF DoneInv
    <2> QED BY <2>3, <2>4
  <1>2. CASE Undoes
    BY <1>2 DEF Undoes, DataInv, DoneInv
  <1>3. CASE SameResults /\ UNCHANGED effect
    BY <1>3 DEF SameResults, DataInv, DoneInv
  <1>4. CASE SameResults /\ Acts
    <2>1. cur \in Step /\ res[cur] = "none"
      BY <1>4 DEF Acts, DataInv, RunInv, PlaceInv, InStep, FreshInv, Forward, TypeOK, Step
    <2>2. \A a \in 1..Len(completed) : completed[a] # cur
      BY <2>1 DEF DataInv, DoneInv
    <2>3. \A i \in Step \ {cur} : effect'[i] = effect[i]
      BY <1>4, <1>6, <2>1, ActsIs DEF RunInv
    <2> QED BY <1>0, <1>4, <2>2, <2>3 DEF SameResults, DataInv, DoneInv
  <1>5. CASE SameResults /\ UndoActs
    <2>1. Head(undo) \in Step
      BY <1>5, NextUndoIs DEF UndoActs, DataInv
    <2>2. \A i \in Step : effect[i] # "none" => effect'[i] # "none"
      <3>1. effect'[Head(undo)] # "none" /\ \A i \in Step \ {Head(undo)} : effect'[i] = effect[i]
        BY <1>5, <1>6, <2>1, UndoActsIs DEF RunInv
      <3> QED BY <3>1
    <2> QED BY <1>0, <1>5, <2>2 DEF SameResults, DataInv, DoneInv
  <1> QED BY <1>1, <1>2, <1>3, <1>4, <1>5, <1>6, ResultSteps, EffectSteps

LEMMA InputStep ==
  ASSUME DataInv, [Next]_vars
  PROVE  InputInv'
  <1>0. RunInv /\ FreshInv /\ effect \in [Step -> {"none", "done", "undone"}]
    BY DEF DataInv, RunInv, TypeOK
  <1>1. ASSUME NEW r \in {"ok", "failed", "skipped"}, Outcome(r)
        PROVE  InputInv'
    <2>1. pc' \in {"gate", "compensate"}
      BY <1>0, <1>1, OutcomeIs
    <2> QED BY <2>1 DEF InputInv
  <1>2. CASE Undoes
    BY <1>2 DEF Undoes, InputInv
  <1>3. CASE SameResults
    <2>1. InputsReady => InputsReady'
      BY <1>3 DEF SameResults, InputsReady
    <2>2. pc' \in {"run", "returned", "raised"} => InputsReady'
      BY <2>1, PlaceSteps DEF DataInv, InputInv, StepStarts
    <2>3. CASE Acts
      <3>1. cur \in Step /\ cur' = cur
        BY <1>3, <2>3 DEF Acts, SameResults, DataInv, RunInv, PlaceInv, InStep
      <3>2. pc' = "returned" => effect'[cur] = "done"
        BY <1>0, <2>3, <3>1, ActsIs DEF RunInv
      <3> QED BY <2>2, <3>1, <3>2 DEF InputInv
    <2>4. CASE UndoActs
      BY <2>2, <2>4 DEF UndoActs, InputInv
    <2>5. CASE UNCHANGED effect /\ (pc' = pc \/ pc' \notin {"returned", "raised", "undone"})
      BY <1>3, <2>2, <2>5 DEF SameResults, DataInv, InputInv
    <2> QED BY <2>3, <2>4, <2>5, EffectSteps
  <1> QED BY <1>0, <1>1, <1>2, <1>3, ResultSteps

LEMMA NeverStep ==
  ASSUME DataInv, [Next]_vars
  PROVE  NeverOnMissingInputs'
  <1>0. RunInv /\ UndoInv /\ FreshInv /\ NeverOnMissingInputs /\ effect \in [Step -> {"none", "done", "undone"}]
    BY DEF DataInv, RunInv, TypeOK
  <1>1. ASSUME NEW r \in {"ok", "failed", "skipped"}, Outcome(r)
        PROVE  NeverOnMissingInputs'
    <2>1. /\ cur \in Step /\ res[cur] = "none" /\ effect' = effect /\ plan' = plan
          /\ \A i \in Step \ {cur} : res'[i] = res[i]
      BY <1>0, <1>1, OutcomeIs
    <2>2. \A i \in Step : plan.deps[i] \subseteq Step
      BY <1>0, DepsAreSteps DEF RunInv
    <2> QED BY <1>0, <2>1, <2>2 DEF NeverOnMissingInputs
  <1>2. CASE Undoes
    BY <1>0, <1>2 DEF Undoes, NeverOnMissingInputs
  <1>3. CASE SameResults /\ UNCHANGED effect
    BY <1>0, <1>3 DEF SameResults, NeverOnMissingInputs
  <1>4. CASE SameResults /\ Acts
    <2>1. cur \in Step /\ \A d \in plan.deps[cur] : res[d] = "ok"
      BY <1>4 DEF Acts, DataInv, RunInv, PlaceInv, InStep, InputInv, InputsReady
    <2>2. \A i \in Step \ {cur} : effect'[i] = effect[i]
      BY <1>0, <1>4, <2>1, ActsIs DEF RunInv
    <2> QED BY <1>0, <1>4, <2>1, <2>2 DEF SameResults, NeverOnMissingInputs
  <1>5. CASE SameResults /\ UndoActs
    <2>1. Len(undo) \in DOMAIN completed /\ Head(undo) = completed[Len(undo)] /\ Head(undo) \in Step
      BY <1>0, <1>5, NextUndoIs DEF UndoActs
    <2>2. DOMAIN completed = 1..Len(completed)
      BY DEF DataInv, RunInv, TypeOK
    <2>3. effect[Head(undo)] # "none"
      BY <2>1, <2>2 DEF DataInv, DoneInv
    <2>4. \A i \in Step : effect'[i] # "none" => effect[i] # "none"
      <3>1. \A i \in Step \ {Head(undo)} : effect'[i] = effect[i]
        BY <1>0, <1>5, <2>1, UndoActsIs DEF RunInv
      <3> QED BY <2>3, <3>1
    <2> QED BY <1>0, <1>5, <2>4 DEF SameResults, NeverOnMissingInputs
  <1> QED BY <1>0, <1>1, <1>2, <1>3, <1>4, <1>5, ResultSteps, EffectSteps

LEMMA DataAlways == Spec => []DataInv
  <1>1. Init => DataInv
    <2> SUFFICES ASSUME Init PROVE DataInv
      OBVIOUS
    <2>1. RunInv
      BY RunInit
    <2> QED BY <2>1 DEF Init, DataInv, UndoInv, FreshInv, DoneInv, InputInv, NeverOnMissingInputs
  <1>2. DataInv /\ [Next]_vars => DataInv'
    BY RunStep, UndoStep, FreshStep, DoneStep, InputStep, NeverStep DEF DataInv
  <1> QED BY <1>1, <1>2, PTL DEF Spec

\* No step ever acts on missing inputs: the inputs of whatever acted were ok when it
\* started and no result is taken twice.
THEOREM InputsAreThere == Spec => []NeverOnMissingInputs
  <1>1. DataInv => NeverOnMissingInputs
    BY DEF DataInv
  <1> QED BY <1>1, DataAlways, PTL

(* The journal *)

LEMMA JournalGrows ==
  ASSUME [Next]_vars
  PROVE  journal' = journal \/ \E x : journal' = Append(journal, x)
  <1>1. CASE Start \/ GateSkips \/ StepStarts \/ StepCompleted \/ StepFailed
    BY <1>1 DEF Start, GateSkips, StepStarts, StepCompleted, StepFailed, Journals
  <1>2. CASE UndoJournaled \/ UndoFailureJournaled \/ Fail \/ Complete
    BY <1>2 DEF UndoJournaled, UndoFailureJournaled, Undone, Fail, Complete, Journals
  <1>3. CASE FnReturns \/ FnRaises \/ NothingToUndo \/ UndoReturns \/ UndoRaises
    BY <1>3 DEF FnReturns, FnRaises, NothingToUndo, UndoReturns, UndoRaises
  <1>4. CASE UndoAppendRaises \/ AppendRaises \/ Die \/ UNCHANGED vars
    BY <1>4 DEF UndoAppendRaises, AppendRaises, Die, vars
  <1> QED BY <1>1, <1>2, <1>3, <1>4 DEF Next, Run

\* What is on record stays there.
LEMMA JournalKeeps ==
  ASSUME TypeOK, [Next]_vars, NEW event, NEW i, Journaled(event, i)
  PROVE  Journaled(event, i)'
  <1>1. journal \in Seq([event : Events, step : 0..N])
    BY DEF TypeOK
  <1>2. PICK k \in DOMAIN journal : journal[k] = [event |-> event, step |-> i]
    BY DEF Journaled
  <1>3. CASE journal' = journal
    BY <1>2, <1>3 DEF Journaled
  <1>4. ASSUME NEW x, journal' = Append(journal, x)
        PROVE  Journaled(event, i)'
    <2>1. k \in DOMAIN journal' /\ journal'[k] = journal[k]
      BY <1>1, <1>2, <1>4
    <2> QED BY <1>2, <2>1 DEF Journaled
  <1> QED BY <1>3, <1>4, JournalGrows

LEMMA JournalsRecords ==
  ASSUME TypeOK, NEW event, NEW i, NEW to, Journals(event, i, to)
  PROVE  \E k \in DOMAIN journal' : journal'[k] = [event |-> event, step |-> i]
  <1> DEFINE x == [event |-> event, step |-> i]
  <1>1. journal \in Seq([event : Events, step : 0..N]) /\ journal' = Append(journal, x)
    BY DEF TypeOK, Journals
  <1> HIDE DEF x
  <1>2. Len(journal) + 1 \in DOMAIN journal' /\ journal'[Len(journal) + 1] = x
    BY <1>1
  <1> QED BY <1>2 DEF x

\* A step that runs is on record, and so is whatever has acted.
AnnouncedInv ==
  /\ pc = "run" => Journaled("step_started", cur)
  /\ EffectsAreAnnounced

LEMMA AnnouncedStep ==
  ASSUME DataInv, AnnouncedInv, [Next]_vars
  PROVE  AnnouncedInv'
  <1>0. RunInv /\ UndoInv /\ TypeOK
    BY DEF DataInv, RunInv
  <1>1. \A i \in Step : Journaled("step_started", i) => Journaled("step_started", i)'
    BY <1>0, JournalKeeps
  <1>2. (pc = "run" => Journaled("step_started", cur))'
    <2>1. CASE StepStarts
      <3>1. cur' = cur
        BY <2>1 DEF StepStarts, code
      <3>2. \E k \in DOMAIN journal' : journal'[k] = [event |-> "step_started", step |-> cur]
        BY <1>0, <2>1, JournalsRecords DEF StepStarts
      <3> QED BY <3>1, <3>2 DEF Journaled
    <2>2. CASE pc' = "run" /\ pc = "run"
      <3>1. pc # "compensate" /\ cur \in Step
        BY <1>0, <2>2 DEF RunInv, PlaceInv, InStep
      <3>2. SameResults
        <4>1. ASSUME NEW r \in {"ok", "failed", "skipped"}, Outcome(r) PROVE FALSE
          BY <2>2, <4>1 DEF Outcome, After
        <4>2. ~Undoes
          BY <2>2 DEF Undoes
        <4> QED BY <1>0, <4>1, <4>2, ResultSteps
      <3> QED BY <1>1, <2>2, <3>1, <3>2 DEF SameResults, AnnouncedInv, Journaled
    <2> QED BY <2>1, <2>2, PlaceSteps
  <1>3. EffectsAreAnnounced'
    <2>1. CASE UNCHANGED effect
      BY <1>1, <2>1 DEF AnnouncedInv, EffectsAreAnnounced
    <2>2. CASE Acts
      <3>1. cur \in Step /\ Journaled("step_started", cur)
        BY <1>0, <2>2 DEF Acts, RunInv, PlaceInv, InStep, AnnouncedInv
      <3>2. \A i \in Step \ {cur} : effect'[i] = effect[i]
        BY <1>0, <2>2, <3>1, ActsIs
      <3> QED BY <1>1, <3>1, <3>2 DEF AnnouncedInv, EffectsAreAnnounced
    <2>3. CASE UndoActs
      <3>1. Len(undo) \in DOMAIN completed /\ Head(undo) = completed[Len(undo)] /\ Head(undo) \in Step
        BY <1>0, <2>3, NextUndoIs DEF UndoActs
      <3>2. effect[Head(undo)] # "none"
        BY <3>1 DEF DataInv, DoneInv, RunInv, TypeOK
      <3>3. \A i \in Step \ {Head(undo)} : effect'[i] = effect[i]
        BY <1>0, <2>3, <3>1, UndoActsIs
      <3> QED BY <1>1, <3>1, <3>2, <3>3 DEF AnnouncedInv, EffectsAreAnnounced
    <2> QED BY <2>1, <2>2, <2>3, EffectSteps
  <1> QED BY <1>2, <1>3 DEF AnnouncedInv

\* The journal is written ahead: whatever may have acted when the process dies or an
\* append raises is on record as started.
THEOREM EffectsAreOnRecord == Spec => []EffectsAreAnnounced
  <1>1. Init => AnnouncedInv
    BY DEF Init, AnnouncedInv, EffectsAreAnnounced
  <1>2. DataInv /\ AnnouncedInv /\ [Next]_vars => AnnouncedInv'
    BY AnnouncedStep
  <1>3. AnnouncedInv => EffectsAreAnnounced
    BY DEF AnnouncedInv
  <1> QED BY <1>1, <1>2, <1>3, DataAlways, PTL DEF Spec

\* The journal's account of the run: it is over when the run has returned, and no
\* sooner, and it has begun when anything has acted.
AccountInv ==
  /\ pc = "done" <=> Terminal
  /\ pc \notin {"new", "aborted", "dead"} => Journaled("workflow_started", 0)
  /\ \A i \in Step : effect[i] # "none" => Journaled("workflow_started", 0)

\* What a record that ends nothing adds.
LEMMA NotTheEnd ==
  ASSUME TypeOK, ~Terminal, NEW event \in Events \ {"workflow_completed", "workflow_failed"},
         NEW i, NEW to, Journals(event, i, to)
  PROVE  ~Terminal'
  <1> DEFINE x == [event |-> event, step |-> i]
  <1>1. journal \in Seq([event : Events, step : 0..N]) /\ journal' = Append(journal, x)
    BY DEF TypeOK, Journals
  <1>2. x.event \notin {"workflow_completed", "workflow_failed"}
    OBVIOUS
  <1> HIDE DEF x
  <1>3. ASSUME NEW k \in DOMAIN journal'
        PROVE  journal'[k] = x \/ (k \in DOMAIN journal /\ journal'[k] = journal[k])
    <2>1. k \in 1..(Len(journal) + 1) /\ Len(journal) \in Nat
      BY <1>1
    <2>2. CASE k = Len(journal) + 1
      BY <1>1, <2>2
    <2>3. CASE k \in 1..Len(journal)
      BY <1>1, <2>3
    <2> QED BY <2>1, <2>2, <2>3
  <1>4. ASSUME NEW e \in {"workflow_completed", "workflow_failed"}, NEW j, Journaled(e, j)'
        PROVE  Journaled(e, j)
    <2>1. PICK k \in DOMAIN journal' : journal'[k] = [event |-> e, step |-> j]
      BY <1>4 DEF Journaled
    <2>2. journal'[k] # x
      BY <1>2, <2>1
    <2> QED BY <1>3, <2>1, <2>2 DEF Journaled
  <1> QED BY <1>4 DEF Terminal

LEMMA AccountStep ==
  ASSUME RunInv, AccountInv, [Next]_vars
  PROVE  AccountInv'
  <1>0. TypeOK /\ pc \in {"new", "gate", "run", "returned", "raised", "compensate", "undone",
                          "undofailed", "done", "aborted", "dead"}
    BY DEF RunInv, TypeOK
  <1>1. Journaled("workflow_started", 0) => Journaled("workflow_started", 0)'
    BY <1>0, JournalKeeps
  <1>2. CASE UNCHANGED vars
    BY <1>2 DEF AccountInv, Terminal, Journaled, vars, code
  <1>3. CASE Next
    <2>1. pc # "done" /\ ~Terminal
      BY <1>3 DEF AccountInv, Next, Run, Start, GateSkips, StepStarts, FnReturns, FnRaises,
                  StepCompleted, StepFailed, NothingToUndo, Undoing, UndoReturns, UndoRaises, UndoJournaled,
                  UndoFailureJournaled, Fail, Complete, UndoAppendRaises, AppendRaises, AppendDue, Die
    <2>2. CASE Start
      <3>1. pc' = "gate" /\ effect' = effect /\ ~Terminal'
        BY <1>0, <2>1, <2>2, NotTheEnd DEF Start, Journals, Events
      <3>2. Journaled("workflow_started", 0)'
        BY <1>0, <2>2, JournalsRecords DEF Start, Journaled
      <3> QED BY <3>1, <3>2 DEF AccountInv
    <2>3. CASE Complete \/ Fail
      <3>1. pc' = "done" /\ effect' = effect /\ Journaled("workflow_started", 0)
        BY <2>3 DEF Complete, Fail, Journals, AccountInv
      <3>2. Terminal'
        <4>1. CASE Complete
          BY <1>0, <4>1, JournalsRecords DEF Complete, Terminal, Journaled
        <4>2. CASE Fail
          <5>1. cur \in Step
            BY <4>2 DEF RunInv, PlaceInv, InStep, Fail
          <5> QED BY <1>0, <4>2, <5>1, JournalsRecords DEF Fail, Terminal, Journaled
        <4> QED BY <2>3, <4>1, <4>2
      <3> QED BY <1>1, <3>1, <3>2 DEF AccountInv
    <2>4. CASE GateSkips \/ StepStarts \/ StepCompleted \/ StepFailed \/ UndoJournaled
               \/ UndoFailureJournaled
      <3>1. /\ pc' \in {"gate", "run", "compensate"} /\ effect' = effect
            /\ Journaled("workflow_started", 0)
        BY <2>4 DEF GateSkips, StepStarts, StepCompleted, StepFailed, UndoJournaled,
                    UndoFailureJournaled, Undone, Journals, After, AccountInv
      <3>2. ~Terminal'
        <4>1. \E e \in {"step_started", "step_completed", "step_failed", "step_compensated",
                        "compensation_failed"} : \E i, to : Journals(e, i, to)
          BY <2>4 DEF GateSkips, StepStarts, StepCompleted, StepFailed, UndoJournaled,
                      UndoFailureJournaled, Undone
        <4> QED BY <1>0, <2>1, <4>1, NotTheEnd DEF Events
      <3> QED BY <1>1, <3>1, <3>2 DEF AccountInv
    <2>5. CASE FnReturns \/ FnRaises \/ NothingToUndo \/ UndoReturns \/ UndoRaises
      <3>1. /\ pc' \in {"returned", "raised", "compensate", "undone", "undofailed"}
            /\ journal' = journal /\ Journaled("workflow_started", 0)
        BY <2>5 DEF FnReturns, FnRaises, NothingToUndo, Undoing, UndoReturns, UndoRaises, AccountInv
      <3> QED BY <2>1, <3>1 DEF AccountInv, Terminal, Journaled
    <2>6. CASE UndoAppendRaises \/ AppendRaises \/ Die
      <3>1. /\ journal' = journal /\ effect' = effect
            /\ pc' \in {"aborted", "dead"} \/ (pc = "undone" /\ pc' = "undofailed")
        BY <2>6 DEF UndoAppendRaises, AppendRaises, Die
      <3> QED BY <2>1, <3>1 DEF AccountInv, Terminal, Journaled
    <2> QED BY <1>3, <2>2, <2>3, <2>4, <2>5, <2>6 DEF Next, Run
  <1> QED BY <1>2, <1>3

\* Wherever an append raises or the process dies, a run that has acted and has not
\* returned is incomplete in the journal, and only such a run is.
THEOREM LeftRunsAreVisible == Spec => []LeftIsIncomplete
  <1>1. Init => AccountInv
    BY DEF Init, AccountInv, Terminal, Journaled
  <1>2. RunInv /\ AccountInv /\ [Next]_vars => AccountInv'
    BY AccountStep
  <1>3. AccountInv => LeftIsIncomplete
    BY DEF AccountInv, LeftIsIncomplete
  <1> QED BY <1>1, <1>2, <1>3, RunAlways, PTL DEF Spec

(* The two ends *)

LEMMA EndSteps ==
  ASSUME RunInv, [Next]_vars
  PROVE  /\ pc = "done" => UNCHANGED vars
         /\ status' = status \/ Fail \/ Complete
         /\ compensated' = compensated \/ UndoReturns
         /\ pc' \in {"compensate", "undone", "undofailed"}
              => pc \in {"compensate", "undone", "undofailed"}
                 \/ \E r \in {"ok", "failed", "skipped"} : Outcome(r)
         /\ pc' = "compensate" => pc = "compensate" \/ Undoes
                                  \/ \E r \in {"ok", "failed", "skipped"} : Outcome(r)
         /\ pc' = "undone" => pc = "undone" \/ UndoReturns
  <1>1. MoreSteps => cur \in Step
    BY WorkflowAssumption DEF RunInv, TypeOK, Step, MoreSteps
  <1>2. pc \in InStep => cur \in Step
    BY DEF RunInv, PlaceInv
  <1>3. CASE Start \/ StepStarts \/ FnReturns \/ FnRaises
    BY <1>3 DEF Start, StepStarts, FnReturns, FnRaises, Journals, code
  <1>4. CASE GateSkips
    <2>1. Outcome("skipped")
      BY <1>1, <1>4 DEF GateSkips, Outcome, Forward, Journals
    <2> QED BY <1>4, <2>1 DEF GateSkips, After, Journals
  <1>5. CASE StepCompleted
    <2>1. pc' = "gate"
      BY <1>5 DEF StepCompleted, Journals
    <2> QED BY <1>5, <2>1 DEF StepCompleted
  <1>6. CASE StepFailed
    <2>1. Outcome("failed")
      BY <1>2, <1>6 DEF StepFailed, Outcome, Forward, InStep, Journals
    <2> QED BY <1>6, <2>1 DEF StepFailed, After, Journals
  <1>7. CASE NothingToUndo \/ UndoReturns \/ UndoRaises
    BY <1>7 DEF NothingToUndo, UndoReturns, UndoRaises, Undoing, code
  <1>8. CASE UndoJournaled \/ UndoFailureJournaled
    <2>1. undo # <<>>
      BY <1>8 DEF UndoJournaled, UndoFailureJournaled, RunInv, PlaceInv
    <2>2. Undoes
      BY <1>8, <2>1 DEF UndoJournaled, UndoFailureJournaled, Undone, Undoes, Journals
    <2> QED BY <1>8, <2>2 DEF UndoJournaled, UndoFailureJournaled, Undone, Journals
  <1>9. CASE Fail \/ Complete
    BY <1>9 DEF Fail, Complete, Journals
  <1>10. CASE UndoAppendRaises \/ AppendRaises \/ Die \/ UNCHANGED vars
    BY <1>10 DEF UndoAppendRaises, AppendRaises, AppendDue, Die, vars, code
  <1> QED BY <1>3, <1>4, <1>5, <1>6, <1>7, <1>8, <1>9, <1>10 DEF Next, Run

\* Up to the loop's step, what is required is ok, and what is ok stands.
StandsInv ==
  pc \in Forward =>
    \A i \in Step : /\ i < cur /\ i \in plan.required => res[i] = "ok"
                    /\ res[i] = "ok" => effect[i] = "done"

SuccessInv == StandsInv /\ SuccessIsComplete

LEMMA StandsStep ==
  ASSUME DataInv, StandsInv, [Next]_vars
  PROVE  StandsInv'
  <1>0. RunInv /\ FreshInv /\ TypeOK /\ cur \in 1..(N + 1) /\ N \in Nat /\ Step \subseteq Nat
    BY WorkflowAssumption DEF DataInv, RunInv, TypeOK, Step
  <1>1. ASSUME NEW r \in {"ok", "failed", "skipped"}, Outcome(r)
        PROVE  StandsInv'
    <2>1. CASE pc' = "gate"
      <3>1. /\ cur \in Step /\ res[cur] = "none" /\ res'[cur] = r /\ cur' = cur + 1
            /\ effect' = effect /\ plan' = plan /\ \A i \in Step \ {cur} : res'[i] = res[i]
        BY <1>0, <1>1, <2>1, OutcomeIs
      <3>2. pc \in Forward /\ Takes(r) /\ (r = "ok" => pc = "returned")
        BY <1>1 DEF Outcome
      <3>3. ~Fatal(r)
        BY <1>1, <2>1 DEF Outcome, After
      <3>4. cur \in plan.required => r = "ok"
        BY <3>2, <3>3, TakesIs
      <3>5. r = "ok" => effect[cur] = "done"
        BY <3>2 DEF DataInv, InputInv
      <3>6. \A i \in Step : i < cur' => i < cur \/ i = cur
        BY <1>0, <3>1
      <3> QED BY <3>1, <3>2, <3>4, <3>5, <3>6 DEF StandsInv
    <2>2. CASE pc' # "gate"
      <3>1. pc' = "compensate"
        BY <1>0, <1>1, <2>2, OutcomeIs
      <3> QED BY <3>1 DEF StandsInv, Forward
    <2> QED BY <2>1, <2>2
  <1>2. CASE Undoes
    BY <1>2 DEF Undoes, StandsInv, Forward
  <1>3. CASE SameResults /\ UNCHANGED effect
    BY <1>3, PlaceSteps DEF SameResults, StandsInv
  <1>4. CASE SameResults /\ Acts
    <2>1. cur \in Step /\ pc \in Forward
      BY <1>0, <1>4 DEF Acts, RunInv, PlaceInv, InStep, Forward
    <2>2. res[cur] = "none"
      BY <1>0, <2>1 DEF FreshInv
    <2>3. \A i \in Step \ {cur} : effect'[i] = effect[i]
      BY <1>0, <1>4, <2>1, ActsIs
    <2> QED BY <1>4, <2>1, <2>2, <2>3 DEF SameResults, StandsInv
  <1>5. CASE UndoActs
    BY <1>5 DEF UndoActs, StandsInv, Forward
  <1> QED BY <1>0, <1>1, <1>2, <1>3, <1>4, <1>5, ResultSteps, EffectSteps

LEMMA SuccessStep ==
  ASSUME DataInv, StandsInv, SuccessIsComplete, [Next]_vars
  PROVE  SuccessIsComplete'
  <1>0. RunInv /\ TypeOK /\ cur \in 1..(N + 1) /\ N \in Nat /\ plan \in Plans
    BY WorkflowAssumption DEF DataInv, RunInv, TypeOK
  <1>1. CASE Complete
    <2>1. pc \in Forward /\ UNCHANGED <<plan, res, effect, compensated>>
      BY <1>1 DEF Complete, Forward
    <2>2. plan.required \subseteq Step
      BY <1>0 DEF Plans
    <2>3. \A i \in Step : i < cur
      BY <1>0, <1>1 DEF Complete, MoreSteps, Step
    <2>4. compensated = <<>>
      BY <1>0, <2>1 DEF RunInv, PlaceInv
    <2>5. \A i \in plan.required : res[i] = "ok" /\ effect[i] = "done"
      BY <2>1, <2>2, <2>3 DEF StandsInv
    <2>6. plan' = plan /\ res' = res /\ effect' = effect /\ compensated' = compensated
      BY <2>1
    <2> QED BY <2>4, <2>5, <2>6 DEF SuccessIsComplete
  <1>2. CASE Fail
    BY <1>2 DEF Fail, SuccessIsComplete
  <1>3. CASE status' = status /\ status = "ok"
    <2>1. pc = "done"
      BY <1>0, <1>3 DEF RunInv, PlaceInv
    <2>2. UNCHANGED vars
      BY <1>0, <2>1, EndSteps
    <2> QED BY <2>2 DEF vars, code, SuccessIsComplete
  <1>4. CASE status' = status /\ status # "ok"
    BY <1>4 DEF SuccessIsComplete
  <1> QED BY <1>0, <1>1, <1>2, <1>3, <1>4, EndSteps

\* A run that returns "ok" did everything required and took nothing back.
THEOREM SuccessMeansComplete == Spec => []SuccessIsComplete
  <1>1. Init => SuccessInv
    BY WorkflowAssumption DEF Init, SuccessInv, StandsInv, SuccessIsComplete, Step
  <1>2. DataInv /\ SuccessInv /\ [Next]_vars => SuccessInv'
    BY StandsStep, SuccessStep DEF SuccessInv
  <1>3. SuccessInv => SuccessIsComplete
    BY DEF SuccessInv
  <1> QED BY <1>1, <1>2, <1>3, DataAlways, PTL DEF Spec

(* Compensation *)

\* While run() compensates, a completed step that can be undone is still to be undone,
\* is undone, or its failed compensation is on record; the step whose compensation is
\* about to be recorded is undone.
UndoneInv ==
  /\ pc \in {"compensate", "undone", "undofailed"} =>
       \A i \in ToSet(completed) \cap plan.compensable :
         i \in ToSet(undo) \/ effect[i] = "undone" \/ Journaled("compensation_failed", i)
  /\ pc = "undone" => effect[Head(undo)] = "undone"

LEMMA UndoneStep ==
  ASSUME DataInv, UndoneInv, [Next]_vars
  PROVE  UndoneInv'
  <1> DEFINE U == {"compensate", "undone", "undofailed"}
             Accounted(i) == i \in ToSet(undo) \/ effect[i] = "undone" \/ Journaled("compensation_failed", i)
  <1>0. /\ RunInv /\ UndoInv /\ FreshInv /\ TypeOK
        /\ completed \in Seq(Step) /\ undo \in Seq(Step)
    BY DEF DataInv, RunInv, TypeOK
  <1>1. \A i \in Step : Journaled("compensation_failed", i) => Journaled("compensation_failed", i)'
    BY <1>0, JournalKeeps
  <1>2. ToSet(completed) \subseteq Step
    BY <1>0 DEF ToSet
  <1>3. ASSUME NEW r \in {"ok", "failed", "skipped"}, Outcome(r)
        PROVE  UndoneInv'
    <2>1. CASE Fatal(r)
      <3>1. r # "ok" /\ undo' = Reverse(completed)
        BY <1>3, <2>1, TakesIs DEF Outcome
      <3>2. completed' = completed /\ pc' # "undone"
        BY <1>0, <1>3, <3>1, OutcomeIs
      <3>3. ToSet(undo') = ToSet(completed')
        BY <1>0, <3>1, <3>2, ReverseKeepsAll
      <3> QED BY <3>2, <3>3 DEF UndoneInv
    <2>2. CASE ~Fatal(r)
      <3>1. pc' = "gate"
        BY <1>3, <2>2 DEF Outcome, After
      <3> QED BY <3>1 DEF UndoneInv
    <2> QED BY <2>1, <2>2
  <1>4. CASE Undoes
    <2>1. /\ undo # <<>> /\ undo' = Tail(undo) /\ pc' = "compensate" /\ pc \in U
          /\ completed' = completed /\ effect' = effect /\ plan' = plan
      BY <1>4 DEF Undoes
    <2>2. ASSUME NEW i \in ToSet(undo), i # Head(undo)
          PROVE  i \in ToSet(undo')
      BY <1>0, <2>1, <2>2, TailKeepsOthers
    <2>h. PICK h \in Step : h = Head(undo)
      BY <1>0, <2>1, TailIs
    <2>3. h \in plan.compensable => effect[h] = "undone" \/ Journaled("compensation_failed", h)'
      <3>1. CASE NothingToUndo
        BY <2>h, <3>1 DEF NothingToUndo, NextUndo
      <3>2. CASE UndoJournaled
        BY <2>h, <3>2 DEF UndoJournaled, UndoneInv
      <3>3. CASE UndoFailureJournaled
        <4>1. \E k \in DOMAIN journal' :
                journal'[k] = [event |-> "compensation_failed", step |-> h]
          BY <1>0, <2>h, <3>3, JournalsRecords DEF UndoFailureJournaled, Undone, NextUndo
        <4> QED BY <4>1 DEF Journaled
      <3> QED BY <1>4, <3>1, <3>2, <3>3 DEF Undoes
    <2>4. ASSUME NEW i \in ToSet(completed) \cap plan.compensable
          PROVE  i \in ToSet(undo') \/ effect'[i] = "undone" \/ Journaled("compensation_failed", i)'
      <3>1. i \in Step /\ (i \in ToSet(undo) \/ effect[i] = "undone" \/ Journaled("compensation_failed", i))
        BY <1>2, <2>1 DEF UndoneInv
      <3>2. CASE i = h
        BY <2>1, <2>3, <3>2
      <3>3. CASE i # h /\ i \in ToSet(undo)
        BY <2>2, <2>h, <3>3
      <3>4. CASE effect[i] = "undone" \/ Journaled("compensation_failed", i)
        BY <1>1, <2>1, <3>1, <3>4
      <3> QED BY <3>1, <3>2, <3>3, <3>4
    <2> QED BY <2>1, <2>4 DEF UndoneInv
  <1>5. CASE SameResults /\ UndoActs
    <2>1. Head(undo) \in Step /\ undo # <<>> /\ pc \in U
      BY <1>0, <1>5, NextUndoIs DEF UndoActs
    <2>2. /\ pc' = "undone" => effect'[Head(undo)] = "undone"
          /\ \A i \in Step \ {Head(undo)} : effect'[i] = effect[i]
      BY <1>0, <1>5, <2>1, UndoActsIs
    <2>3. Head(undo) \in ToSet(undo)
      BY <1>0, <2>1, TailIs DEF ToSet
    <2>4. undo' = undo /\ completed' = completed /\ plan' = plan
      BY <1>5 DEF SameResults
    <2>5. ASSUME NEW i \in ToSet(completed) \cap plan.compensable
          PROVE  i \in ToSet(undo') \/ effect'[i] = "undone" \/ Journaled("compensation_failed", i)'
      <3>1. i \in Step /\ (i \in ToSet(undo) \/ effect[i] = "undone" \/ Journaled("compensation_failed", i))
        BY <1>2, <2>1 DEF UndoneInv
      <3> QED BY <1>1, <2>2, <2>3, <2>4, <3>1
    <2> QED BY <2>2, <2>4, <2>5 DEF UndoneInv
  <1>6. CASE SameResults /\ Acts
    BY <1>6 DEF Acts, UndoneInv
  <1>7. CASE SameResults /\ UNCHANGED effect /\ (pc' = pc \/ pc' \notin {"returned", "raised", "undone"})
    <2>1. undo' = undo /\ completed' = completed /\ plan' = plan /\ effect' = effect
      BY <1>7 DEF SameResults
    <2>2. CASE pc \in U
      <3>1. ASSUME NEW i \in ToSet(completed) \cap plan.compensable
            PROVE  i \in ToSet(undo') \/ effect'[i] = "undone" \/ Journaled("compensation_failed", i)'
        <4>1. i \in Step /\ (i \in ToSet(undo) \/ effect[i] = "undone" \/ Journaled("compensation_failed", i))
          BY <1>2, <2>2 DEF UndoneInv
        <4> QED BY <1>1, <2>1, <4>1
      <3>2. pc' = "undone" => effect'[Head(undo')] = "undone"
        BY <1>7, <2>1 DEF UndoneInv
      <3> QED BY <2>1, <3>1, <3>2 DEF UndoneInv
    <2>3. CASE pc' \in U /\ pc \notin U
      BY <1>0, <1>3, <2>3, EndSteps
    <2>4. CASE pc' \notin U
      BY <2>4 DEF UndoneInv
    <2> QED BY <2>2, <2>3, <2>4
  <1> QED BY <1>0, <1>3, <1>4, <1>5, <1>6, <1>7, ResultSteps, EffectSteps

\* A run that returns "failed" left no completed step standing that it could undo,
\* but those whose compensation failed, and that is on record.
THEOREM FailureMeansUndone == Spec => []FailureIsUndone
  <1>1. Init => UndoneInv /\ FailureIsUndone
    BY DEF Init, UndoneInv, FailureIsUndone
  <1>2. DataInv /\ UndoneInv /\ [Next]_vars => UndoneInv'
    BY UndoneStep
  <1>3. DataInv /\ UndoneInv /\ FailureIsUndone /\ [Next]_vars => FailureIsUndone'
    <2> SUFFICES ASSUME DataInv, UndoneInv, FailureIsUndone, [Next]_vars
                 PROVE  FailureIsUndone'
      OBVIOUS
    <2>0. RunInv /\ TypeOK /\ completed \in Seq(Step)
      BY DEF DataInv, RunInv, TypeOK
    <2>1. CASE Fail
      <3>1. /\ pc = "compensate" /\ undo = <<>>
            /\ completed' = completed /\ plan' = plan /\ effect' = effect
        BY <2>1 DEF Fail
      <3>2. ToSet(undo) = {} /\ ToSet(completed) \subseteq Step
        BY <2>0, <3>1 DEF ToSet
      <3>3. ASSUME NEW i \in ToSet(completed) \cap plan.compensable
            PROVE  effect'[i] = "undone" \/ Journaled("compensation_failed", i)'
        <4>1. effect[i] = "undone" \/ Journaled("compensation_failed", i)
          BY <3>1, <3>2 DEF UndoneInv
        <4> QED BY <2>0, <3>1, <3>2, <4>1, JournalKeeps
      <3> QED BY <3>1, <3>3 DEF FailureIsUndone
    <2>2. CASE Complete
      BY <2>2 DEF Complete, FailureIsUndone
    <2>3. CASE status' = status /\ status = "failed"
      <3>1. pc = "done"
        BY <2>0, <2>3 DEF RunInv, PlaceInv
      <3>2. UNCHANGED vars
        BY <2>0, <3>1, EndSteps
      <3> QED BY <3>2 DEF vars, code, FailureIsUndone, Journaled
    <2>4. CASE status' = status /\ status # "failed"
      BY <2>4 DEF FailureIsUndone
    <2> QED BY <2>0, <2>1, <2>2, <2>3, <2>4, EndSteps
  <1> QED BY <1>1, <1>2, <1>3, DataAlways, PTL DEF Spec

\* What has been compensated was completed, and later than what is left to undo.
LaterInv ==
  \A j \in 1..Len(compensated) : \E a \in 1..Len(completed) :
    /\ compensated[j] = completed[a] /\ Len(undo) <= a
    /\ pc = "compensate" => Len(undo) < a

\* ReverseOrder says in which order; that the next is earlier than all before it takes
\* the places of what is left.
OrderInv == LaterInv /\ ReverseOrder

LEMMA OrderStep ==
  ASSUME DataInv, OrderInv, [Next]_vars
  PROVE  OrderInv'
  <1>0. /\ RunInv /\ UndoInv /\ FreshInv /\ LaterInv /\ ReverseOrder
        /\ completed \in Seq(Step) /\ undo \in Seq(Step) /\ compensated \in Seq(Step)
        /\ Len(undo) \in Nat /\ Len(completed) \in Nat /\ Len(compensated) \in Nat
        /\ DOMAIN compensated = 1..Len(compensated) /\ DOMAIN completed = 1..Len(completed)
    BY DEF DataInv, RunInv, TypeOK, OrderInv
  <1>1. ASSUME NEW r \in {"ok", "failed", "skipped"}, Outcome(r)
        PROVE  OrderInv'
    <2>1. compensated = <<>>
      BY <1>0, <1>1 DEF Outcome, RunInv, PlaceInv
    <2>2. compensated' = <<>>
      BY <1>0, <1>1, <2>1, OutcomeIs
    <2>3. Len(compensated') = 0 /\ DOMAIN compensated' = {} /\ ToSet(compensated') = {}
      BY <2>2 DEF ToSet
    <2> QED BY <2>3 DEF OrderInv, LaterInv, ReverseOrder
  <1>2. CASE Undoes
    <2>1. undo # <<>> /\ undo' = Tail(undo) /\ completed' = completed /\ compensated' = compensated
      BY <1>2 DEF Undoes
    <2>2. Len(undo') = Len(undo) - 1
      BY <1>0, <2>1, TailIs
    <2>3. \A a \in 1..Len(completed) : Len(undo) <= a => Len(undo') < a /\ Len(undo') <= a
      BY <1>0, <2>2
    <2>4. LaterInv'
      BY <1>0, <2>1, <2>3 DEF LaterInv
    <2>5. ReverseOrder'
      BY <1>0, <2>1 DEF ReverseOrder
    <2> QED BY <2>4, <2>5 DEF OrderInv
  <1>3. CASE UndoReturns
    <2>1. /\ pc = "compensate" /\ pc' = "undone" /\ undo # <<>>
          /\ undo' = undo /\ completed' = completed
          /\ compensated' = Append(compensated, Head(undo))
      BY <1>3 DEF UndoReturns, Undoing, NextUndo
    <2> DEFINE n == Len(compensated)
               m == Len(undo)
    <2>2. m \in 1..Len(completed) /\ Head(undo) = completed[m] /\ Head(undo) \in Step
      BY <1>0, <2>1, NextUndoIs
    <2>3. /\ Len(compensated') = n + 1 /\ compensated'[n + 1] = completed[m]
          /\ \A j \in 1..n : compensated'[j] = compensated[j]
          /\ DOMAIN compensated' = 1..(n + 1)
      BY <1>0, <2>1, <2>2
    <2>4. \A j \in 1..(n + 1) : j \in 1..n \/ j = n + 1
      BY <1>0
    <2>5. ASSUME NEW j \in 1..n
          PROVE  \E a \in 1..Len(completed) : compensated'[j] = completed[a] /\ m < a /\ m <= a
      <3>1. PICK a \in 1..Len(completed) : compensated[j] = completed[a] /\ m <= a /\ m < a
        BY <1>0, <2>1 DEF LaterInv
      <3> QED BY <2>3, <3>1
    <2>6. LaterInv'
      BY <1>0, <2>1, <2>2, <2>3, <2>4, <2>5 DEF LaterInv
    <2>7. ToSet(compensated') \subseteq ToSet(completed)
      <3>1. ASSUME NEW j \in 1..(n + 1)
            PROVE  \E a \in 1..Len(completed) : compensated'[j] = completed[a]
        BY <2>2, <2>3, <2>4, <2>5
      <3>2. ASSUME NEW x \in ToSet(compensated')
            PROVE  x \in ToSet(completed)
        <4>1. PICK j \in DOMAIN compensated' : compensated'[j] = x
          BY DEF ToSet
        <4>2. PICK a \in 1..Len(completed) : compensated'[j] = completed[a]
          BY <2>3, <3>1, <4>1
        <4> QED BY <1>0, <4>1, <4>2 DEF ToSet
      <3> QED BY <3>2
    <2>8. ASSUME NEW j \in 1..(n + 1), NEW k \in 1..(n + 1), NEW a \in 1..Len(completed),
                 NEW b \in 1..Len(completed), j < k,
                 compensated'[j] = completed[a], compensated'[k] = completed[b]
          PROVE  a > b
      <3>1. j \in 1..n
        BY <1>0, <2>8
      <3>2. CASE k \in 1..n
        BY <1>0, <2>3, <2>8, <3>1, <3>2 DEF ReverseOrder
      <3>3. CASE k = n + 1
        <4>1. b = m
          BY <2>2, <2>3, <2>8, <3>3 DEF DataInv, DoneInv
        <4>2. PICK c \in 1..Len(completed) : compensated'[j] = completed[c] /\ m < c
          BY <2>5, <3>1
        <4>3. c = a
          BY <2>8, <4>2 DEF DataInv, DoneInv
        <4> QED BY <1>0, <4>1, <4>2, <4>3
      <3> QED BY <2>4, <3>2, <3>3
    <2>9. ReverseOrder'
      BY <1>0, <2>1, <2>3, <2>7, <2>8 DEF ReverseOrder
    <2> QED BY <2>6, <2>9 DEF OrderInv
  <1>4. CASE SameResults /\ compensated' = compensated
    <2>1. undo' = undo /\ completed' = completed
      BY <1>4 DEF SameResults
    <2>2. CASE pc' = "compensate" => pc = "compensate"
      <3>1. LaterInv'
        BY <1>0, <1>4, <2>1, <2>2 DEF LaterInv
      <3>2. ReverseOrder'
        BY <1>0, <1>4, <2>1 DEF ReverseOrder
      <3> QED BY <3>1, <3>2 DEF OrderInv
    <2> QED BY <1>0, <1>1, <1>2, <2>2, EndSteps
  <1> QED BY <1>0, <1>1, <1>2, <1>3, <1>4, ResultSteps, EndSteps

\* Compensations run in reverse completion order, of completed steps, each once.
THEOREM CompensationIsReversed == Spec => []ReverseOrder
  <1>1. Init => OrderInv
    BY DEF Init, OrderInv, LaterInv, ReverseOrder, ToSet
  <1>2. DataInv /\ OrderInv /\ [Next]_vars => OrderInv'
    BY OrderStep
  <1>3. OrderInv => ReverseOrder
    BY DEF OrderInv
  <1> QED BY <1>1, <1>2, <1>3, DataAlways, PTL DEF Spec
=============================================================================
