------------------------------ MODULE Workflow ------------------------------
(***************************************************************************)
(* backend/orchestration/workflow.py: one run of a Workflow, its steps in  *)
(* list order with dependency and validation gates, the compensation of    *)
(* completed steps in reverse order, and the journal it writes ahead.      *)
(*                                                                         *)
(* Steps are numbered by their place in the list.  A step acts on the      *)
(* outside world (effect).  Every append may raise (disk full) and the     *)
(* process may die between any two steps of the code.                      *)
(***************************************************************************)
EXTENDS Naturals, Sequences, FiniteSets, SequencesExt

CONSTANTS N,          \* number of steps
          MayRaise,   \* EventStore.append may raise
          MayDie      \* the process may be killed

ASSUME WorkflowAssumption == N \in Nat \ {0} /\ {MayRaise, MayDie} \subseteq BOOLEAN

VARIABLES
  plan,         \* the Workflow's definition: deps, required, compensable steps
  pc,           \* where run() is
  cur,          \* the loop's step
  res,          \* result.steps: the status of each step
  completed,    \* the steps that ended ok, in order
  undo,         \* what is left of reversed(completed)
  compensated,  \* result.compensated
  status,       \* result.status once run() returned, "open" before
  effect,       \* what the outside world saw of each step
  journal       \* the records appended

code == <<plan, cur, res, completed, undo, compensated, status>>
vars == <<code, pc, effect, journal>>

Step == 1..N

\* _check_dag: a step depends on earlier steps only.
WellFormed(d) == \A i \in Step : d[i] \subseteq 1..(i - 1)

Plans == [deps : {d \in [Step -> SUBSET Step] : WellFormed(d)},
          required : SUBSET Step, compensable : SUBSET Step]

Events == {"workflow_started", "step_started", "step_completed", "step_failed",
           "step_compensated", "compensation_failed",
           "workflow_completed", "workflow_failed"}

TypeOK ==
  /\ plan \in Plans
  /\ pc \in {"new", "gate", "run", "returned", "raised", "compensate", "undone",
             "undofailed", "done", "aborted", "dead"}
  /\ cur \in 1..(N + 1)
  /\ res \in [Step -> {"none", "ok", "failed", "skipped"}]
  /\ {completed, undo, compensated} \subseteq Seq(Step)
  /\ status \in {"open", "ok", "failed"}
  /\ effect \in [Step -> {"none", "done", "undone"}]
  /\ journal \in Seq([event : Events, step : 0..N])

\* append(): the record is in the journal and run() goes on at `to`.
Journals(event, step, to) ==
  /\ journal' = Append(journal, [event |-> event, step |-> step])
  /\ pc' = to

\* Mutations: compensation in completion order; the latest step is left out.
UndoOrderForward == completed
UndoOrderFromSecond == IF completed = <<>> THEN <<>> ELSE Tail(Reverse(completed))

UndoOrder == Reverse(completed)

\* Mutation: a required step that was skipped does not fail the workflow.
FatalIfFailed(r) == r = "failed" /\ cur \in plan.required

Fatal(r) == r # "ok" /\ cur \in plan.required

\* run() takes the outcome r of step cur: the next step, or compensation.
Takes(r) ==
  /\ res' = [res EXCEPT ![cur] = r]
  /\ IF Fatal(r)
     THEN UNCHANGED cur /\ undo' = UndoOrder
     ELSE cur' = cur + 1 /\ UNCHANGED undo
  /\ completed' = IF r = "ok" THEN Append(completed, cur) ELSE completed

After(r) == IF Fatal(r) THEN "compensate" ELSE "gate"

Start ==
  /\ pc = "new"
  /\ Journals("workflow_started", 0, "gate")
  /\ UNCHANGED <<code, effect>>

(***************************************************************************)
(* _run_step                                                               *)
(***************************************************************************)

\* Mutation: a dependency that was skipped does not count as missing.
InputsNotFailed == \A d \in plan.deps[cur] : res[d] # "failed"

InputsReady == \A d \in plan.deps[cur] : res[d] = "ok"

\* Mutation: the loop runs one step too far.
MoreStepsInclusive == cur <= N + 1

MoreSteps == cur <= N

\* A dependency is not ok, or validate(ctx), which may fail in any state, is false
\* or raises: the step is skipped.
GateSkips ==
  /\ pc = "gate" /\ MoreSteps
  /\ Journals("step_failed", cur, After("skipped"))
  /\ Takes("skipped")
  /\ UNCHANGED <<plan, compensated, status, effect>>

\* Mutation: the step is not announced.
StepStartsUnannounced ==
  /\ pc = "gate" /\ MoreSteps /\ InputsReady /\ pc' = "run"
  /\ UNCHANGED <<code, effect, journal>>

StepStarts ==
  /\ pc = "gate" /\ MoreSteps /\ InputsReady
  /\ Journals("step_started", cur, "run")
  /\ UNCHANGED <<code, effect>>

FnReturns ==
  /\ pc = "run" /\ pc' = "returned"
  /\ effect' = [effect EXCEPT ![cur] = "done"]
  /\ UNCHANGED <<code, journal>>

\* fn raises, having acted or not.
FnRaises ==
  /\ pc = "run" /\ pc' = "raised"
  /\ \E e \in {"none", "done"} : effect' = [effect EXCEPT ![cur] = e]
  /\ UNCHANGED <<code, journal>>

StepCompleted ==
  /\ pc = "returned"
  /\ Journals("step_completed", cur, "gate")
  /\ Takes("ok")
  /\ UNCHANGED <<plan, compensated, status, effect>>

StepFailed ==
  /\ pc = "raised"
  /\ Journals("step_failed", cur, After("failed"))
  /\ Takes("failed")
  /\ UNCHANGED <<plan, compensated, status, effect>>

(***************************************************************************)
(* _compensate                                                             *)
(***************************************************************************)

NextUndo == Head(undo)

Undoing == pc = "compensate" /\ undo # <<>>

NothingToUndo ==
  /\ Undoing /\ NextUndo \notin plan.compensable
  /\ undo' = Tail(undo)
  /\ UNCHANGED <<plan, cur, res, completed, compensated, status, pc, effect, journal>>

UndoReturns ==
  /\ Undoing /\ NextUndo \in plan.compensable
  /\ effect' = [effect EXCEPT ![NextUndo] = "undone"]
  /\ compensated' = Append(compensated, NextUndo)
  /\ pc' = "undone"
  /\ UNCHANGED <<plan, cur, res, completed, undo, status, journal>>

UndoRaises ==
  /\ Undoing /\ NextUndo \in plan.compensable
  /\ \E e \in {"done", "undone"} : effect' = [effect EXCEPT ![NextUndo] = e]
  /\ pc' = "undofailed"
  /\ UNCHANGED <<code, journal>>

Undone(event) ==
  /\ Journals(event, NextUndo, "compensate")
  /\ undo' = Tail(undo)
  /\ UNCHANGED <<plan, cur, res, completed, compensated, status, effect>>

UndoJournaled == pc = "undone" /\ Undone("step_compensated")

\* The exception of the compensation is journaled and the loop goes on.
UndoFailureJournaled == pc = "undofailed" /\ Undone("compensation_failed")

(***************************************************************************)
(* The two ends of run()                                                   *)
(***************************************************************************)

Journaled(event, i) ==
  \E k \in DOMAIN journal : journal[k] = [event |-> event, step |-> i]

Terminal == Journaled("workflow_completed", 0) \/ \E i \in Step : Journaled("workflow_failed", i)

\* Mutation: the failure is journaled before the compensations run.
FailFirst ==
  /\ pc = "compensate"
  /\ IF Terminal
     THEN undo = <<>> /\ pc' = "done" /\ status' = "failed" /\ UNCHANGED journal
     ELSE Journals("workflow_failed", cur, "compensate") /\ UNCHANGED status
  /\ UNCHANGED <<plan, cur, res, completed, undo, compensated, effect>>

Fail ==
  /\ pc = "compensate" /\ undo = <<>>
  /\ Journals("workflow_failed", cur, "done")
  /\ status' = "failed"
  /\ UNCHANGED <<plan, cur, res, completed, undo, compensated, effect>>

Complete ==
  /\ pc = "gate" /\ ~MoreSteps
  /\ Journals("workflow_completed", 0, "done")
  /\ status' = "ok"
  /\ UNCHANGED <<plan, cur, res, completed, undo, compensated, effect>>

(***************************************************************************)
(* The journal fails, the process dies                                     *)
(***************************************************************************)

\* The append after a compensation is inside its try block: the exception is
\* taken for a failed compensation.
UndoAppendRaises ==
  /\ MayRaise /\ pc = "undone" /\ pc' = "undofailed"
  /\ UNCHANGED <<code, effect, journal>>

AppendDue ==
  pc \in {"new", "gate", "returned", "raised", "undofailed"} \/ (pc = "compensate" /\ undo = <<>>)

\* Every other append is bare: the exception leaves run().
AppendRaises ==
  /\ MayRaise /\ AppendDue /\ pc' = "aborted"
  /\ UNCHANGED <<code, effect, journal>>

Die ==
  /\ MayDie /\ pc \notin {"new", "done", "aborted", "dead"} /\ pc' = "dead"
  /\ UNCHANGED <<code, effect, journal>>

Init ==
  /\ plan \in Plans
  /\ pc = "new" /\ cur = 1 /\ status = "open" /\ journal = <<>>
  /\ res = [i \in Step |-> "none"] /\ effect = [i \in Step |-> "none"]
  /\ completed = <<>> /\ undo = <<>> /\ compensated = <<>>

Run ==
  \/ Start \/ GateSkips \/ StepStarts \/ FnReturns \/ FnRaises
  \/ StepCompleted \/ StepFailed
  \/ NothingToUndo \/ UndoReturns \/ UndoRaises \/ UndoJournaled \/ UndoFailureJournaled
  \/ Fail \/ Complete

Next == Run \/ UndoAppendRaises \/ AppendRaises \/ Die

Spec == Init /\ [][Next]_vars

(***************************************************************************)
(* Properties                                                              *)
(***************************************************************************)

\* "A step whose dependency failed or was skipped is itself skipped": no step
\* ever acted on missing inputs.
NeverOnMissingInputs ==
  \A i \in Step : effect[i] # "none" => \A d \in plan.deps[i] : res[d] = "ok"

\* Compensations run in reverse completion order, of completed steps, each once.
ReverseOrder ==
  /\ ToSet(compensated) \subseteq ToSet(completed)
  /\ \A j, k \in DOMAIN compensated, a, b \in DOMAIN completed :
       j < k /\ compensated[j] = completed[a] /\ compensated[k] = completed[b] => a > b

\* A run that returns "failed" left no completed compensable step standing,
\* except one whose failed compensation is on record.
FailureIsUndone ==
  status = "failed" => \A i \in ToSet(completed) \cap plan.compensable :
    effect[i] = "undone" \/ Journaled("compensation_failed", i)

\* A run that returns "ok" has every required step done and none undone.
SuccessIsComplete ==
  status = "ok" => /\ \A i \in plan.required : res[i] = "ok" /\ effect[i] = "done"
                   /\ compensated = <<>>

\* The journal is written ahead: whatever step may have acted when the process
\* dies or an append fails is known as started.
EffectsAreAnnounced ==
  \A i \in Step : effect[i] # "none" => Journaled("step_started", i)

\* "started implies eventually terminal, or visible as incomplete after a crash": a run
\* that has acted and is left by an append's exception or by the death of its process is
\* incomplete in the journal, however far its compensations had come; one that returns
\* is not.
LeftIsIncomplete ==
  /\ pc \in {"aborted", "dead"} /\ (\E i \in Step : effect[i] # "none")
       => Journaled("workflow_started", 0) /\ ~Terminal
  /\ pc = "done" => Terminal
=============================================================================
