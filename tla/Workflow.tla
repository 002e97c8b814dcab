------------------------------ MODULE Workflow ------------------------------
(***************************************************************************)
(* One run of a workflow (src/src/workflows/workflow.cpp): ShouldExecute,  *)
(* Execute resolving every step's action, and LoopingWorkflowRunner, whose *)
(* Run invokes the action at the cursor and whose Complete appends the     *)
(* output, advances the cursor and calls Run again.                        *)
(*                                                                         *)
(* An action may call Complete from inside Invoke, and that Complete calls *)
(* Run, which invokes the next action: synchronous steps nest.  `stack`    *)
(* holds the frames of Invoke calls still on the C++ stack, innermost      *)
(* last; each frame is the step index and whether the action's body has    *)
(* still to run ("body") or already called Complete ("after").  An         *)
(* exception thrown inside a frame is caught by the try of the Run that    *)
(* pushed it; one thrown outside every frame reaches Execute's caller.     *)
(*                                                                         *)
(* What an action does is its own code (not in this repository); the      *)
(* spec's action contract (4.F) allows completing synchronously or         *)
(* asynchronously, throwing, or never calling back.  The action of each    *)
(* step behaves in one of the ways of the constant Behaviours.             *)
(***************************************************************************)
EXTENDS Integers, Sequences, FiniteSets

CONSTANTS
    MinSteps, MaxSteps,  \* bounds on the number of steps of the document
    Behaviours,          \* what an action may do when invoked
    Events,              \* event names published by the session
    On,                  \* the document's `on`, as a set of event names
    Conds                \* rendered values of the document's `if`

ASSUME MinSteps \in Nat /\ MaxSteps \in Nat /\ MinSteps <= MaxSteps
ASSUME Behaviours \subseteq {"sync", "async", "throw", "never", "sync_throw"}
ASSUME On \subseteq Events

\* Rendered values: a JSON type and whether the value is zero (false, 0,
\* 0.0, "" for the respective types).  `absent` stands for a document with
\* no `if`.
JsonTypes == {"absent", "null", "bool", "int", "float", "string"}
ASSUME Conds \subseteq [t : JsonTypes, zero : BOOLEAN]

VARIABLES
    status,     \* "idle", "skipped", "ready", "rejected", "running", "escaped"
    event,      \* the event the run was triggered by
    cond,       \* the rendered condition
    n,          \* m_steps.size()
    behaviour,  \* step index -> what its action does
    invalid,    \* steps whose `uses` the action factory does not know
    idx,        \* LoopingWorkflowRunner::m_current_index
    outputs,    \* the `steps` context: the step whose Complete gave each output
    stack,      \* Invoke frames on the C++ stack, innermost last
    pending,    \* steps whose action keeps the callback to complete later
    invoked,    \* history: the steps invoked, in order
    logged      \* history: steps whose exception Run caught and logged

vars == <<status, event, cond, n, behaviour, invalid, idx, outputs, stack,
          pending, invoked, logged>>

Steps == 0..(n - 1)
Frames == [s : Steps, pc : {"body", "after"}]

TypeOK ==
    /\ status \in {"idle", "skipped", "ready", "rejected", "running", "escaped"}
    /\ event \in Events /\ cond \in Conds
    /\ n \in MinSteps..MaxSteps
    /\ behaviour \in [Steps -> Behaviours]
    /\ invalid \subseteq Steps
    /\ idx \in 0..(MaxSteps + 1)
    /\ outputs \in Seq(0..MaxSteps) /\ Len(outputs) <= MaxSteps + 1
    /\ stack \in Seq(Frames) /\ Len(stack) <= n
    /\ pending \subseteq 0..MaxSteps
    /\ invoked \in Seq(0..MaxSteps)
    /\ logged \subseteq 0..MaxSteps

Init ==
    /\ status = "idle"
    /\ event \in Events /\ cond \in Conds
    /\ n \in MinSteps..MaxSteps
    /\ behaviour \in [Steps -> Behaviours]
    /\ invalid \in SUBSET Steps
    /\ idx = 0 /\ outputs = <<>> /\ stack = <<>> /\ pending = {}
    /\ invoked = <<>> /\ logged = {}

-----------------------------------------------------------------------------
(* ShouldExecute: `output == false || output == nullptr || output == 0`.   *)
(* nlohmann::json compares numbers across integer and floating types, and  *)
(* a boolean or a string never equals a number.                            *)
Falsy(c) ==
    \/ c.t = "bool" /\ c.zero
    \/ c.t = "null"
    \/ c.t \in {"int", "float"} /\ c.zero

ShouldExecute ==
    /\ status = "idle"
    /\ status' = IF event \in On /\ (cond.t = "absent" \/ ~Falsy(cond))
                 THEN "ready" ELSE "skipped"
    /\ UNCHANGED <<event, cond, n, behaviour, invalid, idx, outputs, stack,
                   pending, invoked, logged>>

\* Run(): m_step_instances.at(m_current_index) is outside the try block.
\* `RunOk(i)` tells whether at() succeeds; `Push(i)` is the frame of the
\* Invoke that follows.
RunOk(i) == i < n
Push(i) == [s |-> i, pc |-> "body"]

Top == stack[Len(stack)]
Pop == SubSeq(stack, 1, Len(stack) - 1)

\* Execute: an unknown action name aborts before any step runs; otherwise
\* a runner is made and Run() invoked from the caller's stack.
Execute ==
    /\ status = "ready"
    /\ IF invalid # {}
         THEN status' = "rejected" /\ UNCHANGED <<idx, stack, invoked>>
       ELSE IF ~RunOk(0)
         THEN status' = "escaped" /\ UNCHANGED <<idx, stack, invoked>>
       ELSE /\ status' = "running"
            /\ stack' = <<Push(0)>> /\ invoked' = <<0>>
            /\ UNCHANGED idx
    /\ UNCHANGED <<event, cond, n, behaviour, invalid, outputs, pending, logged>>

-----------------------------------------------------------------------------
(* Complete(j), called by step j's action.  `Done(k)` is the check        *)
(* `m_current_index >= m_step_instances.size()`.                          *)
DoneOffByOne(k) == k > n
DoneEarly(k) == k + 1 >= n
Done(k) == k >= n

\* An exception leaving Complete or Run: caught by the innermost frame's
\* Run (which logs it and returns) or, outside any frame, out of the loop.
Raise(st) ==
    IF st = <<>>
      THEN status' = "escaped" /\ stack' = <<>> /\ UNCHANGED logged
      ELSE /\ logged' = logged \cup {st[Len(st)].s}
           /\ stack' = SubSeq(st, 1, Len(st) - 1)
           /\ UNCHANGED status

\* Mutant: Run() is called before the cursor is advanced.
CompleteRunBeforeAdvance(j, st) ==
    /\ idx' = idx + 1
    /\ outputs' = Append(outputs, j)
    /\ stack' = Append(st, Push(idx))
    /\ invoked' = Append(invoked, idx)
    /\ UNCHANGED <<status, logged>>

\* The body of Complete, given the stack below it: the caller's frame (if
\* any) has already been marked "after".
CompleteBody(j, st) ==
    IF idx >= n   \* m_step_instances.at(m_current_index) throws
      THEN Raise(st) /\ UNCHANGED <<idx, outputs, invoked>>
      ELSE /\ idx' = idx + 1
           /\ outputs' = Append(outputs, j)
           /\ IF Done(idx + 1)
                THEN stack' = st /\ UNCHANGED <<status, logged, invoked>>
              ELSE IF RunOk(idx + 1)
                THEN /\ stack' = Append(st, Push(idx + 1))
                     /\ invoked' = Append(invoked, idx + 1)
                     /\ UNCHANGED <<status, logged>>
              ELSE Raise(st) /\ UNCHANGED invoked

\* Mutant: the catch block moves on to the next step.
InvokeThrewContinues ==
    /\ logged' = logged \cup {Top.s}
    /\ idx' = idx + 1
    /\ IF RunOk(idx + 1)
         THEN stack' = Append(Pop, Push(idx + 1)) /\ invoked' = Append(invoked, idx + 1)
         ELSE stack' = Pop /\ UNCHANGED invoked
    /\ UNCHANGED outputs

\* Run's catch block: the exception of the innermost frame's Invoke is
\* logged, the frame is gone and the workflow goes no further.
InvokeThrew ==
    /\ Raise(stack)
    /\ UNCHANGED <<idx, outputs, invoked>>

-----------------------------------------------------------------------------
(* The action of the innermost frame, as the action contract allows.      *)

ActionBody ==
    /\ status = "running" /\ stack # <<>> /\ Top.pc = "body"
    /\ LET j == Top.s IN
       CASE behaviour[j] \in {"sync", "sync_throw"} ->
              /\ CompleteBody(j, [stack EXCEPT ![Len(stack)].pc = "after"])
              /\ UNCHANGED pending
         [] behaviour[j] = "async" ->
              /\ pending' = pending \cup {j} /\ stack' = Pop
              /\ UNCHANGED <<status, idx, outputs, invoked, logged>>
         [] behaviour[j] = "throw" ->
              InvokeThrew /\ UNCHANGED <<status, pending>>
         [] behaviour[j] = "never" ->
              /\ stack' = Pop
              /\ UNCHANGED <<status, idx, outputs, invoked, logged, pending>>
    /\ UNCHANGED <<event, cond, n, behaviour, invalid>>

\* Invoke returns after its action called Complete: normally, or by
\* throwing.
ActionReturns ==
    /\ status = "running" /\ stack # <<>> /\ Top.pc = "after"
    /\ IF behaviour[Top.s] = "sync_throw"
         THEN InvokeThrew /\ UNCHANGED status
         ELSE stack' = Pop /\ UNCHANGED <<status, idx, outputs, invoked, logged>>
    /\ UNCHANGED <<event, cond, n, behaviour, invalid, pending>>

\* The event loop runs the later Complete of an asynchronous action.
Deliver(j) ==
    /\ status = "running" /\ stack = <<>> /\ j \in pending
    /\ pending' = pending \ {j}
    /\ CompleteBody(j, <<>>)
    /\ UNCHANGED <<event, cond, n, behaviour, invalid>>

Next ==
    \/ ShouldExecute \/ Execute
    \/ ActionBody \/ ActionReturns
    \/ \E j \in pending : Deliver(j)

\* The event loop keeps running the thread it is on, and an action that
\* completes asynchronously does complete (the contract's "exactly once").
Fairness ==
    /\ WF_vars(ShouldExecute) /\ WF_vars(Execute)
    /\ WF_vars(ActionBody) /\ WF_vars(ActionReturns)
    /\ \A j \in 0..MaxSteps : WF_vars(Deliver(j))

Spec == Init /\ [][Next]_vars /\ Fairness

-----------------------------------------------------------------------------
(* Properties.                                                              *)

Finished == status = "running" /\ stack = <<>> /\ pending = {}

\* The stage of the run the spec speaks of: a run whose Run has caught an
\* action's exception is halted.
AbsStage == IF status = "running" /\ logged # {} THEN "halted" ELSE status

Abstract == INSTANCE WorkflowSpec WITH
    stage <- AbsStage, size <- n, done <- Len(outputs),
    busy <- Len(invoked) > Len(outputs)

\* The nested Run/Complete/Invoke frames and the asynchronous completions
\* delivered by the event loop implement the sequential executor of spec
\* 4.F: one step executes at a time, each Complete appends one output and
\* starts the next step until the cursor passes the end, an exception
\* halts the run, and nothing happens after the run has ended.
WorkflowRefinesSpec == Abstract!Spec

\* Steps are invoked one at a time in document order, each at most once,
\* and the k-th output of the `steps` context is the output of step k,
\* however synchronous completions nest Run inside Complete inside Invoke
\* and asynchronous ones resume from the event loop.
StepsInOrder ==
    /\ invoked = [k \in 1..Len(invoked) |-> k - 1]
    /\ outputs = [k \in 1..Len(outputs) |-> k - 1]
    /\ Len(outputs) = idx
    /\ Len(invoked) <= idx + 1

\* No exception from Run or Complete reaches Execute's caller or the event
\* loop (spec 7: workflow errors abort that workflow run only).
NoExceptionEscapes == status # "escaped"

\* When every action completes (synchronously or asynchronously), every
\* step runs and the `steps` context ends with one output per step.
AllStepsComplete ==
    (status = "running" /\ \A i \in Steps : behaviour[i] \in {"sync", "async"})
        ~> (Finished /\ Len(outputs) = n)

=============================================================================
