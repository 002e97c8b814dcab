---------------------------- MODULE WorkflowSpec ----------------------------
(***************************************************************************)
(* What one workflow run promises (spec 4.F, Trigger and Execute), with    *)
(* no stack, cursor or callback objects: the run is triggered or skipped,  *)
(* its steps are resolved (or the run rejected), and then the step at the  *)
(* cursor is executing until it completes, which appends one output and    *)
(* starts the next step, or until it throws, which halts the run.  An      *)
(* action that never calls back leaves the run executing forever, so the   *)
(* specification asserts no progress.                                      *)
(***************************************************************************)
EXTENDS Naturals

CONSTANTS MinSteps, MaxSteps   \* bounds on the number of steps

VARIABLES
    stage,  \* "idle", "skipped", "ready", "rejected", "running", "halted"
    size,   \* the number of steps of the document
    done,   \* outputs appended to the `steps` context (the cursor)
    busy    \* the step at the cursor was invoked and has not completed

vars == <<stage, size, done, busy>>

Init ==
    /\ stage = "idle" /\ size \in MinSteps..MaxSteps
    /\ done = 0 /\ busy = FALSE

\* The event name and the condition decide whether the run goes ahead.
Trigger ==
    /\ stage = "idle"
    /\ stage' \in {"skipped", "ready"}
    /\ UNCHANGED <<size, done, busy>>

\* Every step's action is resolved: an unknown one rejects the run with no
\* side effect; otherwise the first step is invoked.
Resolve ==
    /\ stage = "ready"
    /\ \/ stage' = "rejected" /\ UNCHANGED busy
       \/ size > 0 /\ stage' = "running" /\ busy' = TRUE
    /\ UNCHANGED <<size, done>>

\* Complete(output): append the output, advance the cursor, and invoke the
\* next step unless the cursor is past the end.
CompleteStep ==
    /\ stage = "running" /\ busy
    /\ done' = done + 1
    /\ busy' = (done + 1 < size)
    /\ UNCHANGED <<stage, size>>

\* The executing step's action throws: the error is logged and the run
\* goes no further.
Halt ==
    /\ stage = "running" /\ busy
    /\ stage' = "halted"
    /\ UNCHANGED <<size, done, busy>>

Next == Trigger \/ Resolve \/ CompleteStep \/ Halt

Spec == Init /\ [][Next]_vars

====
