--------------------------- MODULE SerialExecutor ---------------------------
(***************************************************************************)
(* What the panel's task queue promises to the HTTP handlers and to the    *)
(* schedulers that submit system changes to it: submitted tasks stand in   *)
(* one line, are executed one at a time in the order of that line, and a   *)
(* task has at most one outcome.  The line lives in the panel process, so  *)
(* a restart forgets it.                                                   *)
(***************************************************************************)
EXTENDS Sequences

CONSTANTS Task,     \* the tasks ever submitted
          Outcome,  \* what an execution may end in
          Nobody    \* no task is being executed / a task has no outcome yet

VARIABLES line,     \* accepted tasks that wait for the executor
          active,   \* the task being executed, or Nobody
          outcome   \* what each task's execution ended in, or Nobody

absVars == <<line, active, outcome>>

AbsInit ==
    /\ line = <<>>
    /\ active = Nobody
    /\ outcome = [t \in Task |-> Nobody]

\* A task joins the end of the line; one that stands in it or ran does not.
Accept(t) ==
    /\ t # active
    /\ \A i \in DOMAIN line : line[i] # t
    /\ outcome[t] = Nobody
    /\ line' = Append(line, t)
    /\ UNCHANGED <<active, outcome>>

\* The first of the line is executed, when nothing else is.
Start ==
    /\ active = Nobody
    /\ line # <<>>
    /\ active' = Head(line)
    /\ line' = Tail(line)
    /\ UNCHANGED outcome

\* The execution ends.
Finish(o) ==
    /\ active # Nobody
    /\ outcome' = [outcome EXCEPT ![active] = o]
    /\ active' = Nobody
    /\ UNCHANGED line

\* The process ends: the line and a half-done execution are forgotten.
Restart ==
    /\ line' = <<>>
    /\ active' = Nobody
    /\ UNCHANGED outcome

AbsNext ==
    \/ \E t \in Task : Accept(t)
    \/ Start
    \/ \E o \in Outcome : Finish(o)
    \/ Restart

AbsSpec == AbsInit /\ [][AbsNext]_absVars
=============================================================================
