------------------------------ MODULE TaskQueue ------------------------------
(***************************************************************************)
(* executor/queue.go: the single worker goroutine that executes every      *)
(* change of the system, the buffered channel in front of it, and the      *)
(* goroutines that submit to it.  A submitter counts its task, sends it    *)
(* (the send blocks while the channel is full) and, unless it is one of    *)
(* the fire-and-forget callers, waits on the task's own result channel.    *)
(* Everything but the rows of operation_logs lives in the process: a crash *)
(* (or a panic of a task, the worker does not recover) or an update of the *)
(* panel loses it, and the channel starts empty.                           *)
(***************************************************************************)
EXTENDS Naturals, Sequences, FiniteSets

CONSTANTS Task,        \* tasks ever created; Enqueue gives each a fresh UUID
          Waited,      \* those whose handler reads ResultCh
          Capacity,    \* make(chan *Task, 100)
          MaxRestarts, \* bound on the restarts of the process
          NoTask, NoResult

ASSUME TaskAssumption ==
    /\ IsFiniteSet(Task)
    /\ Waited \subseteq Task
    /\ Capacity \in Nat \ {0}
    /\ MaxRestarts \in Nat
    /\ NoTask \notin Task
    /\ NoResult \notin {"success", "failed"}

VARIABLES submitter,  \* where the goroutine that submits the task is
          chan,       \* the buffered channel
          worker,     \* the statement of the worker loop that comes next
          current,    \* the task the worker holds
          outcome,    \* what executing the task ended in (result.Success)
          resultCh,   \* the content of the task's result channel
          reply,      \* what the waiting handler read from it
          running,    \* q.running
          taskCount,  \* q.taskCount
          opLog,      \* rows of operation_logs: these survive a restart
          began,      \* history: how often the execution of the task began
          restarts

vars == <<submitter, chan, worker, current, outcome, resultCh, reply, running,
          taskCount, opLog, began, restarts>>

Outcome == {"success", "failed"}
SubmitterStep == {"absent", "counted", "sent", "answered", "gone"}
WorkerStep == {"receive", "execute", "log", "answer", "uncount", "rest"}

InChan(t) == \E i \in DOMAIN chan : chan[i] = t

Init ==
    /\ submitter = [t \in Task |-> "absent"]
    /\ chan = <<>>
    /\ worker = "receive"
    /\ current = NoTask
    /\ outcome = [t \in Task |-> NoResult]
    /\ resultCh = [t \in Task |-> NoResult]
    /\ reply = [t \in Task |-> NoResult]
    /\ running = FALSE
    /\ taskCount = 0
    /\ opLog = {}
    /\ began = [t \in Task |-> 0]
    /\ restarts = 0
-----------------------------------------------------------------------------
(* Submitters: Enqueue and the callers' `<-task.ResultCh`.                 *)

\* Enqueue up to the unlock: the task is counted before it is sent.
Count(t) ==
    /\ submitter[t] = "absent"
    /\ submitter' = [submitter EXCEPT ![t] = "counted"]
    /\ taskCount' = taskCount + 1
    /\ UNCHANGED <<chan, worker, current, outcome, resultCh, reply, running,
                   opLog, began, restarts>>

\* Mutant: a queue without a bound, to which a send never blocks.
SendUnbounded(t) ==
    /\ submitter[t] = "counted"
    /\ submitter' = [submitter EXCEPT ![t] = "sent"]
    /\ chan' = Append(chan, t)
    /\ UNCHANGED <<worker, current, outcome, resultCh, reply, running,
                   taskCount, opLog, began, restarts>>

\* q.queue <- task: blocks while the buffer is full.
Send(t) ==
    /\ submitter[t] = "counted"
    /\ Len(chan) < Capacity
    /\ submitter' = [submitter EXCEPT ![t] = "sent"]
    /\ chan' = Append(chan, t)
    /\ UNCHANGED <<worker, current, outcome, resultCh, reply, running,
                   taskCount, opLog, began, restarts>>

\* A handler takes the result out of its task's channel and responds.
Receive(t) ==
    /\ t \in Waited
    /\ submitter[t] = "sent"
    /\ resultCh[t] # NoResult
    /\ submitter' = [submitter EXCEPT ![t] = "answered"]
    /\ reply' = [reply EXCEPT ![t] = resultCh[t]]
    /\ resultCh' = [resultCh EXCEPT ![t] = NoResult]
    /\ UNCHANGED <<chan, worker, current, outcome, running, taskCount, opLog,
                   began, restarts>>
-----------------------------------------------------------------------------
(* The worker loop.                                                        *)

\* Mutant: the worker looks at the head of the channel and leaves it there.
DequeueKeepingHead ==
    /\ worker = "receive"
    /\ chan # <<>>
    /\ current' = Head(chan)
    /\ running' = TRUE
    /\ worker' = "execute"
    /\ began' = [began EXCEPT ![Head(chan)] = @ + 1]
    /\ UNCHANGED <<submitter, chan, outcome, resultCh, reply, taskCount, opLog,
                   restarts>>

\* Mutant: the newest task is served first.
DequeueNewest ==
    /\ worker = "receive"
    /\ chan # <<>>
    /\ current' = chan[Len(chan)]
    /\ chan' = SubSeq(chan, 1, Len(chan) - 1)
    /\ running' = TRUE
    /\ worker' = "execute"
    /\ began' = [began EXCEPT ![chan[Len(chan)]] = @ + 1]
    /\ UNCHANGED <<submitter, outcome, resultCh, reply, taskCount, opLog, restarts>>

\* Mutant: the worker takes a task before it has finished with the last one.
DequeueEarly ==
    /\ worker \in {"receive", "uncount"}
    /\ chan # <<>>
    /\ current' = Head(chan)
    /\ chan' = Tail(chan)
    /\ running' = TRUE
    /\ worker' = "execute"
    /\ began' = [began EXCEPT ![Head(chan)] = @ + 1]
    /\ UNCHANGED <<submitter, outcome, resultCh, reply, taskCount, opLog,
                   restarts>>

\* `for task := range q.queue`, running.Store(true) and TaskStatusRunning.
Dequeue ==
    /\ worker = "receive"
    /\ chan # <<>>
    /\ current' = Head(chan)
    /\ chan' = Tail(chan)
    /\ running' = TRUE
    /\ worker' = "execute"
    /\ began' = [began EXCEPT ![Head(chan)] = @ + 1]
    /\ UNCHANGED <<submitter, outcome, resultCh, reply, taskCount, opLog, restarts>>

\* The executeXxx of the task's type returns; an unknown type is a failure.
Execute(o) ==
    /\ worker = "execute"
    /\ outcome' = [outcome EXCEPT ![current] = o]
    /\ worker' = "log"
    /\ UNCHANGED <<submitter, chan, current, resultCh, reply, running,
                   taskCount, opLog, began, restarts>>

\* Mutant: the branches of the status in logOp are swapped.
LogOpSwapped ==
    /\ worker = "log"
    /\ opLog' = opLog \cup
          {<<current, IF outcome[current] = "success" THEN "failed"
                                                      ELSE "success">>}
    /\ worker' = "answer"
    /\ UNCHANGED <<submitter, chan, current, outcome, resultCh, reply, running,
                   taskCount, began, restarts>>

\* logOp: the error of the INSERT is discarded, so the row may be missing.
LogOp ==
    /\ worker = "log"
    /\ \/ opLog' = opLog \cup {<<current, outcome[current]>>}
       \/ opLog' = opLog
    /\ worker' = "answer"
    /\ UNCHANGED <<submitter, chan, current, outcome, resultCh, reply, running,
                   taskCount, began, restarts>>

\* Mutant: only a success is sent to the handler.
AnswerSuccess ==
    /\ worker = "answer"
    /\ resultCh' = [resultCh EXCEPT ![current] =
                       IF outcome[current] = "success" THEN "success" ELSE @]
    /\ worker' = "uncount"
    /\ UNCHANGED <<submitter, chan, current, outcome, reply, running,
                   taskCount, opLog, began, restarts>>

\* task.ResultCh <- result; close: the buffer of one never blocks the worker.
Answer ==
    /\ worker = "answer"
    /\ resultCh' = [resultCh EXCEPT ![current] = outcome[current]]
    /\ worker' = "uncount"
    /\ UNCHANGED <<submitter, chan, current, outcome, reply, running,
                   taskCount, opLog, began, restarts>>

Uncount ==
    /\ worker = "uncount"
    /\ taskCount' = taskCount - 1
    /\ worker' = "rest"
    /\ current' = NoTask
    /\ UNCHANGED <<submitter, chan, outcome, resultCh, reply, running, opLog,
                   began, restarts>>

\* q.running.Store(false), then the next iteration.
Rest ==
    /\ worker = "rest"
    /\ running' = FALSE
    /\ worker' = "receive"
    /\ UNCHANGED <<submitter, chan, current, outcome, resultCh, reply,
                   taskCount, opLog, began, restarts>>

Work == Dequeue \/ (\E o \in Outcome : Execute(o)) \/ LogOp \/ Answer \/ Uncount \/ Rest
-----------------------------------------------------------------------------
(* The process ends at any point (a panic of a task, a kill, the restart   *)
(* of a panel update) and InitQueue starts over with an empty channel.     *)
InitQueue ==
    /\ restarts < MaxRestarts
    /\ restarts' = restarts + 1
    /\ submitter' = [t \in Task |-> IF submitter[t] \in {"counted", "sent"}
                                    THEN "gone" ELSE submitter[t]]
    /\ chan' = <<>>
    /\ worker' = "receive"
    /\ current' = NoTask
    /\ resultCh' = [t \in Task |-> NoResult]
    /\ running' = FALSE
    /\ taskCount' = 0
    /\ UNCHANGED <<outcome, reply, opLog, began>>

Next ==
    \/ \E t \in Task : Count(t) \/ Send(t) \/ Receive(t)
    \/ Work
    \/ InitQueue

\* The worker goroutine keeps running.  A full channel serves its blocked
\* senders in the order they blocked, so a sender that finds room again and
\* again gets it (strong fairness).  Requests, and crashes, need not come.
Fairness ==
    /\ WF_vars(Work)
    /\ \A t \in Task : SF_vars(Send(t)) /\ WF_vars(Receive(t))

Spec == Init /\ [][Next]_vars
FairSpec == Spec /\ Fairness
-----------------------------------------------------------------------------
TypeOK ==
    /\ submitter \in [Task -> SubmitterStep]
    /\ chan \in Seq(Task) /\ Len(chan) <= Capacity
    /\ worker \in WorkerStep
    /\ current \in Task \cup {NoTask}
    /\ outcome \in [Task -> Outcome \cup {NoResult}]
    /\ resultCh \in [Task -> Outcome \cup {NoResult}]
    /\ reply \in [Task -> Outcome \cup {NoResult}]
    /\ running \in BOOLEAN
    /\ taskCount \in Nat
    /\ opLog \subseteq Task \X Outcome
    /\ began \in [Task -> Nat]
    /\ restarts \in 0..MaxRestarts

\* The tasks between the two critical sections that count and uncount them.
Outstanding ==
    {t \in Task : submitter[t] = "counted" \/ InChan(t) \/ t = current}

\* QueueLength() is exact: it counts each task from before its send, while it
\* stands in the channel and until after its answer, once, across a restart.
CountExact == taskCount = Cardinality(Outstanding)

\* No task is executed twice: not by two requests, nor again after a restart.
ExecutedAtMostOnce == \A t \in Task : began[t] <= 1

\* A handler blocked on ResultCh is never forgotten: its task waits in the
\* channel, is in the worker's hands before the answer, or has its result.
NoForgottenHandler ==
    \A t \in Waited : submitter[t] = "sent" =>
        \/ InChan(t)
        \/ current = t /\ worker \in {"execute", "log", "answer"}
        \/ resultCh[t] # NoResult

\* What a handler tells the administrator, and what operation_logs says of
\* the task, is how its execution ended.
AnswerIsOutcome ==
    /\ \A t \in Task : reply[t] # NoResult => reply[t] = outcome[t]
    /\ \A t \in Task, o \in Outcome : <<t, o>> \in opLog => o = outcome[t]

\* Every submitted request is answered unless the process restarts, however
\* many submitters block on the full channel.
EveryRequestAnswered ==
    \A t \in Waited :
        submitter[t] = "counted" ~> submitter[t] \in {"answered", "gone"}

\* The queue implements the serial executor.
Executor == INSTANCE SerialExecutor WITH
    Nobody <- NoTask,
    line <- chan,
    active <- IF worker = "execute" THEN current ELSE NoTask,
    outcome <- [t \in Task |-> IF outcome[t] = NoResult THEN NoTask ELSE outcome[t]]

ImplementsSerialExecutor == Executor!AbsSpec
-----------------------------------------------------------------------------
(* The parts of the inductive invariant.                                   *)

WorkerHolds == {"execute", "log", "answer", "uncount"}

\* The channel holds each task at most once.
ChanInjective == \A i, j \in DOMAIN chan : chan[i] = chan[j] => i = j

\* A task in the channel was sent, and nothing was done about it yet.
WaitingUntouched ==
    \A t \in Task : InChan(t) =>
        /\ submitter[t] = "sent"
        /\ t # current
        /\ began[t] = 0
        /\ resultCh[t] = NoResult

\* A task that is not sent yet has no trace in the queue.
UnsentUntouched ==
    \A t \in Task : submitter[t] \in {"absent", "counted"} =>
        /\ t # current
        /\ began[t] = 0
        /\ resultCh[t] = NoResult

\* The worker holds a task exactly between the receive and the uncount, and
\* knows its result once it was executed.
WorkerState ==
    /\ worker \in WorkerHolds <=> current # NoTask
    /\ worker = "execute" => outcome[current] = NoResult
    /\ worker \in {"log", "answer", "uncount"} => outcome[current] # NoResult

\* A task has an outcome only after it began, and a result only when it is
\* the outcome.
ResultState ==
    \A t \in Task :
        /\ outcome[t] # NoResult => began[t] = 1
        /\ t = current => began[t] = 1
        /\ resultCh[t] # NoResult => resultCh[t] = outcome[t]
        /\ reply[t] # NoResult => reply[t] = outcome[t]

QueueInv ==
    /\ TypeOK
    /\ CountExact
    /\ ChanInjective
    /\ WaitingUntouched
    /\ UnsentUntouched
    /\ WorkerState
    /\ ResultState
    /\ ExecutedAtMostOnce
    /\ NoForgottenHandler
    /\ AnswerIsOutcome

=============================================================================
