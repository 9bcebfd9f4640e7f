--------------------------- MODULE TaskQueueProofs ---------------------------
(***************************************************************************)
(* Proofs about the task queue for every set of tasks, every capacity of   *)
(* the channel and any number of restarts: the inductive invariant         *)
(* QueueInv, the safety properties that follow from it, and the            *)
(* implementation of the serial executor.                                  *)
(***************************************************************************)
EXTENDS TaskQueue, FiniteSetTheorems, TLAPS

USE DEF Outcome, WorkerHolds

(* How the steps that touch the channel change its set of tasks.           *)

LEMMA AppendInChan ==
    ASSUME TypeOK, NEW t \in Task, chan' = Append(chan, t)
    PROVE  \A u \in Task : InChan(u)' <=> InChan(u) \/ u = t
<1> chan \in Seq(Task)  BY DEF TypeOK
<1>1. /\ Len(chan') = Len(chan) + 1
      /\ \A i \in 1..Len(chan) : chan'[i] = chan[i]
      /\ chan'[Len(chan) + 1] = t
      /\ DOMAIN chan = 1..Len(chan) /\ DOMAIN chan' = 1..Len(chan')
      /\ Len(chan) \in Nat
  OBVIOUS
<1>2. QED  BY <1>1 DEF InChan

LEMMA TailInChan ==
    ASSUME TypeOK, ChanInjective, chan # <<>>, chan' = Tail(chan)
    PROVE  /\ InChan(Head(chan)) /\ Head(chan) \in Task
           /\ \A u \in Task : InChan(u)' <=> InChan(u) /\ u # Head(chan)
<1> chan \in Seq(Task)  BY DEF TypeOK
<1>1. /\ Len(chan) \in Nat \ {0} /\ Len(chan') = Len(chan) - 1
      /\ \A i \in 1..Len(chan') : chan'[i] = chan[i + 1]
      /\ Head(chan) = chan[1]
      /\ DOMAIN chan = 1..Len(chan) /\ DOMAIN chan' = 1..Len(chan')
      /\ \A i \in 1..Len(chan) : chan[i] \in Task
  OBVIOUS
<1>2. InChan(Head(chan)) /\ Head(chan) \in Task  BY <1>1 DEF InChan
<1>3. ASSUME NEW u \in Task, InChan(u)'
      PROVE  InChan(u) /\ u # Head(chan)
  <2>1. PICK i \in 1..Len(chan') : chan'[i] = u  BY <1>1, <1>3 DEF InChan
  <2>2. i + 1 \in 1..Len(chan) /\ chan[i + 1] = u /\ i + 1 # 1  BY <1>1, <2>1
  <2>3. QED  BY <1>1, <2>2 DEF InChan, ChanInjective
<1>4. ASSUME NEW u \in Task, InChan(u), u # Head(chan)
      PROVE  InChan(u)'
  <2>1. PICK i \in 1..Len(chan) : chan[i] = u  BY <1>1, <1>4 DEF InChan
  <2>2. i - 1 \in 1..Len(chan') /\ chan'[i - 1] = u  BY <1>1, <1>4, <2>1
  <2>3. QED  BY <1>1, <2>2 DEF InChan
<1>5. QED  BY <1>2, <1>3, <1>4

LEMMA AppendInjective ==
    ASSUME TypeOK, ChanInjective, NEW t \in Task, ~InChan(t),
           chan' = Append(chan, t)
    PROVE  ChanInjective'
<1> chan \in Seq(Task)  BY DEF TypeOK
<1>1. /\ Len(chan') = Len(chan) + 1
      /\ \A i \in 1..Len(chan) : chan'[i] = chan[i]
      /\ chan'[Len(chan) + 1] = t
      /\ DOMAIN chan = 1..Len(chan) /\ DOMAIN chan' = 1..Len(chan')
      /\ Len(chan) \in Nat
  OBVIOUS
<1>2. QED  BY <1>1 DEF InChan, ChanInjective

LEMMA TailInjective ==
    ASSUME TypeOK, ChanInjective, chan # <<>>, chan' = Tail(chan)
    PROVE  ChanInjective'
<1> chan \in Seq(Task)  BY DEF TypeOK
<1>1. /\ Len(chan) \in Nat \ {0} /\ Len(chan') = Len(chan) - 1
      /\ \A i \in 1..Len(chan') : chan'[i] = chan[i + 1]
      /\ DOMAIN chan = 1..Len(chan) /\ DOMAIN chan' = 1..Len(chan')
  OBVIOUS
<1>2. QED  BY <1>1 DEF ChanInjective

(* The count of the tasks between Count and Uncount.                       *)

LEMMA CountAdds ==
    ASSUME CountExact, NEW t \in Task, t \notin Outstanding,
           Outstanding' = Outstanding \cup {t}, taskCount' = taskCount + 1
    PROVE  CountExact'
<1>1. IsFiniteSet(Outstanding)
  BY TaskAssumption, FS_Subset DEF Outstanding
<1>2. QED  BY <1>1, FS_AddElement DEF CountExact

LEMMA CountRemoves ==
    ASSUME CountExact, NEW t \in Outstanding,
           Outstanding' = Outstanding \ {t}, taskCount' = taskCount - 1
    PROVE  CountExact' /\ taskCount' \in Nat
<1>1. IsFiniteSet(Outstanding)
  BY TaskAssumption, FS_Subset DEF Outstanding
<1>2. Cardinality(Outstanding') = Cardinality(Outstanding) - 1
  BY <1>1, FS_RemoveElement
<1>3. IsFiniteSet(Outstanding \ {t})  BY <1>1, FS_Subset
<1>4. QED  BY <1>2, <1>3, FS_CardinalityType DEF CountExact

(* Each action preserves the inductive invariant.                          *)

LEMMA CountStep ==
    ASSUME QueueInv, NEW t \in Task, Count(t)
    PROVE  QueueInv'
<1> USE DEF QueueInv
<1>1. TypeOK'  BY DEF Count, TypeOK, SubmitterStep
<1>2. CountExact'
  <2>1. t \notin Outstanding
    BY DEF Count, Outstanding, UnsentUntouched, WaitingUntouched
  <2>2. Outstanding' = Outstanding \cup {t}
    BY DEF Count, Outstanding, InChan, TypeOK
  <2>3. QED  BY <2>1, <2>2, CountAdds DEF Count
<1>3. ChanInjective'  BY DEF Count, ChanInjective
<1>4. WaitingUntouched'  BY DEF Count, WaitingUntouched, InChan, TypeOK
<1>5. UnsentUntouched'  BY DEF Count, UnsentUntouched, TypeOK
<1>6. WorkerState' /\ ResultState' /\ ExecutedAtMostOnce' /\ AnswerIsOutcome'
  BY DEF Count, WorkerState, ResultState, ExecutedAtMostOnce, AnswerIsOutcome
<1>7. NoForgottenHandler'
  BY DEF Count, NoForgottenHandler, InChan, TypeOK
<1>8. QED  BY <1>1, <1>2, <1>3, <1>4, <1>5, <1>6, <1>7

LEMMA SendStep ==
    ASSUME QueueInv, NEW t \in Task, Send(t)
    PROVE  QueueInv'
<1> USE DEF QueueInv
<1>0. /\ ~InChan(t)
      /\ \A u \in Task : InChan(u)' <=> InChan(u) \/ u = t
  BY AppendInChan DEF Send, WaitingUntouched
<1>1. TypeOK'
  <2>1. chan' \in Seq(Task) /\ Len(chan') <= Capacity
    BY TaskAssumption DEF Send, TypeOK
  <2>2. QED  BY <2>1 DEF Send, TypeOK, SubmitterStep
<1>2. CountExact'
  <2>1. Outstanding' = Outstanding
    BY <1>0 DEF Send, Outstanding, TypeOK
  <2>2. QED  BY <2>1 DEF Send, CountExact
<1>3. ChanInjective'  BY <1>0, AppendInjective DEF Send
<1>4. WaitingUntouched'
  BY <1>0 DEF Send, WaitingUntouched, UnsentUntouched, TypeOK
<1>5. UnsentUntouched'  BY DEF Send, UnsentUntouched, TypeOK
<1>6. WorkerState' /\ ResultState' /\ ExecutedAtMostOnce' /\ AnswerIsOutcome'
  BY DEF Send, WorkerState, ResultState, ExecutedAtMostOnce, AnswerIsOutcome
<1>7. NoForgottenHandler'
  BY <1>0, TaskAssumption DEF Send, NoForgottenHandler, TypeOK
<1>8. QED  BY <1>1, <1>2, <1>3, <1>4, <1>5, <1>6, <1>7

LEMMA ReceiveStep ==
    ASSUME QueueInv, NEW t \in Task, Receive(t)
    PROVE  QueueInv'
<1> USE DEF QueueInv
<1>1. TypeOK'  BY DEF Receive, TypeOK, SubmitterStep
<1>2. CountExact'
  <2>1. Outstanding' = Outstanding
    BY DEF Receive, Outstanding, InChan, TypeOK
  <2>2. QED  BY <2>1 DEF Receive, CountExact
<1>3. ChanInjective'  BY DEF Receive, ChanInjective
<1>4. WaitingUntouched'  BY DEF Receive, WaitingUntouched, InChan, TypeOK
<1>5. UnsentUntouched'  BY DEF Receive, UnsentUntouched, TypeOK
<1>6. WorkerState' /\ ResultState' /\ ExecutedAtMostOnce' /\ AnswerIsOutcome'
  BY DEF Receive, WorkerState, ResultState, ExecutedAtMostOnce,
         AnswerIsOutcome, TypeOK
<1>7. NoForgottenHandler'
  BY TaskAssumption DEF Receive, NoForgottenHandler, InChan, TypeOK
<1>8. QED  BY <1>1, <1>2, <1>3, <1>4, <1>5, <1>6, <1>7

LEMMA DequeueStep ==
    ASSUME QueueInv, Dequeue
    PROVE  QueueInv'
<1> USE DEF QueueInv
<1> DEFINE h == Head(chan)
<1>0. /\ InChan(h) /\ h \in Task /\ current' = h
      /\ \A u \in Task : InChan(u)' <=> InChan(u) /\ u # h
  BY TailInChan DEF Dequeue
<1>1. current = NoTask /\ h # NoTask /\ submitter[h] = "sent"
      /\ began[h] = 0 /\ resultCh[h] = NoResult /\ outcome[h] = NoResult
  BY <1>0, TaskAssumption
  DEF Dequeue, WorkerState, WaitingUntouched, ResultState
<1> HIDE DEF h
<1>2. began' = [began EXCEPT ![h] = @ + 1]  BY DEF Dequeue, h
<1>3. TypeOK'
  <2>1. chan' \in Seq(Task) /\ Len(chan') <= Capacity
    BY TaskAssumption DEF Dequeue, TypeOK
  <2>2. QED  BY <1>0, <1>2, <2>1 DEF Dequeue, TypeOK, WorkerStep
<1>4. CountExact'
  <2>1. Outstanding' = Outstanding
    BY <1>0, <1>1, TaskAssumption DEF Dequeue, Outstanding
  <2>2. QED  BY <2>1 DEF Dequeue, CountExact
<1>5. ChanInjective'  BY TailInjective DEF Dequeue
<1>6. WaitingUntouched'
  BY <1>0, <1>2 DEF Dequeue, WaitingUntouched, TypeOK
<1>7. UnsentUntouched'
  BY <1>0, <1>1, <1>2 DEF Dequeue, UnsentUntouched, TypeOK
<1>8. WorkerState'  BY <1>0, <1>1 DEF Dequeue, WorkerState
<1>9. ResultState' /\ ExecutedAtMostOnce'
  BY <1>0, <1>1, <1>2 DEF Dequeue, ResultState, ExecutedAtMostOnce, TypeOK
<1>10. NoForgottenHandler'
  BY <1>0, <1>1, TaskAssumption DEF Dequeue, NoForgottenHandler
<1>11. AnswerIsOutcome'  BY DEF Dequeue, AnswerIsOutcome
<1>12. QED
  BY <1>3, <1>4, <1>5, <1>6, <1>7, <1>8, <1>9, <1>10, <1>11

LEMMA ExecuteStep ==
    ASSUME QueueInv, NEW o \in Outcome, Execute(o)
    PROVE  QueueInv'
<1> USE DEF QueueInv
<1>0. current \in Task /\ current # NoTask /\ o # NoResult
  BY TaskAssumption DEF Execute, WorkerState, TypeOK
<1>1. TypeOK'  BY <1>0 DEF Execute, TypeOK, WorkerStep
<1>2. CountExact'
  <2>1. Outstanding' = Outstanding
    BY DEF Execute, Outstanding, InChan
  <2>2. QED  BY <2>1 DEF Execute, CountExact
<1>3. ChanInjective'  BY DEF Execute, ChanInjective
<1>4. WaitingUntouched' /\ UnsentUntouched'
  BY DEF Execute, WaitingUntouched, UnsentUntouched, InChan
<1>5. WorkerState'  BY <1>0 DEF Execute, WorkerState, TypeOK
<1>6. ResultState'
  BY <1>0 DEF Execute, ResultState, WorkerState, TypeOK
<1>7. ExecutedAtMostOnce'  BY DEF Execute, ExecutedAtMostOnce
<1>8. NoForgottenHandler'
  BY DEF Execute, NoForgottenHandler, InChan
<1>9. AnswerIsOutcome'
  BY <1>0, TaskAssumption
  DEF Execute, AnswerIsOutcome, WorkerState, TypeOK
<1>10. QED
  BY <1>1, <1>2, <1>3, <1>4, <1>5, <1>6, <1>7, <1>8, <1>9

LEMMA LogOpStep ==
    ASSUME QueueInv, LogOp
    PROVE  QueueInv'
<1> USE DEF QueueInv
<1>0. current \in Task /\ outcome[current] \in Outcome
  BY TaskAssumption DEF LogOp, WorkerState, TypeOK
<1>1. TypeOK'  BY <1>0 DEF LogOp, TypeOK, WorkerStep
<1>2. CountExact'
  <2>1. Outstanding' = Outstanding
    BY DEF LogOp, Outstanding, InChan
  <2>2. QED  BY <2>1 DEF LogOp, CountExact
<1>3. ChanInjective'  BY DEF LogOp, ChanInjective
<1>4. WaitingUntouched' /\ UnsentUntouched'
  BY DEF LogOp, WaitingUntouched, UnsentUntouched, InChan
<1>5. WorkerState' /\ ResultState' /\ ExecutedAtMostOnce'
  BY DEF LogOp, WorkerState, ResultState, ExecutedAtMostOnce
<1>6. NoForgottenHandler'
  BY DEF LogOp, NoForgottenHandler, InChan
<1>7. AnswerIsOutcome'  BY <1>0 DEF LogOp, AnswerIsOutcome
<1>8. QED  BY <1>1, <1>2, <1>3, <1>4, <1>5, <1>6, <1>7

LEMMA AnswerStep ==
    ASSUME QueueInv, Answer
    PROVE  QueueInv'
<1> USE DEF QueueInv
<1>0. current \in Task /\ outcome[current] # NoResult
  BY TaskAssumption DEF Answer, WorkerState, TypeOK
<1>1. TypeOK'  BY <1>0 DEF Answer, TypeOK, WorkerStep
<1>2. CountExact'
  <2>1. Outstanding' = Outstanding
    BY DEF Answer, Outstanding, InChan
  <2>2. QED  BY <2>1 DEF Answer, CountExact
<1>3. ChanInjective'  BY DEF Answer, ChanInjective
<1>4. WaitingUntouched' /\ UnsentUntouched'
  BY DEF Answer, WaitingUntouched, UnsentUntouched, InChan, TypeOK
<1>5. WorkerState' /\ ResultState' /\ ExecutedAtMostOnce'
  BY <1>0 DEF Answer, WorkerState, ResultState, ExecutedAtMostOnce, TypeOK
<1>6. NoForgottenHandler'
  BY <1>0, TaskAssumption DEF Answer, NoForgottenHandler, InChan, TypeOK
<1>7. AnswerIsOutcome'  BY DEF Answer, AnswerIsOutcome
<1>8. QED  BY <1>1, <1>2, <1>3, <1>4, <1>5, <1>6, <1>7

LEMMA UncountStep ==
    ASSUME QueueInv, Uncount
    PROVE  QueueInv'
<1> USE DEF QueueInv
<1>0. current \in Task  BY DEF Uncount, WorkerState, TypeOK
<1>1. CountExact' /\ taskCount' \in Nat
  <2>1. current \in Outstanding  BY <1>0 DEF Outstanding
  <2>2. Outstanding' = Outstanding \ {current}
    <3>1. submitter[current] # "counted" /\ ~InChan(current)
      BY <1>0 DEF UnsentUntouched, WaitingUntouched
    <3>2. QED
      BY <1>0, <3>1, TaskAssumption DEF Uncount, Outstanding, InChan
  <2>3. QED  BY <2>1, <2>2, CountRemoves DEF Uncount
<1>2. TypeOK'  BY <1>1 DEF Uncount, TypeOK, WorkerStep
<1>3. ChanInjective'  BY DEF Uncount, ChanInjective
<1>4. WaitingUntouched' /\ UnsentUntouched'
  BY TaskAssumption DEF Uncount, WaitingUntouched, UnsentUntouched, InChan
<1>5. WorkerState' /\ ResultState' /\ ExecutedAtMostOnce' /\ AnswerIsOutcome'
  BY TaskAssumption
  DEF Uncount, WorkerState, ResultState, ExecutedAtMostOnce, AnswerIsOutcome
<1>6. NoForgottenHandler'
  BY DEF Uncount, NoForgottenHandler, InChan
<1>7. QED  BY <1>1, <1>2, <1>3, <1>4, <1>5, <1>6

LEMMA RestStep ==
    ASSUME QueueInv, Rest
    PROVE  QueueInv'
<1> USE DEF QueueInv
<1>1. TypeOK'  BY DEF Rest, TypeOK, WorkerStep
<1>2. CountExact'
  <2>1. Outstanding' = Outstanding
    BY DEF Rest, Outstanding, InChan
  <2>2. QED  BY <2>1 DEF Rest, CountExact
<1>3. ChanInjective'  BY DEF Rest, ChanInjective
<1>4. WaitingUntouched' /\ UnsentUntouched'
  BY DEF Rest, WaitingUntouched, UnsentUntouched, InChan
<1>5. WorkerState' /\ ResultState' /\ ExecutedAtMostOnce' /\ AnswerIsOutcome'
  BY DEF Rest, WorkerState, ResultState, ExecutedAtMostOnce, AnswerIsOutcome
<1>6. NoForgottenHandler'
  BY DEF Rest, NoForgottenHandler, InChan
<1>7. QED  BY <1>1, <1>2, <1>3, <1>4, <1>5, <1>6

LEMMA InitQueueStep ==
    ASSUME QueueInv, InitQueue
    PROVE  QueueInv'
<1> USE DEF QueueInv
<1>0. chan' = <<>> /\ \A t \in Task : ~InChan(t)'
  BY DEF InitQueue, InChan
<1>1. TypeOK'
  <2>1. (chan \in Seq(Task) /\ Len(chan) <= Capacity)'
    BY <1>0, TaskAssumption
  <2>2. (restarts \in 0..MaxRestarts)'
    BY TaskAssumption DEF InitQueue, TypeOK
  <2>3. QED
    BY <2>1, <2>2 DEF InitQueue, TypeOK, SubmitterStep, WorkerStep
<1>2. CountExact'
  <2>1. Outstanding' = {}
    BY <1>0, TaskAssumption DEF InitQueue, Outstanding, TypeOK
  <2>2. QED  BY <2>1, FS_EmptySet DEF InitQueue, CountExact
<1>3. ChanInjective'  BY <1>0 DEF ChanInjective
<1>4. WaitingUntouched'  BY <1>0 DEF WaitingUntouched
<1>5. UnsentUntouched'
  BY TaskAssumption DEF InitQueue, UnsentUntouched, TypeOK
<1>6. WorkerState'  BY DEF InitQueue, WorkerState
<1>7. ResultState'
  BY TaskAssumption DEF InitQueue, ResultState
<1>8. ExecutedAtMostOnce' /\ AnswerIsOutcome'
  BY DEF InitQueue, ExecutedAtMostOnce, AnswerIsOutcome
<1>9. NoForgottenHandler'
  BY TaskAssumption DEF InitQueue, NoForgottenHandler, TypeOK
<1>10. QED
  BY <1>1, <1>2, <1>3, <1>4, <1>5, <1>6, <1>7, <1>8, <1>9

(* The theorems.                                                           *)

LEMMA QueueInvInit == Init => QueueInv
<1> SUFFICES ASSUME Init PROVE QueueInv
  OBVIOUS
<1>1. \A t \in Task : ~InChan(t)  BY DEF Init, InChan
<1>2. TypeOK
  <2>1. chan \in Seq(Task) /\ Len(chan) <= Capacity
    BY TaskAssumption DEF Init
  <2>2. restarts \in 0..MaxRestarts /\ taskCount \in Nat /\ opLog = {}
    BY TaskAssumption DEF Init
  <2>3. QED
    BY <2>1, <2>2 DEF Init, TypeOK, SubmitterStep, WorkerStep
<1>3. CountExact
  <2>1. Outstanding = {}
    BY <1>1, TaskAssumption DEF Init, Outstanding
  <2>2. QED  BY <2>1, FS_EmptySet DEF Init, CountExact
<1>4. ChanInjective /\ WaitingUntouched
  BY <1>1 DEF Init, ChanInjective, WaitingUntouched
<1>5. UnsentUntouched /\ WorkerState /\ ResultState
  BY TaskAssumption DEF Init, UnsentUntouched, WorkerState, ResultState
<1>6. ExecutedAtMostOnce /\ NoForgottenHandler /\ AnswerIsOutcome
  BY TaskAssumption
  DEF Init, ExecutedAtMostOnce, NoForgottenHandler, AnswerIsOutcome
<1>7. QED
  BY <1>2, <1>3, <1>4, <1>5, <1>6 DEF QueueInv

LEMMA QueueInvStutter ==
    ASSUME QueueInv, UNCHANGED vars
    PROVE  QueueInv'
<1> USE DEF QueueInv, vars
<1>1. CountExact'
  <2>1. Outstanding' = Outstanding  BY DEF Outstanding, InChan
  <2>2. QED  BY <2>1 DEF CountExact
<1>2. TypeOK' /\ ChanInjective' /\ WaitingUntouched' /\ UnsentUntouched'
  BY DEF TypeOK, ChanInjective, WaitingUntouched, UnsentUntouched, InChan
<1>3. WorkerState' /\ ResultState' /\ ExecutedAtMostOnce' /\ AnswerIsOutcome'
  BY DEF WorkerState, ResultState, ExecutedAtMostOnce, AnswerIsOutcome
<1>4. NoForgottenHandler'  BY DEF NoForgottenHandler, InChan
<1>5. QED  BY <1>1, <1>2, <1>3, <1>4

LEMMA QueueInvNext == QueueInv /\ [Next]_vars => QueueInv'
<1> SUFFICES ASSUME QueueInv, [Next]_vars PROVE QueueInv'
  OBVIOUS
<1>1. ASSUME NEW t \in Task, Count(t) \/ Send(t) \/ Receive(t)
      PROVE  QueueInv'
  BY <1>1, CountStep, SendStep, ReceiveStep
<1>2. ASSUME Work PROVE QueueInv'
  BY <1>2, DequeueStep, ExecuteStep, LogOpStep, AnswerStep, UncountStep,
     RestStep DEF Work
<1>3. CASE InitQueue  BY <1>3, InitQueueStep
<1>4. CASE UNCHANGED vars  BY <1>4, QueueInvStutter
<1>5. QED  BY <1>1, <1>2, <1>3, <1>4 DEF Next

\* The inductive invariant of the queue holds in every reachable state.
THEOREM QueueInvariant == Spec => []QueueInv
<1>1. QED  BY QueueInvInit, QueueInvNext, PTL DEF Spec

\* Every variable keeps its type: among others the channel never exceeds its
\* capacity and the task count never becomes negative.
THEOREM TypeCorrect == Spec => []TypeOK
<1>1. QueueInv => TypeOK  BY DEF QueueInv
<1>2. QED  BY <1>1, QueueInvariant, PTL

\* QueueLength() is exact for every number of tasks and every interleaving.
THEOREM CountIsExact == Spec => []CountExact
<1>1. QueueInv => CountExact  BY DEF QueueInv
<1>2. QED  BY <1>1, QueueInvariant, PTL

\* No task is ever executed twice, not even after restarts.
THEOREM AtMostOneExecution == Spec => []ExecutedAtMostOnce
<1>1. QueueInv => ExecutedAtMostOnce  BY DEF QueueInv
<1>2. QED  BY <1>1, QueueInvariant, PTL

\* A handler that waits for its result is never forgotten by the worker.
THEOREM HandlersNotForgotten == Spec => []NoForgottenHandler
<1>1. QueueInv => NoForgottenHandler  BY DEF QueueInv
<1>2. QED  BY <1>1, QueueInvariant, PTL

\* Replies and operation_logs tell how the execution ended.
THEOREM AnswersAreOutcomes == Spec => []AnswerIsOutcome
<1>1. QueueInv => AnswerIsOutcome  BY DEF QueueInv
<1>2. QED  BY <1>1, QueueInvariant, PTL

(* The queue implements the serial executor: the worker's task is active   *)
(* while it executes, and every other step of the queue is a stutter.      *)

LEMMA ExecutorInit == Init => Executor!AbsInit
BY TaskAssumption DEF Init, Executor!AbsInit

LEMMA ExecutorStep ==
    QueueInv /\ [Next]_vars => [Executor!AbsNext]_(Executor!absVars)
<1> SUFFICES ASSUME QueueInv, [Next]_vars
             PROVE  Executor!AbsNext \/ UNCHANGED Executor!absVars
  OBVIOUS
<1> USE DEF QueueInv
<1> DEFINE activeTask == IF worker = "execute" THEN current ELSE NoTask
           seen == [t \in Task |-> IF outcome[t] = NoResult THEN NoTask
                                                            ELSE outcome[t]]
<1>1. ASSUME UNCHANGED <<chan, worker, current, outcome>>
      PROVE  UNCHANGED Executor!absVars
  BY <1>1 DEF Executor!absVars
<1>2. ASSUME NEW t \in Task, Send(t)
      PROVE  Executor!Accept(t)
  <2>1. ~InChan(t) /\ t # current /\ outcome[t] = NoResult
    BY <1>2 DEF Send, UnsentUntouched, WaitingUntouched, ResultState
  <2>2. t # activeTask /\ seen[t] = NoTask
    BY <2>1, TaskAssumption
  <2>3. QED
    BY <1>2, <2>1, <2>2 DEF Send, InChan, Executor!Accept
<1>3. ASSUME Dequeue PROVE Executor!Start
  BY <1>3, TaskAssumption DEF Dequeue, Executor!Start
<1>4. ASSUME NEW o \in Outcome, Execute(o)
      PROVE  Executor!Finish(o)
  <2>1. current \in Task /\ current # NoTask /\ o # NoResult
    BY <1>4, TaskAssumption DEF Execute, WorkerState, TypeOK
  <2>2. seen' = [seen EXCEPT ![current] = o]
    BY <1>4, <2>1 DEF Execute, TypeOK
  <2>3. QED  BY <1>4, <2>1, <2>2 DEF Execute, Executor!Finish
<1>5. ASSUME LogOp \/ Answer \/ Uncount \/ Rest
      PROVE  UNCHANGED Executor!absVars
  BY <1>5 DEF LogOp, Answer, Uncount, Rest, Executor!absVars
<1>6. ASSUME InitQueue PROVE Executor!Restart
  BY <1>6 DEF InitQueue, Executor!Restart
<1>7. ASSUME NEW t \in Task, Count(t) \/ Receive(t)
      PROVE  UNCHANGED Executor!absVars
  BY <1>1, <1>7 DEF Count, Receive
<1>8. CASE UNCHANGED vars  BY <1>1, <1>8 DEF vars
<1>9. QED
  BY <1>2, <1>3, <1>4, <1>5, <1>6, <1>7, <1>8
  DEF Next, Work, Executor!AbsNext

\* Whatever the worker, the submitters and restarts do, what happens to the
\* tasks is what a serial executor with one line does.
THEOREM QueueIsSerialExecutor == Spec => ImplementsSerialExecutor
<1>1. QED
  BY ExecutorInit, ExecutorStep, QueueInvariant, PTL
  DEF Spec, ImplementsSerialExecutor, Executor!AbsSpec
=============================================================================
