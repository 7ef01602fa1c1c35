--------------------------- MODULE TaskQueueProofs ---------------------------
EXTENDS TaskQueue, NaturalsInduction, WellFoundedInduction, TLAPS

\* Workers exist only for queues the service knows, and none after it is gone.
WorkersHaveQueues ==
    /\ \A w \in Slots : conc[w[1]] = 0 => pc[w] = "none"
    /\ phase = "down" => \A q \in Queues : conc[q] = 0

\* The rows an id has not been drawn for carry no past.
FreshRows ==
    \A t \in Tasks : status[t] = "absent" => attempt[t] = 0 /\ fails[t] = 0 /\ resets[t] = 0

\* A worker never holds an id without a row.
HeldRowsExist == \A w \in Slots : Holding(w) => status[held[w]] # "absent"

\* Only max_retries failures are ever answered by a retry.
RetriesCounted == \A t \in Tasks : fails[t] <= maxRetries[t]

\* Every delay handleTaskFailure computes lies between 1 ms and the cap, however
\* the shift overflows.
LEMMA BackoffRange == \A b, a : Backoff(b, a) \in 1..MaxBackoffMs
  BY MaxBackoffAssumption DEF Backoff

\* Every step of the service preserves the type invariant.
LEMMA TypeStep == TypeOK /\ [Next]_vars => TypeOK'
<1> SUFFICES ASSUME TypeOK, [Next]_vars PROVE TypeOK'
  OBVIOUS
<1> USE DEF TypeOK, PCs, HoldingPCs, Phases, Statuses, Terminal
<1>1. ASSUME NEW q \in Queues, NEW c \in 1..(MaxConcurrency + 1), NEW r \in RetryChoices, CreateQueue(q, c, r)
      PROVE  TypeOK'
  <2>1. clampConcurrency(c) \in 1..MaxConcurrency
    BY <1>1, ConcurrencyAssumption DEF CreateQueue, CreateQueueAllowed, clampConcurrency
  <2>2. /\ UNCHANGED <<attempt, maxRetries, nextRun, createdAt, queueOf, now, held, att>>
        /\ UNCHANGED <<phase, starts, errs, fails>>
    BY <1>1 DEF CreateQueue, ResetRunning, lifeVars
  <2>3. status' \in [Tasks -> Statuses] /\ resets' \in [Tasks -> Nat]
    BY <1>1 DEF CreateQueue, ResetRunning
  <2>4. /\ conc' \in [Queues -> 0..MaxConcurrency]
        /\ retries' \in [Queues -> Nat]
        /\ signal' \in [Queues -> BOOLEAN]
        /\ wakeAt' \in [Queues -> SUBSET Nat]
    BY <1>1, <2>1, RetryAssumption DEF CreateQueue
  <2>5. pc' \in [Slots -> PCs]
    BY <1>1 DEF CreateQueue
  <2> QED
    BY <2>2, <2>3, <2>4, <2>5
<1>2. ASSUME NEW t \in Tasks, NEW q \in Queues, Enqueue(t, q)
      PROVE  TypeOK'
  BY <1>2
     DEF Enqueue, notifyWorkers, DBOpen, Registered, rowVars, memVars, workerVars, lifeVars, history
<1>3. ASSUME NEW t \in Tasks, Cancel(t)
      PROVE  TypeOK'
  BY <1>3
     DEF Cancel, CancelRows, rowVars, memVars, workerVars, lifeVars, history
<1>4. ASSUME NEW q \in Queues, ClearQueue(q)
      PROVE  TypeOK'
  BY <1>4
     DEF ClearQueue, CancelRows, rowVars, memVars, workerVars, lifeVars, history
<1>5. ASSUME NEW w \in Slots, DrainCheck(w)
      PROVE  TypeOK'
  BY <1>5
     DEF DrainCheck, Goto, rowVars, memVars, workerVars, lifeVars, history
<1>6. ASSUME NEW w \in Slots, Dequeue(w)
      PROVE  TypeOK'
  BY <1>6
     DEF Dequeue, First, Due, TakeRow, Goto, CtxStatementRuns, rowVars, memVars, workerVars, lifeVars, history
<1>7. ASSUME NEW w \in Slots, DequeueNothing(w)
      PROVE  TypeOK'
  BY <1>7
     DEF DequeueNothing, Goto, CtxStatementRuns, CtxStatementFails, DBError, rowVars, memVars, workerVars, lifeVars, history
<1>8. ASSUME NEW w \in Slots, DequeueAnswerLost(w)
      PROVE  TypeOK'
  BY <1>8
     DEF DequeueAnswerLost, First, Due, TakeRow, Goto, rowVars, memVars, workerVars, lifeVars, history
<1>9. ASSUME NEW w \in Slots, LimiterWait(w)
      PROVE  TypeOK'
  BY <1>9
     DEF LimiterWait, Goto, rowVars, memVars, workerVars, lifeVars, history
<1>10. ASSUME NEW w \in Slots, InvokeCallback(w)
      PROVE  TypeOK'
  BY <1>10
     DEF InvokeCallback, Goto, rowVars, memVars, lifeVars, history
<1>11. ASSUME NEW w \in Slots, CallbackReturns(w)
      PROVE  TypeOK'
  BY <1>11
     DEF CallbackReturns, Goto, rowVars, memVars, workerVars, lifeVars, history
<1>12. ASSUME NEW w \in Slots, completeTask(w)
      PROVE  TypeOK'
  BY <1>12
     DEF completeTask, Release, Goto, CtxStatementRuns, CtxStatementFails, DBError, rowVars, memVars, workerVars, lifeVars, history
<1>13. ASSUME NEW w \in Slots, FailForGood(w)
      PROVE  TypeOK'
  BY <1>13
     DEF FailForGood, Release, Goto, CtxStatementRuns, CtxStatementFails, DBError, rowVars, memVars, workerVars, lifeVars, history
<1>14. ASSUME NEW w \in Slots, Reschedule(w)
      PROVE  TypeOK'
  <2>1. now + Backoff(BackoffMs, att[w]) \in Nat
    BY BackoffRange, MaxBackoffAssumption
  <2>2. status' \in [Tasks -> Statuses] /\ fails' \in [Tasks -> Nat]
    <3>1. \/ status' = [status EXCEPT ![held[w]] = "pending"] /\ fails' = [fails EXCEPT ![held[w]] = @ + 1]
          \/ UNCHANGED <<status, fails>>
      BY <1>14 DEF Reschedule
    <3> QED
      BY <3>1
  <2>3. nextRun' \in [Tasks -> Nat]
    BY <1>14, <2>1 DEF Reschedule
  <2>4. wakeAt' \in [Queues -> SUBSET Nat]
    <3>1. w[1] \in Queues
      BY DEF Slots
    <3>2. wakeAt[w[1]] \cup {now + Backoff(BackoffMs, att[w])} \in SUBSET Nat
      BY <2>1, <3>1
    <3> QED
      BY <1>14, <3>1, <3>2 DEF Reschedule
  <2> QED
    BY <1>14, <2>2, <2>3, <2>4 DEF Reschedule, Release, Goto, CtxStatementRuns, CtxStatementFails,
                      DBError, lifeVars
<1>15. ASSUME NEW w \in Slots, revertTaskToPending(w)
      PROVE  TypeOK'
  <2>1. status' \in [Tasks -> Statuses] /\ attempt' \in [Tasks -> Nat]
    BY <1>15 DEF revertTaskToPending, RevertRow
  <2> QED
    BY <1>15, <2>1 DEF revertTaskToPending, Release, Goto, DBError, memVars, lifeVars, history
<1>16. ASSUME NEW w \in Slots, WakeOnSignal(w)
      PROVE  TypeOK'
  BY <1>16
     DEF WakeOnSignal, Goto, rowVars, memVars, workerVars, lifeVars, history
<1>17. ASSUME NEW w \in Slots, WakeOnPoll(w)
      PROVE  TypeOK'
  BY <1>17
     DEF WakeOnPoll, Goto, rowVars, memVars, workerVars, lifeVars, history
<1>18. ASSUME NEW w \in Slots, WorkerExit(w)
      PROVE  TypeOK'
  BY <1>18
     DEF WorkerExit, Goto, rowVars, memVars, workerVars, lifeVars, history
<1>19. ASSUME Tick PROVE TypeOK'
  BY <1>19
     DEF Tick, rowVars, memVars, workerVars, lifeVars, history
<1>20. ASSUME NEW q \in Queues, TimerFires(q)
      PROVE  TypeOK'
  BY <1>20
     DEF TimerFires, notifyWorkers, rowVars, memVars, workerVars, lifeVars, history
<1>21. ASSUME NEW q \in Queues, runCleanup(q)
      PROVE  TypeOK'
  BY <1>21
     DEF runCleanup, rowVars, memVars, workerVars, lifeVars, history
<1>22. ASSUME unloadPlugin PROVE TypeOK'
  BY <1>22
     DEF unloadPlugin, rowVars, memVars, workerVars, lifeVars, history
<1>23. ASSUME CloseCancels PROVE TypeOK'
  BY <1>23
     DEF CloseCancels, rowVars, memVars, workerVars, lifeVars, history
<1>24. ASSUME CloseResets PROVE TypeOK'
  BY <1>24
     DEF CloseResets, ResetRunning, DBError, rowVars, memVars, workerVars, lifeVars, history
<1>25. ASSUME CloseDB \/ Crash PROVE TypeOK'
  <2>1. ForgetService
    BY <1>25 DEF CloseDB, Crash
  <2>2. UNCHANGED <<rowVars, now, starts, errs, history>>
    BY <2>1 DEF ForgetService
  <2>3. /\ conc' \in [Queues -> 0..MaxConcurrency]
        /\ retries' \in [Queues -> Nat]
        /\ signal' \in [Queues -> BOOLEAN]
        /\ wakeAt' \in [Queues -> SUBSET Nat]
    BY <2>1, ConcurrencyAssumption DEF ForgetService
  <2>4. /\ phase' \in Phases
        /\ pc' \in [Slots -> PCs]
        /\ held' \in [Slots -> Tasks \cup {NoTask}]
        /\ att' \in [Slots -> Nat]
    BY <2>1 DEF ForgetService
  <2> QED
    BY <2>2, <2>3, <2>4 DEF rowVars, history
<1>26. ASSUME newTaskQueueService PROVE TypeOK'
  BY <1>26
     DEF newTaskQueueService, rowVars, memVars, workerVars, lifeVars, history
<1>27. ASSUME UNCHANGED vars PROVE TypeOK'
  BY <1>27
     DEF vars, rowVars, memVars, workerVars, lifeVars, history
<1> QED
  BY <1>1, <1>2, <1>3, <1>4, <1>5, <1>6, <1>7, <1>8, <1>9,
     <1>10, <1>11, <1>12, <1>13, <1>14, <1>15, <1>16, <1>17, <1>18,
     <1>19, <1>20, <1>21, <1>22, <1>23, <1>24, <1>25, <1>26, <1>27
     DEF Next, Host, Life, worker, processTask

\* A worker is started only for a queue that is created, and dies with the service.
LEMMA WorkersStep == TypeOK /\ WorkersHaveQueues /\ [Next]_vars => WorkersHaveQueues'
<1> SUFFICES ASSUME TypeOK, WorkersHaveQueues, [Next]_vars PROVE WorkersHaveQueues'
  OBVIOUS
<1> USE DEF TypeOK, WorkersHaveQueues
<1>1. ASSUME NEW q \in Queues, NEW c \in 1..(MaxConcurrency + 1), NEW r \in RetryChoices, CreateQueue(q, c, r)
      PROVE  WorkersHaveQueues'
  <2>1. clampConcurrency(c) \in 1..MaxConcurrency /\ phase # "down" /\ UNCHANGED phase
    BY <1>1, ConcurrencyAssumption DEF CreateQueue, CreateQueueAllowed, clampConcurrency, DBOpen, lifeVars
  <2>2. conc' = [conc EXCEPT ![q] = clampConcurrency(c)]
    BY <1>1 DEF CreateQueue
  <2>3. \A w \in Slots : w[1] # q => pc'[w] = pc[w]
    BY <1>1 DEF CreateQueue
  <2> QED
    BY <2>1, <2>2, <2>3 DEF Slots
<1>2. ASSUME NEW t \in Tasks, NEW q \in Queues, Enqueue(t, q)
      PROVE  WorkersHaveQueues'
  BY <1>2
     DEF Enqueue, notifyWorkers, DBOpen, Registered, rowVars, memVars, workerVars, lifeVars, history
<1>3. ASSUME NEW t \in Tasks, Cancel(t)
      PROVE  WorkersHaveQueues'
  BY <1>3
     DEF Cancel, CancelRows, rowVars, memVars, workerVars, lifeVars, history
<1>4. ASSUME NEW q \in Queues, ClearQueue(q)
      PROVE  WorkersHaveQueues'
  BY <1>4
     DEF ClearQueue, CancelRows, rowVars, memVars, workerVars, lifeVars, history
<1>5. ASSUME NEW w \in Slots, DrainCheck(w)
      PROVE  WorkersHaveQueues'
  BY <1>5
     DEF DrainCheck, Goto, rowVars, memVars, workerVars, lifeVars, history
<1>6. ASSUME NEW w \in Slots, Dequeue(w)
      PROVE  WorkersHaveQueues'
  BY <1>6
     DEF Dequeue, First, Due, TakeRow, Goto, CtxStatementRuns, rowVars, memVars, workerVars, lifeVars, history
<1>7. ASSUME NEW w \in Slots, DequeueNothing(w)
      PROVE  WorkersHaveQueues'
  BY <1>7
     DEF DequeueNothing, Goto, CtxStatementRuns, CtxStatementFails, DBError, rowVars, memVars, workerVars, lifeVars, history
<1>8. ASSUME NEW w \in Slots, DequeueAnswerLost(w)
      PROVE  WorkersHaveQueues'
  BY <1>8
     DEF DequeueAnswerLost, First, Due, TakeRow, Goto, rowVars, memVars, workerVars, lifeVars, history
<1>9. ASSUME NEW w \in Slots, LimiterWait(w)
      PROVE  WorkersHaveQueues'
  BY <1>9
     DEF LimiterWait, Goto, rowVars, memVars, workerVars, lifeVars, history
<1>10. ASSUME NEW w \in Slots, InvokeCallback(w)
      PROVE  WorkersHaveQueues'
  BY <1>10
     DEF InvokeCallback, Goto, rowVars, memVars, workerVars, lifeVars, history
<1>11. ASSUME NEW w \in Slots, CallbackReturns(w)
      PROVE  WorkersHaveQueues'
  BY <1>11
     DEF CallbackReturns, Goto, rowVars, memVars, workerVars, lifeVars, history
<1>12. ASSUME NEW w \in Slots, completeTask(w)
      PROVE  WorkersHaveQueues'
  BY <1>12
     DEF completeTask, Release, Goto, CtxStatementRuns, CtxStatementFails, DBError, rowVars, memVars, workerVars, lifeVars, history
<1>13. ASSUME NEW w \in Slots, FailForGood(w)
      PROVE  WorkersHaveQueues'
  BY <1>13
     DEF FailForGood, Release, Goto, CtxStatementRuns, CtxStatementFails, DBError, rowVars, memVars, workerVars, lifeVars, history
<1>14. ASSUME NEW w \in Slots, Reschedule(w)
      PROVE  WorkersHaveQueues'
  BY <1>14
     DEF Reschedule, RetriesExhausted, Release, Goto, CtxStatementRuns, CtxStatementFails, DBError, rowVars, memVars, workerVars, lifeVars, history
<1>15. ASSUME NEW w \in Slots, revertTaskToPending(w)
      PROVE  WorkersHaveQueues'
  BY <1>15
     DEF revertTaskToPending, RevertRow, Release, Goto, DBError, rowVars, memVars, workerVars, lifeVars, history
<1>16. ASSUME NEW w \in Slots, WakeOnSignal(w)
      PROVE  WorkersHaveQueues'
  BY <1>16
     DEF WakeOnSignal, Goto, rowVars, memVars, workerVars, lifeVars, history
<1>17. ASSUME NEW w \in Slots, WakeOnPoll(w)
      PROVE  WorkersHaveQueues'
  BY <1>17
     DEF WakeOnPoll, Goto, rowVars, memVars, workerVars, lifeVars, history
<1>18. ASSUME NEW w \in Slots, WorkerExit(w)
      PROVE  WorkersHaveQueues'
  BY <1>18
     DEF WorkerExit, Goto, rowVars, memVars, workerVars, lifeVars, history
<1>19. ASSUME Tick PROVE WorkersHaveQueues'
  BY <1>19
     DEF Tick, rowVars, memVars, workerVars, lifeVars, history
<1>20. ASSUME NEW q \in Queues, TimerFires(q)
      PROVE  WorkersHaveQueues'
  BY <1>20
     DEF TimerFires, notifyWorkers, rowVars, memVars, workerVars, lifeVars, history
<1>21. ASSUME NEW q \in Queues, runCleanup(q)
      PROVE  WorkersHaveQueues'
  BY <1>21
     DEF runCleanup, rowVars, memVars, workerVars, lifeVars, history
<1>22. ASSUME unloadPlugin PROVE WorkersHaveQueues'
  BY <1>22
     DEF unloadPlugin, rowVars, memVars, workerVars, lifeVars, history
<1>23. ASSUME CloseCancels PROVE WorkersHaveQueues'
  BY <1>23
     DEF CloseCancels, rowVars, memVars, workerVars, lifeVars, history
<1>24. ASSUME CloseResets PROVE WorkersHaveQueues'
  BY <1>24
     DEF CloseResets, ResetRunning, DBError, rowVars, memVars, workerVars, lifeVars, history
<1>25. ASSUME CloseDB \/ Crash PROVE WorkersHaveQueues'
  <2>1. ForgetService
    BY <1>25 DEF CloseDB, Crash
  <2> QED
    BY <2>1 DEF ForgetService, Slots
<1>26. ASSUME newTaskQueueService PROVE WorkersHaveQueues'
  BY <1>26
     DEF newTaskQueueService, rowVars, memVars, workerVars, lifeVars, history
<1>27. ASSUME UNCHANGED vars PROVE WorkersHaveQueues'
  BY <1>27
     DEF vars, rowVars, memVars, workerVars, lifeVars, history
<1> QED
  BY <1>1, <1>2, <1>3, <1>4, <1>5, <1>6, <1>7, <1>8, <1>9,
     <1>10, <1>11, <1>12, <1>13, <1>14, <1>15, <1>16, <1>17, <1>18,
     <1>19, <1>20, <1>21, <1>22, <1>23, <1>24, <1>25, <1>26, <1>27
     DEF Next, Host, Life, worker, processTask

\* A row passes into a worker's hands by the dequeue only, and out of them before
\* anybody else may take it.
LEMMA OwnershipStep == TypeOK /\ WorkersHaveQueues /\ WorkerOwnsRow /\ HeldRowsExist /\ NoDoubleExecution /\ [Next]_vars => (WorkerOwnsRow /\ HeldRowsExist /\ NoDoubleExecution)'
<1> SUFFICES ASSUME TypeOK, WorkersHaveQueues, WorkerOwnsRow, HeldRowsExist, NoDoubleExecution, [Next]_vars PROVE (WorkerOwnsRow /\ HeldRowsExist /\ NoDoubleExecution)'
  OBVIOUS
<1> USE DEF TypeOK, Holding, HoldingPCs, WorkerOwnsRow, HeldRowsExist, NoDoubleExecution, CtxLive, Terminal
<1>1. ASSUME NEW q \in Queues, NEW c \in 1..(MaxConcurrency + 1), NEW r \in RetryChoices, CreateQueue(q, c, r)
      PROVE  (WorkerOwnsRow /\ HeldRowsExist /\ NoDoubleExecution)'
  <2>1. \A w \in Slots : Holding(w)' => Holding(w) /\ w[1] # q
    BY <1>1 DEF CreateQueue, CreateQueueAllowed, Registered, Slots, WorkersHaveQueues
  <2>2. UNCHANGED <<held, att, queueOf, attempt, phase>>
    BY <1>1 DEF CreateQueue, ResetRunning, lifeVars
  <2>3. \A t \in Tasks : queueOf[t] # q => status'[t] = status[t]
    BY <1>1 DEF CreateQueue, ResetRunning, StaleRows
  <2> QED
    BY <2>1, <2>2, <2>3
<1>2. ASSUME NEW t \in Tasks, NEW q \in Queues, Enqueue(t, q)
      PROVE  (WorkerOwnsRow /\ HeldRowsExist /\ NoDoubleExecution)'
  BY <1>2
     DEF Enqueue, notifyWorkers, DBOpen, Registered, rowVars, memVars, workerVars, lifeVars, history
<1>3. ASSUME NEW t \in Tasks, Cancel(t)
      PROVE  (WorkerOwnsRow /\ HeldRowsExist /\ NoDoubleExecution)'
  BY <1>3
     DEF Cancel, CancelRows, rowVars, memVars, workerVars, lifeVars, history
<1>4. ASSUME NEW q \in Queues, ClearQueue(q)
      PROVE  (WorkerOwnsRow /\ HeldRowsExist /\ NoDoubleExecution)'
  BY <1>4
     DEF ClearQueue, CancelRows, rowVars, memVars, workerVars, lifeVars, history
<1>5. ASSUME NEW w \in Slots, DrainCheck(w)
      PROVE  (WorkerOwnsRow /\ HeldRowsExist /\ NoDoubleExecution)'
  BY <1>5
     DEF DrainCheck, Goto, rowVars, memVars, workerVars, lifeVars, history
<1>6. ASSUME NEW w \in Slots, Dequeue(w)
      PROVE  (WorkerOwnsRow /\ HeldRowsExist /\ NoDoubleExecution)'
  BY <1>6
     DEF Dequeue, First, Due, TakeRow, Goto, CtxStatementRuns, rowVars, memVars, workerVars, lifeVars, history
<1>7. ASSUME NEW w \in Slots, DequeueNothing(w)
      PROVE  (WorkerOwnsRow /\ HeldRowsExist /\ NoDoubleExecution)'
  BY <1>7
     DEF DequeueNothing, Goto, CtxStatementRuns, CtxStatementFails, DBError, rowVars, memVars, workerVars, lifeVars, history
<1>8. ASSUME NEW w \in Slots, DequeueAnswerLost(w)
      PROVE  (WorkerOwnsRow /\ HeldRowsExist /\ NoDoubleExecution)'
  BY <1>8
     DEF DequeueAnswerLost, First, Due, TakeRow, Goto, rowVars, memVars, workerVars, lifeVars, history
<1>9. ASSUME NEW w \in Slots, LimiterWait(w)
      PROVE  (WorkerOwnsRow /\ HeldRowsExist /\ NoDoubleExecution)'
  BY <1>9
     DEF LimiterWait, Goto, rowVars, memVars, workerVars, lifeVars, history
<1>10. ASSUME NEW w \in Slots, InvokeCallback(w)
      PROVE  (WorkerOwnsRow /\ HeldRowsExist /\ NoDoubleExecution)'
  BY <1>10
     DEF InvokeCallback, Goto, rowVars, memVars, workerVars, lifeVars, history
<1>11. ASSUME NEW w \in Slots, CallbackReturns(w)
      PROVE  (WorkerOwnsRow /\ HeldRowsExist /\ NoDoubleExecution)'
  BY <1>11
     DEF CallbackReturns, Goto, rowVars, memVars, workerVars, lifeVars, history
<1>12. ASSUME NEW w \in Slots, completeTask(w)
      PROVE  (WorkerOwnsRow /\ HeldRowsExist /\ NoDoubleExecution)'
  BY <1>12
     DEF completeTask, Release, Goto, CtxStatementRuns, CtxStatementFails, DBError, rowVars, memVars, workerVars, lifeVars, history
<1>13. ASSUME NEW w \in Slots, FailForGood(w)
      PROVE  (WorkerOwnsRow /\ HeldRowsExist /\ NoDoubleExecution)'
  BY <1>13
     DEF FailForGood, Release, Goto, CtxStatementRuns, CtxStatementFails, DBError, rowVars, memVars, workerVars, lifeVars, history
<1>14. ASSUME NEW w \in Slots, Reschedule(w)
      PROVE  (WorkerOwnsRow /\ HeldRowsExist /\ NoDoubleExecution)'
  BY <1>14
     DEF Reschedule, RetriesExhausted, Release, Goto, CtxStatementRuns, CtxStatementFails, DBError, rowVars, memVars, workerVars, lifeVars, history
<1>15. ASSUME NEW w \in Slots, revertTaskToPending(w)
      PROVE  (WorkerOwnsRow /\ HeldRowsExist /\ NoDoubleExecution)'
  BY <1>15
     DEF revertTaskToPending, RevertRow, Release, Goto, DBError, rowVars, memVars, workerVars, lifeVars, history
<1>16. ASSUME NEW w \in Slots, WakeOnSignal(w)
      PROVE  (WorkerOwnsRow /\ HeldRowsExist /\ NoDoubleExecution)'
  BY <1>16
     DEF WakeOnSignal, Goto, rowVars, memVars, workerVars, lifeVars, history
<1>17. ASSUME NEW w \in Slots, WakeOnPoll(w)
      PROVE  (WorkerOwnsRow /\ HeldRowsExist /\ NoDoubleExecution)'
  BY <1>17
     DEF WakeOnPoll, Goto, rowVars, memVars, workerVars, lifeVars, history
<1>18. ASSUME NEW w \in Slots, WorkerExit(w)
      PROVE  (WorkerOwnsRow /\ HeldRowsExist /\ NoDoubleExecution)'
  BY <1>18
     DEF WorkerExit, Goto, rowVars, memVars, workerVars, lifeVars, history
<1>19. ASSUME Tick PROVE (WorkerOwnsRow /\ HeldRowsExist /\ NoDoubleExecution)'
  BY <1>19
     DEF Tick, rowVars, memVars, workerVars, lifeVars, history
<1>20. ASSUME NEW q \in Queues, TimerFires(q)
      PROVE  (WorkerOwnsRow /\ HeldRowsExist /\ NoDoubleExecution)'
  BY <1>20
     DEF TimerFires, notifyWorkers, rowVars, memVars, workerVars, lifeVars, history
<1>21. ASSUME NEW q \in Queues, runCleanup(q)
      PROVE  (WorkerOwnsRow /\ HeldRowsExist /\ NoDoubleExecution)'
  BY <1>21
     DEF runCleanup, rowVars, memVars, workerVars, lifeVars, history
<1>22. ASSUME unloadPlugin PROVE (WorkerOwnsRow /\ HeldRowsExist /\ NoDoubleExecution)'
  BY <1>22
     DEF unloadPlugin, rowVars, memVars, workerVars, lifeVars, history
<1>23. ASSUME CloseCancels PROVE (WorkerOwnsRow /\ HeldRowsExist /\ NoDoubleExecution)'
  BY <1>23
     DEF CloseCancels, rowVars, memVars, workerVars, lifeVars, history
<1>24. ASSUME CloseResets PROVE (WorkerOwnsRow /\ HeldRowsExist /\ NoDoubleExecution)'
  BY <1>24
     DEF CloseResets, ResetRunning, DBError, rowVars, memVars, workerVars, lifeVars, history
<1>25. ASSUME CloseDB \/ Crash PROVE (WorkerOwnsRow /\ HeldRowsExist /\ NoDoubleExecution)'
  <2>1. ForgetService
    BY <1>25 DEF CloseDB, Crash
  <2>2. \A w \in Slots : ~Holding(w)'
    BY <2>1 DEF ForgetService
  <2> QED
    BY <2>2
<1>26. ASSUME newTaskQueueService PROVE (WorkerOwnsRow /\ HeldRowsExist /\ NoDoubleExecution)'
  <2>1. \A w \in Slots : pc[w] = "none"
    BY <1>26 DEF newTaskQueueService, WorkersHaveQueues, Slots
  <2>2. \A w \in Slots : ~Holding(w)'
    BY <1>26, <2>1 DEF newTaskQueueService, workerVars
  <2> QED
    BY <2>2
<1>27. ASSUME UNCHANGED vars PROVE (WorkerOwnsRow /\ HeldRowsExist /\ NoDoubleExecution)'
  BY <1>27
     DEF vars, rowVars, memVars, workerVars, lifeVars, history
<1> QED
  BY <1>1, <1>2, <1>3, <1>4, <1>5, <1>6, <1>7, <1>8, <1>9,
     <1>10, <1>11, <1>12, <1>13, <1>14, <1>15, <1>16, <1>17, <1>18,
     <1>19, <1>20, <1>21, <1>22, <1>23, <1>24, <1>25, <1>26, <1>27
     DEF Next, Host, Life, worker, processTask

\* Every step keeps the account of a task's attempts.
LEMMA LedgerStep == TypeOK /\ WorkerOwnsRow /\ AttemptLedger /\ FreshRows /\ RetriesCounted /\ [Next]_vars => (AttemptLedger /\ FreshRows /\ RetriesCounted)'
<1> SUFFICES ASSUME TypeOK, WorkerOwnsRow, AttemptLedger, FreshRows, RetriesCounted, [Next]_vars PROVE (AttemptLedger /\ FreshRows /\ RetriesCounted)'
  OBVIOUS
<1> USE DEF TypeOK, Holding, HoldingPCs, WorkerOwnsRow, AttemptLedger, FreshRows, RetriesCounted, Terminal
<1>1. ASSUME NEW q \in Queues, NEW c \in 1..(MaxConcurrency + 1), NEW r \in RetryChoices, CreateQueue(q, c, r)
      PROVE  (AttemptLedger /\ FreshRows /\ RetriesCounted)'
  BY <1>1
     DEF CreateQueue, CreateQueueAllowed, clampConcurrency, ResetRunning, StaleRows, DBOpen, Registered, rowVars, memVars, workerVars, lifeVars, history
<1>2. ASSUME NEW t \in Tasks, NEW q \in Queues, Enqueue(t, q)
      PROVE  (AttemptLedger /\ FreshRows /\ RetriesCounted)'
  BY <1>2
     DEF Enqueue, notifyWorkers, DBOpen, Registered, rowVars, memVars, workerVars, lifeVars, history
<1>3. ASSUME NEW t \in Tasks, Cancel(t)
      PROVE  (AttemptLedger /\ FreshRows /\ RetriesCounted)'
  BY <1>3
     DEF Cancel, CancelRows, rowVars, memVars, workerVars, lifeVars, history
<1>4. ASSUME NEW q \in Queues, ClearQueue(q)
      PROVE  (AttemptLedger /\ FreshRows /\ RetriesCounted)'
  BY <1>4
     DEF ClearQueue, CancelRows, rowVars, memVars, workerVars, lifeVars, history
<1>5. ASSUME NEW w \in Slots, DrainCheck(w)
      PROVE  (AttemptLedger /\ FreshRows /\ RetriesCounted)'
  BY <1>5
     DEF DrainCheck, Goto, rowVars, memVars, workerVars, lifeVars, history
<1>6. ASSUME NEW w \in Slots, Dequeue(w)
      PROVE  (AttemptLedger /\ FreshRows /\ RetriesCounted)'
  BY <1>6
     DEF Dequeue, First, Due, TakeRow, Goto, CtxStatementRuns, rowVars, memVars, workerVars, lifeVars, history
<1>7. ASSUME NEW w \in Slots, DequeueNothing(w)
      PROVE  (AttemptLedger /\ FreshRows /\ RetriesCounted)'
  BY <1>7
     DEF DequeueNothing, Goto, CtxStatementRuns, CtxStatementFails, DBError, rowVars, memVars, workerVars, lifeVars, history
<1>8. ASSUME NEW w \in Slots, DequeueAnswerLost(w)
      PROVE  (AttemptLedger /\ FreshRows /\ RetriesCounted)'
  BY <1>8
     DEF DequeueAnswerLost, First, Due, TakeRow, Goto, rowVars, memVars, workerVars, lifeVars, history
<1>9. ASSUME NEW w \in Slots, LimiterWait(w)
      PROVE  (AttemptLedger /\ FreshRows /\ RetriesCounted)'
  BY <1>9
     DEF LimiterWait, Goto, rowVars, memVars, workerVars, lifeVars, history
<1>10. ASSUME NEW w \in Slots, InvokeCallback(w)
      PROVE  (AttemptLedger /\ FreshRows /\ RetriesCounted)'
  BY <1>10
     DEF InvokeCallback, Goto, rowVars, memVars, workerVars, lifeVars, history
<1>11. ASSUME NEW w \in Slots, CallbackReturns(w)
      PROVE  (AttemptLedger /\ FreshRows /\ RetriesCounted)'
  BY <1>11
     DEF CallbackReturns, Goto, rowVars, memVars, workerVars, lifeVars, history
<1>12. ASSUME NEW w \in Slots, completeTask(w)
      PROVE  (AttemptLedger /\ FreshRows /\ RetriesCounted)'
  BY <1>12
     DEF completeTask, Release, Goto, CtxStatementRuns, CtxStatementFails, DBError, rowVars, memVars, workerVars, lifeVars, history
<1>13. ASSUME NEW w \in Slots, FailForGood(w)
      PROVE  (AttemptLedger /\ FreshRows /\ RetriesCounted)'
  BY <1>13
     DEF FailForGood, Release, Goto, CtxStatementRuns, CtxStatementFails, DBError, rowVars, memVars, workerVars, lifeVars, history
<1>14. ASSUME NEW w \in Slots, Reschedule(w)
      PROVE  (AttemptLedger /\ FreshRows /\ RetriesCounted)'
  <2>0. held[w] \in Tasks
    BY <1>14 DEF Reschedule
  <2>1. UNCHANGED <<attempt, maxRetries, resets>>
    BY <1>14 DEF Reschedule
  <2>2. CASE UNCHANGED <<status, fails>>
    BY <2>1, <2>2
  <2>3. CASE /\ CtxStatementRuns
             /\ status' = [status EXCEPT ![held[w]] = "pending"]
             /\ fails' = [fails EXCEPT ![held[w]] = @ + 1]
    <3>1. status[held[w]] = "running" /\ attempt[held[w]] = att[w]
      BY <1>14, <2>3 DEF Reschedule, CtxStatementRuns
    <3>2. attempt[held[w]] = fails[held[w]] + resets[held[w]] + 1
      BY <2>0, <3>1
    <3>3. ~(att[w] > maxRetries[held[w]])
      BY <1>14 DEF Reschedule, RetriesExhausted
    <3>4. fails[held[w]] + 1 <= maxRetries[held[w]]
      BY <2>0, <3>1, <3>2, <3>3
    <3>5. ASSUME NEW t \in Tasks PROVE (status'[t] # "deleted" => attempt'[t] = fails'[t] + resets'[t]
              + (IF status'[t] \in {"running", "completed", "failed"} THEN 1 ELSE 0))
      <4>1. CASE t = held[w]
        <5>1. status'[t] = "pending" /\ fails'[t] = fails[t] + 1
          BY <2>0, <2>3, <4>1
        <5> QED
          BY <5>1, <2>0, <2>1, <3>2, <4>1
      <4>2. CASE t # held[w]
        BY <2>1, <2>3, <4>2
      <4> QED
        BY <4>1, <4>2
    <3>6. FreshRows'
      BY <2>0, <2>1, <2>3
    <3>7. RetriesCounted'
      BY <2>0, <2>1, <2>3, <3>4
    <3> QED
      BY <3>5, <3>6, <3>7
  <2>4. \/ UNCHANGED <<status, fails>>
        \/ /\ CtxStatementRuns
           /\ status' = [status EXCEPT ![held[w]] = "pending"]
           /\ fails' = [fails EXCEPT ![held[w]] = @ + 1]
    BY <1>14 DEF Reschedule
  <2> QED
    BY <2>2, <2>3, <2>4
<1>15. ASSUME NEW w \in Slots, revertTaskToPending(w)
      PROVE  (AttemptLedger /\ FreshRows /\ RetriesCounted)'
  <2>0. held[w] \in Tasks
    BY <1>15 DEF revertTaskToPending
  <2>1. UNCHANGED <<maxRetries, fails, resets>>
    BY <1>15 DEF revertTaskToPending, history
  <2>2. CASE UNCHANGED <<status, attempt>>
    BY <2>1, <2>2
  <2>3. CASE /\ status[held[w]] = "running"
             /\ status' = [status EXCEPT ![held[w]] = "pending"]
             /\ attempt' = [attempt EXCEPT ![held[w]] = IF attempt[held[w]] - 1 < 0 THEN 0 ELSE attempt[held[w]] - 1]
    <3>1. attempt[held[w]] = fails[held[w]] + resets[held[w]] + 1
      BY <2>0, <2>3
    <3>2. attempt'[held[w]] = fails[held[w]] + resets[held[w]]
      BY <2>0, <2>3, <3>1
    <3>3. AttemptLedger'
      BY <2>0, <2>1, <2>3, <3>2
    <3>4. FreshRows' /\ RetriesCounted'
      BY <2>0, <2>1, <2>3
    <3> QED
      BY <3>3, <3>4
  <2>4. \/ UNCHANGED <<status, attempt>>
        \/ /\ status[held[w]] = "running"
           /\ status' = [status EXCEPT ![held[w]] = "pending"]
           /\ attempt' = [attempt EXCEPT ![held[w]] = IF attempt[held[w]] - 1 < 0 THEN 0 ELSE attempt[held[w]] - 1]
    BY <1>15 DEF revertTaskToPending, RevertRow
  <2> QED
    BY <2>2, <2>3, <2>4
<1>16. ASSUME NEW w \in Slots, WakeOnSignal(w)
      PROVE  (AttemptLedger /\ FreshRows /\ RetriesCounted)'
  BY <1>16
     DEF WakeOnSignal, Goto, rowVars, memVars, workerVars, lifeVars, history
<1>17. ASSUME NEW w \in Slots, WakeOnPoll(w)
      PROVE  (AttemptLedger /\ FreshRows /\ RetriesCounted)'
  BY <1>17
     DEF WakeOnPoll, Goto, rowVars, memVars, workerVars, lifeVars, history
<1>18. ASSUME NEW w \in Slots, WorkerExit(w)
      PROVE  (AttemptLedger /\ FreshRows /\ RetriesCounted)'
  BY <1>18
     DEF WorkerExit, Goto, rowVars, memVars, workerVars, lifeVars, history
<1>19. ASSUME Tick PROVE (AttemptLedger /\ FreshRows /\ RetriesCounted)'
  BY <1>19
     DEF Tick, rowVars, memVars, workerVars, lifeVars, history
<1>20. ASSUME NEW q \in Queues, TimerFires(q)
      PROVE  (AttemptLedger /\ FreshRows /\ RetriesCounted)'
  BY <1>20
     DEF TimerFires, notifyWorkers, rowVars, memVars, workerVars, lifeVars, history
<1>21. ASSUME NEW q \in Queues, runCleanup(q)
      PROVE  (AttemptLedger /\ FreshRows /\ RetriesCounted)'
  BY <1>21
     DEF runCleanup, rowVars, memVars, workerVars, lifeVars, history
<1>22. ASSUME unloadPlugin PROVE (AttemptLedger /\ FreshRows /\ RetriesCounted)'
  BY <1>22
     DEF unloadPlugin, rowVars, memVars, workerVars, lifeVars, history
<1>23. ASSUME CloseCancels PROVE (AttemptLedger /\ FreshRows /\ RetriesCounted)'
  BY <1>23
     DEF CloseCancels, rowVars, memVars, workerVars, lifeVars, history
<1>24. ASSUME CloseResets PROVE (AttemptLedger /\ FreshRows /\ RetriesCounted)'
  BY <1>24
     DEF CloseResets, ResetRunning, DBError, rowVars, memVars, workerVars, lifeVars, history
<1>25. ASSUME CloseDB \/ Crash PROVE (AttemptLedger /\ FreshRows /\ RetriesCounted)'
  <2>1. ForgetService
    BY <1>25 DEF CloseDB, Crash
  <2> QED
    BY <2>1 DEF ForgetService, rowVars, history
<1>26. ASSUME newTaskQueueService PROVE (AttemptLedger /\ FreshRows /\ RetriesCounted)'
  BY <1>26
     DEF newTaskQueueService, rowVars, memVars, workerVars, lifeVars, history
<1>27. ASSUME UNCHANGED vars PROVE (AttemptLedger /\ FreshRows /\ RetriesCounted)'
  BY <1>27
     DEF vars, rowVars, memVars, workerVars, lifeVars, history
<1> QED
  BY <1>1, <1>2, <1>3, <1>4, <1>5, <1>6, <1>7, <1>8, <1>9,
     <1>10, <1>11, <1>12, <1>13, <1>14, <1>15, <1>16, <1>17, <1>18,
     <1>19, <1>20, <1>21, <1>22, <1>23, <1>24, <1>25, <1>26, <1>27
     DEF Next, Host, Life, worker, processTask

\* A row becomes running in the same step that puts it into a worker's hand, and
\* leaves that hand in the step that ends the attempt.
LEMMA StrandedStep == TypeOK /\ WorkersHaveQueues /\ WorkerOwnsRow /\ NoDoubleExecution /\ NoStrandedTask /\ [Next]_vars => NoStrandedTask'
<1> SUFFICES ASSUME TypeOK, WorkersHaveQueues, WorkerOwnsRow, NoDoubleExecution, NoStrandedTask, [Next]_vars PROVE NoStrandedTask'
  OBVIOUS
<1> USE DEF TypeOK, Holding, HoldingPCs, WorkerOwnsRow, NoStrandedTask, CtxLive, Registered, Terminal
<1>1. ASSUME NEW q \in Queues, NEW c \in 1..(MaxConcurrency + 1), NEW r \in RetryChoices, CreateQueue(q, c, r)
      PROVE  NoStrandedTask'
  BY <1>1
     DEF CreateQueue, CreateQueueAllowed, clampConcurrency, ResetRunning, StaleRows, DBOpen, Registered, rowVars, memVars, workerVars, lifeVars, history
<1>2. ASSUME NEW t \in Tasks, NEW q \in Queues, Enqueue(t, q)
      PROVE  NoStrandedTask'
  BY <1>2
     DEF Enqueue, notifyWorkers, DBOpen, Registered, rowVars, memVars, workerVars, lifeVars, history
<1>3. ASSUME NEW t \in Tasks, Cancel(t)
      PROVE  NoStrandedTask'
  BY <1>3
     DEF Cancel, CancelRows, rowVars, memVars, workerVars, lifeVars, history
<1>4. ASSUME NEW q \in Queues, ClearQueue(q)
      PROVE  NoStrandedTask'
  BY <1>4
     DEF ClearQueue, CancelRows, rowVars, memVars, workerVars, lifeVars, history
<1>5. ASSUME NEW w \in Slots, DrainCheck(w)
      PROVE  NoStrandedTask'
  BY <1>5
     DEF DrainCheck, Goto, rowVars, memVars, workerVars, lifeVars, history
<1>6. ASSUME NEW w \in Slots, Dequeue(w)
      PROVE  NoStrandedTask'
  BY <1>6
     DEF Dequeue, First, Due, TakeRow, Goto, CtxStatementRuns, rowVars, memVars, workerVars, lifeVars, history
<1>7. ASSUME NEW w \in Slots, DequeueNothing(w)
      PROVE  NoStrandedTask'
  BY <1>7
     DEF DequeueNothing, Goto, CtxStatementRuns, CtxStatementFails, DBError, rowVars, memVars, workerVars, lifeVars, history
<1>8. ASSUME NEW w \in Slots, DequeueAnswerLost(w)
      PROVE  NoStrandedTask'
  BY <1>8
     DEF DequeueAnswerLost, First, Due, TakeRow, Goto, rowVars, memVars, workerVars, lifeVars, history
<1>9. ASSUME NEW w \in Slots, LimiterWait(w)
      PROVE  NoStrandedTask'
  BY <1>9
     DEF LimiterWait, Goto, rowVars, memVars, workerVars, lifeVars, history
<1>10. ASSUME NEW w \in Slots, InvokeCallback(w)
      PROVE  NoStrandedTask'
  BY <1>10
     DEF InvokeCallback, Goto, rowVars, memVars, workerVars, lifeVars, history
<1>11. ASSUME NEW w \in Slots, CallbackReturns(w)
      PROVE  NoStrandedTask'
  BY <1>11
     DEF CallbackReturns, Goto, rowVars, memVars, workerVars, lifeVars, history
<1>12. ASSUME NEW w \in Slots, completeTask(w)
      PROVE  NoStrandedTask'
  BY <1>12
     DEF completeTask, Release, Goto, CtxStatementRuns, CtxStatementFails, DBError, rowVars, memVars, workerVars, lifeVars, history
<1>13. ASSUME NEW w \in Slots, FailForGood(w)
      PROVE  NoStrandedTask'
  BY <1>13
     DEF FailForGood, Release, Goto, CtxStatementRuns, CtxStatementFails, DBError, rowVars, memVars, workerVars, lifeVars, history
<1>14. ASSUME NEW w \in Slots, Reschedule(w)
      PROVE  NoStrandedTask'
  BY <1>14
     DEF Reschedule, RetriesExhausted, Release, Goto, CtxStatementRuns, CtxStatementFails, DBError, rowVars, memVars, workerVars, lifeVars, history
<1>15. ASSUME NEW w \in Slots, revertTaskToPending(w)
      PROVE  NoStrandedTask'
  BY <1>15
     DEF revertTaskToPending, RevertRow, Release, Goto, DBError, rowVars, memVars, workerVars, lifeVars, history
<1>16. ASSUME NEW w \in Slots, WakeOnSignal(w)
      PROVE  NoStrandedTask'
  BY <1>16
     DEF WakeOnSignal, Goto, rowVars, memVars, workerVars, lifeVars, history
<1>17. ASSUME NEW w \in Slots, WakeOnPoll(w)
      PROVE  NoStrandedTask'
  BY <1>17
     DEF WakeOnPoll, Goto, rowVars, memVars, workerVars, lifeVars, history
<1>18. ASSUME NEW w \in Slots, WorkerExit(w)
      PROVE  NoStrandedTask'
  BY <1>18
     DEF WorkerExit, Goto, rowVars, memVars, workerVars, lifeVars, history
<1>19. ASSUME Tick PROVE NoStrandedTask'
  BY <1>19
     DEF Tick, rowVars, memVars, workerVars, lifeVars, history
<1>20. ASSUME NEW q \in Queues, TimerFires(q)
      PROVE  NoStrandedTask'
  BY <1>20
     DEF TimerFires, notifyWorkers, rowVars, memVars, workerVars, lifeVars, history
<1>21. ASSUME NEW q \in Queues, runCleanup(q)
      PROVE  NoStrandedTask'
  BY <1>21
     DEF runCleanup, rowVars, memVars, workerVars, lifeVars, history
<1>22. ASSUME unloadPlugin PROVE NoStrandedTask'
  BY <1>22
     DEF unloadPlugin, rowVars, memVars, workerVars, lifeVars, history
<1>23. ASSUME CloseCancels PROVE NoStrandedTask'
  BY <1>23
     DEF CloseCancels, rowVars, memVars, workerVars, lifeVars, history
<1>24. ASSUME CloseResets PROVE NoStrandedTask'
  BY <1>24
     DEF CloseResets, ResetRunning, DBError, rowVars, memVars, workerVars, lifeVars, history
<1>25. ASSUME CloseDB \/ Crash PROVE NoStrandedTask'
  <2>1. ForgetService
    BY <1>25 DEF CloseDB, Crash
  <2> QED
    BY <2>1 DEF ForgetService
<1>26. ASSUME newTaskQueueService PROVE NoStrandedTask'
  <2>1. \A q \in Queues : conc'[q] = 0
    BY <1>26 DEF newTaskQueueService, WorkersHaveQueues, memVars
  <2> QED
    BY <1>26, <2>1 DEF newTaskQueueService, rowVars
<1>27. ASSUME UNCHANGED vars PROVE NoStrandedTask'
  BY <1>27
     DEF vars, rowVars, memVars, workerVars, lifeVars, history
<1> QED
  BY <1>1, <1>2, <1>3, <1>4, <1>5, <1>6, <1>7, <1>8, <1>9,
     <1>10, <1>11, <1>12, <1>13, <1>14, <1>15, <1>16, <1>17, <1>18,
     <1>19, <1>20, <1>21, <1>22, <1>23, <1>24, <1>25, <1>26, <1>27
     DEF Next, Host, Life, worker, processTask

\* One step of TerminalIsFinal.
TerminalsStay ==
    \A t \in Tasks : status[t] \in Terminal => status'[t] \in {status[t], "deleted"}

\* No step revives a terminal row: the updates without a status guard only meet
\* rows that are running.
LEMMA FinalStep == TypeOK /\ WorkerOwnsRow /\ [Next]_vars => TerminalsStay
<1> SUFFICES ASSUME TypeOK, WorkerOwnsRow, [Next]_vars PROVE TerminalsStay
  OBVIOUS
<1> USE DEF TypeOK, Holding, HoldingPCs, WorkerOwnsRow, Terminal, TerminalsStay
<1>1. ASSUME NEW q \in Queues, NEW c \in 1..(MaxConcurrency + 1), NEW r \in RetryChoices, CreateQueue(q, c, r)
      PROVE  TerminalsStay
  BY <1>1
     DEF CreateQueue, CreateQueueAllowed, clampConcurrency, ResetRunning, StaleRows, DBOpen, Registered, rowVars, memVars, workerVars, lifeVars, history
<1>2. ASSUME NEW t \in Tasks, NEW q \in Queues, Enqueue(t, q)
      PROVE  TerminalsStay
  BY <1>2
     DEF Enqueue, notifyWorkers, DBOpen, Registered, rowVars, memVars, workerVars, lifeVars, history
<1>3. ASSUME NEW t \in Tasks, Cancel(t)
      PROVE  TerminalsStay
  BY <1>3
     DEF Cancel, CancelRows, rowVars, memVars, workerVars, lifeVars, history
<1>4. ASSUME NEW q \in Queues, ClearQueue(q)
      PROVE  TerminalsStay
  BY <1>4
     DEF ClearQueue, CancelRows, rowVars, memVars, workerVars, lifeVars, history
<1>5. ASSUME NEW w \in Slots, DrainCheck(w)
      PROVE  TerminalsStay
  BY <1>5
     DEF DrainCheck, Goto, rowVars, memVars, workerVars, lifeVars, history
<1>6. ASSUME NEW w \in Slots, Dequeue(w)
      PROVE  TerminalsStay
  BY <1>6
     DEF Dequeue, First, Due, TakeRow, Goto, CtxStatementRuns, rowVars, memVars, workerVars, lifeVars, history
<1>7. ASSUME NEW w \in Slots, DequeueNothing(w)
      PROVE  TerminalsStay
  BY <1>7
     DEF DequeueNothing, Goto, CtxStatementRuns, CtxStatementFails, DBError, rowVars, memVars, workerVars, lifeVars, history
<1>8. ASSUME NEW w \in Slots, DequeueAnswerLost(w)
      PROVE  TerminalsStay
  BY <1>8
     DEF DequeueAnswerLost, First, Due, TakeRow, Goto, rowVars, memVars, workerVars, lifeVars, history
<1>9. ASSUME NEW w \in Slots, LimiterWait(w)
      PROVE  TerminalsStay
  BY <1>9
     DEF LimiterWait, Goto, rowVars, memVars, workerVars, lifeVars, history
<1>10. ASSUME NEW w \in Slots, InvokeCallback(w)
      PROVE  TerminalsStay
  BY <1>10
     DEF InvokeCallback, Goto, rowVars, memVars, workerVars, lifeVars, history
<1>11. ASSUME NEW w \in Slots, CallbackReturns(w)
      PROVE  TerminalsStay
  BY <1>11
     DEF CallbackReturns, Goto, rowVars, memVars, workerVars, lifeVars, history
<1>12. ASSUME NEW w \in Slots, completeTask(w)
      PROVE  TerminalsStay
  BY <1>12
     DEF completeTask, Release, Goto, CtxStatementRuns, CtxStatementFails, DBError, rowVars, memVars, workerVars, lifeVars, history
<1>13. ASSUME NEW w \in Slots, FailForGood(w)
      PROVE  TerminalsStay
  BY <1>13
     DEF FailForGood, Release, Goto, CtxStatementRuns, CtxStatementFails, DBError, rowVars, memVars, workerVars, lifeVars, history
<1>14. ASSUME NEW w \in Slots, Reschedule(w)
      PROVE  TerminalsStay
  BY <1>14
     DEF Reschedule, RetriesExhausted, Release, Goto, CtxStatementRuns, CtxStatementFails, DBError, rowVars, memVars, workerVars, lifeVars, history
<1>15. ASSUME NEW w \in Slots, revertTaskToPending(w)
      PROVE  TerminalsStay
  BY <1>15
     DEF revertTaskToPending, RevertRow, Release, Goto, DBError, rowVars, memVars, workerVars, lifeVars, history
<1>16. ASSUME NEW w \in Slots, WakeOnSignal(w)
      PROVE  TerminalsStay
  BY <1>16
     DEF WakeOnSignal, Goto, rowVars, memVars, workerVars, lifeVars, history
<1>17. ASSUME NEW w \in Slots, WakeOnPoll(w)
      PROVE  TerminalsStay
  BY <1>17
     DEF WakeOnPoll, Goto, rowVars, memVars, workerVars, lifeVars, history
<1>18. ASSUME NEW w \in Slots, WorkerExit(w)
      PROVE  TerminalsStay
  BY <1>18
     DEF WorkerExit, Goto, rowVars, memVars, workerVars, lifeVars, history
<1>19. ASSUME Tick PROVE TerminalsStay
  BY <1>19
     DEF Tick, rowVars, memVars, workerVars, lifeVars, history
<1>20. ASSUME NEW q \in Queues, TimerFires(q)
      PROVE  TerminalsStay
  BY <1>20
     DEF TimerFires, notifyWorkers, rowVars, memVars, workerVars, lifeVars, history
<1>21. ASSUME NEW q \in Queues, runCleanup(q)
      PROVE  TerminalsStay
  BY <1>21
     DEF runCleanup, rowVars, memVars, workerVars, lifeVars, history
<1>22. ASSUME unloadPlugin PROVE TerminalsStay
  BY <1>22
     DEF unloadPlugin, rowVars, memVars, workerVars, lifeVars, history
<1>23. ASSUME CloseCancels PROVE TerminalsStay
  BY <1>23
     DEF CloseCancels, rowVars, memVars, workerVars, lifeVars, history
<1>24. ASSUME CloseResets PROVE TerminalsStay
  BY <1>24
     DEF CloseResets, ResetRunning, DBError, rowVars, memVars, workerVars, lifeVars, history
<1>25. ASSUME CloseDB \/ Crash PROVE TerminalsStay
  <2>1. ForgetService
    BY <1>25 DEF CloseDB, Crash
  <2> QED
    BY <2>1 DEF ForgetService, rowVars
<1>26. ASSUME newTaskQueueService PROVE TerminalsStay
  BY <1>26
     DEF newTaskQueueService, rowVars, memVars, workerVars, lifeVars, history
<1>27. ASSUME UNCHANGED vars PROVE TerminalsStay
  BY <1>27
     DEF vars, rowVars, memVars, workerVars, lifeVars, history
<1> QED
  BY <1>1, <1>2, <1>3, <1>4, <1>5, <1>6, <1>7, <1>8, <1>9,
     <1>10, <1>11, <1>12, <1>13, <1>14, <1>15, <1>16, <1>17, <1>18,
     <1>19, <1>20, <1>21, <1>22, <1>23, <1>24, <1>25, <1>26, <1>27
     DEF Next, Host, Life, worker, processTask

\* The inductive invariant: the properties and what they need to be kept.
IInv ==
    /\ TypeOK
    /\ WorkersHaveQueues
    /\ WorkerOwnsRow /\ HeldRowsExist /\ NoDoubleExecution
    /\ AttemptLedger /\ FreshRows /\ RetriesCounted
    /\ NoStrandedTask

LEMMA InitIInv == Init => IInv
<1> SUFFICES ASSUME Init PROVE IInv
  OBVIOUS
<1> USE DEF Init
<1>1. TypeOK
  BY QueuesAssumption, ConcurrencyAssumption DEF TypeOK, Statuses, Terminal, PCs, Phases
<1>2. \A w \in Slots : ~Holding(w)
  BY DEF Holding, HoldingPCs
<1>3. WorkersHaveQueues /\ FreshRows /\ RetriesCounted /\ AttemptLedger
  BY DEF WorkersHaveQueues, FreshRows, RetriesCounted, AttemptLedger
<1>4. WorkerOwnsRow /\ HeldRowsExist /\ NoDoubleExecution /\ NoStrandedTask
  BY <1>2 DEF WorkerOwnsRow, HeldRowsExist, NoDoubleExecution, NoStrandedTask, CtxLive
<1> QED
  BY <1>1, <1>3, <1>4 DEF IInv

LEMMA StepIInv == IInv /\ [Next]_vars => IInv'
  BY TypeStep, WorkersStep, OwnershipStep, LedgerStep, StrandedStep DEF IInv

LEMMA Invariance == Spec => []IInv
  BY InitIInv, StepIInv, PTL DEF Spec

\* The variables of the task queue always have their types.
THEOREM TypeCorrect == Spec => []TypeOK
  BY Invariance, PTL DEF IInv

\* For every number of tasks, queues and workers, and through any number of
\* crashes and timed-out shutdowns: a worker owns the row it works on until it
\* has written the outcome.
THEOREM WorkersOwnRows == Spec => []WorkerOwnsRow
  BY Invariance, PTL DEF IInv

\* And no other worker of the service works on it.
THEOREM ExclusiveExecution == Spec => []NoDoubleExecution
  BY Invariance, PTL DEF IInv

\* The attempt counter of a row is exactly accounted for, and exceeds the
\* configured number only by attempts that restarts threw away.
THEOREM AttemptsAccounted == Spec => [](AttemptLedger /\ AttemptBound)
<1>1. IInv => AttemptBound
  BY DEF IInv, TypeOK, AttemptLedger, RetriesCounted, AttemptBound
<1> QED
  BY <1>1, Invariance, PTL DEF IInv

\* While statements succeed no row is left running with nobody working on it.
THEOREM NothingStranded == Spec => []NoStrandedTask
  BY Invariance, PTL DEF IInv

\* A row that reached a terminal status is only ever deleted.
THEOREM TerminalStays == Spec => TerminalIsFinal
<1>1. IInv /\ [Next]_vars => [TerminalsStay]_vars
  BY FinalStep DEF IInv
<1> QED
  BY <1>1, Invariance, PTL DEF Spec, TerminalIsFinal, TerminalsStay

-----------------------------------------------------------------------------
(* The retry delay: what the shift of TaskBackoff computes.                *)
\* Every set of natural numbers has a least one.
LEMMA LeastNumber == ASSUME NEW T \in SUBSET Nat, T # {} PROVE \E x \in T : \A y \in T : x <= y
<1> DEFINE Less == {p \in Nat \X Nat : p[1] < p[2]}
<1>1. IsWellFoundedOn(Less, Nat)
  BY NatLessThanWellFounded DEF OpToRel
<1>2. PICK x \in T : \A y \in T : <<y, x>> \notin Less
  <2> HIDE DEF Less
  <2> QED BY <1>1, WFMin
<1>3. \A y \in T : y \in Nat /\ x \in Nat /\ ~(y < x)
  BY <1>2
<1> QED BY <1>3

\* Induction up to n: otherwise a least number not in T would have a predecessor in T.
LEMMA UpTo ==
    ASSUME NEW n \in Nat, NEW T, 0 \in T, \A k \in 0 .. n - 1 : k \in T => k + 1 \in T
    PROVE  \A k \in 0 .. n : k \in T
<1> DEFINE U == {k \in 0 .. n : k \notin T}
<1> SUFFICES ASSUME U # {} PROVE FALSE
  OBVIOUS
<1>1. U \in SUBSET Nat
  OBVIOUS
<1>2. PICK x \in U : \A y \in U : x <= y
  BY <1>1, LeastNumber
<1>3. x \in 0 .. n /\ x \notin T /\ x # 0
  BY <1>2
<1>4. x - 1 \in 0 .. n - 1 /\ x - 1 \in 0 .. n /\ (x - 1) + 1 = x /\ ~(x <= x - 1)
  BY <1>3
<1>5. x - 1 \in T
  BY <1>2, <1>4
<1> QED BY <1>3, <1>4, <1>5

\* f holds the powers of two up to n, as the recursion of Pow2 asks.
IsPow2(f, n) == f = [k \in 0 .. n |-> IF k = 0 THEN 1 ELSE 2 * f[k - 1]]

\* There is such a function, for every n.
LEMMA Pow2Exists == ASSUME NEW n \in Nat PROVE \E f : IsPow2(f, n)
<1> DEFINE T == {m \in 0 .. n : \E f : IsPow2(f, m)}
<1>1. 0 \in T
  <2> DEFINE f == [k \in 0 .. 0 |-> 1]
  <2>1. f = [k \in 0 .. 0 |-> IF k = 0 THEN 1 ELSE 2 * f[k - 1]]
    OBVIOUS
  <2> HIDE DEF f
  <2>2. IsPow2(f, 0) /\ 0 \in 0 .. n
    BY <2>1 DEF IsPow2
  <2> QED BY <2>2
<1>2. ASSUME NEW m \in 0 .. n - 1, m \in T PROVE m + 1 \in T
  <2>1. PICK f : IsPow2(f, m)
    BY <1>2
  <2> DEFINE g == [k \in 0 .. m + 1 |-> IF k <= m THEN f[k] ELSE 2 * f[m]]
  <2>2. ASSUME NEW k \in 0 .. m + 1
        PROVE  g[k] = IF k = 0 THEN 1 ELSE 2 * g[k - 1]
    <3>1. CASE k = 0
      <4>1. g[k] = f[0] /\ 0 \in 0 .. m
        BY <3>1
      <4>2. f[0] = 1
        BY <2>1, <4>1 DEF IsPow2
      <4> QED BY <3>1, <4>1, <4>2
    <3>2. CASE k # 0 /\ k <= m
      <4>1. k \in 0 .. m /\ k - 1 \in 0 .. m + 1 /\ k - 1 <= m /\ g[k] = f[k] /\ g[k - 1] = f[k - 1]
        BY <3>2
      <4>2. f[k] = IF k = 0 THEN 1 ELSE 2 * f[k - 1]
        BY <2>1, <4>1 DEF IsPow2
      <4> QED BY <3>2, <4>1, <4>2
    <3>3. CASE k = m + 1
      <4>1. k # 0 /\ k - 1 = m /\ g[k] = 2 * f[m] /\ g[m] = f[m]
        BY <3>3
      <4> QED BY <4>1
    <3> QED BY <3>1, <3>2, <3>3
  <2>3. g = [k \in 0 .. m + 1 |-> g[k]]
    OBVIOUS
  <2> HIDE DEF g
  <2>4. IsPow2(g, m + 1)
    <3>1. [k \in 0 .. m + 1 |-> g[k]] = [k \in 0 .. m + 1 |-> IF k = 0 THEN 1 ELSE 2 * g[k - 1]]
      BY <2>2
    <3> QED BY <2>3, <3>1 DEF IsPow2
  <2> QED BY <2>4
<1> HIDE DEF T
<1>3. n \in T
  BY <1>1, <1>2, UpTo
<1> QED BY <1>3 DEF T

\* Hence Pow2 satisfies its recursion.
LEMMA Pow2Doubles ==
    /\ Pow2[0] = 1
    /\ \A k \in 0 .. Width : Pow2[k + 1] = 2 * Pow2[k]
<1>1. Width + 1 \in Nat /\ Width \in Nat
  BY WidthAssumption
<1>2. Pow2 = CHOOSE f : IsPow2(f, Width + 1)
  BY DEF Pow2, IsPow2
<1>3. IsPow2(Pow2, Width + 1)
  BY <1>1, <1>2, Pow2Exists
<1> HIDE DEF Pow2
<1>4. \A k \in 0 .. Width + 1 : Pow2[k] = IF k = 0 THEN 1 ELSE 2 * Pow2[k - 1]
  BY ONLY <1>3 DEF IsPow2
<1>5. \A k \in 0 .. Width : k + 1 \in 0 .. Width + 1 /\ k + 1 # 0 /\ (k + 1) - 1 = k
  BY <1>1
<1>6. 0 \in 0 .. Width + 1
  BY <1>1
<1> QED BY ONLY <1>4, <1>5, <1>6

\* Powers of two are positive.
LEMMA Pow2Positive == \A k \in 0 .. Width + 1 : Pow2[k] \in Nat \ {0}
<1> DEFINE T == {k \in 0 .. Width + 1 : Pow2[k] \in Nat \ {0}}
<1>1. Width + 1 \in Nat /\ Width \in Nat
  BY WidthAssumption
<1>2. 0 \in T
  BY <1>1, Pow2Doubles
<1>3. ASSUME NEW k \in 0 .. (Width + 1) - 1, k \in T PROVE k + 1 \in T
  <2>1. k \in 0 .. Width /\ k + 1 \in 0 .. Width + 1 /\ Pow2[k] \in Nat \ {0}
    BY <1>1, <1>3
  <2>2. Pow2[k + 1] = 2 * Pow2[k]
    BY <2>1, Pow2Doubles
  <2>3. 2 * Pow2[k] \in Nat \ {0}
    BY ONLY <2>1
  <2> QED BY <2>1, <2>2, <2>3
<1> HIDE DEF T
<1>4. \A k \in 0 .. Width + 1 : k \in T
  BY <1>1, <1>2, <1>3, UpTo
<1> QED BY <1>4 DEF T

\* A smaller power divides a larger one.
LEMMA Pow2Divides ==
    ASSUME NEW j \in 0 .. Width + 1, NEW k \in j .. Width + 1
    PROVE  \E c \in Nat \ {0} : Pow2[k] = c * Pow2[j]
<1> DEFINE T == {i \in 0 .. (Width + 1) - j : \E c \in Nat \ {0} : Pow2[j + i] = c * Pow2[j]}
<1>1. Width + 1 \in Nat /\ Width \in Nat /\ j \in Nat /\ (Width + 1) - j \in Nat
  BY WidthAssumption
<1>2. 0 \in T
  <2>1. 0 \in 0 .. (Width + 1) - j /\ j + 0 = j /\ Pow2[j] = 1 * Pow2[j]
    BY <1>1, Pow2Positive
  <2>2. \E c \in Nat \ {0} : Pow2[j + 0] = c * Pow2[j]
    BY ONLY <2>1
  <2> QED BY <2>1, <2>2
<1>3. ASSUME NEW i \in 0 .. ((Width + 1) - j) - 1, i \in T PROVE i + 1 \in T
  <2>1. PICK c \in Nat \ {0} : Pow2[j + i] = c * Pow2[j]
    BY <1>3
  <2>2. i + 1 \in 0 .. (Width + 1) - j /\ j + i \in 0 .. Width /\ j + (i + 1) = (j + i) + 1
    BY <1>1
  <2>3. Pow2[j + (i + 1)] = 2 * (c * Pow2[j])
    BY <2>1, <2>2, Pow2Doubles
  <2>4. Pow2[j] \in Nat
    BY Pow2Positive
  <2>5. 2 * (c * Pow2[j]) = (2 * c) * Pow2[j] /\ 2 * c \in Nat \ {0}
    BY ONLY <2>4
  <2>6. \E b \in Nat \ {0} : Pow2[j + (i + 1)] = b * Pow2[j]
    BY ONLY <2>3, <2>5
  <2> QED BY <2>2, <2>6
<1> HIDE DEF T
<1>4. \A i \in 0 .. (Width + 1) - j : i \in T
  BY <1>1, <1>2, <1>3, UpTo
<1>5. k - j \in 0 .. (Width + 1) - j /\ j + (k - j) = k
  BY <1>1
<1>6. k - j \in T
  BY <1>4, <1>5
<1> QED BY <1>5, <1>6 DEF T

\* Division with a remainder.
LEMMA Modulo ==
    ASSUME NEW x \in Nat, NEW M \in Nat \ {0}
    PROVE  x % M \in 0 .. M - 1 /\ \E q \in Int : x = M * q + (x % M)
<1>1. x \div M \in Int
  OBVIOUS
<1>2. x % M \in 0 .. M - 1
  OBVIOUS
<1>3. x = M * (x \div M) + (x % M)
  OBVIOUS
<1> QED BY <1>1, <1>2, <1>3

\* A number below the modulus is its own remainder.
LEMMA SmallModulo == ASSUME NEW x \in Nat, NEW M \in Nat \ {0}, x < M PROVE x % M = x
OBVIOUS

\* If b * p reaches h and b * c does not, p is the larger factor.
LEMMA LargerFactor ==
    ASSUME NEW b \in Nat, NEW c \in Nat, NEW p \in Nat, NEW h \in Int,
           b * c < h, h <= b * p
    PROVE  p > c
<1> SUFFICES ASSUME p <= c PROVE FALSE
  OBVIOUS
<1>1. b * p <= b * c
  OBVIOUS
<1>2. b * p \in Int /\ b * c \in Int
  OBVIOUS
<1> QED BY <1>1, <1>2

\* A positive multiple of p is at least p.
LEMMA MultipleAtLeast ==
    ASSUME NEW p \in Nat, NEW z \in Int, p * z > 0 PROVE p * z >= p
<1>1. z >= 1
  <2> SUFFICES ASSUME z <= 0 PROVE FALSE
    OBVIOUS
  <2>1. p * z <= 0
    OBVIOUS
  <2>2. p * z \in Int
    OBVIOUS
  <2> QED BY <2>1, <2>2
<1>2. p * z >= p * 1
  BY <1>1
<1> QED BY <1>2

\* A shift within the width that stays below the sign bit is the product.
LEMMA ShiftExact ==
    ASSUME NEW b \in Nat, NEW k \in 0 .. Width - 1, b * Pow2[k] < Pow2[Width - 1]
    PROVE  ShiftLeft(b, k) = b * Pow2[k]
<1>1. /\ Width \in Nat \ {0, 1} /\ Width - 1 \in 0 .. Width /\ (Width - 1) + 1 = Width /\ ~(k >= Width)
      /\ k \in 0 .. Width + 1 /\ Width \in 0 .. Width + 1 /\ Width - 1 \in 0 .. Width + 1
  BY WidthAssumption
<1>2. Pow2[Width] = 2 * Pow2[Width - 1]
  BY <1>1, Pow2Doubles
<1>3. Pow2[Width] \in Nat \ {0} /\ Pow2[Width - 1] \in Nat \ {0} /\ Pow2[k] \in Nat
  BY <1>1, Pow2Positive
<1> DEFINE x == b * Pow2[k]
<1>4. x \in Nat
  BY <1>3
<1> HIDE DEF x
<1>5. x < Pow2[Width - 1]
  BY DEF x
<1>6. x < Pow2[Width]
  BY <1>2, <1>3, <1>4, <1>5
<1>7. x % Pow2[Width] = x
  BY <1>3, <1>4, <1>6, SmallModulo
<1>8. Wrap(x) = x
  BY ONLY <1>3, <1>4, <1>5, <1>7 DEF Wrap
<1> QED BY <1>1, <1>8 DEF x, ShiftLeft

\* A shift that overflows is a multiple of a power of two larger than the cap:
\* it is 0, negative, or larger than the cap itself.
LEMMA ShiftOverflows ==
    ASSUME NEW b \in Nat \ {0}, NEW k \in 0 .. Width - 1,
           b * MaxBackoffMs < Pow2[Width - 1], b * Pow2[k] >= Pow2[Width - 1]
    PROVE  ShiftLeft(b, k) \notin 1 .. MaxBackoffMs
<1>1. /\ Width \in Nat \ {0, 1} /\ Width - 1 \in 0 .. Width + 1 /\ ~(k >= Width)
      /\ k \in 0 .. Width + 1 /\ Width \in 0 .. Width + 1 /\ Width \in k .. Width + 1
      /\ MaxBackoffMs \in Nat /\ b \in Nat
  BY WidthAssumption, MaxBackoffAssumption
<1>2. Pow2[Width] \in Nat \ {0} /\ Pow2[Width - 1] \in Nat \ {0} /\ Pow2[k] \in Nat
  BY <1>1, Pow2Positive
<1> DEFINE p == Pow2[k]  M == Pow2[Width]  h == Pow2[Width - 1]  x == b * p  m == x % M
<1>3. x \in Nat
  BY <1>1, <1>2
<1>4. PICK c \in Nat \ {0} : M = c * p
  BY <1>1, Pow2Divides
<1>5. p > MaxBackoffMs
  <2>1. b * MaxBackoffMs < h /\ h <= b * p /\ p \in Nat /\ h \in Int
    BY <1>2, <1>3
  <2> HIDE DEF p, h
  <2> QED BY ONLY <1>1, <2>1, LargerFactor
<1>6. m \in 0 .. M - 1 /\ \E q \in Int : x = M * q + m
  BY <1>2, <1>3, Modulo
<1>7. PICK q \in Int : x = M * q + m
  BY <1>6
<1>8. M \in Nat /\ h \in Nat /\ p \in Nat /\ m \in Int /\ m < M
  BY <1>2, <1>6
<1>9. Wrap(x) = IF m >= h THEN m - M ELSE m
  BY DEF Wrap
<1>10. x = b * p
  OBVIOUS
<1> HIDE DEF p, M, h, x, m
<1>11. m = p * (b - c * q)
  <2>1. M * q = p * (c * q)
    BY ONLY <1>4, <1>8
  <2>2. b * p = p * b
    BY ONLY <1>1, <1>8
  <2>3. p * (b - c * q) = p * b - p * (c * q)
    BY ONLY <1>1, <1>8
  <2>4. p * b \in Int /\ p * (c * q) \in Int
    BY ONLY <1>1, <1>8
  <2> QED BY ONLY <1>7, <1>8, <1>10, <2>1, <2>2, <2>3, <2>4
<1>12. ~(m \in 1 .. MaxBackoffMs)
  <2> SUFFICES ASSUME m \in 1 .. MaxBackoffMs PROVE FALSE
    OBVIOUS
  <2> DEFINE z == b - c * q
  <2>1. z \in Int
    BY <1>1
  <2> HIDE DEF z
  <2>2. m = p * z
    BY <1>11 DEF z
  <2>3. p * z >= p
    BY ONLY <1>1, <1>8, <2>1, <2>2, MultipleAtLeast, m \in 1 .. MaxBackoffMs
  <2> QED BY ONLY <1>1, <1>5, <1>8, <2>2, <2>3, m \in 1 .. MaxBackoffMs
<1>13. Wrap(x) \notin 1 .. MaxBackoffMs
  <2>1. CASE m >= h
    <3>1. Wrap(x) = m - M /\ m - M < 0
      BY <1>8, <1>9, <2>1
    <3> QED BY ONLY <1>1, <1>8, <3>1
  <2>2. CASE ~(m >= h)
    BY <1>9, <1>12, <2>2
  <2> QED BY <2>1, <2>2
<1> QED BY <1>1, <1>13 DEF x, p, ShiftLeft

\* The largest shifts: nothing is left of the base, and the product is past the cap.
LEMMA ShiftedOut ==
    ASSUME NEW b \in Nat \ {0}, NEW k \in Width .. Width + 1
    PROVE  b * Pow2[k] >= Pow2[Width - 1]
<1>1. /\ Width - 1 \in 0 .. Width + 1 /\ k \in (Width - 1) .. Width + 1 /\ b \in Nat /\ b >= 1
  BY WidthAssumption, MaxBackoffAssumption
<1>2. PICK c \in Nat \ {0} : Pow2[k] = c * Pow2[Width - 1]
  BY <1>1, Pow2Divides
<1> DEFINE h == Pow2[Width - 1]
<1>3. h \in Nat
  BY <1>1, Pow2Positive
<1> HIDE DEF h
<1>4. c * h >= h /\ c * h \in Nat
  BY <1>3
<1>5. \A y \in Nat : b * y >= y
  BY <1>1
<1>6. b * (c * h) >= c * h /\ b * (c * h) \in Nat
  BY <1>1, <1>4, <1>5
<1>7. b * (c * h) >= h
  BY <1>3, <1>4, <1>6
<1> QED BY <1>2, <1>7 DEF h

(* The delay handleTaskFailure waits before a retry is backoffMs doubled with    *)
(* every attempt and cut off at maxBackoffMs, for every width of the integer and *)
(* every cap, although the shift overflows: what is left of an overflowing shift *)
(* is never in the range the code takes for a delay.                             *)
THEOREM DelaysDouble == BackoffIsExponential
<1> SUFFICES ASSUME NEW b \in 1 .. Pow2[Width - 1] - 1, NEW a \in 1 .. Width + 2,
                    b * MaxBackoffMs < Pow2[Width - 1]
             PROVE  Backoff(b, a) = CappedExponential(b, a)
  BY DEF BackoffIsExponential
<1> DEFINE k == a - 1  x == b * Pow2[k]
<1>1. k \in 0 .. Width + 1 /\ b \in Nat \ {0} /\ MaxBackoffMs \in Nat /\ Width \in Nat
  <2>1. Pow2[Width - 1] \in Nat
    BY WidthAssumption, Pow2Positive
  <2> QED BY <2>1, WidthAssumption, MaxBackoffAssumption
<1>2. x \in Nat \ {0} /\ Pow2[Width - 1] \in Nat
  <2>1. Pow2[k] \in Nat \ {0} /\ Width - 1 \in 0 .. Width + 1
    BY <1>1, WidthAssumption, Pow2Positive
  <2>2. \A u, v \in Nat \ {0} : u * v \in Nat \ {0}
    OBVIOUS
  <2> QED BY <1>1, <2>1, <2>2, Pow2Positive
<1>3. MaxBackoffMs < Pow2[Width - 1]
  <2>1. \A u, v \in Nat \ {0} : u * v >= v /\ u * v \in Nat
    OBVIOUS
  <2>2. b * MaxBackoffMs >= MaxBackoffMs /\ b * MaxBackoffMs \in Nat
    BY <1>1, <2>1, MaxBackoffAssumption
  <2> QED BY <1>1, <1>2, <2>2
<1>4. CASE x < Pow2[Width - 1] /\ k < Width
  <2>1. ShiftLeft(b, k) = x
    BY <1>1, <1>4, ShiftExact
  <2> HIDE DEF x, k
  <2>2. (IF ShiftLeft(b, k) \in 1 .. MaxBackoffMs THEN ShiftLeft(b, k) ELSE MaxBackoffMs)
          = IF x > MaxBackoffMs THEN MaxBackoffMs ELSE x
    BY ONLY <1>1, <1>2, <2>1
  <2> QED BY ONLY <2>2 DEF Backoff, CappedExponential, x, k
<1>5. CASE x >= Pow2[Width - 1]
  <2>1. ShiftLeft(b, k) \notin 1 .. MaxBackoffMs
    <3>1. CASE k < Width
      BY <1>1, <1>5, <3>1, ShiftOverflows
    <3>2. CASE k >= Width
      BY <1>1, <3>2 DEF ShiftLeft
    <3> QED BY <1>1, <3>1, <3>2
  <2>2. x > MaxBackoffMs
    BY <1>1, <1>2, <1>3, <1>5
  <2> QED BY ONLY <2>1, <2>2 DEF Backoff, CappedExponential
<1>6. CASE k >= Width
  <2>1. x >= Pow2[Width - 1]
    BY <1>1, <1>6, ShiftedOut
  <2> QED BY <1>5, <2>1
<1> QED BY <1>1, <1>2, <1>4, <1>5, <1>6
=============================================================================
