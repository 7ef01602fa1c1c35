------------------------------ MODULE TaskQueue ------------------------------
(* The task queue service of one plugin, plugins/host_taskqueue.go: rows of  *)
(* an SQLite table, a pool of worker goroutines per queue, and the service's *)
(* life: load, unload, shutdown, crash and load again over the same rows.    *)
(*                                                                           *)
(* Every SQL statement of the code is one atomic step. A statement that runs *)
(* under the service context may fail once that context is cancelled; any    *)
(* write of a worker may fail while the error budget MaxDBErrors lasts.      *)
(* Time is a clock that moves when some row or timer waits for it.           *)
EXTENDS TaskBackoff, FiniteSetsExt

CONSTANTS
    Tasks,           \* task ids (id.NewRandom never repeats one)
    NoTask,          \* a worker that holds no task
    Queues,          \* queue names
    MaxConcurrency,  \* maxConcurrency of the plugin's manifest
    RetryChoices,    \* values a plugin may give config.MaxRetries
    BackoffMs,       \* config.BackoffMs, after applyConfigDefaults
    Delayed,         \* the queues with config.DelayMs > 0
    MaxStarts,       \* bound: how often the service is loaded
    MaxDBErrors,     \* bound: statements of workers that fail on their own
    Crashes          \* TRUE iff the process may be killed

ASSUME QueuesAssumption == Queues # {}
ASSUME NoTaskAssumption == NoTask \notin Tasks
ASSUME ConcurrencyAssumption == MaxConcurrency \in Nat \ {0}
ASSUME RetryAssumption == RetryChoices \subseteq Nat
ASSUME BoundsAssumption == MaxStarts \in Nat /\ MaxDBErrors \in Nat /\ Crashes \in BOOLEAN
ASSUME DelayedAssumption == Delayed \subseteq Queues
ASSUME BackoffMsAssumption == BackoffMs \in Nat \ {0}

VARIABLES
    \* the table tasks
    status, attempt, maxRetries, nextRun, createdAt, queueOf,
    now,                                \* time.Now().UnixMilli()
    \* queueState of the queues the live service knows (conc = 0: unknown)
    conc, retries, signal, wakeAt,
    \* the worker goroutines: program counter, task and attempt in hand
    pc, held, att,
    phase, starts,                      \* life of the service
    errs,                               \* failed statements so far
    \* history: failures counted, attempts forgotten by a restart
    fails, resets

rowVars == <<status, attempt, maxRetries, nextRun, createdAt, queueOf>>
memVars == <<conc, retries, signal, wakeAt>>
workerVars == <<pc, held, att>>
lifeVars == <<phase, starts>>
history == <<fails, resets>>
vars == <<rowVars, now, memVars, workerVars, lifeVars, errs, history>>

Terminal == {"completed", "failed", "cancelled"}
Statuses == Terminal \cup {"absent", "pending", "running", "deleted"}
Phases == {"up", "unloading", "closing", "reset", "down"}

\* One slot per goroutine the budget can pay for; slot <<q, i>> serves queue q.
Slots == Queues \X (1..MaxConcurrency)

HoldingPCs == {"limiter", "dispatch", "callback", "complete", "fail", "revert"}
PCs == HoldingPCs \cup {"none", "drain", "dequeue", "wait", "exited"}

Holding(w) == pc[w] \in HoldingPCs
CtxLive == phase \in {"up", "unloading"}
DBOpen == phase # "down"
Registered(q) == conc[q] > 0

-----------------------------------------------------------------------------
(* Statements                                                                *)

\* A statement under s.ctx takes effect while the context lives, or when the
\* cancellation catches it half way; after Close's own update none is left.
CtxStatementRuns == phase \in {"up", "unloading", "closing"} /\ UNCHANGED errs

DBError == errs < MaxDBErrors /\ errs' = errs + 1

CtxStatementFails == (~CtxLive /\ UNCHANGED errs) \/ DBError

\* notifyWorkers: a channel of capacity one, a full channel drops the signal.
notifyWorkers(q) == signal' = [signal EXCEPT ![q] = TRUE]

-----------------------------------------------------------------------------
(* Host functions the plugin calls                                           *)

allocated == MapThenSumSet(LAMBDA q : conc[q], Queues)

available == MaxConcurrency - allocated

UnclampedConcurrency(c) == c  \* mutant: the budget is not applied to the request

clampConcurrency(c) == IF c > available THEN available ELSE c

\* Running rows go back to pending; the attempt they were in stays counted.
ResetRunning(S) ==
    /\ status' = [t \in Tasks |-> IF t \in S THEN "pending" ELSE status[t]]
    /\ resets' = [t \in Tasks |-> IF t \in S THEN resets[t] + 1 ELSE resets[t]]
    /\ UNCHANGED <<attempt, maxRetries, nextRun, createdAt, queueOf, fails>>

\* A known name is refused; so is any name once the budget is spent.
CreateQueueAllowed(q) == available \in 1..MaxConcurrency /\ ~Registered(q)

NoStaleRows(q) == {}  \* mutant: rows left running by a crash are not recovered

\* Running rows of a queue the service has not created yet: a crash left them.
StaleRows(q) == {t \in Tasks : queueOf[t] = q /\ status[t] = "running"}

CreateQueue(q, c, r) ==
    /\ DBOpen /\ CreateQueueAllowed(q)
    /\ conc' = [conc EXCEPT ![q] = clampConcurrency(c)]
    /\ retries' = [retries EXCEPT ![q] = r]
    /\ signal' = [signal EXCEPT ![q] = FALSE]
    /\ wakeAt' = [wakeAt EXCEPT ![q] = {}]
    /\ ResetRunning(StaleRows(q))
    /\ pc' = [w \in Slots |-> IF w[1] = q /\ w[2] <= clampConcurrency(c)
                              THEN "drain" ELSE pc[w]]
    /\ UNCHANGED <<now, held, att, lifeVars, errs>>

\* The insert and the wake-up; time may or may not pass before it.
Enqueue(t, q) ==
    /\ DBOpen /\ Registered(q) /\ status[t] = "absent"
    /\ now' \in {now, now + 1}
    /\ status' = [status EXCEPT ![t] = "pending"]
    /\ attempt' = [attempt EXCEPT ![t] = 0]
    /\ maxRetries' = [maxRetries EXCEPT ![t] = retries[q]]
    /\ nextRun' = [nextRun EXCEPT ![t] = now']
    /\ createdAt' = [createdAt EXCEPT ![t] = now']
    /\ queueOf' = [queueOf EXCEPT ![t] = q]
    /\ notifyWorkers(q)
    /\ UNCHANGED <<conc, retries, wakeAt, workerVars, lifeVars, errs, history>>

CancelRows(S) ==
    /\ status' = [t \in Tasks |-> IF t \in S THEN "cancelled" ELSE status[t]]
    /\ UNCHANGED <<attempt, maxRetries, nextRun, createdAt, queueOf, now, memVars,
                   workerVars, lifeVars, errs, history>>

Cancel(t) == DBOpen /\ status[t] = "pending" /\ CancelRows({t})

ClearQueue(q) ==
    /\ DBOpen /\ Registered(q)
    /\ CancelRows({t \in Tasks : queueOf[t] = q /\ status[t] = "pending"})

-----------------------------------------------------------------------------
(* Worker goroutines                                                         *)

Goto(w, label) == pc' = [pc EXCEPT ![w] = label]

\* drainQueue's loop condition; with the context cancelled the loop ends and
\* the worker's select returns on ctx.Done.
DrainCheck(w) ==
    /\ pc[w] = "drain"
    /\ Goto(w, IF CtxLive THEN "dequeue" ELSE "exited")
    /\ UNCHANGED <<rowVars, now, memVars, held, att, lifeVars, errs, history>>

\* mutant: the dequeue statement does not ask for pending rows
DueWhateverStatus(q) == {t \in Tasks : /\ queueOf[t] = q
                                       /\ status[t] \in {"pending", "running"}
                                       /\ nextRun[t] <= now}

Due(q) == {t \in Tasks : queueOf[t] = q /\ status[t] = "pending" /\ nextRun[t] <= now}

\* ORDER BY next_run_at, created_at LIMIT 1
First(S) == {t \in S : \A u \in S :
               \/ nextRun[t] < nextRun[u]
               \/ nextRun[t] = nextRun[u] /\ createdAt[t] <= createdAt[u]}

TakeRow(t) ==
    /\ status' = [status EXCEPT ![t] = "running"]
    /\ attempt' = [attempt EXCEPT ![t] = @ + 1]
    /\ UNCHANGED <<maxRetries, nextRun, createdAt, queueOf>>

Dequeue(w) ==
    /\ pc[w] = "dequeue"
    /\ \E t \in First(Due(w[1])) :
         /\ CtxStatementRuns
         /\ TakeRow(t)
         /\ held' = [held EXCEPT ![w] = t]
         /\ att' = [att EXCEPT ![w] = attempt[t] + 1]
         /\ Goto(w, IF w[1] \in Delayed THEN "limiter" ELSE "dispatch")
    /\ UNCHANGED <<now, memVars, lifeVars, history>>

\* No row is due, or the statement failed: the worker waits for a wake-up.
DequeueNothing(w) ==
    /\ pc[w] = "dequeue"
    /\ (Due(w[1]) = {} /\ CtxStatementRuns) \/ CtxStatementFails
    /\ Goto(w, "wait")
    /\ UNCHANGED <<rowVars, now, memVars, held, att, lifeVars, history>>

\* The row was updated, but the cancelled context turned the answer into an
\* error: a running row in nobody's hand.
DequeueAnswerLost(w) ==
    /\ pc[w] = "dequeue" /\ phase = "closing"
    /\ \E t \in First(Due(w[1])) : TakeRow(t)
    /\ Goto(w, "wait")
    /\ UNCHANGED <<now, memVars, held, att, lifeVars, errs, history>>

\* limiter.Wait: a token, or the cancelled context.
LimiterWait(w) ==
    /\ pc[w] = "limiter"
    /\ Goto(w, "dispatch") \/ (~CtxLive /\ Goto(w, "revert"))
    /\ UNCHANGED <<rowVars, now, memVars, held, att, lifeVars, errs, history>>

\* defaultInvokeCallback: unloadPlugin has already taken the plugin out of the
\* manager's map when phase is "unloading", and the lookup is then an error.
InvokeCallback(w) ==
    /\ pc[w] = "dispatch"
    /\ IF phase = "unloading"
       THEN Goto(w, "fail") ELSE Goto(w, "callback")
    /\ UNCHANGED <<rowVars, now, memVars, held, att, lifeVars, errs, history>>

\* The plugin returns a result or an error; the context is tested right after.
CallbackReturns(w) ==
    /\ pc[w] = "callback"
    /\ IF CtxLive THEN \E r \in {"complete", "fail"} : Goto(w, r)
                  ELSE Goto(w, "revert")
    /\ UNCHANGED <<rowVars, now, memVars, held, att, lifeVars, errs, history>>

Release(w, label) ==
    /\ Goto(w, label)
    /\ held' = [held EXCEPT ![w] = NoTask]
    /\ att' = [att EXCEPT ![w] = 0]

completeTask(w) ==
    /\ pc[w] = "complete"
    /\ \/ CtxStatementRuns /\ status' = [status EXCEPT ![held[w]] = "completed"]
       \/ CtxStatementFails /\ UNCHANGED status
    /\ Release(w, "drain")
    /\ UNCHANGED <<attempt, maxRetries, nextRun, createdAt, queueOf, now, memVars,
                   lifeVars, history>>

RetriesExhausted(w) == att[w] > maxRetries[held[w]]

\* handleTaskFailure once the retries are spent.
FailForGood(w) ==
    /\ pc[w] = "fail" /\ RetriesExhausted(w)
    /\ \/ CtxStatementRuns /\ status' = [status EXCEPT ![held[w]] = "failed"]
       \/ CtxStatementFails /\ UNCHANGED status
    /\ Release(w, "drain")
    /\ UNCHANGED <<attempt, maxRetries, nextRun, createdAt, queueOf, now, memVars,
                   lifeVars, history>>

\* handleTaskFailure with retries left: the timer is armed whether or not the
\* row could be written.
Reschedule(w) ==
    LET t == held[w]
        at == now + Backoff(BackoffMs, att[w])
    IN  /\ pc[w] = "fail" /\ ~RetriesExhausted(w)
        /\ \/ /\ CtxStatementRuns
              /\ status' = [status EXCEPT ![t] = "pending"]
              /\ nextRun' = [nextRun EXCEPT ![t] = at]
              /\ fails' = [fails EXCEPT ![t] = @ + 1]
           \/ CtxStatementFails /\ UNCHANGED <<status, nextRun, fails>>
        /\ wakeAt' = [wakeAt EXCEPT ![w[1]] = @ \cup {at}]
        /\ Release(w, "drain")
        /\ UNCHANGED <<attempt, maxRetries, createdAt, queueOf, now, conc, retries,
                       signal, lifeVars, resets>>

\* mutant: the row is reverted whatever its status is
RevertAnyRow(t) ==
    /\ status' = [status EXCEPT ![t] = "pending"]
    /\ attempt' = [attempt EXCEPT ![t] = IF @ - 1 < 0 THEN 0 ELSE @ - 1]

\* revertTaskToPending: outside the service context, and only a running row.
RevertRow(t) ==
    IF status[t] = "running"
    THEN /\ status' = [status EXCEPT ![t] = "pending"]
         /\ attempt' = [attempt EXCEPT ![t] = IF @ - 1 < 0 THEN 0 ELSE @ - 1]
    ELSE UNCHANGED <<status, attempt>>

revertTaskToPending(w) ==
    /\ pc[w] = "revert"
    /\ \/ RevertRow(held[w]) /\ UNCHANGED errs
       \/ DBError /\ UNCHANGED <<status, attempt>>
    /\ Release(w, "wait")
    /\ UNCHANGED <<maxRetries, nextRun, createdAt, queueOf, now, memVars, lifeVars,
                   history>>

\* The worker's select: the wake-up signal, the poll ticker, the context.
WakeOnSignal(w) ==
    /\ pc[w] = "wait" /\ signal[w[1]]
    /\ signal' = [signal EXCEPT ![w[1]] = FALSE]
    /\ Goto(w, "drain")
    /\ UNCHANGED <<rowVars, now, conc, retries, wakeAt, held, att, lifeVars, errs, history>>

NoPollTicker(w) == FALSE  \* mutant: workers wake on signals only

WakeOnPoll(w) ==
    /\ pc[w] = "wait"
    /\ Goto(w, "drain")
    /\ UNCHANGED <<rowVars, now, memVars, held, att, lifeVars, errs, history>>

WorkerExit(w) ==
    /\ pc[w] = "wait" /\ ~CtxLive
    /\ Goto(w, "exited")
    /\ UNCHANGED <<rowVars, now, memVars, held, att, lifeVars, errs, history>>

processTask(w) ==
    \/ Dequeue(w) \/ DequeueNothing(w) \/ DequeueAnswerLost(w)
    \/ LimiterWait(w) \/ InvokeCallback(w) \/ CallbackReturns(w)
    \/ completeTask(w) \/ FailForGood(w) \/ Reschedule(w) \/ revertTaskToPending(w)

worker(w) ==
    \/ DrainCheck(w) \/ processTask(w)
    \/ WakeOnSignal(w) \/ WakeOnPoll(w) \/ WorkerExit(w)

-----------------------------------------------------------------------------
(* Timers, clean-up and the life of the service                              *)

\* Time passes for the rows and timers that wait for it.
Tick ==
    /\ \/ \E t \in Tasks : status[t] = "pending" /\ nextRun[t] > now
       \/ \E q \in Queues : \E at \in wakeAt[q] : at > now
    /\ now' = now + 1
    /\ UNCHANGED <<rowVars, memVars, workerVars, lifeVars, errs, history>>

\* time.AfterFunc of handleTaskFailure; a timer that outlives Close
\* signals a channel nobody reads, so Close and a crash simply drop it.
TimerFires(q) ==
    /\ \E at \in wakeAt[q] :
         at <= now /\ wakeAt' = [wakeAt EXCEPT ![q] = @ \ {at}]
    /\ notifyWorkers(q)
    /\ UNCHANGED <<rowVars, now, conc, retries, workerVars, lifeVars, errs, history>>

\* runCleanup on one queue. The rows past their retention are a choice: no
\* other statement reads updated_at.
runCleanup(q) ==
    /\ CtxLive /\ Registered(q)
    /\ \E S \in SUBSET {t \in Tasks : queueOf[t] = q /\ status[t] \in Terminal} :
         /\ S # {}
         /\ status' = [t \in Tasks |-> IF t \in S THEN "deleted" ELSE status[t]]
    /\ UNCHANGED <<attempt, maxRetries, nextRun, createdAt, queueOf, now, memVars,
                   workerVars, lifeVars, errs, history>>

\* unloadPlugin: the plugin leaves the manager's map, then its closers run.
unloadPlugin ==
    /\ phase = "up" /\ phase' = "unloading"
    /\ UNCHANGED <<rowVars, now, memVars, workerVars, starts, errs, history>>

\* Close, first part: the context is cancelled. Manager.Stop gets here with
\* the plugin still in the map.
CloseCancels ==
    /\ phase \in {"up", "unloading"} /\ phase' = "closing"
    /\ UNCHANGED <<rowVars, now, memVars, workerVars, starts, errs, history>>

\* Close, second part: all workers are gone or shutdownTimeout has passed.
CloseResets ==
    /\ phase = "closing" /\ phase' = "reset"
    /\ \/ /\ UNCHANGED errs
          /\ ResetRunning({t \in Tasks : status[t] = "running"})
       \/ DBError /\ UNCHANGED <<rowVars, history>>
    /\ UNCHANGED <<now, memVars, workerVars, starts>>

\* The service's memory is gone and its database handle refuses every
\* statement: workers left behind by a Close that timed out cannot touch the rows
\* any more.  They are not followed further: a callback that is still running
\* beside the service loaded next is outside the model.
ForgetService ==
    /\ phase' = "down"
    /\ conc' = [q \in Queues |-> 0]
    /\ retries' = [q \in Queues |-> 0]
    /\ signal' = [q \in Queues |-> FALSE]
    /\ wakeAt' = [q \in Queues |-> {}]
    /\ pc' = [w \in Slots |-> "none"]
    /\ held' = [w \in Slots |-> NoTask]
    /\ att' = [w \in Slots |-> 0]
    /\ UNCHANGED <<rowVars, now, starts, errs, history>>

\* Close, last part: db.Close.
CloseDB == phase = "reset" /\ ForgetService

Crash == Crashes /\ phase # "down" /\ ForgetService

newTaskQueueService ==
    /\ phase = "down" /\ starts < MaxStarts
    /\ phase' = "up" /\ starts' = starts + 1
    /\ UNCHANGED <<rowVars, now, memVars, workerVars, errs, history>>

-----------------------------------------------------------------------------
Init ==
    /\ status = [t \in Tasks |-> "absent"]
    /\ attempt = [t \in Tasks |-> 0]
    /\ maxRetries = [t \in Tasks |-> 0]
    /\ nextRun = [t \in Tasks |-> 0]
    /\ createdAt = [t \in Tasks |-> 0]
    /\ queueOf \in [Tasks -> {CHOOSE q \in Queues : TRUE}]
    /\ now = 0
    /\ conc = [q \in Queues |-> 0]
    /\ retries = [q \in Queues |-> 0]
    /\ signal = [q \in Queues |-> FALSE]
    /\ wakeAt = [q \in Queues |-> {}]
    /\ pc = [w \in Slots |-> "none"]
    /\ held = [w \in Slots |-> NoTask]
    /\ att = [w \in Slots |-> 0]
    /\ phase = "down" /\ starts = 0 /\ errs = 0
    /\ fails = [t \in Tasks |-> 0]
    /\ resets = [t \in Tasks |-> 0]

Host ==
    \/ \E q \in Queues, c \in 1..(MaxConcurrency + 1), r \in RetryChoices : CreateQueue(q, c, r)
    \/ \E t \in Tasks, q \in Queues : Enqueue(t, q)
    \/ \E t \in Tasks : Cancel(t)
    \/ \E q \in Queues : ClearQueue(q)

Life == unloadPlugin \/ CloseCancels \/ CloseResets \/ CloseDB \/ Crash \/ newTaskQueueService

Next ==
    \/ Host
    \/ \E w \in Slots : worker(w)
    \/ Tick
    \/ \E q \in Queues : TimerFires(q) \/ runCleanup(q)
    \/ Life

Spec == Init /\ [][Next]_vars

\* The Go scheduler runs every goroutine, timers fire, time passes and plugin
\* callbacks return (extism stops a call after its time-out).
Fairness ==
    /\ \A w \in Slots : WF_vars(worker(w))
    /\ \A q \in Queues : WF_vars(TimerFires(q))
    /\ WF_vars(Tick)

FairSpec == Spec /\ Fairness
-----------------------------------------------------------------------------
(* Properties                                                                *)

TypeOK ==
    /\ status \in [Tasks -> Statuses]
    /\ attempt \in [Tasks -> Nat]
    /\ maxRetries \in [Tasks -> Nat]
    /\ nextRun \in [Tasks -> Nat]
    /\ createdAt \in [Tasks -> Nat]
    /\ queueOf \in [Tasks -> Queues]
    /\ now \in Nat
    /\ conc \in [Queues -> 0..MaxConcurrency]
    /\ retries \in [Queues -> Nat]
    /\ signal \in [Queues -> BOOLEAN]
    /\ wakeAt \in [Queues -> SUBSET Nat]
    /\ pc \in [Slots -> PCs]
    /\ held \in [Slots -> Tasks \cup {NoTask}]
    /\ att \in [Slots -> Nat]
    /\ phase \in Phases
    /\ starts \in Nat /\ errs \in Nat
    /\ fails \in [Tasks -> Nat]
    /\ resets \in [Tasks -> Nat]

\* Until Close has put the running rows back, a worker with a task in hand owns
\* a row that is running, in its own queue, in the attempt the worker was told:
\* the unguarded updates of completeTask and handleTaskFailure overwrite nothing.
WorkerOwnsRow ==
    \A w \in Slots : Holding(w) =>
        /\ held[w] \in Tasks
        /\ queueOf[held[w]] = w[1]
        /\ phase \in {"up", "unloading", "closing"} =>
             status[held[w]] = "running" /\ attempt[held[w]] = att[w]

\* No task is in the hands of two workers of the service, whatever crashes,
\* time-outs of Close and restarts came before (the dequeue is atomic).  A callback
\* that outlives the Close of its service is no worker of the next one.
NoDoubleExecution ==
    \A v, w \in Slots : Holding(v) /\ Holding(w) /\ held[v] = held[w] => v = w

\* Attempts are accounted for exactly: the failures that were retried, the
\* attempts a restart threw away, and the one that is under way or ended it.
AttemptLedger ==
    \A t \in Tasks : status[t] # "deleted" =>
        attempt[t] = fails[t] + resets[t]
                     + (IF status[t] \in {"running", "completed", "failed"} THEN 1 ELSE 0)

\* "1 initial attempt + 2 retries = 3 total calls": more attempts than the
\* initial one and max_retries happen only to replace one a restart threw away.
AttemptBound ==
    \A t \in Tasks : status[t] # "deleted" =>
        attempt[t] <= maxRetries[t] + 1 + resets[t]

\* While no statement has failed, a running row of a created queue is in some
\* worker's hand: neither a crash nor a shutdown strands it.
NoStrandedTask ==
    (errs = 0 /\ CtxLive) =>
        \A t \in Tasks : (status[t] = "running" /\ Registered(queueOf[t])) =>
            \E w \in Slots : Holding(w) /\ held[w] = t

\* A completed, failed or cancelled row is only ever deleted, never revived: a
\* late worker of a timed-out Close cannot undo what Cancel did meanwhile.
TerminalIsFinal ==
    [][\A t \in Tasks : status[t] \in Terminal => status'[t] \in {status[t], "deleted"}]_vars

\* Every task of a created queue reaches a terminal status unless the service
\* stops: also a row that waits out its backoff across a restart, which has no
\* timer left and is found by polling. A row whose outcome a failing statement
\* did not record is in nobody's hand until the next load.
EveryTaskEnds ==
    \A t \in Tasks :
        (phase = "up" /\ status[t] \in {"pending", "running"} /\ Registered(queueOf[t]))
            ~> \/ status[t] \in Terminal \cup {"deleted"}
               \/ phase # "up"
               \/ errs > 0 /\ status[t] = "running" /\ \A w \in Slots : Holding(w) => held[w] # t
=============================================================================
