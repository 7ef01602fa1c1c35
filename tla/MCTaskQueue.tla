----------------------------- MODULE MCTaskQueue -----------------------------
(* The task queue on small instances.                                        *)
EXTENDS TaskQueue

\* Every task is retried once: it fails, waits out its delay, fails for good.
OneRetry == {1}
\* A queue with a rate limiter and one without.
LimitedQueues == {CHOOSE q \in Queues : TRUE}
=============================================================================
