---------------------------- MODULE JobPoolService ----------------------------
(***************************************************************************)
(* The thread pool of phread_pool.c implements JobService: to its clients  *)
(* the mutex, the condition variables and the worker threads are invisible.*)
(***************************************************************************)
EXTENDS JobPool

Phase ==
    CASE freed                                    -> "gone"
      [] pool_close /\ ~freed                     -> "closed"
      [] queue_close /\ ~pool_close /\ ~freed     -> "closing"
      [] ~queue_close /\ ~pool_close /\ ~freed    -> "open"

Service == INSTANCE JobService WITH
    Room    <- Capacity,
    pending <- queue,
    running <- {pjob[w] : w \in {v \in Workers : pc[v] = "run"}},
    done    <- finished,
    phase   <- Phase

\* Every behaviour of the pool is a behaviour of the service: admission stops
\* at threadpool_destroy, no accepted job is dropped, duplicated or overtaken,
\* the pool closes only when drained and is freed only when nothing runs.
ImplementsService == Service!Spec

\* ... and, when the scheduler is fair, it makes the progress the service
\* promises: pending jobs start, running jobs finish, destruction completes.
ImplementsFairService == Service!FairSpec
===============================================================================
