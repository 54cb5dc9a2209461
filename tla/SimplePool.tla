----------------------------- MODULE SimplePool ------------------------------
(***************************************************************************)
(* The unbounded thread pool of Pthread/phread_pool1.0.c and its main().   *)
(*                                                                         *)
(* The main thread enqueues jobs, polls queue_head without the lock until  *)
(* it is NULL, and destroys the pool.  thread_pool_destroy sets            *)
(* is_shutdown and broadcasts without the lock, so a worker's test of the  *)
(* flag (106) and its pthread_cond_wait (108) are steps of their own: the  *)
(* destroyer runs between them although the worker holds the lock.         *)
(***************************************************************************)
EXTENDS Integers, Sequences, FiniteSets

CONSTANTS
    Workers,      \* the threads created by thread_pool_init
    Main,         \* the thread that runs main()
    MaxJobs,      \* bound: calls of thread_pool_enqueue
    MaxSpurious,  \* bound: spurious wakeups of pthread_cond_wait
    None          \* no thread holds queue_lock

ASSUME SimplePoolAssumption ==
    /\ Main \notin Workers
    /\ IsFiniteSet(Workers)
    /\ MaxJobs \in Nat
    /\ MaxSpurious \in Nat
    /\ None \notin Workers \cup {Main}

VARIABLES
    pc,           \* where each thread is
    queue_lock,   \* the thread that holds it, or None
    queue,        \* the jobs on the list from queue_head on
    queue_tail,   \* the job queue_tail points to, 0 for NULL
    is_shutdown,
    job,          \* the job each worker has taken, 0 when none
    enqueued,     \* history: number of jobs enqueued; job n is the n-th
    started,      \* history: jobs taken by a worker, in order
    finished,     \* history: jobs whose function has returned
    spurious      \* number of spurious wakeups so far

vars == <<pc, queue_lock, queue, queue_tail, is_shutdown, job, enqueued, started,
          finished, spurious>>

Threads == Workers \cup {Main}
Jobs    == 1..MaxJobs

Waiters == {w \in Workers : pc[w] = "queue_not_empty"}

Init ==
    /\ pc = [t \in Threads |-> IF t = Main THEN "main" ELSE "take"]
    /\ queue_lock = None
    /\ queue = <<>>
    /\ queue_tail = 0
    /\ is_shutdown = FALSE
    /\ job = [w \in Workers |-> 0]
    /\ enqueued = 0
    /\ started = <<>>
    /\ finished = {}
    /\ spurious = 0

\* pthread_mutex_lock, also the one at the end of pthread_cond_wait.
Lock(t) ==
    /\ pc[t] \in {"take", "enqueue"}
    /\ queue_lock = None
    /\ queue_lock' = t
    /\ UNCHANGED <<pc, queue, queue_tail, is_shutdown, job, enqueued, started,
                   finished, spurious>>

\* A wakeup no signal asked for, which POSIX allows.
SpuriousWakeup(w) ==
    /\ spurious < MaxSpurious
    /\ w \in Waiters
    /\ spurious' = spurious + 1
    /\ pc' = [pc EXCEPT ![w] = "take"]
    /\ UNCHANGED <<queue_lock, queue, queue_tail, is_shutdown, job, enqueued,
                   started, finished>>

------------------------------------------------------------------------------
(* main and thread_pool_enqueue *)

CallEnqueue ==
    /\ pc[Main] = "main"
    /\ enqueued < MaxJobs
    /\ pc' = [pc EXCEPT ![Main] = "enqueue"]
    /\ UNCHANGED <<queue_lock, queue, queue_tail, is_shutdown, job, enqueued,
                   started, finished, spurious>>

\* Mutant: only the job that finds the list empty signals.
SignalledFirst(f) ==
    IF Waiters = {} \/ queue # <<>> THEN {f}
    ELSE {[f EXCEPT ![w] = "take"] : w \in Waiters}

\* Mutant: nobody signals.
SignalledNever(f) == {f}

\* pthread_cond_signal when the threads are at f: it wakes a waiter, if any.
Signalled(f) ==
    IF Waiters = {} THEN {f} ELSE {[f EXCEPT ![w] = "take"] : w \in Waiters}

\* The job goes behind queue_tail, or becomes the list when that is NULL.  Were
\* queue_tail a node no longer on the list, the job would hang from that node.
\* One waiter is signalled for each job.
Enqueue ==
    /\ pc[Main] = "enqueue"
    /\ queue_lock = Main
    /\ enqueued' = enqueued + 1
    /\ queue_tail' = enqueued + 1
    /\ queue' = IF queue_tail = 0 THEN <<enqueued + 1>>
                ELSE IF queue # <<>> /\ queue[Len(queue)] = queue_tail
                     THEN Append(queue, enqueued + 1) ELSE queue
    /\ queue_lock' = None
    /\ pc' \in Signalled([pc EXCEPT ![Main] = "main"])
    /\ UNCHANGED <<is_shutdown, job, started, finished, spurious>>

\* main starts to poll queue_head, which it reads without the lock.
StartPolling ==
    /\ pc[Main] = "main"
    /\ pc' = [pc EXCEPT ![Main] = "poll"]
    /\ UNCHANGED <<queue_lock, queue, queue_tail, is_shutdown, job, enqueued,
                   started, finished, spurious>>

\* Mutant: main destroys the pool without waiting.
SeesAnything ==
    /\ pc[Main] = "poll"
    /\ pc' = [pc EXCEPT ![Main] = "destroy"]
    /\ UNCHANGED <<queue_lock, queue, queue_tail, is_shutdown, job, enqueued,
                   started, finished, spurious>>

SeesEmpty ==
    /\ pc[Main] = "poll"
    /\ queue = <<>>
    /\ pc' = [pc EXCEPT ![Main] = "destroy"]
    /\ UNCHANGED <<queue_lock, queue, queue_tail, is_shutdown, job, enqueued,
                   started, finished, spurious>>

------------------------------------------------------------------------------
(* thread_pool_destroy, which never takes queue_lock *)

Shutdown ==
    /\ pc[Main] = "destroy"
    /\ is_shutdown' = TRUE
    /\ pc' = [pc EXCEPT ![Main] = "broadcast"]
    /\ UNCHANGED <<queue_lock, queue, queue_tail, job, enqueued, started, finished,
                   spurious>>

Broadcast ==
    /\ pc[Main] = "broadcast"
    /\ pc' = [t \in Threads |-> IF t = Main THEN "join"
                                ELSE IF t \in Waiters THEN "take" ELSE pc[t]]
    /\ UNCHANGED <<queue_lock, queue, queue_tail, is_shutdown, job, enqueued,
                   started, finished, spurious>>

\* Every worker is joined, the lock and the condition variable are destroyed.
Join ==
    /\ pc[Main] = "join"
    /\ \A w \in Workers : pc[w] = "exited"
    /\ pc' = [pc EXCEPT ![Main] = "returned"]
    /\ UNCHANGED <<queue_lock, queue, queue_tail, is_shutdown, job, enqueued,
                   started, finished, spurious>>

------------------------------------------------------------------------------
(* thread_function, the worker thread *)

\* The test at 106 comes out true: the worker will wait, and still has the lock.
FindNothing(w) ==
    /\ pc[w] = "take"
    /\ queue_lock = w
    /\ queue = <<>> /\ ~is_shutdown
    /\ pc' = [pc EXCEPT ![w] = "found_nothing"]
    /\ UNCHANGED <<queue_lock, queue, queue_tail, is_shutdown, job, enqueued,
                   started, finished, spurious>>

\* pthread_cond_wait releases the lock and blocks in one step.
Wait(w) ==
    /\ pc[w] = "found_nothing"
    /\ queue_lock' = None
    /\ pc' = [pc EXCEPT ![w] = "queue_not_empty"]
    /\ UNCHANGED <<queue, queue_tail, is_shutdown, job, enqueued, started,
                   finished, spurious>>

Exit(w) ==
    /\ pc[w] = "take"
    /\ queue_lock = w
    /\ is_shutdown
    /\ queue_lock' = None
    /\ pc' = [pc EXCEPT ![w] = "exited"]
    /\ UNCHANGED <<queue, queue_tail, is_shutdown, job, enqueued, started,
                   finished, spurious>>

\* Mutant: the pointer to the last node is not reset.
TailKept(left) == queue_tail

\* queue_tail once `left' is the list.
TailAfter(left) == IF left = <<>> THEN 0 ELSE queue_tail

Take(w) ==
    /\ pc[w] = "take"
    /\ queue_lock = w
    /\ queue # <<>> /\ ~is_shutdown
    /\ job' = [job EXCEPT ![w] = Head(queue)]
    /\ started' = Append(started, Head(queue))
    /\ queue' = Tail(queue)
    /\ queue_tail' = TailAfter(queue')
    /\ queue_lock' = None
    /\ pc' = [pc EXCEPT ![w] = "run"]
    /\ UNCHANGED <<is_shutdown, enqueued, finished, spurious>>

\* The job's function runs without the lock; then the job is freed.
Run(w) ==
    /\ pc[w] = "run"
    /\ finished' = finished \cup {job[w]}
    /\ job' = [job EXCEPT ![w] = 0]
    /\ pc' = [pc EXCEPT ![w] = "take"]
    /\ UNCHANGED <<queue_lock, queue, queue_tail, is_shutdown, enqueued, started,
                   spurious>>

------------------------------------------------------------------------------
WorkerStep(w) == Lock(w) \/ FindNothing(w) \/ Wait(w) \/ Exit(w) \/ Take(w) \/ Run(w)

MainStep == Lock(Main) \/ CallEnqueue \/ Enqueue \/ StartPolling \/ SeesEmpty
            \/ Shutdown \/ Broadcast \/ Join

Next ==
    \/ \E w \in Workers : WorkerStep(w) \/ SpuriousWakeup(w)
    \/ MainStep

Spec == Init /\ [][Next]_vars

\* Every thread that can run is run, and a job's function returns.
FairSpec == Spec /\ WF_vars(MainStep) /\ \A w \in Workers : WF_vars(WorkerStep(w))

------------------------------------------------------------------------------
(* Properties *)

\* Jobs are started in the order they were enqueued, and those not started are
\* all on the list; none hangs from a node that has been unlinked and freed.
StartedInOrder == started \o queue = [n \in 1..enqueued |-> n]

\* One signal per job is enough: while the pool is open, a worker sleeps only if
\* there are as many workers awake to take jobs as there are jobs queued.  A job
\* is never left to wait for a busy worker while another one sleeps.
AwakeForEachJob ==
    ~is_shutdown /\ Waiters # {} =>
        Len(queue) <= Cardinality({w \in Workers : pc[w] \in {"take", "found_nothing"}})

\* main's unlocked poll and the join together wait for all the jobs: when
\* thread_pool_destroy returns every job has run to its end.
AllDoneAtReturn == pc[Main] = "returned" => finished = 1..enqueued

\* Every job is executed, although main destroys the pool without the lock.
EveryJobRuns == \A j \in Jobs : j <= enqueued ~> j \in finished

\* thread_pool_destroy waits for the workers' exit and returns
\* (phread_pool1.0.c:50 and :155).
DestroyReturns == pc[Main] = "join" ~> pc[Main] = "returned"

==============================================================================
