------------------------------- MODULE JobPool -------------------------------
(***************************************************************************)
(* The bounded thread pool of Pthread/phread_pool.c.                       *)
(*                                                                         *)
(* A fixed set of worker threads takes jobs from a bounded FIFO guarded by *)
(* one mutex and three condition variables; any thread may add jobs; one   *)
(* call of threadpool_destroy closes the queue, waits until it is empty,   *)
(* closes the pool, joins the workers and frees the pool.                  *)
(*                                                                         *)
(* Everything the code does between taking the mutex and releasing it (by  *)
(* unlocking or by waiting) touches only state the mutex protects, so it   *)
(* is one action; taking the mutex is an action of its own, so a thread    *)
(* can be overtaken before it enters and the pool can go away while a      *)
(* thread is inside.  pc[t] names the critical section t is in or about to *)
(* enter, the condition variable t is blocked on, or where t is outside.   *)
(***************************************************************************)
EXTENDS Integers, Sequences, FiniteSets

CONSTANTS
    Workers,      \* the threads created by threadpool_init
    Clients,      \* the threads that call threadpool_add_job
    Destroyers,   \* the clients that may call threadpool_destroy
    Capacity,     \* queue_max_num
    Concurrent,   \* may a call overlap a threadpool_destroy of another client?
    MaxJobs,      \* bound: calls of threadpool_add_job
    MaxSpurious,  \* bound: spurious wakeups of pthread_cond_wait
    None          \* no thread holds the mutex

ASSUME PoolAssumption ==
    /\ Workers \cap Clients = {}
    /\ Destroyers \subseteq Clients
    /\ Capacity \in Nat
    /\ Concurrent \in BOOLEAN
    /\ MaxJobs \in Nat
    /\ MaxSpurious \in Nat
    /\ None \notin Workers \cup Clients

VARIABLES
    pc,             \* where each thread is
    mutex,          \* the thread that holds pool->mutex, or None
    queue,          \* the jobs on the list from pool->head on
    queue_cur_num,  \* the counter the code keeps beside the list
    queue_close,
    pool_close,
    freed,          \* free(pool) has been executed
    arg,            \* the job each client is adding, 0 when none
    pjob,           \* the job each worker has taken, 0 when none
    accepted,       \* history: jobs linked into the list, in order
    started,        \* history: jobs taken by a worker, in order
    finished,       \* history: jobs whose callback has returned
    calls,          \* number of threadpool_add_job calls so far
    closers,        \* the clients that have called threadpool_destroy
    spurious        \* number of spurious wakeups so far

Threads == Workers \cup Clients
Jobs    == 1..MaxJobs

control  == <<pc, mutex>>
list     == <<queue, queue_cur_num>>
flags    == <<queue_close, pool_close, freed>>
held     == <<arg, pjob>>
history  == <<accepted, started, finished>>
bounds   == <<calls, closers, spurious>>
vars     == <<control, list, flags, held, history, bounds>>

------------------------------------------------------------------------------
(* The pthread primitives the pool is built on. *)

\* The critical sections: the worker loop (137-165), threadpool_add_job
\* (97-127), and threadpool_destroy before and after its first wait (175-189).
Sections == {"take", "add", "close", "drain"}

\* The section a thread re-enters when its pthread_cond_wait returns.
Resume == [queue_not_empty |-> "take", queue_not_full |-> "add",
           queue_empty |-> "drain"]
Conds  == {"queue_not_empty", "queue_not_full", "queue_empty"}

Waiters(f, cv) == {t \in Threads : f[t] = cv}

\* Mutant: a signal where a broadcast is due.
BroadcastOne(f, cv) ==
    IF Waiters(f, cv) = {} THEN f
    ELSE [f EXCEPT ![CHOOSE t \in Threads : f[t] = cv] = Resume[cv]]

\* pthread_cond_broadcast(cv) when the threads are at f.
Broadcast(f, cv) == [t \in Threads |-> IF f[t] = cv THEN Resume[cv] ELSE f[t]]

\* pthread_cond_signal(cv) wakes one waiter, if there is one: any of them.
Signal(f, cv) ==
    IF Waiters(f, cv) = {} THEN {f}
    ELSE {[f EXCEPT ![t] = Resume[cv]] : t \in Waiters(f, cv)}

\* pthread_mutex_lock, also the one at the end of pthread_cond_wait.  On freed
\* memory it has no meaning: such a thread is what NoUseAfterFree is about.
Lock(t) ==
    /\ pc[t] \in Sections
    /\ mutex = None
    /\ ~freed
    /\ mutex' = t
    /\ UNCHANGED <<pc, list, flags, held, history, bounds>>

Inside(t, section) == mutex = t /\ pc[t] = section /\ ~freed

\* Mutant: a path that does not unlock.
LeaveLocked(t, to) == UNCHANGED mutex /\ pc' = [pc EXCEPT ![t] = to]

\* Leave the section for `to', releasing the mutex.
Leave(t, to) ==
    /\ mutex' = None
    /\ pc' = [pc EXCEPT ![t] = to]

\* A wakeup no signal asked for, which POSIX allows.
SpuriousWakeup(t) ==
    /\ spurious < MaxSpurious
    /\ pc[t] \in Conds
    /\ ~freed
    /\ spurious' = spurious + 1
    /\ pc' = [pc EXCEPT ![t] = Resume[pc[t]]]
    /\ UNCHANGED <<mutex, list, flags, held, history, calls, closers>>

------------------------------------------------------------------------------
Init ==
    /\ pc = [t \in Threads |-> IF t \in Workers THEN "take" ELSE "idle"]
    /\ mutex = None
    /\ queue = <<>>
    /\ queue_cur_num = 0
    /\ queue_close = FALSE
    /\ pool_close = FALSE
    /\ freed = FALSE
    /\ arg = [c \in Clients |-> 0]
    /\ pjob = [w \in Workers |-> 0]
    /\ accepted = <<>>
    /\ started = <<>>
    /\ finished = {}
    /\ calls = 0
    /\ closers = {}
    /\ spurious = 0

------------------------------------------------------------------------------
(* threadpool_add_job *)

\* A client enters threadpool_add_job with a job nobody has added before.
\* Unless calls may overlap, it does so only before any threadpool_destroy.
CallAdd(c) ==
    /\ pc[c] = "idle"
    /\ ~freed
    /\ Concurrent \/ closers = {}
    /\ calls < MaxJobs
    /\ calls' = calls + 1
    /\ arg' = [arg EXCEPT ![c] = calls + 1]
    /\ pc' = [pc EXCEPT ![c] = "add"]
    /\ UNCHANGED <<mutex, list, flags, pjob, history, closers, spurious>>

\* Mutant: the queue that is closed and not empty counts as open.
ClosingLate == pool_close

Closing == queue_close \/ pool_close

\* Mutant: the test for a full queue is off by one.
FullLate == queue_cur_num = Capacity + 1

Full == queue_cur_num = Capacity

\* The queue is full and open: wait for queue_not_full.
AddWait(c) ==
    /\ Inside(c, "add")
    /\ Full
    /\ ~Closing
    /\ Leave(c, "queue_not_full")
    /\ UNCHANGED <<list, flags, held, history, bounds>>

\* The queue is closed, or malloc of the job failed: return -1.
AddRefused(c) ==
    /\ Inside(c, "add")
    /\ Closing \/ ~Full
    /\ Leave(c, "idle")
    /\ arg' = [arg EXCEPT ![c] = 0]
    /\ UNCHANGED <<list, flags, pjob, history, bounds>>

\* The job is linked at the tail.  Only a job that finds the list empty wakes
\* the workers, and it wakes all of them.
AddAccepted(c) ==
    /\ Inside(c, "add")
    /\ ~Closing
    /\ ~Full
    /\ queue' = Append(queue, arg[c])
    /\ queue_cur_num' = queue_cur_num + 1
    /\ mutex' = None
    /\ pc' = LET back == [pc EXCEPT ![c] = "idle"]
             IN  IF queue = <<>> THEN Broadcast(back, "queue_not_empty") ELSE back
    /\ arg' = [arg EXCEPT ![c] = 0]
    /\ accepted' = Append(accepted, arg[c])
    /\ UNCHANGED <<flags, pjob, started, finished, bounds>>

------------------------------------------------------------------------------
(* threadpool_function, the worker thread *)

TakeWait(w) ==
    /\ Inside(w, "take")
    /\ queue_cur_num = 0
    /\ ~pool_close
    /\ Leave(w, "queue_not_empty")
    /\ UNCHANGED <<list, flags, held, history, bounds>>

TakeExit(w) ==
    /\ Inside(w, "take")
    /\ pool_close
    /\ Leave(w, "exited")
    /\ UNCHANGED <<list, flags, held, history, bounds>>

\* Mutant: the list is reset one job too early.
UnlinkedEarly(left) == IF left <= 1 THEN <<>> ELSE Tail(queue)

\* The list without its head: reset by the last job, or from the second job on.
Unlinked(left) == IF left = 0 THEN <<>> ELSE Tail(queue)

\* Take the job at the head.  The last job signals queue_empty, the job that makes the
\* queue not full any more wakes every blocked threadpool_add_job.
TakeJob(w) ==
    /\ Inside(w, "take")
    /\ queue_cur_num # 0
    /\ ~pool_close
    /\ queue_cur_num' = queue_cur_num - 1
    /\ queue' = Unlinked(queue_cur_num')
    /\ pjob' = [pjob EXCEPT ![w] = Head(queue)]
    /\ started' = Append(started, Head(queue))
    /\ mutex' = None
    /\ LET run == [pc EXCEPT ![w] = "run"]
       IN  \E f \in IF queue_cur_num' = 0 THEN Signal(run, "queue_empty") ELSE {run} :
              pc' = IF queue_cur_num' = Capacity - 1
                    THEN Broadcast(f, "queue_not_full") ELSE f
    /\ UNCHANGED <<flags, arg, accepted, finished, bounds>>

\* The callback runs outside the mutex; then the job is freed.
RunJob(w) ==
    /\ pc[w] = "run"
    /\ finished' = finished \cup {pjob[w]}
    /\ pjob' = [pjob EXCEPT ![w] = 0]
    /\ pc' = [pc EXCEPT ![w] = "take"]
    /\ UNCHANGED <<mutex, list, flags, arg, accepted, started, bounds>>

------------------------------------------------------------------------------
(* threadpool_destroy *)

\* A client enters threadpool_destroy.  Unless calls may overlap, it does so
\* when no other client is inside a call and none has destroyed the pool.
CallDestroy(c) ==
    /\ c \in Destroyers \ closers
    /\ pc[c] = "idle"
    /\ ~freed
    /\ Concurrent \/ (closers = {} /\ \A d \in Clients : pc[d] = "idle")
    /\ closers' = closers \cup {c}
    /\ pc' = [pc EXCEPT ![c] = "close"]
    /\ UNCHANGED <<mutex, list, flags, held, history, calls, spurious>>

\* Another call closed the queue first: return -1.
CloseRefused(c) ==
    /\ Inside(c, "close")
    /\ Closing
    /\ Leave(c, "idle")
    /\ UNCHANGED <<list, flags, held, history, bounds>>

\* Mutant: the pool is closed without waiting.
AwaitNothing(c) == Leave(c, "wake_workers") /\ pool_close' = TRUE

\* The loop at 183: wait while jobs are queued, then close the pool.
AwaitEmpty(c) ==
    IF queue_cur_num # 0
    THEN Leave(c, "queue_empty") /\ UNCHANGED pool_close
    ELSE Leave(c, "wake_workers") /\ pool_close' = TRUE

CloseQueue(c) ==
    /\ Inside(c, "close")
    /\ ~Closing
    /\ queue_close' = TRUE
    /\ AwaitEmpty(c)
    /\ UNCHANGED <<list, freed, held, history, bounds>>

DrainQueue(c) ==
    /\ Inside(c, "drain")
    /\ AwaitEmpty(c)
    /\ UNCHANGED <<list, queue_close, freed, held, history, bounds>>

\* Mutant: the workers are not woken.
WakeNobody(c) ==
    /\ pc[c] = "wake_workers"
    /\ pc' = [pc EXCEPT ![c] = "wake_adders"]
    /\ UNCHANGED <<mutex, list, flags, held, history, bounds>>

\* The two broadcasts at 190 and 191 are made without the mutex.
WakeWorkers(c) ==
    /\ pc[c] = "wake_workers"
    /\ pc' = Broadcast([pc EXCEPT ![c] = "wake_adders"], "queue_not_empty")
    /\ UNCHANGED <<mutex, list, flags, held, history, bounds>>

WakeAdders(c) ==
    /\ pc[c] = "wake_adders"
    /\ pc' = Broadcast([pc EXCEPT ![c] = "join"], "queue_not_full")
    /\ UNCHANGED <<mutex, list, flags, held, history, bounds>>

\* Mutant: the workers are not joined.
FreeUnjoined(c) ==
    /\ pc[c] = "join"
    /\ freed' = TRUE
    /\ queue' = <<>>
    /\ pc' = [pc EXCEPT ![c] = "idle"]
    /\ UNCHANGED <<mutex, queue_cur_num, queue_close, pool_close, held, history, bounds>>

\* Once every worker has been joined the pool and what is left of the list go.
JoinAndFree(c) ==
    /\ pc[c] = "join"
    /\ \A w \in Workers : pc[w] = "exited"
    /\ freed' = TRUE
    /\ queue' = <<>>
    /\ pc' = [pc EXCEPT ![c] = "idle"]
    /\ UNCHANGED <<mutex, queue_cur_num, queue_close, pool_close, held, history, bounds>>

------------------------------------------------------------------------------
WorkerStep(w) == Lock(w) \/ TakeWait(w) \/ TakeExit(w) \/ TakeJob(w) \/ RunJob(w)

AddStep(c) == AddWait(c) \/ AddRefused(c) \/ AddAccepted(c)

DestroyStep(c) ==
    \/ CloseRefused(c) \/ CloseQueue(c) \/ DrainQueue(c)
    \/ WakeWorkers(c) \/ WakeAdders(c) \/ JoinAndFree(c)

ClientStep(c) == Lock(c) \/ AddStep(c) \/ DestroyStep(c)

\* The pool is gone; the program may stop here.
Gone == freed /\ UNCHANGED vars

Next ==
    \/ \E w \in Workers : WorkerStep(w)
    \/ \E c \in Clients : ClientStep(c) \/ CallAdd(c) \/ CallDestroy(c)
    \/ \E t \in Threads : SpuriousWakeup(t)
    \/ Gone

Spec == Init /\ [][Next]_vars

\* The scheduler runs every thread that can run, and a callback returns.  No
\* client is forced to call anything, and no wakeup is spurious by necessity.
Fairness ==
    /\ \A w \in Workers : WF_vars(WorkerStep(w))
    /\ \A c \in Clients : WF_vars(ClientStep(c))

FairSpec == Spec /\ Fairness

------------------------------------------------------------------------------
(* Properties *)

WorkerPCs == {"take", "queue_not_empty", "run", "exited"}
ClientPCs == {"idle", "add", "queue_not_full", "close", "queue_empty", "drain",
              "wake_workers", "wake_adders", "join"}

Elements(s) == {s[i] : i \in DOMAIN s}

\* Threads are at points of their own code.
AtPoints(f) ==
    /\ f \in [Threads -> WorkerPCs \cup ClientPCs]
    /\ \A w \in Workers : f[w] \in WorkerPCs
    /\ \A c \in Clients : f[c] \in ClientPCs

\* Every variable has its type, the mutex is held only inside a section, and a
\* thread has a job where its code uses one.
TypeOK ==
    /\ AtPoints(pc)
    /\ mutex \in Threads \cup {None}
    /\ mutex # None => pc[mutex] \in Sections
    /\ queue \in Seq(Jobs)
    /\ queue_cur_num \in Nat
    /\ queue_close \in BOOLEAN /\ pool_close \in BOOLEAN /\ freed \in BOOLEAN
    /\ arg \in [Clients -> Jobs \cup {0}]
    /\ pjob \in [Workers -> Jobs \cup {0}]
    /\ \A c \in Clients : pc[c] \in {"add", "queue_not_full"} => arg[c] \in Jobs
    /\ \A w \in Workers : pc[w] = "run" => pjob[w] \in Jobs
    /\ accepted \in Seq(Jobs) /\ started \in Seq(Jobs)
    /\ finished \in SUBSET Jobs
    /\ calls \in 0..MaxJobs
    /\ closers \in SUBSET Clients
    /\ spurious \in 0..MaxSpurious

\* The counter threadpool_add_job and the worker test for full and empty agrees
\* with the list whose head they test and follow, and never passes the capacity.
CountMatchesList ==
    /\ queue_cur_num = Len(queue)
    /\ queue_cur_num <= Capacity

\* Jobs leave the queue in the order they were accepted, each once: what has
\* been started followed by what is queued is all that was ever accepted.
StartedInOrder == accepted = started \o queue

\* No thread stays blocked on a condition that holds.  The workers are only
\* woken by the job that finds the list empty, the adders only by the job whose
\* removal makes room, threadpool_destroy only by the last job; so a waiter
\* left behind while its condition holds might never be woken.  Once the pool is
\* closed a waiter of the first two kinds must still have a broadcast coming.
NoLostWakeup ==
    /\ queue_cur_num # 0 => Waiters(pc, "queue_not_empty") = {}
    /\ queue_cur_num # Capacity => Waiters(pc, "queue_not_full") = {}
    /\ queue_cur_num = 0 => Waiters(pc, "queue_empty") = {}
    /\ pool_close => \/ Waiters(pc, "queue_not_empty") = {}
                     \/ Waiters(pc, "wake_workers") # {}
    /\ pool_close => \/ Waiters(pc, "queue_not_full") = {}
                     \/ Waiters(pc, "wake_workers") \cup Waiters(pc, "wake_adders") # {}

\* The clients that have passed the gate at 176 and have not returned.
Destroying == {c \in Clients : pc[c] \in
                  {"queue_empty", "drain", "wake_workers", "wake_adders", "join"}}

\* However many threads call threadpool_destroy, one of them tears the pool
\* down and does it once: nobody else waits for queue_empty (a single signal is
\* sent), joins the workers or frees the pool, and nobody does after it is freed.
OneDestroyer ==
    /\ \A c, d \in Destroying : c = d
    /\ Destroying # {} => queue_close /\ ~freed

\* threadpool_destroy is graceful: when the pool is freed no accepted job was
\* dropped and every one of them has run to its end; no worker is left.
GracefulDestroy ==
    freed => /\ finished = Elements(accepted)
             /\ \A w \in Workers : pc[w] = "exited"

\* No thread is inside a call of the pool when its memory has been freed.
NoUseAfterFree == freed => \A t \in Threads : pc[t] \in {"idle", "exited"}

\* Every job threadpool_add_job has accepted is eventually executed, whatever
\* is destroyed meanwhile.
EveryJobRuns ==
    \A j \in Jobs : j \in Elements(accepted) ~> j \in finished

\* A threadpool_add_job blocked on a full queue eventually returns.
AddReturns == \A c \in Clients : pc[c] = "add" ~> pc[c] = "idle"

\* Once threadpool_destroy is called the pool is eventually torn down: the
\* queue drains, every worker notices the flag and is joined.
DestroyCompletes == closers # {} ~> freed

==============================================================================
