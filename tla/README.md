# A TLA+ verification project for linux-system-code

The repository is a collection of systems programs in C and C++: thread pools
and producer/consumer programs on pthreads (`Pthread/`), a network test in two
halves with a small echo client and server (`network/`), a shell (`myShell/`)
and an `ls` (`ls_command/`).  They share no code.  This directory holds TLA+
models of all of them that can be built, the TLC configurations that check them on small
instances, and theorems that TLAPS checks for every value of the constants: one
for each safety property of a passing run.

Paths below are relative to the repository's root.

## 1. Inventory

| Component | Source | State | Operations | Hard behaviour | What makes it correct |
|---|---|---|---|---|---|
| Bounded job pool | `Pthread/phread_pool.c` | list of jobs, its counter, two flags, a mutex, three condition variables | `threadpool_init`, `threadpool_add_job`, `threadpool_function` (the worker), `threadpool_destroy` | selective wakeups, concurrent destruction, freeing memory others may use | order and bound of the queue, no lost wakeup, one graceful destruction, progress |
| Unbounded thread pool | `Pthread/phread_pool1.0.c` | list with a tail pointer, one flag, a lock, one condition variable | `thread_pool_init`, `thread_pool_enqueue`, `thread_function`, `thread_pool_destroy`, `main`'s polling loop | flag, broadcast and polling without the lock | order, one signal per job suffices, all jobs done at the return, the destruction ends |
| Semaphore producers and consumers | `Pthread/信号量.c` | list, mutex, two semaphores | `producer`, `consumer` | initial values of the semaphores, balance of waits and posts | slots and tokens accounted for, no thread starves, no NULL is followed |
| Message queues on a condition variable | `Pthread/condlock.c`, `Pthread/生产与消费.c` | list, mutex, condition variable | `enqueue_msg`/`producer`, `proccess_msg`/`consumer` | wakeup after the unlock, spurious wakeups | no message is left to a sleeping consumer |
| Network test server | `network/test_server.cpp` | map from index to answer and message, three counters, a status | gRPC `AnswerRegister` and `ResultQuery`, `commit` from the TCP loop | calls of several threads in any order, entries deleted and made anew | the map holds exactly the live entries, the verdict blames the right side |
| Network test client | `network/test_client.cpp` | two counters, a message buffer | `SendAnswer`, `Check`/`QueryStatus`, `genAsciiMsg`/`genBinMsg`, `main`'s sending loop | failed calls, `uint32_t` counters that start at -1, two connections | answers precede messages, messages stay in order, success means compared |
| Object table with two locks | `Pthread/hashlock.c` | hash chains, a counter, reference counts | `foo_alloc`, `foo_hold` | a counter updated under the wrong lock | no lost update, reference counts |
| Managed pool 2.0 | `Pthread/pthread_pool2.0.c/.h` | list, counters of live, busy and leaving threads | `threadPoolAdd`, `worker`, `manager`, `threadPoolDestroy`, `threadExit` | a manager that grows and shrinks the pool; the file does not link | thread counts stay between their limits, jobs run |
| Shell | `myShell/myshell3.c` | commands of a line, directories, descriptors, children | splitting, execution, pipes, redirections, `cd` | fork/exec/wait, background jobs, descriptor hygiene | each stage runs once, the prompt waits for its command |
| ls | `ls_command/ls.3.c` | a table of files, a count | `do_ls`, `ls_R`, `sort`, `dostat` | recursion that shares the table | sizes belong to their files, sorting |
| Echo client and server | `network/客户端.cpp`, `network/服务端.cpp` | a connection | `connect_retry`, `serve` | retries, a forked child that does not exit | bounded retries, one answer per request |
| C server sketch, server binary, notes | `network/服务端.c`, `network/服务端`, `blog/` | - | - | - | nothing to model: the sketch does not compile, the others are not source |

Within a program the parts interact through memory guarded by locks (the pools
and queues), through two connections (the network test: gRPC for answers and
queries, TCP for messages, and in the client a blocking buffer between the
tester thread and `main`), or through processes and descriptors (shell, echo).

`PROJECT.json` lists the places where each of these can go wrong (`hazards`),
with the properties that watch them.

## 2. Modules and plan

Written so far, in this order:

| Module | Extends | Content |
|---|---|---|
| `JobPool` | | the bounded job pool |
| `JobService` | | what a job pool promises its clients: the abstract specification |
| `JobPoolService` | `JobPool` | the refinement mapping from the pool to the service |
| `JobPoolProofs` | `JobPoolService` | the theorems about the pool, and that it implements the service |
| `SimplePool`, `SimplePoolProofs` | | the unbounded pool and its `main`; the theorems about them |
| `SemBuffer`, `SemBufferProofs` | | the semaphore program; the theorems about it |
| `CondQueue`, `CondQueueProofs` | | both message queues; the theorem about them |
| `NetTestServer` | | the class `NetworkTestServer`: state, the three operations, its properties |
| `NetTest` | `NetTestServer` | client, connections and server together |
| `MCNetTest` | `NetTest` | values for TLC |
| `NetTestProofs` | `NetTest` | the theorems about the network test |
| `Shell` | | the shell, its children, their pipes and the file they are redirected to |
| `Ls` | | the table of `ls`, from the arguments to the printed lines |
| `Echo` | | echo client and server on one connection |
| `HashLock` | | the object table of `hashlock.c` |
| `Programs` | instances of the last four | these four programs in one specification |
| `MCPrograms` | `Programs` | values for TLC |
| `HashLockProofs`, `EchoProofs` | `HashLock`, `Echo` | their inductive invariants |
| `ProgramsProofs` | `Programs` | the theorems about the four programs, and the invariants of `Shell` and `Ls` |

Left, in this order:

1. A bounded buffer as the abstract specification of `SemBuffer`, and a test that
   compares message n with answer n as that of `NetTest`, with the proofs that the
   two programs implement them.
2. The shell's second shell: a child whose `execvp` fails, as a further instance
   on the same terminal.

## 3. How the models correspond to the code

### JobPool

A thread is at one place, `pc[t]`: in or before a critical section (`take` for
the worker's 137-165, `add` for `threadpool_add_job`'s 97-127, `close` and `drain`
for `threadpool_destroy` before and after its first wait), blocked on a condition
variable (the variable's name), or outside.  All data is protected by
`pool->mutex`, so what a thread does from getting the mutex to giving it up, by
unlocking or by waiting, is one action; getting the mutex is the action `Lock`.
A return from `pthread_cond_wait` is the same `Lock`, after which the code's
`while` tests its condition again.  What the code does without the mutex is an
action of its own: running the callback (167), the two broadcasts of
`threadpool_destroy` (190, 191), the joins and the frees (193-210).

`queue` is the list from `head`, `queue_cur_num` the counter beside it, and the
code's tests use the counter exactly where the C code does; that they agree is
a property, not an assumption.  Jobs are numbers in the order of the calls.
`accepted`, `started` and `finished` are history.

`malloc` may fail in `threadpool_add_job`; the call then returns -1, so it is the
refusal of a closed queue (`AddRefused`) with a weaker guard.  Once the pool is
freed, locking it means nothing; `Lock` is disabled then, and `NoUseAfterFree` is
the statement that no thread is left in that position.  `threadpool_init` is the
initial state: its workers are created and have not run yet.  That
`pthread_create` is not checked (82) is left out.

Each client calls `threadpool_destroy` at most once and each may be a different
thread.  The constant `Concurrent` says whether calls may overlap a
`threadpool_destroy` of another client.  The code provides for it (the tests of the
flags at 98, 102 and 176, the broadcast at 191), its `main` never does it.
With a capacity of at least 1 nobody is blocked on `queue_not_full` when line 191
is reached, since the queue has drained; the broadcast matters for capacity 0,
which the theorems include.

### JobService, JobPoolService

The service has a sequence of pending jobs, a set of running and one of finished
jobs and a phase (open, closing, closed, gone).  The mapping takes the queue, the
jobs of the workers at `run`, `finished`, and reads the phase off the two flags and
`freed`.

### SimplePool

As above, with one difference that matters: `thread_pool_destroy` sets the flag
and broadcasts without the lock.  So the worker's test (106) and its wait (108)
are two actions (`FindNothing`, `Wait`), and `main` can run between them.  `main`'s
polling loop reads `queue_head` without the lock (156); between two reads it calls
`sleep`, and the pool's address has escaped, so every read goes to memory.  A
worker's `Take` stays one action: `main` sees the list empty as soon as the head is
moved (120), and nothing it does then is seen by the worker before it locks again.

### SemBuffer, CondQueue

The nodes carry a number nobody uses again, so the list is its length.  A thread
that has passed `sem_wait` is at `link` or `unlink`, one that has left the critical
section at `sem_post`.  In `UnlinkNull` the consumer follows `head` when it is NULL;
the program then stops (`crashed`).  `CondQueue` models two programs that differ in
`pthread_cond_signal` (condlock.c:40) and `pthread_cond_broadcast` (生产与消费.c:29):
each `Wake` may do either, so what holds, holds for both.  Both wake after the
unlock, so `Link` and `Wake` are separate.

### NetTestServer, NetTest

`AnswerRegister`, `ResultQuery` and `commit` hold `mtx` from beginning to end and are
one action each.  `info` is the map; the entry that stops `Update` is deleted and
left in the map (71), which is the value `Deleted`.  `Updated`, `Compared` and `Left`
are what `Update` leaves in `status`, `cmp` and `info`, `Verdict` the cascade of
returns after it.  Registering over an existing entry replaces it (51).

The client's tester thread is a small program: `gen`, `answer`, `push`, `check`;
its `main` pops and sends, the server's `main` receives and commits.  A message's
content is a model value; `Cut` is what is left of it when `recvMsg` builds a string
from a char pointer.  `SendSeq` and `SuccessMaxIdx` are `uint32_t` and start at -1:
they live modulo `Modulus`.  The C++ code throws on a failed test and not on a
failed call (62 and 77 only construct the exception), which is `SendAnswerFails`.

External, modelled from their use: `MsgBuf` (a FIFO whose `pop` blocks), the
`TestStatus` values (`Diff` and `TestError` are at or above `ErrorLevel`, the others
below, `Success` is the default), gRPC and its threads, the TCP connection (FIFO
until the client exits; then `readn` spins and no state changes any more).  `writen`
is one step: a blocking `write` is partial only when a signal handler interrupts
it, and the client installs none.  Not modelled: a failed `connect`, a reset
connection, the sleeps in `Check` and `RunClientTest` (they change nothing the
other threads cannot do at any time).

### Shell

The shell is at one `place`: the prompt, the dispatch of `execute`, or inside one of
the functions it calls.  A line is a sequence of words; `command_split` makes the
vertices of it, a word that only begins like an operator (`&&`) ends a vertex with
sign 0.  `L` is the array of the 8 signs, which is never cleared: a line overwrites its
own vertices and leaves the others as earlier lines have.  `here` is the vertex that a
function's own pointer `L` has come to.  `Split` says which lines there are: with a last
vertex without sign, at most seven vertices, and `<` only as the first operator.  A child is a
record in `procs`; the index is its pid.  What a command does is external: it writes
chunks, reads its pipe, ends.  The code's own steps:

- `execute_exe` forks and waits, or polls once for a background job.  `Wait` takes
  any child that has ended, as `wait(NULL)` does, and returns at once if there is none.
- Both redirections fork first and open afterwards, in the shell and in the child;
  with `O_TRUNC` each open empties `file`.  A descriptor has its own offset, so a
  write after a truncation leaves a hole (0); `O_APPEND` writes at the end.
- `Stage` is one round of the loop of `execute_pipe`: pipe, fork, close of the shell's
  write end.  The loop ends before the last stage is forked.  `Onward` is 136 and 137, one
  after the other: past `|` by one vertex, and past a `>` found there by two.  So after
  `a | b > g` the code is behind `g`, at what an earlier line has left: mostly no sign, and
  the output goes to the terminal, or a sign that starts one more stage, opens another
  file (`OpenSink`) or leaves the output unread.  `ReadPipe` decrements
  `i` with each read as the code does, and `ReadGarbage` is the read of `pipes[-1]`:
  what the stack holds there is no open descriptor, or one whose data is copied to
  the output before the next read fails; either way nobody is waited for.
- `execute_cddir` keeps `curdir2` and `olddir`.  A directory is a model value and its name
  (`Name`) a sequence of pieces, as far as needed to say which name is longer and which
  goes on where another ends.  `Moved` is the `memmove` without the NUL: what lies behind
  the new name stays, and the result may be the name of a directory or of none.  `getcwd`
  leaves its buffer as it is when the name does not fit into `MAXPATH` (`Fits`).  `been` is
  history: where the shell was before the cds before the last.

A child whose `execvp` fails ends in `execute_exe`.  In a pipeline or a redirection it
goes on as a second shell; the model has it as a child that runs on.  Children do
not move any more once the shell is gone.  The file a pipeline's output goes to
(148-169) is taken to be another than the one redirections name, also where the name
is what an earlier line has left.

### Ls

`ls` is the array and `count` its own counter, `m` and `n` are `i` and `j` of `sort`, and each
comparison is a step.  `Entry` is what `do_ls` writes to row
`count`, `ls_R` what the function of that name writes to the row after it.  readdir
returns the files in any order; a file may be gone when `lstat` or `stat` looks for
it; `opendir` may fail.  Nothing tests `count`: the file whose own row is the last has
its path and size written behind the array by `ls_R` (61, 66).  That is the step
`Overrun`, after which nothing is said of the program, since the outcome is the
build's.  Both branches of the test of option `a` do the same, so it
is not in the model.

### Echo

Requests are numbered as they are sent; a connection is two FIFO sequences, of
which a `recv` takes any non-empty part.  The client's `print_uptime` is one such
`recv`.  In the server, `serve` shows the first request of what it has received and
forks; the child's way is `Answer` (the operator's line) and `ChildFails` (back in the
loop, `recv` on the closed descriptor fails and the message goes to the client, since
the child's standard error is the connection; three writes).  When the client has
closed, `recv` returns 0 and the last request is served again (`ServeNothing`); when it
has closed with answers unread, `recv` fails (`RecvFails`).  A write of the child that meets the reset of the
connection takes the socket's error with it, so the next `recv` returns 0.
`Rebuf[npos] = 0` writes the byte before the buffer: harmless, or the end of the server in a build that checks.

### HashLock

Reads and writes of what threads share are separate steps: the head of a chain
(32, 33), a count (45), `number` (36).  `hashlock` is taken and released with the first
and the last of them.  `f_lock` is taken while `hashlock` is held and nobody else can
have it, so `number++` is in effect under no common lock.  An `f_next` never changes,
so a chain is the sequence from its head on.

## 4. What is checked

| Run | Instance | Shows |
|---|---|---|
| `pool_concurrent` | 2 workers, 2 clients that both add and destroy at any time, capacity 2, 3 jobs, 1 spurious wakeup | the safety properties of the pool, that it implements the service with its fairness, and that a destruction ends |
| `pool_serial` | the same with calls that do not overlap a destruction, one destroyer, 4 jobs | the freed pool is not touched, every accepted job runs, a blocked `threadpool_add_job` returns |
| `pool_freed` | capacity 1, 2 jobs, overlapping calls | **violated**: a call can be inside the pool when it is freed |
| `simple` | 3 workers, 4 jobs, 1 spurious wakeup | order, one signal per job is enough, all jobs are done when the destruction returns |
| `simple_hang` | 2 workers, 1 job | **violated**: `thread_pool_destroy` may never return |
| `sem` | 4 producers, 4 consumers, the semaphores of `main` (5 and 2) | slots and tokens accounted for, no starvation as a whole |
| `sem_null` | 2 and 2 | **violated**: a consumer follows a NULL head |
| `queue` | 3 producers, 3 consumers, at most 3 messages, 1 spurious wakeup | each message has a thread that will see to it |
| `nettest` | 3 messages (empty, text, binary), 1 fault, queries up to 4 by others | the server's map and counters, order of answers and messages, finality of failure |
| `nettest_pass` | no fault | **violated**: success is announced without a comparison |
| `nettest_diff` | no fault | **violated**: equal messages are reported as different |
| `programs` | the shell: 20 kinds of line, 3 lines, 4 directories, children up to 2 and those of one more line, pipes of 1 chunk; `ls`: 5 files, 3 directories, a table of 5 rows, options s, r, l; echo: 2 addresses, 4 requests, `MAXSLEEP` 128; hashlock: 2 threads, 3 objects on 2 chains, 2 holds | what each of the four programs keeps, see below |

The five violations are disagreements between the code and what its comments or
messages say; `findings` in `PROJECT.json` quotes both sides.

What each property says is in the comment above it.  The ones a reader should
look at first: `NoLostWakeup` (the pool wakes selectively, and a waiter left behind
while its condition holds might sleep for ever), `GracefulDestroy`,
`ImplementsFairService`, `AwakeForEachJob`, `EntriesLive` (the map has a live entry
for every index above `cmp` seen on either connection, and no other), `AnswerFirst`.

Of the run `programs`, in which `program` is chosen in the first state and the other
three programs stay where they start:

- `ForegroundWaited`: the prompt returns before a foreground command is collected
  only if `wait` took a background job's or a pipeline's child instead, one for one.
- `WaitReturns`: the shell is never left waiting for a child that a full pipe blocks,
  but after `a < f`, where the loop over the stages has stopped at the sign of `&`, and
  after a pipeline that has forked two stages.  In these the shell does hang when the
  output does not fit the pipe.  The sign of `&` is that of `a | b &`, or, after
  `a | b > g`, one that an earlier line has left two vertices past the `>`.
- `OutputKept`: `>>` never loses output; `>` loses it only when the shell's own open is
  late.  That it can is the code's order of fork and open, and is reachable.
- `DashReturns`: a `cd -` that succeeds goes back exactly when the name of the directory
  left last was stored and no longer name has been moved to `olddir` before it.
  Otherwise it ends the shell or leads elsewhere: from `/start`, after `cd /home/user`,
  `cd ..` and `cd /tmp`, it leads to `/home/user` and not to `/home`.
- `RowsAreFiles`, `SizesBehind`: names and paths are right although `ls_R` writes to the
  next row, until the table is overrun, for which it takes as many files as it has
  rows (the comment at ls.h:14 says that many can be stored); the sizes are those of the file before, so `-s` sorts by the wrong ones.
- `RetriesBounded`, `SomethingComes`, `ShownOnce`: the back-off; no client waits in vain
  although requests merge and answers lag; no request is shown twice while it could
  be another.
- `TableComplete`, `NumberCounts`: what `hashlock` guards is exact under any
  interleaving; `number` is exact only when no two allocations met inside `number++`.

### Bounds, and why they are enough

- `MaxJobs` (calls of `threadpool_add_job`, jobs of `SimplePool`): more jobs than
  the capacity, so the queue is full with another client waiting, and more jobs
  than workers, so workers go round.
- `Capacity` = 2: full, empty and neither are three different states; with
  capacity 1 the last job's signal and the room's broadcast coincide, which
  `pool_freed` uses.
- Two workers and two clients: the wakeup races need one thread to take what
  another was woken for.  `AwakeForEachJob` counts threads and gets three workers.
- `MaxSpurious` = 1: one spurious wakeup at any moment of the run.
- `MaxQueued` = 3 in `CondQueue`: as many messages as consumers.
- `SemBuffer` needs no bound: its semaphores bound it, and the instance has the
  values of `main` with four threads of each kind.
- `Messages` = 3, `MaxFaults` = 1, `Modulus` = 8 in `NetTest`: three messages allow
  two that are registered and not compared behind one that is; a fault puts
  answers and messages out of step; `Modulus` only has to exceed the number of
  messages, since what matters is that -1 is its largest value.

- `MaxProcs`, `MaxLines` in `Shell`: a background job, a pipeline and a foreground
  command can be there at once, and two redirections; three lines are two `cd`s and one
  that goes back, or a line that leaves a sign, a pipeline that finds it and one more.
  `MAXPATH` = 3: of the names `h`, `hu`, `s` and `hud` the last is too long, the first the
  beginning of the second, where the shell starts.  `PipeCap` = 1 with `MaxOut` = 2
  makes a pipe full.
- `Rows` = 5 with five files in three directories: two directories fit the table and
  the third overruns it.
- `MaxRequests` = 4: three requests can be in one `recv` while answers lag.
- `NHASH` = 2 with identifiers 0, 1, 2: two objects share a chain, one has its own.

Runs with `CHECK_DEADLOCK FALSE` are of programs that end or hang: `SimplePool`
(returns, or hangs in `pthread_join`), the programs of `Programs` (they end, or wait for
input), `SemBuffer` (stops when a consumer faults),
`NetTest` (the client exits).  `JobPool` has the explicit step `Gone` instead and is
checked for deadlock; so is `CondQueue`.

### Fairness

`WF` on each worker's and each client's own steps: the scheduler runs every
thread that can run, and callbacks return.  A weakly fair thread that wants the
mutex may be overtaken; the properties hold nevertheless because a thread that
can overtake for ever would have to find work for ever, and the jobs are finite.
In `SemBuffer`, where threads run for ever, `KeepsMoving` speaks of some producer
and some consumer and not of each.  Nobody is forced to call the pool, to enqueue
or to wake up spuriously.  `NetTest` has only safety properties: its client exits
at any time and gRPC promises nothing.  So have the programs of `Programs`: they wait
for a user, an operator or a command that owes them nothing.  `WaitReturns` and
`SomethingComes` say in every state that somebody else can still move.

## 5. What is proved

Every invariant of a passing run, and every action property, is a theorem of its
specification.  TLC shows it on the instance of section 4, the theorem for every
value of the constants that the module's `ASSUME` admits.

### The bounded job pool (`JobPoolProofs`)

| Theorem | Property |
|---|---|
| `TypeCorrect` | `TypeOK` |
| `CountCorrect` | `CountMatchesList`: counter and list agree, within the capacity |
| `FirstInFirstOut` | `StartedInOrder`: what was accepted is what was started followed by the queue |
| `WakeupsSuffice` | `NoLostWakeup` |
| `DestroyedOnce` | `OneDestroyer` |
| `DestroyIsGraceful` | `GracefulDestroy` |
| `PoolImplementsService` | `ImplementsService`: the pool implements `JobService` |
| `NobodyInsideWhenFreed` | `NoUseAfterFree`, if calls do not overlap a destruction |

They hold for any sets of workers and clients, any capacity, any number of jobs and
spurious wakeups, all but the last with or without overlapping calls.
`PoolAssumption` of `JobPool` says that workers and clients are different threads,
the destroyers are clients, the bounds are natural numbers, `None` is no thread.
`NobodyInsideWhenFreed` assumes `~Concurrent`, as the repository's `main` has it;
without it the property is false (`pool_freed`).

The argument is one inductive invariant, `IInv`.  The properties alone are not
inductive, for two reasons.

- `NoLostWakeup` needs the destruction's place to agree with the flags: if a
  destroyer could be at `wake_workers` twice, or the pool be closed with jobs
  queued, a broadcast could be missing.  `LifeCycle` says which flags hold at
  each place of a destroyer, that a closed pool has an empty queue, that nobody
  is in `drain` once the pool is closed, and that workers exit only then.
- `GracefulDestroy` needs to know where every accepted job is.  `Accounted` says
  that each started job is finished or held by a worker at `run`, and that only
  started jobs are either.

`IInv` is the conjunction of `TypeOK`, `CountMatchesList`, `StartedInOrder`,
`NoLostWakeup`, `OneDestroyer`, `LifeCycle` and `Accounted`.  A lemma per conjunct,
or per pair of them, shows that `Next` preserves it, with one step per action;
`BroadcastFacts`, `SignalFacts`, `AddAcceptedPC`, `TakeJobPC`, `WakeWorkersPC` and
`WakeAddersPC` say what the actions that wake others do to every thread.

The refinement is shown step by step: the initial state maps to the service's, an
accepting call, a worker's `take` and the end of a callback, and the steps that set
the flags and free the pool map to the service's steps of those names, everything
else (locks, waits, wakeups, refusals) to a stutter.  The service's set of running
jobs loses one job when one ends only if no two workers have the same, so the
proof needs `JobsApart` beside `IInv`: job numbers are fresh, and a job is in one
place.

### The other pthread programs

| Module | Theorem | Property |
|---|---|---|
| `SimplePoolProofs` | `ListKept` | `StartedInOrder` |
| | `OneSignalSuffices` | `AwakeForEachJob` |
| | `PollAndJoinWait` | `AllDoneAtReturn` |
| `SemBufferProofs` | `SlotsKept` | `SlotsAccounted` |
| | `TokensKept` | `TokensAccounted` |
| | `ListBounded` | the list never has more nodes than `psem` had slots |
| | `FaultIsInitialTokens` | with `Tokens = 0` no consumer finds the list empty |
| `CondQueueProofs` | `WakeupsSuffice` | `AwakeForEachMsg` |

The sets of threads are any finite sets: the properties count threads.  Beside the
properties the invariants say at which points of the code a thread of each kind can
be (`Places`).

- `SimplePool`: `TailIsLast` ties the tail pointer to the list, without which an append
  could drop it.  `Phases` says that the list is empty from the end of `main`'s polling
  on, and `NothingFound` that a worker between its test and its wait, which are two
  steps, still has the lock; so nothing is enqueued between them.  `Accounted` is as in
  `JobPool`.
- `SemBuffer`: the two accounts are inductive together with `Places`; the work is in the
  cardinalities.  `ListBounded` follows from the first.  `FaultIsInitialTokens` says that
  the 2 tokens `main` starts `csem` with are all that is wrong: with 0
  tokens, as many as the empty list has items, the fault of `sem_null` cannot happen.
- `CondQueue`: `AwakeForEachMsg` is inductive with `Places`, for any mixture of signals
  and broadcasts.

### The network test (`NetTestProofs`)

| Theorem | Property |
|---|---|
| `TypeCorrect` | `TypeOK` |
| `TesterNeverBlamed` | `NeverTestError` |
| `MapIsLive` | `EntriesLive` |
| `AnswersStay` | `AnswersKept` |
| `ArriveInOrder` | `InOrder` |
| `ComparedWithOwnAnswer` | `AnswerFirst` |
| `FailedStaysFailed` | `FailureIsFinal` |
| `RightSideBlamed` | `WaitsForTheRightSide` |

for any contents, any number of messages below the modulus (`NetTestAssumption`;
the source's is 2^32), any points at which the client checks and any number of
faults.  `ServerInv` is about one server and any callers: counters, map and
properties together, since what `Update` deletes depends on what is live.
`ClientInv` bounds what is on the way by what was pushed.  `NoFaults` says what is
registered while nothing has failed: what was pushed, and the message whose answer
has just been sent.  `AnswerFirst` is not inductive without it.

### The four small programs (`ProgramsProofs`)

| Theorem | Property |
|---|---|
| `ProgramsTyped` | `TypeOK` |
| `PromptWaits` | `ForegroundWaited` |
| `WaitGoesOn` | `WaitReturns` |
| `NothingOverwritten` | `OutputKept` |
| `DashGoesBack` | `DashReturns` |
| `RowsKept` | `RowsAreFiles` |
| `SizesAreBehind` | `SizesBehind` |
| `RetriesAlwaysBounded` | `RetriesBounded` |
| `SomethingAlwaysComes` | `SomethingComes` |
| `ShownInOrder` | `ShownOnce` |
| `TableKept` | `TableComplete` |
| `NumberKept` | `NumberCounts` |

A step of `Programs` is a step of one program and a stutter of the others
(`ShellAlone`, `EchoAlone`, `HashLockAlone`), so each program's invariant is inductive
for all of them.

- Shell, for any lines that `Split` admits, any directories, names, pipes and bounds.  `Control` says what can block
  a child and be polled (`Children`), how the counters of `execute_pipe` stand to the
  children at each place (`ShPlaces`), and what the child forked last is doing where
  the shell counts on it (`Newest`); `WaitReturns` follows.  `Balance` compares the
  foreground commands still to be collected with the others that were: at most as
  many, or one more while the shell is about to wait.  `Output` says what is in the
  file: every chunk of every child while all append; what its one writer has written
  while there is one that truncates and the shell's own open was not late.  `Homes`
  says what `curdir2` holds (the name of the directory left last if that fits, else the
  last that did) and that `olddir` is as long as the longest name ever moved there: only a
  name as long overwrites all of it.  `Array` and `OnwardFacts` keep `here` inside `L`.
- ls, for any directories, sizes, options and length of the table.  While reading, one row
  is always free (`count <= Rows - 1` in `LsPlaces`); the file that would take it is the
  step `Overrun`, so `RowsAreFiles` says of an overrun how many files it took.  `LsInv` has the rows
  in order up to the place of the sort (`SizesSorted`), the row of each file (`Place`)
  while the order is known, and both directions of "rows are files" while it is not.
- Echo: `Slept` says that before the last attempt the seconds slept are one less than the
  next sleep.  It holds for each `MAXSLEEP` that doubling reaches from 1, which the
  theorem assumes (`Doubles`) and `SourceMAXSLEEP` shows of the source's 128.  `Serving`
  and `Unread` are the rest: a connected client has a server that serves, and what the
  server has not read are the last requests sent.
- HashLock, for any threads, chains and objects: `Working` is the mutual exclusion on
  `hashlock`, `Seen` that what was read under it is still there at the write, `NumberSeen`
  how far behind a read of `number` can be, which nothing common guards.

`ProgramsAssumption` is the conjunction of the programs' assumptions.  One line of
the shell's is about a computation and not about a parameter: `command_split` makes
of each line typed what `Split` says.  It is a fold over the words, so a proof for every
line is an induction over data, which the prover cannot do; TLC evaluates it for the
lines it runs.

### Only model-checked

- Liveness, which needs fairness and `ENABLED`: `EveryJobRuns`, `AddReturns`,
  `DestroyCompletes`, `KeepsMoving`, `NeverStuck`, and `ImplementsFairService`, the
  refinement with the service's fairness.  Its safety half is `PoolImplementsService`.
- The five violations, which are counterexamples.

## 6. Not modelled

- The managed pool 2.0: it cannot be built, since it calls `phread_mutex_lock`
  (pthread_pool2.0.c:113), which nobody defines.  What it would do is not known: as
  it stands `queueSize` is never increased, so no worker would take a job.
- Shell: quotes and `~` in words, lines of more than seven vertices (137 may go two
  further, and `L` has 8) or of more words than an array of them holds, `<` behind another
  operator (which hands `dup2` an `fd` nobody has set), what a second shell does (see `Shell` above), a
  failing `fork`.
- ls: option `R`.  The test for "." looks at the empty row behind the file (71), so
  the recursion enters "." until no descriptor is left, and `sprintf` formats the
  path of an entry over itself.  What the program does once the table is overrun.  Also the letters of modes, the names of users and
  groups, and more than seven option letters, which overflow `cnd`.
- Echo: a second client (the server accepts once; the second would wait for ever),
  lines of `BUFLEN` characters and more, a failing `fork` or `dup2`.
- Everywhere: the wording and layout of output, socket and address set-up,
  exhaustion of memory where the code does not test for it, a `pthread_create` that
  fails.
- The end of `main` in `生产与消费.c` (it joins the address of a thread handle, after
  threads that never end), `extern heapsort` in `condlock.c` (declared and not used),
  and the files that are no program (`network/服务端.c` does not compile,
  `network/服务端` is a binary, `blog/` is text).
