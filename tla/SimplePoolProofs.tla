--------------------------- MODULE SimplePoolProofs ---------------------------
(***************************************************************************)
(* Proofs about the unbounded thread pool of phread_pool1.0.c and its      *)
(* main(), for any number of workers and jobs.                             *)
(***************************************************************************)
EXTENDS SimplePool, SequenceTheorems, FiniteSetTheorems, TLAPS

\* The jobs of a sequence.
Elements(s) == {s[i] : i \in DOMAIN s}

\* The first n jobs in order.
Ordered(n) == [k \in 1..n |-> k]

LEMMA ThreadKinds ==
    /\ Workers \subseteq Threads /\ Main \in Threads
    /\ \A w \in Workers : w # Main
    /\ \A t \in Threads : t \in Workers \/ t = Main
BY SimplePoolAssumption DEF Threads

------------------------------------------------------------------------------
(* The list. *)

\* Moving the head of q to the end of s leaves the concatenation as it was.
LEMMA MoveHead ==
    ASSUME NEW S, NEW s \in Seq(S), NEW q \in Seq(S), q # <<>>
    PROVE  Append(s, Head(q)) \o Tail(q) = s \o q
<1>1. Head(q) \in S /\ Tail(q) \in Seq(S) /\ <<Head(q)>> \in Seq(S)
    BY HeadTailProperties
<1>2. Append(s, Head(q)) = s \o <<Head(q)>>
    BY <1>1, AppendIsConcat
<1>3. (s \o <<Head(q)>>) \o Tail(q) = s \o (<<Head(q)>> \o Tail(q))
    BY <1>1, ConcatAssociative
<1>4. <<Head(q)>> \o Tail(q) = q
    BY ConcatSimplifications
<1> QED BY <1>2, <1>3, <1>4

LEMMA AppendOver ==
    ASSUME NEW S, NEW s \in Seq(S), NEW q \in Seq(S), NEW e \in S
    PROVE  Append(s \o q, e) = s \o Append(q, e)
<1>1. s \o q \in Seq(S) /\ <<e>> \in Seq(S)
    BY ConcatProperties
<1>2. (s \o q) \o <<e>> = s \o (q \o <<e>>)
    BY <1>1, ConcatAssociative
<1> QED BY <1>1, <1>2, AppendIsConcat

LEMMA OrderedGrows ==
    ASSUME NEW n \in Nat
    PROVE  Ordered(n) \in Seq(Nat) /\ Append(Ordered(n), n + 1) = Ordered(n + 1)
<1>1. Ordered(n) \in Seq(Nat) /\ Ordered(n + 1) \in Seq(Nat)
    BY SeqDef DEF Ordered
<1>2. Len(Ordered(n)) = n /\ Len(Ordered(n + 1)) = n + 1
    BY <1>1, LenProperties DEF Ordered
<1>3. /\ Append(Ordered(n), n + 1) \in Seq(Nat)
      /\ Len(Append(Ordered(n), n + 1)) = n + 1
      /\ \A i \in 1..n : Append(Ordered(n), n + 1)[i] = Ordered(n)[i]
      /\ Append(Ordered(n), n + 1)[n + 1] = n + 1
    BY <1>1, <1>2, AppendProperties
<1>4. ASSUME NEW i \in 1..(n + 1) PROVE Append(Ordered(n), n + 1)[i] = Ordered(n + 1)[i]
    BY <1>3 DEF Ordered
<1> QED BY <1>1, <1>2, <1>3, <1>4, SeqEqual

LEMMA ElementsAppend ==
    ASSUME NEW S, NEW s \in Seq(S), NEW e \in S
    PROVE  Elements(Append(s, e)) = Elements(s) \cup {e}
<1>1. /\ Len(Append(s, e)) = Len(s) + 1 /\ Len(s) \in Nat
      /\ \A i \in 1..Len(s) : Append(s, e)[i] = s[i]
      /\ Append(s, e)[Len(s) + 1] = e
      /\ DOMAIN s = 1..Len(s) /\ DOMAIN Append(s, e) = 1..(Len(s) + 1)
    BY AppendProperties, LenProperties
<1>2. 1..(Len(s) + 1) = (1..Len(s)) \cup {Len(s) + 1}
    BY <1>1
<1> QED BY <1>1, <1>2 DEF Elements

------------------------------------------------------------------------------
(* The inductive invariant. *)

MainPCs == {"main", "enqueue", "poll", "destroy", "broadcast", "join", "returned"}
WorkerPCs == {"take", "found_nothing", "queue_not_empty", "run", "exited"}

\* Each thread is at a point of its own code, the jobs are numbers.
Places ==
    /\ pc \in [Threads -> MainPCs \cup WorkerPCs]
    /\ pc[Main] \in MainPCs
    /\ \A w \in Workers : pc[w] \in WorkerPCs
    /\ queue \in Seq(Nat) /\ started \in Seq(Nat)
    /\ enqueued \in Nat /\ job \in [Workers -> Nat]

\* queue_tail is the last node of the list, and NULL when there is none.
TailIsLast == queue_tail = IF queue = <<>> THEN 0 ELSE queue[Len(queue)]

\* main destroys the pool once the list is empty; it returns without workers.
Phases ==
    /\ is_shutdown <=> pc[Main] \in {"broadcast", "join", "returned"}
    /\ pc[Main] \in {"destroy", "broadcast", "join", "returned"} => queue = <<>>
    /\ pc[Main] = "returned" => \A w \in Workers : pc[w] = "exited"

\* A worker between its test and its wait has the lock, so nothing was enqueued.
NothingFound == \A w \in Workers : pc[w] = "found_nothing" => queue_lock = w /\ queue = <<>>

Running == {w \in Workers : pc[w] = "run"}

\* A started job is finished or in the hands of the worker running it.
Accounted == Elements(started) = finished \cup {job[w] : w \in Running}

\* The workers awake to take a job.
Awake == {w \in Workers : pc[w] \in {"take", "found_nothing"}}

IInv ==
    /\ Places
    /\ TailIsLast
    /\ StartedInOrder
    /\ Phases
    /\ NothingFound
    /\ Accounted
    /\ AwakeForEachJob

LEMMA InitIInv == Init => IInv
<1> SUFFICES ASSUME Init PROVE IInv
    OBVIOUS
<1> USE SimplePoolAssumption, ThreadKinds
<1>1. pc[Main] = "main" /\ \A w \in Workers : pc[w] = "take"
    BY DEF Init
<1>2. Places
    BY <1>1, EmptySeq DEF Init, Places, MainPCs, WorkerPCs
<1>3. StartedInOrder
    BY DEF Init, StartedInOrder
<1>4. Accounted
    <2>1. Running = {}
        BY <1>1 DEF Running
    <2> QED BY <2>1 DEF Init, Accounted, Elements
<1>5. Waiters = {}
    BY <1>1 DEF Waiters
<1> QED BY <1>1, <1>2, <1>3, <1>4, <1>5
           DEF Init, IInv, TailIsLast, Phases, NothingFound, AwakeForEachJob

------------------------------------------------------------------------------
(* Where Enqueue leaves the threads: it wakes one waiter, if there is one. *)

LEMMA EnqueuePC ==
    ASSUME Places, Enqueue
    PROVE  /\ pc' \in [Threads -> MainPCs \cup WorkerPCs] /\ pc'[Main] = "main"
           /\ \/ Waiters = {} /\ \A w \in Workers : pc'[w] = pc[w]
              \/ \E u \in Waiters : \A w \in Workers : pc'[w] = IF w = u THEN "take" ELSE pc[w]
<1> USE ThreadKinds
<1> DEFINE f == [pc EXCEPT ![Main] = "main"]
<1>1. /\ f \in [Threads -> MainPCs \cup WorkerPCs]
      /\ \A t \in Threads : f[t] = IF t = Main THEN "main" ELSE pc[t]
    BY DEF Places, MainPCs
<1>2. pc' \in Signalled(f)
    BY DEF Enqueue
<1> HIDE DEF f
<1>3. CASE Waiters = {}
    BY <1>1, <1>2, <1>3 DEF Signalled
<1>4. CASE Waiters # {}
    <2>1. PICK u \in Waiters : pc' = [f EXCEPT ![u] = "take"]
        BY <1>2, <1>4 DEF Signalled
    <2>2. u \in Workers
        BY DEF Waiters
    <2> QED BY <1>1, <2>1, <2>2 DEF WorkerPCs
<1> QED BY <1>3, <1>4

LEMMA PlacesStep == IInv /\ [Next]_vars => Places'
<1> SUFFICES ASSUME Places, [Next]_vars PROVE Places'
    BY DEF IInv
<1> USE ThreadKinds DEF MainPCs, WorkerPCs
<1>1. ASSUME NEW w \in Workers, Lock(w) \/ FindNothing(w) \/ Wait(w) \/ Exit(w) \/ SpuriousWakeup(w)
      PROVE  Places'
    BY <1>1 DEF Lock, FindNothing, Wait, Exit, SpuriousWakeup, Places
<1>2. ASSUME NEW w \in Workers, Take(w) PROVE Places'
    <2>1. Head(queue) \in Nat /\ Tail(queue) \in Seq(Nat) /\ started' \in Seq(Nat)
        BY <1>2, HeadTailProperties, AppendProperties DEF Take, Places
    <2> QED BY <1>2, <2>1 DEF Take, Places
<1>3. ASSUME NEW w \in Workers, Run(w) PROVE Places'
    BY <1>3 DEF Run, Places
<1>4. CASE Enqueue
    <2>1. enqueued + 1 \in Nat /\ queue' \in Seq(Nat)
        <3>1. enqueued + 1 \in Nat /\ queue \in Seq(Nat)
            BY DEF Places
        <3>2. <<enqueued + 1>> \in Seq(Nat) /\ Append(queue, enqueued + 1) \in Seq(Nat)
            BY <3>1, AppendProperties
        <3> QED BY <1>4, <3>1, <3>2 DEF Enqueue
    <2>2. UNCHANGED <<job, started>> /\ enqueued' = enqueued + 1
        BY <1>4 DEF Enqueue
    <2> QED BY <1>4, <2>1, <2>2, EnqueuePC DEF Places, Waiters
<1>5. CASE Lock(Main) \/ CallEnqueue \/ StartPolling \/ SeesEmpty \/ Shutdown \/ Join
    BY <1>5 DEF Lock, CallEnqueue, StartPolling, SeesEmpty, Shutdown, Join, Places
<1>6. CASE Broadcast
    BY <1>6 DEF Broadcast, Places, Waiters
<1>7. CASE UNCHANGED vars
    BY <1>7 DEF vars, Places
<1> QED BY <1>1, <1>2, <1>3, <1>4, <1>5, <1>6, <1>7 DEF Next, WorkerStep, MainStep

------------------------------------------------------------------------------
(* The list: only Enqueue and Take touch it. *)

LEMMA ListStep == IInv /\ [Next]_vars => TailIsLast' /\ StartedInOrder'
<1> SUFFICES ASSUME IInv, [Next]_vars PROVE TailIsLast' /\ StartedInOrder'
    OBVIOUS
<1> USE ThreadKinds
<1>0. /\ queue \in Seq(Nat) /\ started \in Seq(Nat) /\ enqueued \in Nat
      /\ TailIsLast /\ started \o queue = Ordered(enqueued)
    BY DEF IInv, Places, StartedInOrder, Ordered
<1>1. ASSUME UNCHANGED <<queue, queue_tail, started, enqueued>>
      PROVE  TailIsLast' /\ StartedInOrder'
    BY <1>1 DEF IInv, TailIsLast, StartedInOrder
<1>2. ASSUME NEW w \in Workers, Take(w) PROVE TailIsLast' /\ StartedInOrder'
    <2>1. /\ queue # <<>> /\ queue' = Tail(queue) /\ started' = Append(started, Head(queue))
          /\ enqueued' = enqueued /\ queue_tail' = IF queue' = <<>> THEN 0 ELSE queue_tail
        BY <1>2 DEF Take, TailAfter
    <2>2. /\ Tail(queue) \in Seq(Nat) /\ Len(Tail(queue)) = Len(queue) - 1
          /\ \A i \in 1..Len(Tail(queue)) : Tail(queue)[i] = queue[i + 1]
          /\ Len(queue) \in Nat
        BY <1>0, <2>1, HeadTailProperties, LenProperties
    <2>3. Tail(queue) # <<>> => Tail(queue)[Len(Tail(queue))] = queue[Len(queue)]
        <3>1. Tail(queue) # <<>> => Len(queue) - 1 \in 1..Len(Tail(queue))
            BY <2>2, EmptySeq
        <3>2. (Len(queue) - 1) + 1 = Len(queue)
            BY <2>2
        <3> QED BY <2>2, <3>1, <3>2
    <2>4. TailIsLast'
        BY <1>0, <2>1, <2>3 DEF TailIsLast
    <2>5. Append(started, Head(queue)) \o Tail(queue) = started \o queue
        BY <1>0, <2>1, MoveHead
    <2>6. started' \o queue' = Ordered(enqueued')
        BY <1>0, <2>1, <2>5, Zenon
    <2> QED BY <2>4, <2>6 DEF StartedInOrder, Ordered
<1>3. CASE Enqueue
    <2>1. /\ enqueued' = enqueued + 1 /\ queue_tail' = enqueued + 1 /\ started' = started
          /\ queue' = IF queue_tail = 0 THEN <<enqueued + 1>>
                      ELSE IF queue # <<>> /\ queue[Len(queue)] = queue_tail
                           THEN Append(queue, enqueued + 1) ELSE queue
        BY <1>3 DEF Enqueue
    <2>2. queue # <<>> => queue[Len(queue)] # 0
        <3> SUFFICES ASSUME queue # <<>> PROVE queue[Len(queue)] # 0
            OBVIOUS
        <3>1. Len(queue) \in Nat \ {0} /\ Len(started) \in Nat
            BY <1>0, EmptySeq, LenProperties
        <3>2. /\ Len(started \o queue) = Len(started) + Len(queue)
              /\ \A i \in 1..(Len(started) + Len(queue)) : (started \o queue)[i] =
                     IF i <= Len(started) THEN started[i] ELSE queue[i - Len(started)]
            BY <1>0, ConcatProperties
        <3> DEFINE last == Len(started) + Len(queue)
        <3>3. last \in 1..last /\ ~(last <= Len(started)) /\ last - Len(started) = Len(queue)
            BY <3>1
        <3>4. (started \o queue)[last] = queue[Len(queue)]
            BY <3>2, <3>3
        <3>5. last \in 1..enqueued /\ Ordered(enqueued)[last] = last
            <4>1. Len(Ordered(enqueued)) = last
                BY <1>0, <3>2
            <4>2. Len(Ordered(enqueued)) = enqueued
                BY <1>0, <3>1, <4>1 DEF Ordered
            <4> QED BY <3>3, <4>1, <4>2 DEF Ordered
        <3> QED BY <1>0, <3>1, <3>4, <3>5
    <2>3. queue' = Append(queue, enqueued + 1)
        <3>1. CASE queue = <<>>
            BY <1>0, <2>1, <3>1 DEF TailIsLast
        <3>2. CASE queue # <<>>
            BY <1>0, <2>1, <2>2, <3>2 DEF TailIsLast
        <3> QED BY <3>1, <3>2
    <2>4. /\ queue' \in Seq(Nat) /\ Len(queue') = Len(queue) + 1 /\ Len(queue) \in Nat
          /\ queue'[Len(queue) + 1] = enqueued + 1
        BY <1>0, <2>3, AppendProperties, LenProperties
    <2>5. queue' # <<>>
        BY <2>4
    <2>6. TailIsLast'
        BY <2>1, <2>4, <2>5 DEF TailIsLast
    <2>7. Append(started \o queue, enqueued + 1) = started \o Append(queue, enqueued + 1)
        <3>1. enqueued + 1 \in Nat
            BY <1>0
        <3> QED BY <1>0, <3>1, AppendOver
    <2>8. started' \o queue' = Ordered(enqueued')
        BY <1>0, <2>1, <2>3, <2>7, OrderedGrows
    <2> QED BY <2>6, <2>8 DEF StartedInOrder, Ordered
<1>4. ASSUME NEW t \in Threads, Lock(t) PROVE TailIsLast' /\ StartedInOrder'
    BY <1>1, <1>4 DEF Lock
<1>5. ASSUME NEW w \in Workers,
             FindNothing(w) \/ Wait(w) \/ Exit(w) \/ Run(w) \/ SpuriousWakeup(w)
      PROVE  TailIsLast' /\ StartedInOrder'
    BY <1>1, <1>5 DEF FindNothing, Wait, Exit, Run, SpuriousWakeup
<1>6. CASE CallEnqueue \/ StartPolling \/ SeesEmpty \/ Shutdown \/ Broadcast \/ Join
    BY <1>1, <1>6 DEF CallEnqueue, StartPolling, SeesEmpty, Shutdown, Broadcast, Join
<1>7. CASE UNCHANGED vars
    BY <1>1, <1>7 DEF vars
<1> QED BY <1>2, <1>3, <1>4, <1>5, <1>6, <1>7 DEF Next, WorkerStep, MainStep

------------------------------------------------------------------------------
(* The phases of main, the worker between its test and its wait, the jobs. *)

LEMMA PhasesStep == IInv /\ [Next]_vars => Phases' /\ NothingFound'
<1> SUFFICES ASSUME IInv, [Next]_vars PROVE Phases' /\ NothingFound'
    OBVIOUS
<1> USE SimplePoolAssumption, ThreadKinds
<1>0. Places /\ Phases /\ NothingFound /\ queue \in Seq(Nat)
    BY DEF IInv, Places
<1>1. ASSUME NEW t \in Threads, Lock(t) PROVE Phases' /\ NothingFound'
    BY <1>0, <1>1 DEF Lock, Phases, NothingFound
<1>2. ASSUME NEW w \in Workers, FindNothing(w) \/ Wait(w) PROVE Phases' /\ NothingFound'
    <2>1. CASE FindNothing(w)
        BY <1>0, <2>1 DEF FindNothing, Places, Phases, NothingFound
    <2>2. CASE Wait(w)
        <3>1. /\ pc[w] = "found_nothing" /\ UNCHANGED <<queue, is_shutdown>>
              /\ \A t \in Threads : pc'[t] = IF t = w THEN "queue_not_empty" ELSE pc[t]
            BY <1>0, <2>2 DEF Wait, Places
        <3>2. \A v \in Workers \ {w} : pc[v] # "found_nothing"
            BY <1>0, <3>1 DEF NothingFound
        <3>3. \A v \in Workers : pc'[v] # "found_nothing"
            BY <3>1, <3>2
        <3>4. pc'[Main] = pc[Main] /\ (pc[Main] # "returned")
            BY <1>0, <3>1 DEF Phases
        <3> QED BY <1>0, <3>1, <3>3, <3>4 DEF Phases, NothingFound
    <2> QED BY <1>2, <2>1, <2>2
<1>3. ASSUME NEW w \in Workers, Exit(w) PROVE Phases' /\ NothingFound'
    BY <1>0, <1>3 DEF Exit, Places, Phases, NothingFound
<1>4. ASSUME NEW w \in Workers, Run(w) \/ SpuriousWakeup(w) PROVE Phases' /\ NothingFound'
    BY <1>0, <1>4 DEF Run, SpuriousWakeup, Waiters, Places, Phases, NothingFound
<1>5. ASSUME NEW w \in Workers, Take(w) PROVE Phases' /\ NothingFound'
    <2>1. /\ queue # <<>> /\ queue_lock = w /\ pc[w] = "take" /\ is_shutdown' = is_shutdown
          /\ \A t \in Threads : pc'[t] = IF t = w THEN "run" ELSE pc[t]
        BY <1>0, <1>5 DEF Take, Places
    <2>2. \A v \in Workers : pc[v] # "found_nothing"
        BY <2>1 DEF IInv, NothingFound
    <2>3. pc'[Main] = pc[Main] /\ pc[Main] \notin {"destroy", "broadcast", "join", "returned"}
        BY <1>0, <2>1 DEF Phases
    <2> QED BY <1>0, <2>1, <2>2, <2>3 DEF Phases, NothingFound
<1>6. CASE Enqueue
    <2>1. pc[Main] = "enqueue" /\ queue_lock = Main /\ is_shutdown' = is_shutdown
        BY <1>6 DEF Enqueue
    <2>2. pc'[Main] = "main"
        BY <1>0, <1>6, EnqueuePC
    <2>3. \A v \in Workers : pc'[v] # "found_nothing"
        <3>1. \A v \in Workers : pc[v] # "found_nothing"
            BY <1>0, <2>1 DEF NothingFound
        <3> QED BY <1>0, <1>6, <3>1, EnqueuePC
    <2> QED BY <1>0, <2>1, <2>2, <2>3 DEF Phases, NothingFound
<1>7. CASE CallEnqueue \/ StartPolling \/ SeesEmpty \/ Shutdown \/ Join
    <2>1. \A w \in Workers : pc'[w] = pc[w]
        BY <1>0, <1>7 DEF CallEnqueue, StartPolling, SeesEmpty, Shutdown, Join, Places
    <2>2. UNCHANGED <<queue, queue_lock>>
        BY <1>7 DEF CallEnqueue, StartPolling, SeesEmpty, Shutdown, Join
    <2>3. NothingFound'
        BY <1>0, <2>1, <2>2 DEF NothingFound
    <2>4. CASE CallEnqueue \/ StartPolling
        <3>1. /\ pc[Main] = "main" /\ pc'[Main] \in {"enqueue", "poll"}
              /\ UNCHANGED <<queue, is_shutdown>>
            BY <1>0, <2>4 DEF CallEnqueue, StartPolling, Places
        <3> QED BY <1>0, <2>3, <3>1 DEF Phases
    <2>5. CASE SeesEmpty
        BY <1>0, <2>3, <2>5 DEF SeesEmpty, Places, Phases
    <2>6. CASE Shutdown
        BY <1>0, <2>3, <2>6 DEF Shutdown, Places, Phases
    <2>7. CASE Join
        <3>1. /\ pc[Main] = "join" /\ pc'[Main] = "returned" /\ UNCHANGED <<queue, is_shutdown>>
              /\ \A w \in Workers : pc[w] = "exited"
            BY <1>0, <2>7 DEF Join, Places
        <3> QED BY <1>0, <2>1, <2>3, <3>1 DEF Phases
    <2> QED BY <1>7, <2>4, <2>5, <2>6, <2>7
<1>8. CASE Broadcast
    BY <1>0, <1>8 DEF Broadcast, Waiters, Places, Phases, NothingFound
<1>9. CASE UNCHANGED vars
    BY <1>0, <1>9 DEF vars, Phases, NothingFound
<1> QED BY <1>1, <1>2, <1>3, <1>4, <1>5, <1>6, <1>7, <1>8, <1>9
           DEF Next, WorkerStep, MainStep

LEMMA AccountStep == IInv /\ [Next]_vars => Accounted'
<1> SUFFICES ASSUME IInv, [Next]_vars PROVE Accounted'
    OBVIOUS
<1> USE SimplePoolAssumption, ThreadKinds
<1>0. Places /\ Accounted /\ queue \in Seq(Nat) /\ started \in Seq(Nat)
    BY DEF IInv, Places
<1>1. ASSUME UNCHANGED <<started, finished, job>>,
             \A w \in Workers : (pc'[w] = "run") <=> (pc[w] = "run")
      PROVE  Accounted'
    <2>1. Running' = Running
        BY <1>1 DEF Running
    <2> QED BY <1>0, <1>1, <2>1 DEF Accounted, Elements
<1>2. ASSUME NEW w \in Workers, Take(w) PROVE Accounted'
    <2>1. /\ queue # <<>> /\ pc[w] = "take" /\ finished' = finished
          /\ started' = Append(started, Head(queue))
          /\ \A v \in Workers : pc'[v] = IF v = w THEN "run" ELSE pc[v]
          /\ \A v \in Workers : job'[v] = IF v = w THEN Head(queue) ELSE job[v]
        BY <1>0, <1>2 DEF Take, Places
    <2>2. Head(queue) \in Nat
        BY <1>0, <2>1, HeadTailProperties
    <2>3. Elements(started') = Elements(started) \cup {Head(queue)}
        BY <1>0, <2>1, <2>2, ElementsAppend
    <2>4. {job'[v] : v \in Running'} = {job[v] : v \in Running} \cup {Head(queue)}
        BY <2>1 DEF Running
    <2> QED BY <1>0, <2>1, <2>3, <2>4 DEF Accounted
<1>3. ASSUME NEW w \in Workers, Run(w) PROVE Accounted'
    <2>1. /\ pc[w] = "run" /\ finished' = finished \cup {job[w]} /\ started' = started
          /\ \A v \in Workers : pc'[v] = IF v = w THEN "take" ELSE pc[v]
          /\ \A v \in Workers \ {w} : job'[v] = job[v]
        BY <1>0, <1>3 DEF Run, Places
    <2>2. finished' \cup {job'[v] : v \in Running'} = finished \cup {job[v] : v \in Running}
        BY <2>1 DEF Running
    <2> QED BY <1>0, <2>1, <2>2 DEF Accounted, Elements
<1>4. ASSUME NEW t \in Threads, Lock(t) PROVE Accounted'
    BY <1>1, <1>4 DEF Lock
<1>5. ASSUME NEW w \in Workers, FindNothing(w) \/ Wait(w) \/ Exit(w) \/ SpuriousWakeup(w)
      PROVE  Accounted'
    BY <1>0, <1>1, <1>5 DEF FindNothing, Wait, Exit, SpuriousWakeup, Waiters, Places
<1>6. CASE Enqueue
    <2>1. UNCHANGED <<started, finished, job>>
        BY <1>6 DEF Enqueue
    <2>2. \A w \in Workers : (pc'[w] = "run") <=> (pc[w] = "run")
        BY <1>0, <1>6, EnqueuePC DEF Waiters
    <2> QED BY <1>1, <2>1, <2>2
<1>7. CASE CallEnqueue \/ StartPolling \/ SeesEmpty \/ Shutdown \/ Join
    BY <1>0, <1>1, <1>7 DEF CallEnqueue, StartPolling, SeesEmpty, Shutdown, Join, Places
<1>8. CASE Broadcast
    BY <1>0, <1>1, <1>8 DEF Broadcast, Waiters, Places
<1>9. CASE UNCHANGED vars
    BY <1>1, <1>9 DEF vars
<1> QED BY <1>2, <1>3, <1>4, <1>5, <1>6, <1>7, <1>8, <1>9 DEF Next, WorkerStep, MainStep

------------------------------------------------------------------------------
(* One signal per job. *)

LEMMA AwakeFinite == IsFiniteSet(Awake) /\ Cardinality(Awake) \in Nat
<1>1. Awake \in SUBSET Workers
    BY DEF Awake
<1>2. IsFiniteSet(Awake)
    BY <1>1, SimplePoolAssumption, FS_Subset
<1> QED BY <1>2, FS_CardinalityType

LEMMA AwakeStep == IInv /\ [Next]_vars => AwakeForEachJob'
<1> SUFFICES ASSUME IInv, [Next]_vars PROVE AwakeForEachJob'
    OBVIOUS
<1> USE SimplePoolAssumption, ThreadKinds, AwakeFinite
<1>0. /\ Places /\ queue \in Seq(Nat) /\ Len(queue) \in Nat
      /\ ~is_shutdown /\ Waiters # {} => Len(queue) <= Cardinality(Awake)
    BY LenProperties DEF IInv, Places, AwakeForEachJob, Awake
<1>1. (Cardinality(Awake) \in Nat)'
    BY AwakeFinite, PTL
<1>2. ASSUME NEW w \in Workers, w \notin Awake
      PROVE  Cardinality(Awake \cup {w}) = Cardinality(Awake) + 1
    BY <1>2, FS_AddElement
<1>3. ASSUME NEW w \in Awake
      PROVE  Cardinality(Awake \ {w}) = Cardinality(Awake) - 1
    BY <1>3, FS_RemoveElement
<1>4. ASSUME UNCHANGED <<queue, is_shutdown>>, Awake' = Awake, Waiters' \subseteq Waiters
      PROVE  AwakeForEachJob'
    BY <1>0, <1>4 DEF AwakeForEachJob, Awake
<1>5. ASSUME NEW w \in Workers, FindNothing(w) PROVE AwakeForEachJob'
    <2>1. UNCHANGED <<queue, is_shutdown>> /\ Awake' = Awake /\ Waiters' \subseteq Waiters
        BY <1>0, <1>5 DEF FindNothing, Places, Awake, Waiters
    <2> QED BY <1>4, <2>1
<1>6. ASSUME NEW w \in Workers, Wait(w) PROVE AwakeForEachJob'
    <2>1. queue' = <<>>
        BY <1>6 DEF Wait, IInv, NothingFound
    <2> QED BY <1>1, <2>1 DEF AwakeForEachJob, Awake
<1>7. ASSUME NEW w \in Workers, Exit(w) PROVE AwakeForEachJob'
    BY <1>7 DEF Exit, AwakeForEachJob
<1>8. ASSUME NEW w \in Workers, Take(w) PROVE AwakeForEachJob'
    <2>1. /\ queue # <<>> /\ queue' = Tail(queue) /\ pc[w] = "take"
          /\ is_shutdown' = is_shutdown
          /\ \A v \in Workers : pc'[v] = IF v = w THEN "run" ELSE pc[v]
        BY <1>0, <1>8 DEF Take, Places
    <2>2. Len(queue') = Len(queue) - 1
        BY <1>0, <2>1, HeadTailProperties
    <2>3. Awake' = Awake \ {w} /\ w \in Awake /\ Waiters' = Waiters
        BY <2>1 DEF Awake, Waiters
    <2>4. Cardinality(Awake') = Cardinality(Awake) - 1
        BY <1>3, <2>3
    <2> QED BY <1>0, <2>1, <2>2, <2>3, <2>4 DEF AwakeForEachJob, Awake
<1>9. ASSUME NEW w \in Workers, Run(w) \/ SpuriousWakeup(w) PROVE AwakeForEachJob'
    <2>1. /\ pc[w] \in {"run", "queue_not_empty"} /\ UNCHANGED <<queue, is_shutdown>>
          /\ \A v \in Workers : pc'[v] = IF v = w THEN "take" ELSE pc[v]
        BY <1>0, <1>9 DEF Run, SpuriousWakeup, Waiters, Places
    <2>2. Awake' = Awake \cup {w} /\ w \notin Awake /\ Waiters' \subseteq Waiters
        BY <2>1 DEF Awake, Waiters
    <2>3. Cardinality(Awake') = Cardinality(Awake) + 1
        BY <1>2, <2>2
    <2> QED BY <1>0, <2>1, <2>2, <2>3 DEF AwakeForEachJob, Awake
<1>10. ASSUME NEW t \in Threads, Lock(t) PROVE AwakeForEachJob'
    BY <1>4, <1>10 DEF Lock, Awake, Waiters
<1>11. CASE Enqueue
    <2>1. is_shutdown' = is_shutdown
        BY <1>11 DEF Enqueue
    <2>2. Len(queue') <= Len(queue) + 1 /\ Len(queue') \in Nat
        <3>1. enqueued + 1 \in Nat
            BY DEF IInv, Places
        <3>2. Len(Append(queue, enqueued + 1)) = Len(queue) + 1
            BY <1>0, <3>1, AppendProperties
        <3>3. \/ queue' = <<enqueued + 1>>
              \/ queue' = Append(queue, enqueued + 1)
              \/ queue' = queue
            BY <1>11 DEF Enqueue
        <3>4. CASE queue' = <<enqueued + 1>>
            <4>1. Len(queue') = 1
                BY <3>4
            <4> QED BY <1>0, <4>1
        <3>5. CASE queue' = Append(queue, enqueued + 1)
            BY <1>0, <3>2, <3>5
        <3>6. CASE queue' = queue
            BY <1>0, <3>6
        <3> QED BY <3>3, <3>4, <3>5, <3>6
    <2>3. CASE Waiters = {} /\ \A w \in Workers : pc'[w] = pc[w]
        <3>1. Waiters' = {}
            BY <2>3 DEF Waiters
        <3> QED BY <3>1 DEF AwakeForEachJob
    <2>4. ASSUME NEW u \in Waiters,
                 \A w \in Workers : pc'[w] = IF w = u THEN "take" ELSE pc[w]
          PROVE  AwakeForEachJob'
        <3>1. Awake' = Awake \cup {u} /\ u \notin Awake /\ u \in Workers
            BY <2>4 DEF Awake, Waiters
        <3>2. Cardinality(Awake') = Cardinality(Awake) + 1
            BY <1>2, <3>1
        <3> QED BY <1>0, <2>1, <2>2, <2>4, <3>2 DEF AwakeForEachJob, Awake
    <2> QED BY <1>0, <1>11, <2>3, <2>4, EnqueuePC
<1>12. CASE CallEnqueue \/ StartPolling \/ SeesEmpty \/ Join
    <2>1. UNCHANGED <<queue, is_shutdown>> /\ \A w \in Workers : pc'[w] = pc[w]
        BY <1>0, <1>12 DEF CallEnqueue, StartPolling, SeesEmpty, Join, Places
    <2> QED BY <1>4, <2>1 DEF Awake, Waiters
<1>13. CASE Shutdown \/ Broadcast
    <2>1. is_shutdown'
        BY <1>13 DEF Shutdown, Broadcast, IInv, Phases
    <2> QED BY <2>1 DEF AwakeForEachJob
<1>14. CASE UNCHANGED vars
    BY <1>4, <1>14 DEF vars, Awake, Waiters
<1> QED BY <1>5, <1>6, <1>7, <1>8, <1>9, <1>10, <1>11, <1>12, <1>13, <1>14
           DEF Next, WorkerStep, MainStep

------------------------------------------------------------------------------
(* The theorems. *)

LEMMA Inductive == Spec => []IInv
<1>1. IInv /\ [Next]_vars => IInv'
    BY PlacesStep, ListStep, PhasesStep, AccountStep, AwakeStep DEF IInv
<1> QED BY InitIInv, <1>1, PTL DEF Spec

\* The pointer queue_tail never hangs a job from a node that was freed: jobs are
\* started in the order they were enqueued and the others are all on the list.
THEOREM ListKept == Spec => []StartedInOrder
<1>1. IInv => StartedInOrder
    BY DEF IInv
<1> QED BY Inductive, <1>1, PTL

\* The one signal thread_pool_enqueue sends for each job (phread_pool1.0.c:89) is
\* enough: a worker sleeps only while the others awake match the jobs queued.
THEOREM OneSignalSuffices == Spec => []AwakeForEachJob
<1>1. IInv => AwakeForEachJob
    BY DEF IInv
<1> QED BY Inductive, <1>1, PTL

\* Polling queue_head without the lock and joining the workers waits for all the
\* jobs: when thread_pool_destroy has returned each of them has run to its end.
THEOREM PollAndJoinWait == Spec => []AllDoneAtReturn
<1>1. IInv => AllDoneAtReturn
    <2> SUFFICES ASSUME IInv, pc[Main] = "returned" PROVE finished = 1..enqueued
        BY DEF AllDoneAtReturn
    <2>1. queue = <<>> /\ \A w \in Workers : pc[w] = "exited"
        BY DEF IInv, Phases
    <2>2. Elements(started) = finished
        BY <2>1 DEF IInv, Accounted, Running
    <2>3. started = Ordered(enqueued)
        <3>1. started \in Seq(Nat) /\ started \o queue = Ordered(enqueued)
            BY DEF IInv, Places, StartedInOrder, Ordered
        <3> QED BY <2>1, <3>1, ConcatEmptySeq
    <2> QED BY <2>2, <2>3 DEF Elements, Ordered
<1> QED BY Inductive, <1>1, PTL

==============================================================================
