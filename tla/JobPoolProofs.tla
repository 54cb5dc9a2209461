---------------------------- MODULE JobPoolProofs ----------------------------
(***************************************************************************)
(* Proofs about the thread pool of phread_pool.c, for any number of        *)
(* workers and clients, any capacity and any number of jobs: its           *)
(* invariants, that it implements JobService, and that nobody is left      *)
(* inside the pool that is freed when calls do not overlap its destruction.*)
(***************************************************************************)
EXTENDS JobPoolService, SequenceTheorems, TLAPS

------------------------------------------------------------------------------
(* What the condition variable operators do to the threads. *)

LEMMA ResumeValues ==
    /\ Resume["queue_not_empty"] = "take"
    /\ Resume["queue_not_full"] = "add"
    /\ Resume["queue_empty"] = "drain"
BY DEF Resume

\* A broadcast moves the waiters of cv, and only them, to their section.
LEMMA BroadcastFacts ==
    ASSUME NEW f, AtPoints(f), NEW cv \in Conds
    PROVE  /\ AtPoints(Broadcast(f, cv))
           /\ \A t \in Threads :
                 Broadcast(f, cv)[t] = IF f[t] = cv THEN Resume[cv] ELSE f[t]
           /\ Waiters(Broadcast(f, cv), cv) = {}
<1>1. \A t \in Threads :
         Broadcast(f, cv)[t] = IF f[t] = cv THEN Resume[cv] ELSE f[t]
    BY DEF Broadcast
<1>2. Broadcast(f, cv) \in [Threads -> WorkerPCs \cup ClientPCs]
    BY ResumeValues DEF Broadcast, Conds, AtPoints, WorkerPCs, ClientPCs
<1>3. Workers \subseteq Threads /\ Clients \subseteq Threads
    BY DEF Threads
<1>4. ASSUME NEW w \in Workers PROVE Broadcast(f, cv)[w] \in WorkerPCs
    BY <1>1, <1>3, ResumeValues DEF AtPoints, Conds, WorkerPCs
<1>5. ASSUME NEW c \in Clients PROVE Broadcast(f, cv)[c] \in ClientPCs
    BY <1>1, <1>3, ResumeValues DEF AtPoints, Conds, ClientPCs
<1>6. Waiters(Broadcast(f, cv), cv) = {}
    BY <1>1, ResumeValues DEF Waiters, Conds
<1> QED BY <1>1, <1>2, <1>4, <1>5, <1>6 DEF AtPoints

\* A signal moves at most one thread, a waiter of cv, to its section.
LEMMA SignalFacts ==
    ASSUME NEW f, AtPoints(f), NEW cv \in Conds, NEW g \in Signal(f, cv)
    PROVE  /\ AtPoints(g)
           /\ \A t \in Threads : g[t] = f[t] \/ (f[t] = cv /\ g[t] = Resume[cv])
           /\ Waiters(f, cv) # {} => \E t \in Threads : f[t] = cv /\ g[t] # cv
<1>1. CASE Waiters(f, cv) = {}
    BY <1>1 DEF Signal
<1>2. CASE Waiters(f, cv) # {}
    <2>1. PICK u \in Waiters(f, cv) : g = [f EXCEPT ![u] = Resume[cv]]
        BY <1>2 DEF Signal
    <2>2. u \in Threads /\ f[u] = cv
        BY <2>1 DEF Waiters
    <2>3. \A t \in Threads : g[t] = IF t = u THEN Resume[cv] ELSE f[t]
        BY <2>1, <2>2 DEF AtPoints
    <2>4. g \in [Threads -> WorkerPCs \cup ClientPCs]
        BY <2>1, <2>2, ResumeValues DEF AtPoints, Conds, WorkerPCs, ClientPCs
    <2>5. Workers \subseteq Threads /\ Clients \subseteq Threads
        BY DEF Threads
    <2>6. ASSUME NEW w \in Workers PROVE g[w] \in WorkerPCs
        BY <2>2, <2>3, <2>5, ResumeValues DEF AtPoints, Conds, WorkerPCs
    <2>7. ASSUME NEW c \in Clients PROVE g[c] \in ClientPCs
        BY <2>2, <2>3, <2>5, ResumeValues DEF AtPoints, Conds, ClientPCs
    <2>8. g[u] # cv
        BY <2>2, <2>3, ResumeValues DEF Conds
    <2> QED BY <2>2, <2>3, <2>4, <2>6, <2>7, <2>8 DEF AtPoints
<1> QED BY <1>1, <1>2

------------------------------------------------------------------------------
(* Where the four actions that wake other threads leave every thread. *)

LEMMA ThreadKinds == Workers \subseteq Threads /\ Clients \subseteq Threads
BY DEF Threads

LEMMA MoveFacts ==
    ASSUME NEW f, AtPoints(f), NEW t \in Threads, NEW p,
           t \in Workers => p \in WorkerPCs, t \in Clients => p \in ClientPCs
    PROVE  /\ AtPoints([f EXCEPT ![t] = p])
           /\ \A u \in Threads : [f EXCEPT ![t] = p][u] = IF u = t THEN p ELSE f[u]
<1>1. \A u \in Threads : [f EXCEPT ![t] = p][u] = IF u = t THEN p ELSE f[u]
    BY DEF AtPoints
<1>2. p \in WorkerPCs \cup ClientPCs
    BY DEF Threads
<1>3. [f EXCEPT ![t] = p] \in [Threads -> WorkerPCs \cup ClientPCs]
    BY <1>2 DEF AtPoints
<1> QED BY <1>1, <1>3, ThreadKinds DEF AtPoints

LEMMA AddAcceptedPC ==
    ASSUME AtPoints(pc), NEW c \in Clients, AddAccepted(c)
    PROVE  /\ AtPoints(pc')
           /\ pc'[c] = "idle"
           /\ \A t \in Threads \ {c} :
                 \/ pc'[t] = pc[t]
                 \/ pc[t] = "queue_not_empty" /\ pc'[t] = "take"
           /\ queue = <<>> => Waiters(pc', "queue_not_empty") = {}
<1> DEFINE back == [pc EXCEPT ![c] = "idle"]
<1>1. /\ AtPoints(back)
      /\ \A t \in Threads : back[t] = IF t = c THEN "idle" ELSE pc[t]
    BY MoveFacts, PoolAssumption, ThreadKinds DEF ClientPCs
<1>2. pc' = IF queue = <<>> THEN Broadcast(back, "queue_not_empty") ELSE back
    BY DEF AddAccepted, Full
<1>3. /\ AtPoints(Broadcast(back, "queue_not_empty"))
      /\ \A t \in Threads : Broadcast(back, "queue_not_empty")[t] =
             IF back[t] = "queue_not_empty" THEN "take" ELSE back[t]
      /\ Waiters(Broadcast(back, "queue_not_empty"), "queue_not_empty") = {}
    BY <1>1, BroadcastFacts, ResumeValues DEF Conds
<1> HIDE DEF back
<1> QED BY <1>1, <1>2, <1>3, ThreadKinds

LEMMA TakeJobPC ==
    ASSUME AtPoints(pc), NEW w \in Workers, TakeJob(w)
    PROVE  /\ AtPoints(pc')
           /\ pc'[w] = "run"
           /\ \A t \in Threads \ {w} :
                 \/ pc'[t] = pc[t]
                 \/ pc[t] = "queue_empty" /\ pc'[t] = "drain"
                 \/ pc[t] = "queue_not_full" /\ pc'[t] = "add"
           /\ queue_cur_num' = Capacity - 1 => Waiters(pc', "queue_not_full") = {}
           /\ queue_cur_num' = 0 /\ Waiters(pc, "queue_empty") # {} =>
                 \E t \in Threads : pc[t] = "queue_empty" /\ pc'[t] # "queue_empty"
<1> DEFINE run == [pc EXCEPT ![w] = "run"]
<1>0. pc[w] = "take" /\ w \in Threads
    BY ThreadKinds DEF TakeJob, Unlinked, Inside
<1>1. /\ AtPoints(run)
      /\ \A t \in Threads : run[t] = IF t = w THEN "run" ELSE pc[t]
    BY MoveFacts, PoolAssumption, ThreadKinds DEF WorkerPCs
<1>2. PICK f \in IF queue_cur_num' = 0 THEN Signal(run, "queue_empty") ELSE {run} :
         pc' = IF queue_cur_num' = Capacity - 1 THEN Broadcast(f, "queue_not_full") ELSE f
    BY DEF TakeJob, Unlinked
<1> HIDE DEF run
<1>3. Waiters(run, "queue_empty") = Waiters(pc, "queue_empty")
    BY <1>0, <1>1 DEF Waiters
<1>4. /\ AtPoints(f)
      /\ \A t \in Threads : f[t] = run[t] \/ (run[t] = "queue_empty" /\ f[t] = "drain")
      /\ queue_cur_num' = 0 /\ Waiters(pc, "queue_empty") # {} =>
            \E t \in Threads : run[t] = "queue_empty" /\ f[t] # "queue_empty"
    <2>1. CASE queue_cur_num' = 0
        BY <2>1, <1>1, <1>2, <1>3, SignalFacts, ResumeValues DEF Conds
    <2>2. CASE queue_cur_num' # 0
        BY <2>2, <1>1, <1>2
    <2> QED BY <2>1, <2>2
<1>5. /\ AtPoints(Broadcast(f, "queue_not_full"))
      /\ \A t \in Threads : Broadcast(f, "queue_not_full")[t] =
             IF f[t] = "queue_not_full" THEN "add" ELSE f[t]
      /\ Waiters(Broadcast(f, "queue_not_full"), "queue_not_full") = {}
    BY <1>4, BroadcastFacts, ResumeValues DEF Conds
<1>6. AtPoints(pc')
    BY <1>2, <1>4, <1>5
<1>7. \A t \in Threads : pc'[t] = f[t] \/ (f[t] = "queue_not_full" /\ pc'[t] = "add")
    BY <1>2, <1>5
<1>8. queue_cur_num' = Capacity - 1 => Waiters(pc', "queue_not_full") = {}
    BY <1>2, <1>5
<1>9. pc'[w] = "run"
    BY <1>0, <1>1, <1>4, <1>7
<1>10. \A t \in Threads \ {w} :
         \/ pc'[t] = pc[t]
         \/ pc[t] = "queue_empty" /\ pc'[t] = "drain"
         \/ pc[t] = "queue_not_full" /\ pc'[t] = "add"
    BY <1>1, <1>4, <1>7
<1>11. queue_cur_num' = 0 /\ Waiters(pc, "queue_empty") # {} =>
         \E t \in Threads : pc[t] = "queue_empty" /\ pc'[t] # "queue_empty"
    BY <1>0, <1>1, <1>4, <1>7
<1> QED BY <1>6, <1>8, <1>9, <1>10, <1>11

LEMMA WakeWorkersPC ==
    ASSUME AtPoints(pc), NEW c \in Clients, WakeWorkers(c)
    PROVE  /\ AtPoints(pc')
           /\ pc'[c] = "wake_adders"
           /\ \A t \in Threads \ {c} :
                 \/ pc'[t] = pc[t]
                 \/ pc[t] = "queue_not_empty" /\ pc'[t] = "take"
           /\ Waiters(pc', "queue_not_empty") = {}
<1> DEFINE next == [pc EXCEPT ![c] = "wake_adders"]
<1>1. /\ AtPoints(next)
      /\ \A t \in Threads : next[t] = IF t = c THEN "wake_adders" ELSE pc[t]
    BY MoveFacts, PoolAssumption, ThreadKinds DEF ClientPCs
<1>2. pc' = Broadcast(next, "queue_not_empty")
    BY DEF WakeWorkers
<1> HIDE DEF next
<1> QED BY <1>1, <1>2, BroadcastFacts, ResumeValues, ThreadKinds DEF Conds

LEMMA WakeAddersPC ==
    ASSUME AtPoints(pc), NEW c \in Clients, WakeAdders(c)
    PROVE  /\ AtPoints(pc')
           /\ pc'[c] = "join"
           /\ \A t \in Threads \ {c} :
                 \/ pc'[t] = pc[t]
                 \/ pc[t] = "queue_not_full" /\ pc'[t] = "add"
           /\ Waiters(pc', "queue_not_full") = {}
<1> DEFINE next == [pc EXCEPT ![c] = "join"]
<1>1. /\ AtPoints(next)
      /\ \A t \in Threads : next[t] = IF t = c THEN "join" ELSE pc[t]
    BY MoveFacts, PoolAssumption, ThreadKinds DEF ClientPCs
<1>2. pc' = Broadcast(next, "queue_not_full")
    BY DEF WakeAdders
<1> HIDE DEF next
<1> QED BY <1>1, <1>2, BroadcastFacts, ResumeValues, ThreadKinds DEF Conds

------------------------------------------------------------------------------
(* The inductive invariant. *)

\* The flags and the threads' positions agree on how far the pool's life is:
\* draining, then closed and empty, then without workers, then freed.
LifeCycle ==
    /\ pool_close => queue_close /\ queue_cur_num = 0
    /\ \A w \in Workers : pc[w] = "exited" => pool_close
    /\ \A c \in Clients : pc[c] \in {"queue_empty", "drain"} => queue_close /\ ~pool_close
    /\ \A c \in Clients : pc[c] \in {"wake_workers", "wake_adders", "join"} => pool_close
    /\ freed => pool_close /\ \A w \in Workers : pc[w] = "exited"

Running == {w \in Workers : pc[w] = "run"}

\* A started job is finished or in the hands of the worker running it.
Accounted == Elements(started) = finished \cup {pjob[w] : w \in Running}

IInv ==
    /\ TypeOK
    /\ CountMatchesList
    /\ StartedInOrder
    /\ NoLostWakeup
    /\ OneDestroyer
    /\ LifeCycle
    /\ Accounted

LEMMA InitIInv == Init => IInv
<1> SUFFICES ASSUME Init PROVE IInv
    OBVIOUS
<1>1. AtPoints(pc)
    BY PoolAssumption DEF Init, AtPoints, WorkerPCs, ClientPCs, Threads
<1>2. TypeOK
    <2>1. \A w \in Workers : pc[w] # "run"
        BY ThreadKinds DEF Init
    <2>2. \A c \in Clients : pc[c] = "idle"
        BY PoolAssumption, ThreadKinds DEF Init
    <2>3. <<>> \in Seq(Jobs)
        BY EmptySeq
    <2>4. /\ queue \in Seq(Jobs) /\ accepted \in Seq(Jobs) /\ started \in Seq(Jobs)
          /\ queue_cur_num \in Nat
        BY <2>3 DEF Init
    <2>5. /\ arg \in [Clients -> Jobs \cup {0}]
          /\ pjob \in [Workers -> Jobs \cup {0}]
        BY DEF Init
    <2>6. calls \in 0..MaxJobs /\ spurious \in 0..MaxSpurious
        BY PoolAssumption DEF Init
    <2>7. \A c \in Clients : pc[c] \notin {"add", "queue_not_full"}
        BY <2>2
    <2> QED BY <1>1, <2>1, <2>4, <2>5, <2>6, <2>7 DEF Init, TypeOK
<1>3. CountMatchesList
    BY PoolAssumption DEF Init, CountMatchesList
<1>4. StartedInOrder
    BY DEF Init, StartedInOrder
<1>5. NoLostWakeup
    BY DEF Init, NoLostWakeup, Waiters
<1>6. OneDestroyer
    BY PoolAssumption DEF Init, OneDestroyer, Destroying, Threads
<1>7. LifeCycle
    BY PoolAssumption DEF Init, LifeCycle, Threads
<1>8. Accounted
    <2>1. Running = {}
        BY ThreadKinds DEF Init, Running
    <2>2. Elements(started) = {}
        BY DEF Init, Elements
    <2> QED BY <2>1, <2>2 DEF Init, Accounted
<1> QED BY <1>2, <1>3, <1>4, <1>5, <1>6, <1>7, <1>8 DEF IInv

LEMMA TypeStep == IInv /\ [Next]_vars => TypeOK'
<1> SUFFICES ASSUME IInv, [Next]_vars PROVE TypeOK'
    OBVIOUS
<1> USE PoolAssumption, ThreadKinds
<1>0. TypeOK /\ AtPoints(pc)
    BY DEF IInv, TypeOK
<1>1. ASSUME NEW t \in Threads, Lock(t) PROVE TypeOK'
    BY <1>0, <1>1 DEF Lock, TypeOK, AtPoints, list, flags, held, history, bounds
<1>2. ASSUME NEW w \in Workers, TakeWait(w) PROVE TypeOK'
    BY <1>0, <1>2 DEF TakeWait, Inside, Leave, TypeOK, AtPoints, WorkerPCs, ClientPCs, list, flags, held, history, bounds
<1>3. ASSUME NEW w \in Workers, TakeExit(w) PROVE TypeOK'
    BY <1>0, <1>3 DEF TakeExit, Inside, Leave, TypeOK, AtPoints, WorkerPCs, ClientPCs, list, flags, held, history, bounds
<1>4. ASSUME NEW w \in Workers, TakeJob(w) PROVE TypeOK'
    <2>1. queue # <<>> /\ Head(queue) \in Jobs /\ Tail(queue) \in Seq(Jobs)
        BY <1>0, <1>4 DEF TakeJob, Unlinked, IInv, CountMatchesList, TypeOK
    <2>2. queue' \in Seq(Jobs) /\ queue_cur_num' \in Nat /\ started' \in Seq(Jobs)
        BY <1>0, <1>4, <2>1 DEF TakeJob, Unlinked, TypeOK
    <2>3. AtPoints(pc') /\ pc'[w] = "run"
        BY <1>0, <1>4, TakeJobPC
    <2>4. \A c \in Clients : pc'[c] \in {"add", "queue_not_full"} =>
              pc[c] \in {"add", "queue_not_full"}
        BY <1>0, <1>4, TakeJobPC
    <2>5. \A v \in Workers \ {w} : pc'[v] = pc[v]
        BY <1>0, <1>4, TakeJobPC DEF AtPoints, WorkerPCs
    <2> QED BY <1>0, <1>4, <2>1, <2>2, <2>3, <2>4, <2>5 DEF TakeJob, Unlinked, TypeOK, flags, bounds
<1>5. ASSUME NEW w \in Workers, RunJob(w) PROVE TypeOK'
    BY <1>0, <1>5 DEF RunJob, TypeOK, AtPoints, WorkerPCs, ClientPCs, Sections, list, flags, bounds
<1>6. ASSUME NEW c \in Clients, AddWait(c) PROVE TypeOK'
    BY <1>0, <1>6 DEF AddWait, Full, Inside, Leave, TypeOK, AtPoints, WorkerPCs, ClientPCs, list, flags, held, history, bounds
<1>7. ASSUME NEW c \in Clients, AddRefused(c) PROVE TypeOK'
    BY <1>0, <1>7 DEF AddRefused, Full, Inside, Leave, TypeOK, AtPoints, WorkerPCs, ClientPCs, list, flags, history, bounds
<1>8. ASSUME NEW c \in Clients, AddAccepted(c) PROVE TypeOK'
    <2>1. arg[c] \in Jobs
        BY <1>0, <1>8 DEF AddAccepted, Full, Inside, TypeOK
    <2>2. queue' \in Seq(Jobs) /\ queue_cur_num' \in Nat /\ accepted' \in Seq(Jobs)
        BY <1>0, <1>8, <2>1 DEF AddAccepted, Full, TypeOK
    <2>3. AtPoints(pc') /\ pc'[c] = "idle"
        BY <1>0, <1>8, AddAcceptedPC
    <2>4. \A d \in Clients \ {c} : pc'[d] = pc[d]
        BY <1>0, <1>8, AddAcceptedPC DEF AtPoints, ClientPCs
    <2>5. \A w \in Workers : pc'[w] = "run" => pc[w] = "run"
        BY <1>0, <1>8, AddAcceptedPC
    <2> QED BY <1>0, <1>8, <2>2, <2>3, <2>4, <2>5 DEF AddAccepted, Full, TypeOK, flags, bounds
<1>9. ASSUME NEW c \in Clients, CallAdd(c) PROVE TypeOK'
    BY <1>0, <1>9 DEF CallAdd, TypeOK, AtPoints, WorkerPCs, ClientPCs, Jobs, Sections, list, flags, history
<1>10. ASSUME NEW c \in Clients, CallDestroy(c) PROVE TypeOK'
    BY <1>0, <1>10 DEF CallDestroy, TypeOK, AtPoints, WorkerPCs, ClientPCs, Sections, list, flags, held, history
<1>11. ASSUME NEW c \in Clients, CloseRefused(c) PROVE TypeOK'
    BY <1>0, <1>11 DEF CloseRefused, Inside, Leave, TypeOK, AtPoints, WorkerPCs, ClientPCs, list, flags, held, history, bounds
<1>12. ASSUME NEW c \in Clients, CloseQueue(c) PROVE TypeOK'
    BY <1>0, <1>12 DEF CloseQueue, AwaitEmpty, Inside, Leave, TypeOK, AtPoints, WorkerPCs, ClientPCs, list, held, history, bounds
<1>13. ASSUME NEW c \in Clients, DrainQueue(c) PROVE TypeOK'
    BY <1>0, <1>13 DEF DrainQueue, AwaitEmpty, Inside, Leave, TypeOK, AtPoints, WorkerPCs, ClientPCs, list, held, history, bounds
<1>14. ASSUME NEW c \in Clients, WakeWorkers(c) PROVE TypeOK'
    <2>1. AtPoints(pc') /\ pc'[c] = "wake_adders"
        BY <1>0, <1>14, WakeWorkersPC
    <2>2. \A t \in Threads \ {c} : pc'[t] = pc[t] \/ pc'[t] = "take"
        BY <1>0, <1>14, WakeWorkersPC
    <2>3. \A d \in Clients : pc'[d] = pc[d] \/ d = c
        BY <2>1, <2>2 DEF AtPoints, ClientPCs
    <2>4. pc[c] = "wake_workers"
        BY <1>14 DEF WakeWorkers
    <2> QED BY <1>0, <1>14, <2>1, <2>2, <2>3, <2>4 DEF WakeWorkers, TypeOK, Sections, list, flags, held, history, bounds
<1>15. ASSUME NEW c \in Clients, WakeAdders(c) PROVE TypeOK'
    <2>1. AtPoints(pc') /\ pc'[c] = "join"
        BY <1>0, <1>15, WakeAddersPC
    <2>2. \A t \in Threads \ {c} :
              pc'[t] = pc[t] \/ (pc[t] = "queue_not_full" /\ pc'[t] = "add")
        BY <1>0, <1>15, WakeAddersPC
    <2>3. pc[c] = "wake_adders"
        BY <1>15 DEF WakeAdders
    <2> QED BY <1>0, <1>15, <2>1, <2>2, <2>3 DEF WakeAdders, TypeOK, Sections, list, flags, held, history, bounds
<1>16. ASSUME NEW c \in Clients, JoinAndFree(c) PROVE TypeOK'
    BY <1>0, <1>16 DEF JoinAndFree, TypeOK, AtPoints, WorkerPCs, ClientPCs, Sections, held, history, bounds
<1>17. ASSUME NEW t \in Threads, SpuriousWakeup(t) PROVE TypeOK'
    <2>1. Resume[pc[t]] = IF pc[t] = "queue_not_empty" THEN "take"
                          ELSE IF pc[t] = "queue_not_full" THEN "add" ELSE "drain"
        BY <1>17, ResumeValues DEF SpuriousWakeup, Conds
    <2> QED BY <1>0, <1>17, <2>1 DEF SpuriousWakeup, Conds, TypeOK, AtPoints, WorkerPCs, ClientPCs, Sections, list, flags, held, history
<1>18. ASSUME UNCHANGED vars PROVE TypeOK'
    BY <1>0, <1>18 DEF vars, control, list, flags, held, history, bounds, TypeOK, AtPoints
<1> QED
    BY <1>1, <1>2, <1>3, <1>4, <1>5, <1>6, <1>7, <1>8, <1>9, <1>10, <1>11, <1>12,
       <1>13, <1>14, <1>15, <1>16, <1>17, <1>18
       DEF Next, WorkerStep, ClientStep, AddStep, DestroyStep, Gone

------------------------------------------------------------------------------
(* The queue: only AddAccepted, TakeJob and JoinAndFree touch it. *)

\* Moving the head of q to the end of s leaves the concatenation as it was.
LEMMA MoveHead ==
    ASSUME NEW S, NEW s \in Seq(S), NEW q \in Seq(S), q # <<>>
    PROVE  Append(s, Head(q)) \o Tail(q) = s \o q
<1>1. Head(q) \in S /\ Tail(q) \in Seq(S) /\ <<Head(q)>> \in Seq(S)
    BY HeadTailProperties
<1>2. Append(s, Head(q)) = s \o <<Head(q)>>
    BY <1>1, AppendIsConcat
<1>3. (s \o <<Head(q)>>) \o Tail(q) = s \o (<<Head(q)>> \o Tail(q))
    BY <1>1, ConcatAssociative
<1>4. <<Head(q)>> \o Tail(q) = q
    BY ConcatSimplifications
<1> QED BY <1>2, <1>3, <1>4

LEMMA AppendOver ==
    \A s, q \in Seq(Jobs), e \in Jobs : Append(s \o q, e) = s \o Append(q, e)
<1> SUFFICES ASSUME NEW s \in Seq(Jobs), NEW q \in Seq(Jobs), NEW e \in Jobs
             PROVE  Append(s \o q, e) = s \o Append(q, e)
    OBVIOUS
<1>1. s \o q \in Seq(Jobs) /\ <<e>> \in Seq(Jobs)
    BY ConcatProperties
<1>2. (s \o q) \o <<e>> = s \o (q \o <<e>>)
    BY <1>1, ConcatAssociative
<1> QED BY <1>1, <1>2, AppendIsConcat

LEMMA QueueStep == IInv /\ [Next]_vars => CountMatchesList' /\ StartedInOrder'
<1> SUFFICES ASSUME IInv, [Next]_vars PROVE CountMatchesList' /\ StartedInOrder'
    OBVIOUS
<1> USE PoolAssumption
<1>0. TypeOK /\ CountMatchesList /\ StartedInOrder
    BY DEF IInv
<1>1. ASSUME UNCHANGED <<queue, queue_cur_num, accepted, started>>
      PROVE  CountMatchesList' /\ StartedInOrder'
    BY <1>0, <1>1 DEF CountMatchesList, StartedInOrder
<1>2. ASSUME NEW w \in Workers, TakeJob(w) PROVE CountMatchesList' /\ StartedInOrder'
    <2>1. queue \in Seq(Jobs) /\ queue # <<>> /\ Len(queue) = queue_cur_num
        BY <1>0, <1>2 DEF TakeJob, Unlinked, TypeOK, CountMatchesList
    <2>2. Tail(queue) \in Seq(Jobs) /\ Len(Tail(queue)) = Len(queue) - 1
        BY <2>1, HeadTailProperties
    <2>3. queue' = Tail(queue)
        BY <1>2, <2>1, <2>2, EmptySeq DEF TakeJob, Unlinked
    <2>4. CountMatchesList'
        BY <1>0, <1>2, <2>1, <2>2, <2>3 DEF TakeJob, Unlinked, CountMatchesList, TypeOK
    <2>5. StartedInOrder'
        <3>1. Append(started, Head(queue)) \o Tail(queue) = started \o queue
            BY <1>0, <2>1, MoveHead DEF TypeOK
        <3>2. started' = Append(started, Head(queue)) /\ accepted' = accepted
            BY <1>2 DEF TakeJob, Unlinked
        <3>3. accepted = started \o queue
            BY <1>0 DEF StartedInOrder
        <3>4. accepted' = started' \o queue'
            BY <2>3, <3>1, <3>2, <3>3, Zenon
        <3> QED BY <3>4 DEF StartedInOrder
    <2> QED BY <2>4, <2>5
<1>3. ASSUME NEW c \in Clients, AddAccepted(c) PROVE CountMatchesList' /\ StartedInOrder'
    <2>1. arg[c] \in Jobs /\ queue \in Seq(Jobs) /\ started \in Seq(Jobs)
        BY <1>0, <1>3 DEF AddAccepted, Full, Inside, TypeOK
    <2>2. CountMatchesList'
        BY <1>0, <1>3, <2>1, AppendProperties DEF AddAccepted, Full, CountMatchesList, TypeOK
    <2>3. StartedInOrder'
        <3>1. Append(started \o queue, arg[c]) = started \o Append(queue, arg[c])
            BY <2>1, AppendOver, Zenon
        <3>2. /\ accepted' = Append(accepted, arg[c]) /\ queue' = Append(queue, arg[c])
              /\ started' = started
            BY <1>3 DEF AddAccepted, Full
        <3>3. accepted = started \o queue
            BY <1>0 DEF StartedInOrder
        <3>4. accepted' = started' \o queue'
            BY <3>1, <3>2, <3>3, Zenon
        <3> QED BY <3>4 DEF StartedInOrder
    <2> QED BY <2>2, <2>3
<1>4. ASSUME NEW c \in Clients, JoinAndFree(c) PROVE CountMatchesList' /\ StartedInOrder'
    <2>1. queue = <<>>
        BY <1>0, <1>4 DEF IInv, LifeCycle, JoinAndFree, CountMatchesList, TypeOK
    <2> QED BY <1>1, <1>4, <2>1 DEF JoinAndFree, history
<1>5. ASSUME NEW t \in Threads,
             \/ Lock(t) \/ SpuriousWakeup(t)
      PROVE  UNCHANGED <<queue, queue_cur_num, accepted, started>>
    BY <1>5 DEF Lock, SpuriousWakeup, list, history
<1>6. ASSUME NEW w \in Workers, TakeWait(w) \/ TakeExit(w) \/ RunJob(w)
      PROVE  UNCHANGED <<queue, queue_cur_num, accepted, started>>
    BY <1>6 DEF TakeWait, TakeExit, RunJob, list, history
<1>7. ASSUME NEW c \in Clients,
             \/ AddWait(c) \/ AddRefused(c) \/ CallAdd(c) \/ CallDestroy(c)
             \/ CloseRefused(c) \/ CloseQueue(c) \/ DrainQueue(c)
             \/ WakeWorkers(c) \/ WakeAdders(c)
      PROVE  UNCHANGED <<queue, queue_cur_num, accepted, started>>
    BY <1>7 DEF AddWait, Full, AddRefused, CallAdd, CallDestroy, CloseRefused, CloseQueue,
                DrainQueue, WakeWorkers, WakeAdders, list, history
<1>8. UNCHANGED vars => UNCHANGED <<queue, queue_cur_num, accepted, started>>
    BY DEF vars, list, history
<1> QED
    BY <1>1, <1>2, <1>3, <1>4, <1>5, <1>6, <1>7, <1>8, ThreadKinds
       DEF Next, WorkerStep, ClientStep, AddStep, DestroyStep, Gone

------------------------------------------------------------------------------
(* No lost wakeup. *)

LEMMA WakeupStep == IInv /\ [Next]_vars => NoLostWakeup'
<1> SUFFICES ASSUME IInv, [Next]_vars PROVE NoLostWakeup'
    OBVIOUS
<1> USE PoolAssumption, ThreadKinds
<1>0. TypeOK /\ AtPoints(pc) /\ NoLostWakeup /\ LifeCycle /\ CountMatchesList /\ OneDestroyer
    BY DEF IInv, TypeOK
<1>1. ASSUME NEW t \in Threads, Lock(t) PROVE NoLostWakeup'
    BY <1>0, <1>1 DEF Lock, NoLostWakeup, Waiters, list, flags
<1>2. ASSUME NEW w \in Workers, TakeWait(w) PROVE NoLostWakeup'
    BY <1>0, <1>2 DEF TakeWait, Inside, Leave, NoLostWakeup, Waiters, AtPoints, list, flags
<1>3. ASSUME NEW w \in Workers, TakeExit(w) PROVE NoLostWakeup'
    BY <1>0, <1>3 DEF TakeExit, Inside, Leave, NoLostWakeup, Waiters, AtPoints, list, flags
<1>4. ASSUME NEW w \in Workers, TakeJob(w) PROVE NoLostWakeup'
    <2>1. /\ pc'[w] = "run"
          /\ \A t \in Threads \ {w} :
                 \/ pc'[t] = pc[t]
                 \/ pc[t] = "queue_empty" /\ pc'[t] = "drain"
                 \/ pc[t] = "queue_not_full" /\ pc'[t] = "add"
          /\ queue_cur_num' = Capacity - 1 => Waiters(pc', "queue_not_full") = {}
          /\ queue_cur_num' = 0 /\ Waiters(pc, "queue_empty") # {} =>
                 \E t \in Threads : pc[t] = "queue_empty" /\ pc'[t] # "queue_empty"
        BY <1>0, <1>4, TakeJobPC
    <2>2. \A cv \in Conds : Waiters(pc', cv) \subseteq Waiters(pc, cv)
        BY <2>1 DEF Waiters, Conds
    <2>3. /\ queue_cur_num # 0 /\ queue_cur_num' = queue_cur_num - 1
          /\ queue_cur_num \in Nat /\ ~pool_close'
        BY <1>0, <1>4 DEF TakeJob, Unlinked, TypeOK, flags
    <2>4. queue_cur_num' # 0 => Waiters(pc', "queue_not_empty") = {}
        BY <1>0, <2>2, <2>3 DEF NoLostWakeup, Conds
    <2>5. queue_cur_num' # Capacity => Waiters(pc', "queue_not_full") = {}
        <3>1. CASE queue_cur_num # Capacity
            BY <1>0, <2>2, <3>1 DEF NoLostWakeup, Conds
        <3>2. CASE queue_cur_num = Capacity
            BY <2>1, <2>3, <3>2
        <3> QED BY <3>1, <3>2
    <2>6. queue_cur_num' = 0 => Waiters(pc', "queue_empty") = {}
        <3>1. SUFFICES ASSUME queue_cur_num' = 0, NEW t \in Waiters(pc', "queue_empty")
                       PROVE  FALSE
            OBVIOUS
        <3>2. t \in Threads /\ pc'[t] = "queue_empty" /\ pc[t] = "queue_empty"
            BY <2>2 DEF Waiters, Conds
        <3>3. PICK u \in Threads : pc[u] = "queue_empty" /\ pc'[u] # "queue_empty"
            BY <2>1, <3>1, <3>2 DEF Waiters
        <3>4. t \in Destroying /\ u \in Destroying
            BY <1>0, <3>2, <3>3 DEF Destroying, AtPoints, WorkerPCs, Threads
        <3> QED BY <1>0, <3>2, <3>3, <3>4 DEF OneDestroyer
    <2> QED BY <2>3, <2>4, <2>5, <2>6 DEF NoLostWakeup
<1>5. ASSUME NEW w \in Workers, RunJob(w) PROVE NoLostWakeup'
    BY <1>0, <1>5 DEF RunJob, NoLostWakeup, Waiters, AtPoints, list, flags
<1>6. ASSUME NEW c \in Clients, AddWait(c) PROVE NoLostWakeup'
    BY <1>0, <1>6 DEF AddWait, Full, Closing, Inside, Leave, NoLostWakeup, Waiters, AtPoints, list, flags
<1>7. ASSUME NEW c \in Clients, AddRefused(c) PROVE NoLostWakeup'
    BY <1>0, <1>7 DEF AddRefused, Full, Inside, Leave, NoLostWakeup, Waiters, AtPoints, list, flags
<1>8. ASSUME NEW c \in Clients, AddAccepted(c) PROVE NoLostWakeup'
    <2>1. /\ pc'[c] = "idle"
          /\ \A t \in Threads \ {c} :
                 pc'[t] = pc[t] \/ (pc[t] = "queue_not_empty" /\ pc'[t] = "take")
          /\ queue = <<>> => Waiters(pc', "queue_not_empty") = {}
        BY <1>0, <1>8, AddAcceptedPC
    <2>2. \A cv \in Conds : Waiters(pc', cv) \subseteq Waiters(pc, cv)
        BY <2>1 DEF Waiters, Conds
    <2>3. /\ queue_cur_num # Capacity /\ queue_cur_num' = queue_cur_num + 1
          /\ queue_cur_num \in Nat /\ ~pool_close' /\ queue_cur_num = Len(queue)
        BY <1>0, <1>8 DEF AddAccepted, Full, Closing, TypeOK, CountMatchesList, flags
    <2>4. queue # <<>> => queue_cur_num # 0
        BY <1>0, <2>3 DEF TypeOK
    <2>5. Waiters(pc', "queue_not_empty") = {}
        BY <1>0, <2>1, <2>2, <2>4 DEF NoLostWakeup, Conds
    <2>6. Waiters(pc', "queue_not_full") = {}
        BY <1>0, <2>2, <2>3 DEF NoLostWakeup, Conds
    <2> QED BY <2>3, <2>5, <2>6 DEF NoLostWakeup
<1>9. ASSUME NEW c \in Clients, CallAdd(c) PROVE NoLostWakeup'
    BY <1>0, <1>9 DEF CallAdd, NoLostWakeup, Waiters, AtPoints, list, flags
<1>10. ASSUME NEW c \in Clients, CallDestroy(c) PROVE NoLostWakeup'
    BY <1>0, <1>10 DEF CallDestroy, NoLostWakeup, Waiters, AtPoints, list, flags
<1>11. ASSUME NEW c \in Clients, CloseRefused(c) PROVE NoLostWakeup'
    BY <1>0, <1>11 DEF CloseRefused, Inside, Leave, NoLostWakeup, Waiters, AtPoints, list, flags
<1>12. ASSUME NEW c \in Clients, CloseQueue(c) PROVE NoLostWakeup'
    BY <1>0, <1>12 DEF CloseQueue, AwaitEmpty, Closing, Inside, Leave, NoLostWakeup, Waiters, AtPoints, list
<1>13. ASSUME NEW c \in Clients, DrainQueue(c) PROVE NoLostWakeup'
    BY <1>0, <1>13 DEF DrainQueue, AwaitEmpty, LifeCycle, Inside, Leave, NoLostWakeup, Waiters, AtPoints, list
<1>14. ASSUME NEW c \in Clients, WakeWorkers(c) PROVE NoLostWakeup'
    <2>1. /\ pc'[c] = "wake_adders"
          /\ \A t \in Threads \ {c} :
                 pc'[t] = pc[t] \/ (pc[t] = "queue_not_empty" /\ pc'[t] = "take")
          /\ Waiters(pc', "queue_not_empty") = {}
        BY <1>0, <1>14, WakeWorkersPC
    <2>2. \A cv \in Conds : Waiters(pc', cv) \subseteq Waiters(pc, cv)
        BY <2>1 DEF Waiters, Conds
    <2>3. Waiters(pc', "wake_adders") # {}
        BY <2>1 DEF Waiters
    <2> QED BY <1>0, <1>14, <2>1, <2>2, <2>3 DEF WakeWorkers, NoLostWakeup, Conds, list, flags
<1>15. ASSUME NEW c \in Clients, WakeAdders(c) PROVE NoLostWakeup'
    <2>1. /\ pc'[c] = "join" /\ pc[c] = "wake_adders"
          /\ \A t \in Threads \ {c} :
                 pc'[t] = pc[t] \/ (pc[t] = "queue_not_full" /\ pc'[t] = "add")
          /\ Waiters(pc', "queue_not_full") = {}
        BY <1>0, <1>15, WakeAddersPC DEF WakeAdders
    <2>2. \A cv \in Conds : Waiters(pc', cv) \subseteq Waiters(pc, cv)
        BY <2>1 DEF Waiters, Conds
    <2>3. Waiters(pc, "wake_workers") \subseteq Waiters(pc', "wake_workers")
        BY <2>1 DEF Waiters
    <2> QED BY <1>0, <1>15, <2>1, <2>2, <2>3 DEF WakeAdders, NoLostWakeup, Conds, list, flags
<1>16. ASSUME NEW c \in Clients, JoinAndFree(c) PROVE NoLostWakeup'
    BY <1>0, <1>16 DEF JoinAndFree, NoLostWakeup, Waiters, AtPoints
<1>17. ASSUME NEW t \in Threads, SpuriousWakeup(t) PROVE NoLostWakeup'
    BY <1>0, <1>17, ResumeValues DEF SpuriousWakeup, Conds, NoLostWakeup, Waiters, AtPoints, list, flags
<1>18. ASSUME UNCHANGED vars PROVE NoLostWakeup'
    BY <1>0, <1>18 DEF vars, control, list, flags, NoLostWakeup, Waiters
<1> QED
    BY <1>1, <1>2, <1>3, <1>4, <1>5, <1>6, <1>7, <1>8, <1>9, <1>10, <1>11, <1>12,
       <1>13, <1>14, <1>15, <1>16, <1>17, <1>18
       DEF Next, WorkerStep, ClientStep, AddStep, DestroyStep, Gone

------------------------------------------------------------------------------
(* The life of the pool. *)

LEMMA LifeStep == IInv /\ [Next]_vars => OneDestroyer' /\ LifeCycle'
<1> SUFFICES ASSUME IInv, [Next]_vars PROVE OneDestroyer' /\ LifeCycle'
    OBVIOUS
<1> USE PoolAssumption, ThreadKinds
<1>0. TypeOK /\ AtPoints(pc) /\ CountMatchesList /\ OneDestroyer /\ LifeCycle
    BY DEF IInv, TypeOK
<1>1. \A w \in Workers : w \notin Clients
    OBVIOUS
\* A step that moves nobody into or out of the states LifeCycle speaks of.
<1>2. ASSUME UNCHANGED flags,
             queue_cur_num' = queue_cur_num \/ ~pool_close,
             \A c \in Clients : pc'[c] = pc[c] \/ pc'[c] \in {"idle", "add", "queue_not_full", "close"}
                                  \/ (pc[c] = "queue_empty" /\ pc'[c] = "drain"),
             \A w \in Workers : (pc'[w] = "exited") <=> (pc[w] = "exited")
      PROVE  OneDestroyer' /\ LifeCycle'
    <2>1. Destroying' \subseteq Destroying
        BY <1>2 DEF Destroying
    <2>2. OneDestroyer'
        BY <1>0, <1>2, <2>1 DEF OneDestroyer, flags
    <2>3. LifeCycle'
        BY <1>0, <1>2 DEF LifeCycle, flags
    <2> QED BY <2>2, <2>3
<1>3. ASSUME NEW t \in Threads, Lock(t) PROVE OneDestroyer' /\ LifeCycle'
    BY <1>2, <1>3 DEF Lock, flags, list
<1>4. ASSUME NEW w \in Workers, TakeWait(w) PROVE OneDestroyer' /\ LifeCycle'
    BY <1>0, <1>1, <1>2, <1>4 DEF TakeWait, Inside, Leave, AtPoints, list
<1>5. ASSUME NEW w \in Workers, TakeExit(w) PROVE OneDestroyer' /\ LifeCycle'
    <2>1. /\ pool_close /\ UNCHANGED <<flags, queue_cur_num>>
          /\ \A t \in Threads : pc'[t] = IF t = w THEN "exited" ELSE pc[t]
        BY <1>0, <1>5 DEF TakeExit, Leave, AtPoints, list
    <2>2. \A c \in Clients : pc'[c] = pc[c]
        BY <1>1, <2>1
    <2>3. Destroying' = Destroying
        BY <2>2 DEF Destroying
    <2>4. OneDestroyer'
        BY <1>0, <2>1, <2>3 DEF OneDestroyer, flags
    <2>5. LifeCycle'
        BY <1>0, <2>1, <2>2 DEF LifeCycle, flags
    <2> QED BY <2>4, <2>5
<1>6. ASSUME NEW w \in Workers, TakeJob(w) PROVE OneDestroyer' /\ LifeCycle'
    <2>1. /\ pc'[w] = "run"
          /\ \A t \in Threads \ {w} :
                 \/ pc'[t] = pc[t]
                 \/ pc[t] = "queue_empty" /\ pc'[t] = "drain"
                 \/ pc[t] = "queue_not_full" /\ pc'[t] = "add"
        BY <1>0, <1>6, TakeJobPC
    <2>2. pc[w] = "take" /\ ~pool_close /\ UNCHANGED flags
        BY <1>6 DEF TakeJob, Unlinked, Inside
    <2> QED BY <1>1, <1>2, <2>1, <2>2
<1>7. ASSUME NEW w \in Workers, RunJob(w) PROVE OneDestroyer' /\ LifeCycle'
    BY <1>0, <1>1, <1>2, <1>7 DEF RunJob, AtPoints, list
<1>8. ASSUME NEW c \in Clients, AddWait(c) PROVE OneDestroyer' /\ LifeCycle'
    BY <1>0, <1>1, <1>2, <1>8 DEF AddWait, Full, Inside, Leave, AtPoints, list
<1>9. ASSUME NEW c \in Clients, AddRefused(c) PROVE OneDestroyer' /\ LifeCycle'
    BY <1>0, <1>1, <1>2, <1>9 DEF AddRefused, Full, Inside, Leave, AtPoints, list
<1>10. ASSUME NEW c \in Clients, AddAccepted(c) PROVE OneDestroyer' /\ LifeCycle'
    <2>1. /\ pc'[c] = "idle"
          /\ \A t \in Threads \ {c} :
                 pc'[t] = pc[t] \/ (pc[t] = "queue_not_empty" /\ pc'[t] = "take")
        BY <1>0, <1>10, AddAcceptedPC
    <2>2. \A d \in Clients : pc[d] # "queue_not_empty"
        BY <1>0 DEF AtPoints, ClientPCs
    <2>3. ~pool_close /\ UNCHANGED flags
        BY <1>10 DEF AddAccepted, Full, Closing
    <2> QED BY <1>1, <1>2, <2>1, <2>2, <2>3
<1>11. ASSUME NEW c \in Clients, CallAdd(c) PROVE OneDestroyer' /\ LifeCycle'
    BY <1>0, <1>1, <1>2, <1>11 DEF CallAdd, AtPoints, list
<1>12. ASSUME NEW c \in Clients, CallDestroy(c) PROVE OneDestroyer' /\ LifeCycle'
    BY <1>0, <1>1, <1>2, <1>12 DEF CallDestroy, AtPoints, list
<1>13. ASSUME NEW c \in Clients, CloseRefused(c) PROVE OneDestroyer' /\ LifeCycle'
    BY <1>0, <1>1, <1>2, <1>13 DEF CloseRefused, Inside, Leave, AtPoints, list
<1>14. ASSUME NEW c \in Clients, CloseQueue(c) PROVE OneDestroyer' /\ LifeCycle'
    <2>1. /\ ~queue_close /\ ~pool_close /\ ~freed /\ queue_close' /\ ~freed'
          /\ queue_cur_num' = queue_cur_num
        BY <1>14 DEF CloseQueue, Closing, Inside, list
    <2>2. /\ \A t \in Threads \ {c} : pc'[t] = pc[t]
          /\ \/ pc'[c] = "queue_empty" /\ pool_close' = pool_close
             \/ pc'[c] = "wake_workers" /\ pool_close' /\ queue_cur_num = 0
        BY <1>0, <1>14 DEF CloseQueue, AwaitEmpty, Leave, AtPoints
    <2>3. Destroying = {} /\ Destroying' = {c}
        BY <1>0, <2>1, <2>2 DEF OneDestroyer, Destroying
    <2>4. OneDestroyer'
        BY <2>1, <2>3 DEF OneDestroyer
    <2>5. \A d \in Clients \ {c} : d \notin Destroying
        BY <2>3
    <2>6. LifeCycle'
        BY <1>0, <1>1, <2>1, <2>2, <2>5 DEF LifeCycle, Destroying
    <2> QED BY <2>4, <2>6
<1>15. ASSUME NEW c \in Clients, DrainQueue(c) PROVE OneDestroyer' /\ LifeCycle'
    <2>1. /\ queue_close /\ ~pool_close /\ ~freed /\ queue_close' /\ ~freed'
          /\ queue_cur_num' = queue_cur_num /\ c \in Destroying
        BY <1>0, <1>15 DEF DrainQueue, LifeCycle, Inside, list, Destroying
    <2>2. /\ \A t \in Threads \ {c} : pc'[t] = pc[t]
          /\ \/ pc'[c] = "queue_empty" /\ pool_close' = pool_close
             \/ pc'[c] = "wake_workers" /\ pool_close' /\ queue_cur_num = 0
        BY <1>0, <1>15 DEF DrainQueue, AwaitEmpty, Leave, AtPoints
    <2>3. Destroying = {c} /\ Destroying' = {c}
        BY <1>0, <2>1, <2>2 DEF OneDestroyer, Destroying
    <2>4. OneDestroyer'
        BY <2>1, <2>3 DEF OneDestroyer
    <2>5. \A d \in Clients \ {c} : d \notin Destroying
        BY <2>3
    <2>6. LifeCycle'
        BY <1>0, <1>1, <2>1, <2>2, <2>5 DEF LifeCycle, Destroying
    <2> QED BY <2>4, <2>6
<1>16. ASSUME NEW c \in Clients, WakeWorkers(c) PROVE OneDestroyer' /\ LifeCycle'
    <2>1. /\ pc'[c] = "wake_adders"
          /\ \A t \in Threads \ {c} :
                 pc'[t] = pc[t] \/ (pc[t] = "queue_not_empty" /\ pc'[t] = "take")
        BY <1>0, <1>16, WakeWorkersPC
    <2>2. \A d \in Clients : pc[d] # "queue_not_empty"
        BY <1>0 DEF AtPoints, ClientPCs
    <2>3. pc[c] = "wake_workers" /\ UNCHANGED <<flags, queue_cur_num>>
        BY <1>16 DEF WakeWorkers, list
    <2>4. Destroying' = Destroying
        BY <2>1, <2>2, <2>3 DEF Destroying
    <2>5. OneDestroyer'
        BY <1>0, <2>3, <2>4 DEF OneDestroyer, flags
    <2>6. LifeCycle'
        BY <1>0, <1>1, <2>1, <2>2, <2>3 DEF LifeCycle, flags
    <2> QED BY <2>5, <2>6
<1>17. ASSUME NEW c \in Clients, WakeAdders(c) PROVE OneDestroyer' /\ LifeCycle'
    <2>1. /\ pc'[c] = "join"
          /\ \A t \in Threads \ {c} :
                 pc'[t] = pc[t] \/ (pc[t] = "queue_not_full" /\ pc'[t] = "add")
        BY <1>0, <1>17, WakeAddersPC
    <2>3. pc[c] = "wake_adders" /\ UNCHANGED <<flags, queue_cur_num>>
        BY <1>17 DEF WakeAdders, list
    <2>4. Destroying' = Destroying
        BY <2>1, <2>3 DEF Destroying
    <2>5. OneDestroyer'
        BY <1>0, <2>3, <2>4 DEF OneDestroyer, flags
    <2>6. LifeCycle'
        BY <1>0, <1>1, <2>1, <2>3 DEF LifeCycle, flags
    <2> QED BY <2>5, <2>6
<1>18. ASSUME NEW c \in Clients, JoinAndFree(c) PROVE OneDestroyer' /\ LifeCycle'
    <2>1. /\ pc[c] = "join" /\ \A w \in Workers : pc[w] = "exited"
          /\ freed' /\ UNCHANGED <<queue_cur_num, queue_close, pool_close>>
          /\ pc'[c] = "idle" /\ \A t \in Threads \ {c} : pc'[t] = pc[t]
        BY <1>0, <1>18 DEF JoinAndFree, AtPoints
    <2>2. Destroying = {c} /\ Destroying' = {}
        BY <1>0, <2>1 DEF OneDestroyer, Destroying
    <2>3. OneDestroyer'
        BY <2>2 DEF OneDestroyer
    <2>4. LifeCycle'
        BY <1>0, <1>1, <2>1 DEF LifeCycle
    <2> QED BY <2>3, <2>4
<1>19. ASSUME NEW t \in Threads, SpuriousWakeup(t) PROVE OneDestroyer' /\ LifeCycle'
    <2>1. /\ pc[t] \in Conds
          /\ \A u \in Threads : pc'[u] = IF u = t THEN Resume[pc[t]] ELSE pc[u]
          /\ UNCHANGED <<flags, queue_cur_num>>
        BY <1>0, <1>19 DEF SpuriousWakeup, AtPoints, list
    <2>2. \/ pc[t] = "queue_not_empty" /\ pc'[t] = "take"
          \/ pc[t] = "queue_not_full" /\ pc'[t] = "add"
          \/ pc[t] = "queue_empty" /\ pc'[t] = "drain"
        BY <2>1, ResumeValues DEF Conds
    <2>3. \A d \in Clients : pc[d] # "queue_not_empty"
        BY <1>0 DEF AtPoints, ClientPCs
    <2> QED BY <1>1, <1>2, <2>1, <2>2, <2>3
<1>20. ASSUME UNCHANGED vars PROVE OneDestroyer' /\ LifeCycle'
    BY <1>2, <1>20 DEF vars, control, list
<1> QED
    BY <1>3, <1>4, <1>5, <1>6, <1>7, <1>8, <1>9, <1>10, <1>11, <1>12,
       <1>13, <1>14, <1>15, <1>16, <1>17, <1>18, <1>19, <1>20
       DEF Next, WorkerStep, ClientStep, AddStep, DestroyStep, Gone

------------------------------------------------------------------------------
(* Every started job is somewhere. *)

LEMMA ElementsAppend ==
    ASSUME NEW S, NEW s \in Seq(S), NEW e \in S
    PROVE  Elements(Append(s, e)) = Elements(s) \cup {e}
<1>1. /\ Len(Append(s, e)) = Len(s) + 1 /\ Len(s) \in Nat
      /\ \A i \in 1..Len(s) : Append(s, e)[i] = s[i]
      /\ Append(s, e)[Len(s) + 1] = e
      /\ DOMAIN s = 1..Len(s) /\ DOMAIN Append(s, e) = 1..(Len(s) + 1)
    BY AppendProperties, LenProperties
<1>2. 1..(Len(s) + 1) = (1..Len(s)) \cup {Len(s) + 1}
    BY <1>1
<1> QED BY <1>1, <1>2 DEF Elements

LEMMA AccountStep == IInv /\ [Next]_vars => Accounted'
<1> SUFFICES ASSUME IInv, [Next]_vars PROVE Accounted'
    OBVIOUS
<1> USE PoolAssumption, ThreadKinds
<1>0. TypeOK /\ AtPoints(pc) /\ CountMatchesList /\ Accounted
    BY DEF IInv, TypeOK
<1>1. ASSUME UNCHANGED <<started, finished, pjob>>,
             \A w \in Workers : (pc'[w] = "run") <=> (pc[w] = "run")
      PROVE  Accounted'
    <2>1. Running' = Running
        BY <1>1 DEF Running
    <2> QED BY <1>0, <1>1, <2>1 DEF Accounted, Elements
<1>2. ASSUME NEW w \in Workers, TakeJob(w) PROVE Accounted'
    <2>1. queue \in Seq(Jobs) /\ queue # <<>> /\ started \in Seq(Jobs)
        BY <1>0, <1>2 DEF TakeJob, Unlinked, TypeOK, CountMatchesList
    <2>2. Head(queue) \in Jobs
        BY <2>1, HeadTailProperties
    <2>3. Elements(started') = Elements(started) \cup {Head(queue)}
        BY <1>2, <2>1, <2>2, ElementsAppend DEF TakeJob, Unlinked
    <2>4. /\ pc[w] # "run" /\ pc'[w] = "run"
          /\ \A v \in Workers \ {w} : (pc'[v] = "run") <=> (pc[v] = "run")
        BY <1>0, <1>2, TakeJobPC DEF TakeJob, Unlinked, Inside
    <2>5. Running' = Running \cup {w} /\ w \notin Running
        BY <2>4 DEF Running
    <2>6. /\ finished' = finished
          /\ \A v \in Workers : pjob'[v] = IF v = w THEN Head(queue) ELSE pjob[v]
        BY <1>0, <1>2 DEF TakeJob, Unlinked, TypeOK
    <2>7. {pjob'[v] : v \in Running'} = {pjob[v] : v \in Running} \cup {Head(queue)}
        BY <2>5, <2>6 DEF Running
    <2> QED BY <1>0, <2>3, <2>6, <2>7 DEF Accounted
<1>3. ASSUME NEW w \in Workers, RunJob(w) PROVE Accounted'
    <2>1. /\ pc[w] = "run" /\ \A v \in Workers : pc'[v] = IF v = w THEN "take" ELSE pc[v]
        BY <1>0, <1>3 DEF RunJob, AtPoints
    <2>2. Running' = Running \ {w} /\ w \in Running
        BY <2>1 DEF Running
    <2>3. /\ started' = started /\ finished' = finished \cup {pjob[w]}
          /\ \A v \in Workers \ {w} : pjob'[v] = pjob[v]
        BY <1>0, <1>3 DEF RunJob, TypeOK
    <2>4. finished' \cup {pjob'[v] : v \in Running'} = finished \cup {pjob[v] : v \in Running}
        BY <2>2, <2>3 DEF Running
    <2> QED BY <1>0, <2>3, <2>4 DEF Accounted, Elements
<1>4. ASSUME NEW t \in Threads, Lock(t) \/ SpuriousWakeup(t) PROVE Accounted'
    <2>1. CASE Lock(t)
        BY <1>1, <2>1 DEF Lock, held, history
    <2>2. CASE SpuriousWakeup(t)
        BY <1>0, <1>1, <2>2, ResumeValues DEF SpuriousWakeup, Conds, AtPoints, held, history
    <2> QED BY <1>4, <2>1, <2>2
<1>5. ASSUME NEW w \in Workers, TakeWait(w) \/ TakeExit(w) PROVE Accounted'
    BY <1>0, <1>1, <1>5 DEF TakeWait, TakeExit, Inside, Leave, AtPoints, held, history
<1>6. ASSUME NEW c \in Clients,
             \/ AddWait(c) \/ AddRefused(c) \/ CallAdd(c) \/ CallDestroy(c)
             \/ CloseRefused(c) \/ CloseQueue(c) \/ DrainQueue(c) \/ JoinAndFree(c)
      PROVE  Accounted'
    <2>1. \A w \in Workers : pc'[w] = pc[w]
        BY <1>0, <1>6 DEF AddWait, Full, AddRefused, CallAdd, CallDestroy, CloseRefused,
           CloseQueue, DrainQueue, AwaitEmpty, JoinAndFree, Leave, AtPoints
    <2>2. UNCHANGED <<started, finished, pjob>>
        BY <1>6 DEF AddWait, Full, AddRefused, CallAdd, CallDestroy, CloseRefused,
           CloseQueue, DrainQueue, JoinAndFree, held, history
    <2> QED BY <1>1, <2>1, <2>2
<1>7. ASSUME NEW c \in Clients, AddAccepted(c) PROVE Accounted'
    BY <1>0, <1>1, <1>7, AddAcceptedPC DEF AddAccepted, Full
<1>8. ASSUME NEW c \in Clients, WakeWorkers(c) PROVE Accounted'
    BY <1>0, <1>1, <1>8, WakeWorkersPC DEF WakeWorkers, held, history
<1>9. ASSUME NEW c \in Clients, WakeAdders(c) PROVE Accounted'
    BY <1>0, <1>1, <1>9, WakeAddersPC DEF WakeAdders, held, history
<1>10. ASSUME UNCHANGED vars PROVE Accounted'
    BY <1>1, <1>10 DEF vars, control, held, history
<1> QED
    BY <1>2, <1>3, <1>4, <1>5, <1>6, <1>7, <1>8, <1>9, <1>10
       DEF Next, WorkerStep, ClientStep, AddStep, DestroyStep, Gone

------------------------------------------------------------------------------
(* The theorems. *)

LEMMA Inductive == Spec => []IInv
<1>1. IInv /\ [Next]_vars => IInv'
    BY TypeStep, QueueStep, WakeupStep, LifeStep, AccountStep DEF IInv
<1> QED BY InitIInv, <1>1, PTL DEF Spec

\* Every variable keeps its type, and a worker in its callback or a client in
\* threadpool_add_job has a job.
THEOREM TypeCorrect == Spec => []TypeOK
<1>1. IInv => TypeOK
    BY DEF IInv
<1> QED BY Inductive, <1>1, PTL

\* The counter queue_cur_num is the length of the list and the queue never
\* exceeds queue_max_num, whoever adds, takes or destroys.
THEOREM CountCorrect == Spec => []CountMatchesList
<1>1. IInv => CountMatchesList
    BY DEF IInv
<1> QED BY Inductive, <1>1, PTL

\* The pool is a FIFO that loses and duplicates nothing: the jobs started,
\* followed by those queued, are the jobs accepted.
THEOREM FirstInFirstOut == Spec => []StartedInOrder
<1>1. IInv => StartedInOrder
    BY DEF IInv
<1> QED BY Inductive, <1>1, PTL

\* The sparing signals of phread_pool.c (119, 157, 161) and the two unlocked
\* broadcasts of threadpool_destroy suffice: no thread is left waiting on a
\* condition that holds.
THEOREM WakeupsSuffice == Spec => []NoLostWakeup
<1>1. IInv => NoLostWakeup
    BY DEF IInv
<1> QED BY Inductive, <1>1, PTL

\* The gate at 176 lets exactly one of any number of destroyers through.
THEOREM DestroyedOnce == Spec => []OneDestroyer
<1>1. IInv => OneDestroyer
    BY DEF IInv
<1> QED BY Inductive, <1>1, PTL

\* When the pool is freed, every accepted job has run to its end and every
\* worker has exited.
THEOREM DestroyIsGraceful == Spec => []GracefulDestroy
<1>1. IInv => GracefulDestroy
    <2> SUFFICES ASSUME IInv, freed PROVE
                 finished = Elements(accepted) /\ \A w \in Workers : pc[w] = "exited"
        BY DEF GracefulDestroy
    <2>1. queue_cur_num = 0 /\ \A w \in Workers : pc[w] = "exited"
        BY DEF IInv, LifeCycle
    <2>2. finished = Elements(started)
        BY <2>1 DEF IInv, Accounted, Running
    <2>3. queue = <<>> /\ started \in Seq(Jobs)
        <3>1. queue \in Seq(Jobs) /\ started \in Seq(Jobs) /\ Len(queue) = 0
            BY <2>1 DEF IInv, CountMatchesList, TypeOK
        <3> QED BY <3>1, EmptySeq
    <2>4. started \o queue = started
        BY <2>3, ConcatSimplifications
    <2>5. accepted = started
        BY <2>4 DEF IInv, StartedInOrder
    <2> QED BY <2>1, <2>2, <2>5
<1> QED BY Inductive, <1>1, PTL

------------------------------------------------------------------------------
(* The jobs of different calls are different jobs. *)

\* A job is in one place: accepted once, or in the hands of the one client that
\* adds it; run by one worker, and finished only when nobody runs it.
JobsApart ==
    /\ \A i, k \in DOMAIN accepted : accepted[i] = accepted[k] => i = k
    /\ \A i \in DOMAIN accepted : accepted[i] <= calls
    /\ \A c \in Clients : arg[c] <= calls
    /\ \A c \in Clients : arg[c] # 0 => arg[c] \notin Elements(accepted)
    /\ \A c, d \in Clients : arg[c] = arg[d] /\ arg[c] # 0 => c = d
    /\ \A w \in Running : pjob[w] \notin finished
    /\ \A v, w \in Running : pjob[v] = pjob[w] => v = w

LEMMA ElementsConcat ==
    ASSUME NEW S, NEW s \in Seq(S), NEW q \in Seq(S)
    PROVE  Elements(s \o q) = Elements(s) \cup Elements(q)
<1>1. /\ DOMAIN s = 1..Len(s) /\ DOMAIN q = 1..Len(q) /\ Len(s) \in Nat /\ Len(q) \in Nat
      /\ DOMAIN (s \o q) = 1..(Len(s) + Len(q))
      /\ \A i \in 1..(Len(s) + Len(q)) :
             (s \o q)[i] = IF i <= Len(s) THEN s[i] ELSE q[i - Len(s)]
    BY ConcatProperties, LenProperties
<1>2. Elements(s \o q) \subseteq Elements(s) \cup Elements(q)
    BY <1>1 DEF Elements
<1>3. Elements(s) \subseteq Elements(s \o q)
    BY <1>1 DEF Elements
<1>4. ASSUME NEW i \in 1..Len(q) PROVE q[i] \in Elements(s \o q)
    <2>1. /\ Len(s) + i \in 1..(Len(s) + Len(q)) /\ ~(Len(s) + i <= Len(s))
          /\ (Len(s) + i) - Len(s) = i
        BY <1>1, <1>4
    <2>2. (s \o q)[Len(s) + i] = q[i]
        BY <1>1, <2>1
    <2> QED BY <1>1, <2>1, <2>2 DEF Elements
<1> QED BY <1>1, <1>2, <1>3, <1>4 DEF Elements

\* The job at the head of the queue has not been started.
LEMMA HeadNotStarted ==
    ASSUME TypeOK, StartedInOrder, JobsApart, queue # <<>>
    PROVE  Head(queue) \notin Elements(started)
<1>1. /\ queue \in Seq(Jobs) /\ started \in Seq(Jobs) /\ accepted = started \o queue
      /\ \A i, k \in DOMAIN accepted : accepted[i] = accepted[k] => i = k
    BY DEF TypeOK, StartedInOrder, JobsApart
<1>2. /\ Len(started) \in Nat /\ Len(queue) \in Nat /\ Len(queue) # 0
      /\ DOMAIN started = 1..Len(started) /\ DOMAIN accepted = 1..(Len(started) + Len(queue))
      /\ \A i \in 1..(Len(started) + Len(queue)) :
             accepted[i] = IF i <= Len(started) THEN started[i] ELSE queue[i - Len(started)]
    BY <1>1, ConcatProperties, LenProperties, EmptySeq
<1>3. Head(queue) = queue[1]
    BY <1>1
<1>4. /\ Len(started) + 1 \in DOMAIN accepted
      /\ accepted[Len(started) + 1] = queue[1]
    <2>1. ~(Len(started) + 1 <= Len(started)) /\ (Len(started) + 1) - Len(started) = 1
        BY <1>2
    <2> QED BY <1>2, <2>1
<1>5. ASSUME NEW i \in DOMAIN started PROVE started[i] # Head(queue)
    <2>1. i \in DOMAIN accepted /\ accepted[i] = started[i] /\ i # Len(started) + 1
        BY <1>2
    <2> QED BY <1>1, <1>3, <1>4, <2>1
<1> QED BY <1>5 DEF Elements

LEMMA InitApart == Init => JobsApart
<1> SUFFICES ASSUME Init PROVE JobsApart
    OBVIOUS
<1>1. Running = {}
    BY ThreadKinds DEF Init, Running
<1>2. DOMAIN accepted = {}
    BY DEF Init
<1> QED BY <1>1, <1>2 DEF Init, JobsApart

LEMMA ApartStep == IInv /\ JobsApart /\ [Next]_vars => JobsApart'
<1> SUFFICES ASSUME IInv, JobsApart, [Next]_vars PROVE JobsApart'
    OBVIOUS
<1> USE PoolAssumption, ThreadKinds
<1>0. TypeOK /\ AtPoints(pc) /\ CountMatchesList /\ StartedInOrder /\ Accounted
    BY DEF IInv, TypeOK
<1>1. ASSUME UNCHANGED <<accepted, calls, finished, pjob>>,
             \A w \in Workers : (pc'[w] = "run") <=> (pc[w] = "run"),
             \A c \in Clients : arg'[c] \in {0, arg[c]}
      PROVE  JobsApart'
    <2>1. Running' = Running /\ Elements(accepted)' = Elements(accepted)
        BY <1>1 DEF Running, Elements
    <2>2. calls \in Nat
        BY <1>0 DEF TypeOK
    <2> QED BY <1>0, <1>1, <2>1, <2>2 DEF JobsApart
<1>2. ASSUME NEW c \in Clients, CallAdd(c) PROVE JobsApart'
    <2>1. /\ calls \in Nat /\ calls' = calls + 1 /\ UNCHANGED <<accepted, finished, pjob>>
          /\ \A d \in Clients : arg'[d] = IF d = c THEN calls + 1 ELSE arg[d]
        BY <1>0, <1>2 DEF CallAdd, TypeOK, history
    <2>2. /\ \A d \in Clients : arg[d] \in Nat
          /\ \A i \in DOMAIN accepted : accepted[i] \in Nat
        BY <1>0 DEF TypeOK, Jobs
    <2>3. Running' = Running
        BY <1>0, <1>2 DEF CallAdd, AtPoints, Running
    <2>4. Elements(accepted)' = Elements(accepted) /\ calls + 1 \notin Elements(accepted)
        BY <2>1, <2>2 DEF JobsApart, Elements
    <2> QED BY <2>1, <2>2, <2>3, <2>4 DEF JobsApart
<1>3. ASSUME NEW c \in Clients, AddAccepted(c) PROVE JobsApart'
    <2>1. /\ arg[c] \in Jobs /\ accepted \in Seq(Jobs) /\ accepted' = Append(accepted, arg[c])
          /\ UNCHANGED <<calls, finished, pjob>> /\ arg[c] # 0
          /\ \A d \in Clients : arg'[d] = IF d = c THEN 0 ELSE arg[d]
        BY <1>0, <1>3 DEF AddAccepted, Inside, TypeOK, bounds, Jobs
    <2>2. Running' = Running
        BY <1>0, <1>3, AddAcceptedPC DEF Running
    <2>3. Elements(accepted)' = Elements(accepted) \cup {arg[c]}
        BY <2>1, ElementsAppend
    <2>4. /\ DOMAIN accepted = 1..Len(accepted) /\ Len(accepted) \in Nat
          /\ DOMAIN accepted' = 1..(Len(accepted) + 1)
          /\ accepted'[Len(accepted) + 1] = arg[c]
          /\ \A i \in 1..Len(accepted) : accepted'[i] = accepted[i]
        BY <2>1, AppendProperties, LenProperties
    <2>5. arg[c] \notin Elements(accepted) /\ arg[c] <= calls
        BY <2>1 DEF JobsApart
    <2>6. \A i, k \in DOMAIN accepted' : accepted'[i] = accepted'[k] => i = k
        BY <2>4, <2>5 DEF JobsApart, Elements
    <2>7. \A i \in DOMAIN accepted' : accepted'[i] <= calls'
        BY <2>1, <2>4, <2>5 DEF JobsApart
    <2>8. calls' = calls /\ calls \in Nat
        BY <1>0, <2>1 DEF TypeOK
    <2> QED BY <2>1, <2>2, <2>3, <2>6, <2>7, <2>8 DEF JobsApart
<1>4. ASSUME NEW w \in Workers, TakeJob(w) PROVE JobsApart'
    <2>1. /\ queue # <<>> /\ UNCHANGED <<accepted, calls, finished, arg>>
          /\ pc[w] = "take"
          /\ \A v \in Workers : pjob'[v] = IF v = w THEN Head(queue) ELSE pjob[v]
        BY <1>0, <1>4 DEF TakeJob, Unlinked, Inside, TypeOK, CountMatchesList, bounds
    <2>2. Running' = Running \cup {w} /\ w \notin Running
        BY <1>0, <1>4, <2>1, TakeJobPC DEF Running
    <2>3. Head(queue) \notin finished \cup {pjob[v] : v \in Running}
        BY <1>0, <2>1, HeadNotStarted DEF Accounted
    <2>4. Running \subseteq Workers
        BY DEF Running
    <2>5. /\ \A v \in Running' : pjob'[v] \notin finished'
          /\ \A u, v \in Running' : pjob'[u] = pjob'[v] => u = v
        BY <2>1, <2>2, <2>3, <2>4 DEF JobsApart
    <2>6. Elements(accepted)' = Elements(accepted)
        BY <2>1 DEF Elements
    <2> QED BY <2>1, <2>5, <2>6 DEF JobsApart
<1>5. ASSUME NEW w \in Workers, RunJob(w) PROVE JobsApart'
    <2>1. /\ UNCHANGED <<accepted, calls, arg>> /\ finished' = finished \cup {pjob[w]}
          /\ \A v \in Workers : pc'[v] = IF v = w THEN "take" ELSE pc[v]
          /\ \A v \in Workers \ {w} : pjob'[v] = pjob[v]
        BY <1>0, <1>5 DEF RunJob, AtPoints, TypeOK, bounds
    <2>2. Running' = Running \ {w} /\ w \in Running
        BY <1>5, <2>1 DEF RunJob, Running
    <2>3. Elements(accepted)' = Elements(accepted)
        BY <2>1 DEF Elements
    <2> QED BY <2>1, <2>2, <2>3 DEF JobsApart, Running
<1>6. ASSUME NEW t \in Threads, Lock(t) \/ SpuriousWakeup(t) PROVE JobsApart'
    <2>1. UNCHANGED <<accepted, calls, finished, pjob, arg>>
        BY <1>6 DEF Lock, SpuriousWakeup, held, history, bounds
    <2>2. \A w \in Workers : (pc'[w] = "run") <=> (pc[w] = "run")
        BY <1>0, <1>6, ResumeValues DEF Lock, SpuriousWakeup, Conds, AtPoints
    <2> QED BY <1>1, <2>1, <2>2
<1>7. ASSUME NEW w \in Workers, TakeWait(w) \/ TakeExit(w) PROVE JobsApart'
    BY <1>0, <1>1, <1>7 DEF TakeWait, TakeExit, Inside, Leave, AtPoints, held, history, bounds
<1>8. ASSUME NEW c \in Clients,
             \/ AddWait(c) \/ AddRefused(c) \/ CallDestroy(c)
             \/ CloseRefused(c) \/ CloseQueue(c) \/ DrainQueue(c) \/ JoinAndFree(c)
      PROVE  JobsApart'
    <2>1. \A w \in Workers : pc'[w] = pc[w]
        BY <1>0, <1>8 DEF AddWait, AddRefused, CallDestroy, CloseRefused,
           CloseQueue, DrainQueue, AwaitEmpty, JoinAndFree, Leave, AtPoints
    <2>2. UNCHANGED <<accepted, calls, finished, pjob>>
        BY <1>8 DEF AddWait, AddRefused, CallDestroy, CloseRefused,
           CloseQueue, DrainQueue, JoinAndFree, held, history, bounds
    <2>3. \A d \in Clients : arg'[d] \in {0, arg[d]}
        BY <1>0, <1>8 DEF AddWait, AddRefused, CallDestroy, CloseRefused,
           CloseQueue, DrainQueue, JoinAndFree, held, TypeOK
    <2> QED BY <1>1, <2>1, <2>2, <2>3
<1>9. ASSUME NEW c \in Clients, WakeWorkers(c) PROVE JobsApart'
    BY <1>0, <1>1, <1>9, WakeWorkersPC DEF WakeWorkers, held, history, bounds
<1>10. ASSUME NEW c \in Clients, WakeAdders(c) PROVE JobsApart'
    BY <1>0, <1>1, <1>10, WakeAddersPC DEF WakeAdders, held, history, bounds
<1>11. ASSUME UNCHANGED vars PROVE JobsApart'
    BY <1>1, <1>11 DEF vars, control, held, history, bounds
<1> QED
    BY <1>2, <1>3, <1>4, <1>5, <1>6, <1>7, <1>8, <1>9, <1>10, <1>11
       DEF Next, WorkerStep, ClientStep, AddStep, DestroyStep, Gone

LEMMA InductiveApart == Spec => []JobsApart
BY InitApart, ApartStep, Inductive, PTL DEF Spec

------------------------------------------------------------------------------
(* The pool implements the service. *)

\* The jobs the service calls running.
Held == {pjob[w] : w \in {v \in Workers : pc[v] = "run"}}

\* What a client knows of: the jobs the pool has accepted.
LEMMA KnownAccepted ==
    ASSUME TypeOK, StartedInOrder, Accounted
    PROVE  Service!Known = Elements(accepted)
<1>1. Elements(accepted) = Elements(started) \cup Elements(queue)
    BY ElementsConcat DEF TypeOK, StartedInOrder
<1>2. Service!Known = Elements(queue) \cup Held \cup finished
    BY DEF Service!Known, Elements, Held
<1>3. Elements(started) = finished \cup Held
    BY DEF Accounted, Running, Held
<1> QED BY <1>1, <1>2, <1>3

LEMMA ServiceInit == Init => Service!Init
<1> SUFFICES ASSUME Init PROVE Service!Init
    OBVIOUS
<1>1. Held = {}
    BY ThreadKinds, PoolAssumption DEF Init, Held
<1>2. Phase = "open"
    BY DEF Init, Phase
<1> QED BY <1>1, <1>2 DEF Init, Service!Init, Held

\* The phase of the service, read off the flags.
LEMMA PhaseValue ==
    ASSUME TypeOK
    PROVE  /\ Phase = "open" <=> ~queue_close /\ ~pool_close /\ ~freed
           /\ Phase = "closing" <=> queue_close /\ ~pool_close /\ ~freed
           /\ Phase = "closed" <=> pool_close /\ ~freed
           /\ Phase = "gone" <=> freed
BY DEF TypeOK, Phase

\* Most actions of the pool are invisible to its clients.
LEMMA Invisible ==
    ASSUME UNCHANGED <<queue, finished, flags, pjob>>,
           \A w \in Workers : (pc'[w] = "run") <=> (pc[w] = "run")
    PROVE  UNCHANGED Service!vars
<1>1. Held' = Held
    BY DEF Held
<1>2. Phase' = Phase
    BY DEF flags, Phase
<1> QED BY <1>1, <1>2 DEF Service!vars, Held

LEMMA ServiceStep ==
    IInv /\ IInv' /\ JobsApart /\ [Next]_vars => [Service!Next]_(Service!vars)
<1> SUFFICES ASSUME IInv, IInv', JobsApart, [Next]_vars
             PROVE  Service!Next \/ UNCHANGED Service!vars
    OBVIOUS
<1> USE PoolAssumption, ThreadKinds
<1>0. /\ TypeOK /\ TypeOK' /\ AtPoints(pc) /\ CountMatchesList /\ StartedInOrder
      /\ Accounted /\ LifeCycle
    BY DEF IInv, TypeOK
<1>1. ASSUME NEW c \in Clients, AddAccepted(c) PROVE \E j \in Jobs : Service!Accept(j)
    <2>1. arg[c] \in Jobs /\ arg[c] # 0
        BY <1>0, <1>1 DEF AddAccepted, Inside, TypeOK, Jobs
    <2>2. arg[c] \notin Service!Known
        BY <1>0, <2>1, KnownAccepted DEF JobsApart
    <2>3. Phase = "open" /\ Phase' = Phase
        BY <1>0, <1>1, PhaseValue DEF AddAccepted, Closing, Inside, flags, Phase
    <2>4. Len(queue) < Capacity
        BY <1>0, <1>1 DEF AddAccepted, Full, CountMatchesList, TypeOK
    <2>5. Held' = Held
        BY <1>0, <1>1, AddAcceptedPC DEF AddAccepted, Held
    <2>6. queue' = Append(queue, arg[c]) /\ finished' = finished
        BY <1>1 DEF AddAccepted
    <2> QED BY <2>1, <2>2, <2>3, <2>4, <2>5, <2>6 DEF Service!Accept, Held
<1>2. ASSUME NEW w \in Workers, TakeJob(w) PROVE Service!Start
    <2>1. /\ queue \in Seq(Jobs) /\ queue # <<>> /\ pc[w] = "take"
          /\ queue' = Tail(queue) /\ finished' = finished /\ UNCHANGED flags
          /\ \A v \in Workers : pjob'[v] = IF v = w THEN Head(queue) ELSE pjob[v]
        <3>1. queue \in Seq(Jobs) /\ queue # <<>> /\ Len(queue) = queue_cur_num
            BY <1>0, <1>2 DEF TakeJob, TypeOK, CountMatchesList
        <3>2. Tail(queue) \in Seq(Jobs) /\ Len(Tail(queue)) = Len(queue) - 1
            BY <3>1, HeadTailProperties
        <3>3. queue' = Tail(queue)
            BY <1>2, <3>1, <3>2, EmptySeq DEF TakeJob, Unlinked
        <3> QED BY <1>0, <1>2, <3>1, <3>3 DEF TakeJob, Inside, TypeOK
    <2>2. /\ pc'[w] = "run"
          /\ \A v \in Workers \ {w} : (pc'[v] = "run") <=> (pc[v] = "run")
        BY <1>0, <1>2, TakeJobPC
    <2>3. Held' = Held \cup {Head(queue)}
        BY <2>1, <2>2 DEF Held
    <2>4. Phase' = Phase
        BY <2>1 DEF Phase, flags
    <2> QED BY <2>1, <2>3, <2>4 DEF Service!Start, Held
<1>3. ASSUME NEW w \in Workers, RunJob(w) PROVE \E j \in Jobs : Service!Finish(j)
    <2>1. /\ pc[w] = "run" /\ \A v \in Workers : pc'[v] = IF v = w THEN "take" ELSE pc[v]
          /\ \A v \in Workers \ {w} : pjob'[v] = pjob[v]
          /\ finished' = finished \cup {pjob[w]} /\ UNCHANGED <<queue, flags>>
          /\ pjob[w] \in Jobs
        BY <1>0, <1>3 DEF RunJob, AtPoints, TypeOK, list
    <2>2. \A v \in Workers \ {w} : pc[v] = "run" => pjob[v] # pjob[w]
        BY <2>1 DEF JobsApart, Running
    <2>3. Held' = Held \ {pjob[w]} /\ pjob[w] \in Held
        BY <2>1, <2>2 DEF Held
    <2>4. Phase' = Phase
        BY <2>1 DEF Phase, flags
    <2> QED BY <2>1, <2>3, <2>4 DEF Service!Finish, Held
<1>4. ASSUME NEW c \in Clients, CloseQueue(c) \/ DrainQueue(c)
      PROVE  Service!BeginClose \/ Service!Close \/ UNCHANGED Service!vars
    <2>1. UNCHANGED <<queue, queue_cur_num, finished, pjob, freed>> /\ ~freed
        BY <1>4 DEF CloseQueue, DrainQueue, Inside, list, history, held
    <2>2. \A w \in Workers : pc'[w] = pc[w]
        BY <1>0, <1>4 DEF CloseQueue, DrainQueue, AwaitEmpty, Leave, AtPoints
    <2>3. Held' = Held
        BY <2>1, <2>2 DEF Held
    <2>4. /\ ~pool_close /\ queue_close'
          /\ \/ queue_cur_num # 0 /\ ~pool_close'
             \/ queue_cur_num = 0 /\ pool_close'
        BY <1>0, <1>4 DEF CloseQueue, DrainQueue, AwaitEmpty, Closing, LifeCycle, Inside
    <2>5. Phase \in {"open", "closing"}
        BY <1>0, <2>1, <2>4, PhaseValue DEF TypeOK
    <2>6. CASE queue_cur_num = 0
        <3>1. queue = <<>>
            BY <1>0, <2>6, EmptySeq DEF TypeOK, CountMatchesList
        <3>2. Phase' = "closed"
            BY <2>1, <2>4, <2>6 DEF Phase
        <3> QED BY <2>1, <2>3, <2>5, <3>1, <3>2 DEF Service!Close, Held
    <2>7. CASE queue_cur_num # 0
        <3>1. Phase' = "closing"
            BY <2>1, <2>4, <2>7 DEF Phase
        <3> QED BY <2>1, <2>3, <2>5, <3>1 DEF Service!BeginClose, Service!vars, Held
    <2> QED BY <2>6, <2>7
<1>5. ASSUME NEW c \in Clients, JoinAndFree(c) PROVE Service!Release
    <2>1. /\ pc[c] = "join" /\ freed' /\ \A w \in Workers : pc[w] = "exited" /\ pc'[w] = pc[w]
          /\ UNCHANGED <<finished, pjob>> /\ queue' = <<>>
        BY <1>0, <1>5 DEF JoinAndFree, AtPoints, history, held
    <2>2. pool_close /\ queue_cur_num = 0 /\ ~freed
        BY <1>0, <2>1 DEF LifeCycle, IInv, OneDestroyer, Destroying
    <2>3. queue = <<>>
        BY <1>0, <2>2, EmptySeq DEF TypeOK, CountMatchesList
    <2>4. Held = {} /\ Held' = {}
        BY <2>1 DEF Held
    <2>5. Phase = "closed" /\ Phase' = "gone"
        BY <2>1, <2>2 DEF Phase
    <2> QED BY <2>1, <2>3, <2>4, <2>5 DEF Service!Release, Held
<1>6. ASSUME NEW t \in Threads, Lock(t) \/ SpuriousWakeup(t) PROVE UNCHANGED Service!vars
    <2>1. UNCHANGED <<queue, finished, flags, pjob>>
        BY <1>6 DEF Lock, SpuriousWakeup, list, held, history
    <2>2. \A w \in Workers : (pc'[w] = "run") <=> (pc[w] = "run")
        BY <1>0, <1>6, ResumeValues DEF Lock, SpuriousWakeup, Conds, AtPoints
    <2> QED BY <2>1, <2>2, Invisible
<1>7. ASSUME NEW w \in Workers, TakeWait(w) \/ TakeExit(w) PROVE UNCHANGED Service!vars
    <2>1. UNCHANGED <<queue, finished, flags, pjob>>
        BY <1>7 DEF TakeWait, TakeExit, list, held, history
    <2>2. \A v \in Workers : (pc'[v] = "run") <=> (pc[v] = "run")
        BY <1>0, <1>7 DEF TakeWait, TakeExit, Inside, Leave, AtPoints
    <2> QED BY <2>1, <2>2, Invisible
<1>8. ASSUME NEW c \in Clients,
             AddWait(c) \/ AddRefused(c) \/ CallAdd(c) \/ CallDestroy(c) \/ CloseRefused(c)
      PROVE  UNCHANGED Service!vars
    <2>1. \A w \in Workers : pc'[w] = pc[w]
        BY <1>0, <1>8 DEF AddWait, AddRefused, CallAdd, CallDestroy, CloseRefused, Leave, AtPoints
    <2>2. UNCHANGED <<queue, finished, flags, pjob>>
        BY <1>8 DEF AddWait, AddRefused, CallAdd, CallDestroy, CloseRefused, list, held, history
    <2> QED BY <2>1, <2>2, Invisible
<1>9. ASSUME NEW c \in Clients, WakeWorkers(c) PROVE UNCHANGED Service!vars
    BY <1>0, <1>9, WakeWorkersPC, Invisible DEF WakeWorkers, list, held, history
<1>10. ASSUME NEW c \in Clients, WakeAdders(c) PROVE UNCHANGED Service!vars
    BY <1>0, <1>10, WakeAddersPC, Invisible DEF WakeAdders, list, held, history
<1>11. ASSUME UNCHANGED vars PROVE UNCHANGED Service!vars
    BY <1>11, Invisible DEF vars, control, list, held, history
<1>12. ASSUME NEW w \in Workers, WorkerStep(w) PROVE Service!Next \/ UNCHANGED Service!vars
    <2>1. CASE TakeJob(w)
        BY <1>2, <2>1 DEF Service!Next
    <2>2. CASE RunJob(w)
        BY <1>3, <2>2 DEF Service!Next
    <2> QED BY <1>6, <1>7, <1>12, <2>1, <2>2 DEF WorkerStep
<1>13. ASSUME NEW c \in Clients, ClientStep(c) \/ CallAdd(c) \/ CallDestroy(c)
       PROVE  Service!Next \/ UNCHANGED Service!vars
    <2>1. CASE AddAccepted(c)
        BY <1>1, <2>1 DEF Service!Next
    <2>2. CASE CloseQueue(c) \/ DrainQueue(c) \/ JoinAndFree(c)
        BY <1>4, <1>5, <2>2 DEF Service!Next
    <2> QED
        BY <1>6, <1>8, <1>9, <1>10, <1>13, <2>1, <2>2 DEF ClientStep, AddStep, DestroyStep
<1> QED BY <1>6, <1>11, <1>12, <1>13 DEF Next, Gone

\* Every behaviour of the pool is one of the job service: jobs are admitted only
\* while it is open and has room, started in order and once, and all of them have
\* run before it is gone.
THEOREM PoolImplementsService == Spec => ImplementsService
<1>1. Spec => Service!Init /\ [][Service!Next]_(Service!vars)
    BY ServiceInit, ServiceStep, Inductive, InductiveApart, PTL DEF Spec
<1> QED BY <1>1 DEF ImplementsService, Service!Spec

------------------------------------------------------------------------------
(* Calls that do not overlap the destruction. *)

Adding == {"idle", "add", "queue_not_full"}

\* Without overlap either nobody has called threadpool_destroy and the clients
\* are in threadpool_add_job at most, or one client has and the others are idle.
CallsApart ==
    /\ closers = {} => ~freed /\ \A c \in Clients : pc[c] \in Adding
    /\ \A c, d \in closers : c = d
    /\ \A c \in Clients \ closers : closers # {} => pc[c] = "idle"
    /\ \A c \in closers : pc[c] \notin {"add", "queue_not_full"}
    /\ freed => \A c \in Clients : pc[c] = "idle"

LEMMA CallsApartStep ==
    ASSUME ~Concurrent
    PROVE  IInv /\ CallsApart /\ [Next]_vars => CallsApart'
<1> SUFFICES ASSUME IInv, CallsApart, [Next]_vars PROVE CallsApart'
    OBVIOUS
<1> USE PoolAssumption, ThreadKinds
<1>0. /\ AtPoints(pc) /\ closers \in SUBSET Clients
      /\ \A c \in Clients : pc[c] # "queue_not_empty"
    BY DEF IInv, TypeOK, AtPoints, ClientPCs
<1>1. ASSUME UNCHANGED <<freed, closers>>,
             \A c \in Clients :
                 \/ pc'[c] = pc[c]
                 \/ pc[c] \in {"add", "queue_not_full"} /\ pc'[c] \in Adding
                 \/ pc[c] \notin Adding /\ pc'[c] \notin {"add", "queue_not_full"}
      PROVE  CallsApart'
    BY <1>0, <1>1 DEF CallsApart, Adding
<1>2. ASSUME NEW t \in Threads, Lock(t) PROVE CallsApart'
    BY <1>1, <1>2 DEF Lock, flags, bounds
<1>3. ASSUME NEW w \in Workers, TakeWait(w) \/ TakeExit(w) \/ RunJob(w) PROVE CallsApart'
    <2>1. UNCHANGED <<freed, closers>> /\ \A c \in Clients : pc'[c] = pc[c]
        BY <1>0, <1>3 DEF TakeWait, TakeExit, RunJob, Leave, AtPoints, flags, bounds
    <2> QED BY <1>1, <2>1
<1>4. ASSUME NEW w \in Workers, TakeJob(w) PROVE CallsApart'
    <2>1. UNCHANGED <<freed, closers>>
        BY <1>4 DEF TakeJob, flags, bounds
    <2>2. \A c \in Clients :
              \/ pc'[c] = pc[c]
              \/ pc[c] = "queue_empty" /\ pc'[c] = "drain"
              \/ pc[c] = "queue_not_full" /\ pc'[c] = "add"
        BY <1>0, <1>4, TakeJobPC
    <2> QED BY <1>1, <2>1, <2>2 DEF Adding
<1>5. ASSUME NEW c \in Clients, AddWait(c) \/ AddRefused(c) PROVE CallsApart'
    <2>1. UNCHANGED <<freed, closers>>
        BY <1>5 DEF AddWait, AddRefused, flags, bounds
    <2>2. /\ pc[c] = "add" /\ pc'[c] \in Adding
          /\ \A d \in Clients \ {c} : pc'[d] = pc[d]
        BY <1>0, <1>5 DEF AddWait, AddRefused, Inside, Leave, AtPoints, Adding
    <2> QED BY <1>1, <2>1, <2>2
<1>6. ASSUME NEW c \in Clients, AddAccepted(c) PROVE CallsApart'
    <2>1. UNCHANGED <<freed, closers>> /\ pc[c] = "add"
        BY <1>6 DEF AddAccepted, Inside, flags, bounds
    <2>2. pc'[c] = "idle" /\ \A d \in Clients \ {c} : pc'[d] = pc[d]
        BY <1>0, <1>6, AddAcceptedPC
    <2> QED BY <1>1, <2>1, <2>2 DEF Adding
<1>7. ASSUME NEW c \in Clients, CallAdd(c) PROVE CallsApart'
    BY <1>0, <1>7 DEF CallAdd, AtPoints, flags, CallsApart, Adding
<1>8. ASSUME NEW c \in Clients, CallDestroy(c) PROVE CallsApart'
    BY <1>0, <1>8 DEF CallDestroy, AtPoints, flags, CallsApart, Adding
<1>9. ASSUME NEW c \in Clients, CloseRefused(c) \/ CloseQueue(c) \/ DrainQueue(c)
      PROVE  CallsApart'
    <2>1. UNCHANGED <<freed, closers>>
        BY <1>9 DEF CloseRefused, CloseQueue, DrainQueue, flags, bounds
    <2>2. /\ pc[c] \notin Adding /\ pc'[c] \in {"idle", "queue_empty", "wake_workers"}
          /\ \A d \in Clients \ {c} : pc'[d] = pc[d]
        BY <1>0, <1>9 DEF CloseRefused, CloseQueue, DrainQueue, AwaitEmpty, Inside, Leave,
                          AtPoints, Adding
    <2> QED BY <1>1, <2>1, <2>2
<1>10. ASSUME NEW c \in Clients, WakeWorkers(c) PROVE CallsApart'
    <2>1. UNCHANGED <<freed, closers>> /\ pc[c] = "wake_workers"
        BY <1>10 DEF WakeWorkers, flags, bounds
    <2>2. pc'[c] = "wake_adders" /\ \A d \in Clients \ {c} : pc'[d] = pc[d]
        BY <1>0, <1>10, WakeWorkersPC
    <2> QED BY <1>1, <2>1, <2>2 DEF Adding
<1>11. ASSUME NEW c \in Clients, WakeAdders(c) PROVE CallsApart'
    <2>1. UNCHANGED <<freed, closers>> /\ pc[c] = "wake_adders"
        BY <1>11 DEF WakeAdders, flags, bounds
    <2>2. /\ pc'[c] = "join"
          /\ \A d \in Clients \ {c} :
                 pc'[d] = pc[d] \/ (pc[d] = "queue_not_full" /\ pc'[d] = "add")
        BY <1>0, <1>11, WakeAddersPC
    <2> QED BY <1>1, <2>1, <2>2 DEF Adding
<1>12. ASSUME NEW c \in Clients, JoinAndFree(c) PROVE CallsApart'
    <2>1. /\ closers' = closers /\ pc[c] = "join" /\ pc'[c] = "idle"
          /\ \A d \in Clients \ {c} : pc'[d] = pc[d]
        BY <1>0, <1>12 DEF JoinAndFree, AtPoints, bounds
    <2>2. c \in closers /\ \A d \in Clients \ {c} : pc[d] = "idle"
        BY <2>1 DEF CallsApart, Adding
    <2> QED BY <2>1, <2>2 DEF CallsApart
<1>13. ASSUME NEW t \in Threads, SpuriousWakeup(t) PROVE CallsApart'
    <2>1. UNCHANGED <<freed, closers>>
        BY <1>13 DEF SpuriousWakeup, flags
    <2>2. \A d \in Clients :
              \/ pc'[d] = pc[d]
              \/ pc[d] = "queue_empty" /\ pc'[d] = "drain"
              \/ pc[d] = "queue_not_full" /\ pc'[d] = "add"
        BY <1>0, <1>13, ResumeValues DEF SpuriousWakeup, Conds, AtPoints
    <2> QED BY <1>1, <2>1, <2>2 DEF Adding
<1>14. ASSUME UNCHANGED vars PROVE CallsApart'
    BY <1>1, <1>14 DEF vars, control, flags, bounds
<1> QED
    BY <1>2, <1>3, <1>4, <1>5, <1>6, <1>7, <1>8, <1>9, <1>10, <1>11, <1>12, <1>13, <1>14
       DEF Next, WorkerStep, ClientStep, AddStep, DestroyStep, Gone

\* When no call overlaps a threadpool_destroy, as in main (phread_pool.c:265), no
\* thread is in the pool when it is freed.
THEOREM NobodyInsideWhenFreed ==
    ASSUME ~Concurrent
    PROVE  Spec => []NoUseAfterFree
<1>1. Init => CallsApart
    <2> SUFFICES ASSUME Init PROVE CallsApart
        OBVIOUS
    <2>1. \A c \in Clients : pc[c] = "idle"
        BY PoolAssumption, ThreadKinds DEF Init
    <2> QED BY <2>1 DEF Init, CallsApart, Adding
<1>2. IInv /\ CallsApart /\ [Next]_vars => CallsApart'
    BY CallsApartStep
<1>3. IInv /\ CallsApart => NoUseAfterFree
    BY DEF IInv, LifeCycle, CallsApart, NoUseAfterFree, Threads
<1> QED BY <1>1, <1>2, <1>3, Inductive, PTL DEF Spec

==============================================================================
