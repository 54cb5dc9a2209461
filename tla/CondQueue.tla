------------------------------ MODULE CondQueue ------------------------------
(***************************************************************************)
(* The message queue of Pthread/condlock.c and the producers and consumers *)
(* of Pthread/生产与消费.c: a list with a mutex and one condition variable.     *)
(*                                                                         *)
(* Both enqueue under the mutex and wake the consumers only after they     *)
(* have released it, the first with pthread_cond_signal, the second with   *)
(* pthread_cond_broadcast: here each wakeup may be either, so that what     *)
(* holds, holds of both programs.  All that is done while the mutex is     *)
(* held is one action.  Nobody looks at a message again, so the list is    *)
(* its length.                                                             *)
(***************************************************************************)
EXTENDS Integers, FiniteSets

CONSTANTS
    Producers,
    Consumers,
    MaxQueued,    \* bound: messages on the list
    MaxSpurious   \* bound: spurious wakeups of pthread_cond_wait

ASSUME CondQueueAssumption ==
    /\ Producers \cap Consumers = {}
    /\ IsFiniteSet(Producers) /\ IsFiniteSet(Consumers)
    /\ MaxQueued \in Nat
    /\ MaxSpurious \in Nat

VARIABLES
    pc,          \* where each thread is
    workq,       \* the length of the list
    spurious     \* number of spurious wakeups so far

vars == <<pc, workq, spurious>>

Threads == Producers \cup Consumers

At(label) == {t \in Threads : pc[t] = label}

Init ==
    /\ pc = [t \in Threads |-> IF t \in Producers THEN "link" ELSE "take"]
    /\ workq = 0
    /\ spurious = 0

------------------------------------------------------------------------------
(* enqueue_msg, producer *)

\* Mutant: only a message that finds the list empty is announced.
LinkQuietly(p) ==
    /\ pc[p] = "link"
    /\ workq < MaxQueued
    /\ workq' = workq + 1
    /\ pc' = [pc EXCEPT ![p] = IF workq = 0 THEN "wake" ELSE "link"]
    /\ UNCHANGED spurious

Link(p) ==
    /\ pc[p] = "link"
    /\ workq < MaxQueued
    /\ workq' = workq + 1
    /\ pc' = [pc EXCEPT ![p] = "wake"]
    /\ UNCHANGED spurious

\* Mutant: nobody is woken.
WakeNobody(p) ==
    /\ pc[p] = "wake"
    /\ pc' = [pc EXCEPT ![p] = "link"]
    /\ UNCHANGED <<workq, spurious>>

\* The mutex has been released: anything may have happened since Link.  A signal
\* wakes one waiter, if there is one; a broadcast wakes them all.
Wake(p) ==
    /\ pc[p] = "wake"
    /\ \E woken \in {At("qready")} \cup {{c} : c \in At("qready")} :
          pc' = [t \in Threads |-> IF t = p THEN "link"
                                   ELSE IF t \in woken THEN "take" ELSE pc[t]]
    /\ UNCHANGED <<workq, spurious>>

------------------------------------------------------------------------------
(* proccess_msg, consumer *)

Wait(c) ==
    /\ pc[c] = "take"
    /\ workq = 0
    /\ pc' = [pc EXCEPT ![c] = "qready"]
    /\ UNCHANGED <<workq, spurious>>

Take(c) ==
    /\ pc[c] = "take"
    /\ workq # 0
    /\ workq' = workq - 1
    /\ pc' = [pc EXCEPT ![c] = "process"]
    /\ UNCHANGED spurious

\* The consumer is done with the message, or with its sleep.
Process(c) ==
    /\ pc[c] = "process"
    /\ pc' = [pc EXCEPT ![c] = "take"]
    /\ UNCHANGED <<workq, spurious>>

SpuriousWakeup(c) ==
    /\ spurious < MaxSpurious
    /\ pc[c] = "qready"
    /\ spurious' = spurious + 1
    /\ pc' = [pc EXCEPT ![c] = "take"]
    /\ UNCHANGED workq

------------------------------------------------------------------------------
ConsumerStep(c) == Wait(c) \/ Take(c) \/ Process(c)

Next ==
    \/ \E p \in Producers : Link(p) \/ Wake(p)
    \/ \E c \in Consumers : ConsumerStep(c) \/ SpuriousWakeup(c)

Spec == Init /\ [][Next]_vars

\* A producer that has enqueued gets to the wakeup, a consumer that can run is
\* run.  Nobody has to enqueue.
FairSpec ==
    /\ Spec
    /\ \A p \in Producers : WF_vars(Wake(p))
    /\ \A c \in Consumers : WF_vars(ConsumerStep(c))

------------------------------------------------------------------------------
(* Properties *)

\* Although the wakeup comes after the mutex is released, a consumer sleeps only
\* if each message on the list has a consumer that is up to take it, or a
\* producer that is about to wake one.  However many a broadcast wakes, no
\* consumer takes from an empty list.
AwakeForEachMsg ==
    /\ workq \in Nat
    /\ At("qready") # {} =>
           workq <= Cardinality(At("take")) + Cardinality(At("wake"))

\* Messages are not left on the list while consumers sleep: the list is emptied
\* or messages are taken for ever.
NeverStuck == <>[](workq = 0) \/ []<><<\E c \in Consumers : Take(c)>>_vars
==============================================================================
