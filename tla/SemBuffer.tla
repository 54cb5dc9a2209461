------------------------------ MODULE SemBuffer ------------------------------
(***************************************************************************)
(* The producers and consumers of Pthread/信号量.c: a list guarded by a      *)
(* mutex, a semaphore psem of free slots and a semaphore csem of nodes.    *)
(*                                                                         *)
(* The nodes carry a random number nobody looks at again, so the list is   *)
(* its length.  What a thread does while it holds the mutex is one action. *)
(***************************************************************************)
EXTENDS Integers, FiniteSets

CONSTANTS
    Producers,
    Consumers,
    Slots,    \* the initial value of psem: 5 in main
    Tokens    \* the initial value of csem: 2 in main, where the list is empty

ASSUME SemBufferAssumption ==
    /\ Producers \cap Consumers = {}
    /\ IsFiniteSet(Producers) /\ IsFiniteSet(Consumers)
    /\ Slots \in Nat
    /\ Tokens \in Nat

VARIABLES
    pc,        \* where each thread is
    psem,
    csem,
    nodes,     \* the length of the list from head on
    crashed    \* a consumer has followed head when it was NULL

vars == <<pc, psem, csem, nodes, crashed>>

Threads == Producers \cup Consumers

At(label) == {t \in Threads : pc[t] = label}

Init ==
    /\ pc = [t \in Threads |-> "sem_wait"]
    /\ psem = Slots
    /\ csem = Tokens
    /\ nodes = 0
    /\ crashed = FALSE

Goto(t, label) == pc' = [pc EXCEPT ![t] = label]

------------------------------------------------------------------------------
(* producer *)

WaitPsem(p) ==
    /\ pc[p] = "sem_wait" /\ ~crashed
    /\ psem > 0
    /\ psem' = psem - 1
    /\ Goto(p, "link")
    /\ UNCHANGED <<csem, nodes, crashed>>

Link(p) ==
    /\ pc[p] = "link" /\ ~crashed
    /\ nodes' = nodes + 1
    /\ Goto(p, "sem_post")
    /\ UNCHANGED <<psem, csem, crashed>>

\* Mutant: the producer does not announce its node.
PostNothing(p) ==
    /\ pc[p] = "sem_post" /\ ~crashed
    /\ Goto(p, "sem_wait")
    /\ UNCHANGED <<psem, csem, nodes, crashed>>

PostCsem(p) ==
    /\ pc[p] = "sem_post" /\ ~crashed
    /\ csem' = csem + 1
    /\ Goto(p, "sem_wait")
    /\ UNCHANGED <<psem, nodes, crashed>>

------------------------------------------------------------------------------
(* consumer *)

WaitCsem(c) ==
    /\ pc[c] = "sem_wait" /\ ~crashed
    /\ csem > 0
    /\ csem' = csem - 1
    /\ Goto(c, "unlink")
    /\ UNCHANGED <<psem, nodes, crashed>>

Unlink(c) ==
    /\ pc[c] = "unlink" /\ ~crashed
    /\ nodes > 0
    /\ nodes' = nodes - 1
    /\ Goto(c, "sem_post")
    /\ UNCHANGED <<psem, csem, crashed>>

\* The consumer reads head without testing it; node->number faults.
UnlinkNull(c) ==
    /\ pc[c] = "unlink" /\ ~crashed
    /\ nodes = 0
    /\ crashed' = TRUE
    /\ UNCHANGED <<pc, psem, csem, nodes>>

\* Mutant: the consumer posts the semaphore it has waited for.
PostSwapped(c) ==
    /\ pc[c] = "sem_post" /\ ~crashed
    /\ csem' = csem + 1
    /\ Goto(c, "sem_wait")
    /\ UNCHANGED <<psem, nodes, crashed>>

PostPsem(c) ==
    /\ pc[c] = "sem_post" /\ ~crashed
    /\ psem' = psem + 1
    /\ Goto(c, "sem_wait")
    /\ UNCHANGED <<csem, nodes, crashed>>

------------------------------------------------------------------------------
ProducerStep(p) == WaitPsem(p) \/ Link(p) \/ PostCsem(p)
ConsumerStep(c) == WaitCsem(c) \/ Unlink(c) \/ UnlinkNull(c) \/ PostPsem(c)

Next ==
    \/ \E p \in Producers : ProducerStep(p)
    \/ \E c \in Consumers : ConsumerStep(c)

Spec == Init /\ [][Next]_vars

\* Every thread that can run is run.
FairSpec ==
    /\ Spec
    /\ \A p \in Producers : WF_vars(ProducerStep(p))
    /\ \A c \in Consumers : WF_vars(ConsumerStep(c))

------------------------------------------------------------------------------
(* Properties *)

\* Every slot is free, claimed by a producer, filled, or being given back: psem
\* and the list together never lose or invent one, so the list is bounded.
SlotsAccounted ==
    /\ psem \in Nat /\ nodes \in Nat
    /\ psem + Cardinality(At("link")) + nodes
            + Cardinality(At("sem_post") \cap Consumers) = Slots

\* Every claim csem grants is backed by a node, but for the Tokens it started
\* with: the consumers about to unlink may outnumber the nodes by that much.
TokensAccounted ==
    /\ csem \in Nat
    /\ csem + Cardinality(At("unlink")) + Cardinality(At("sem_post") \cap Producers)
           = nodes + Tokens

\* A consumer that sem_wait has let through finds a node (comment at 44: the
\* consumer has checked that there is a resource).
ConsumerFindsNode == ~crashed

\* Producers and consumers never block each other for good: nodes are linked and
\* unlinked for ever, unless a consumer faults.
KeepsMoving ==
    \/ <>crashed
    \/ /\ []<><<\E p \in Producers : Link(p)>>_vars
       /\ []<><<\E c \in Consumers : Unlink(c)>>_vars
==============================================================================
