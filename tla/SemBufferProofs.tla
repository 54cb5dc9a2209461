--------------------------- MODULE SemBufferProofs ---------------------------
(***************************************************************************)
(* Proofs about the semaphores of Pthread/信号量.c, for any numbers of       *)
(* producers and consumers and any initial values of psem and csem.        *)
(***************************************************************************)
EXTENDS SemBuffer, FiniteSetTheorems, TLAPS

------------------------------------------------------------------------------
(* Counting the threads at a label. *)

\* The threads of S at a label.
In(S, label) == {t \in S : pc[t] = label}

LEMMA ThreadKinds ==
    /\ Producers \subseteq Threads /\ Consumers \subseteq Threads
    /\ \A p \in Producers : p \notin Consumers
BY SemBufferAssumption DEF Threads

LEMMA InFinite ==
    ASSUME NEW S \in SUBSET Threads, NEW label
    PROVE  IsFiniteSet(In(S, label)) /\ Cardinality(In(S, label)) \in Nat
<1>1. IsFiniteSet(Threads)
    BY SemBufferAssumption, FS_Union DEF Threads
<1>2. In(S, label) \in SUBSET Threads
    BY DEF In
<1>3. IsFiniteSet(In(S, label))
    BY <1>1, <1>2, FS_Subset
<1> QED BY <1>3, FS_CardinalityType

\* A thread that goes from one label to another is counted at the second and
\* no longer at the first, if it is one of those counted.
LEMMA GotoCounts ==
    ASSUME pc = [u \in Threads |-> pc[u]], NEW S \in SUBSET Threads,
           NEW t \in Threads, NEW from, NEW to, pc[t] = from, from # to, Goto(t, to)
    PROVE  /\ t \in S => /\ Cardinality(In(S, to)') = Cardinality(In(S, to)) + 1
                         /\ Cardinality(In(S, from)') = Cardinality(In(S, from)) - 1
           /\ \A k : t \notin S \/ k \notin {from, to} =>
                  Cardinality(In(S, k)') = Cardinality(In(S, k))
<1>1. \A u \in Threads : pc'[u] = IF u = t THEN to ELSE pc[u]
    BY DEF Goto
<1>2. \A k : k \notin {from, to} => In(S, k)' = In(S, k)
    BY <1>1 DEF In
<1>3. In(S, to)' = IF t \in S THEN In(S, to) \cup {t} ELSE In(S, to)
    BY <1>1 DEF In
<1>4. In(S, from)' = IF t \in S THEN In(S, from) \ {t} ELSE In(S, from)
    BY <1>1 DEF In
<1>5. t \notin In(S, to) /\ (t \in S => t \in In(S, from))
    BY DEF In
<1>6. t \in S => Cardinality(In(S, to)') = Cardinality(In(S, to)) + 1
    <2>1. IsFiniteSet(In(S, to)) /\ Cardinality(In(S, to)) \in Nat
        BY InFinite
    <2>2. Cardinality(In(S, to) \cup {t}) = Cardinality(In(S, to)) + 1
        BY <1>5, <2>1, FS_AddElement
    <2> QED BY <1>3, <2>1, <2>2
<1>7. t \in S => Cardinality(In(S, from)') = Cardinality(In(S, from)) - 1
    <2>1. IsFiniteSet(In(S, from)) /\ Cardinality(In(S, from)) \in Nat
        BY InFinite
    <2>2. t \in S => Cardinality(In(S, from) \ {t}) = Cardinality(In(S, from)) - 1
        BY <1>5, <2>1, FS_RemoveElement
    <2> QED BY <1>4, <2>1, <2>2
<1> QED BY <1>2, <1>3, <1>4, <1>6, <1>7

\* The counts the properties are made of are counts of In.
LEMMA AtIsIn ==
    /\ At("link") = In(Threads, "link") /\ At("unlink") = In(Threads, "unlink")
    /\ At("sem_post") \cap Producers = In(Producers, "sem_post")
    /\ At("sem_post") \cap Consumers = In(Consumers, "sem_post")
BY ThreadKinds DEF At, In

------------------------------------------------------------------------------
(* The inductive invariant. *)

\* Each thread is at a point of its own code.
Places ==
    /\ pc \in [Threads -> {"sem_wait", "link", "unlink", "sem_post"}]
    /\ \A p \in Producers : pc[p] # "unlink"
    /\ \A c \in Consumers : pc[c] # "link"

IInv == Places /\ SlotsAccounted /\ TokensAccounted

\* The two accounts, with the counts of In.
SlotSum == psem + Cardinality(In(Threads, "link")) + nodes
               + Cardinality(In(Consumers, "sem_post"))
TokenSum == csem + Cardinality(In(Threads, "unlink")) + Cardinality(In(Producers, "sem_post"))

LEMMA Accounts ==
    /\ SlotsAccounted <=> psem \in Nat /\ nodes \in Nat /\ SlotSum = Slots
    /\ TokensAccounted <=> csem \in Nat /\ TokenSum = nodes + Tokens
BY AtIsIn DEF SlotsAccounted, TokensAccounted, SlotSum, TokenSum

LEMMA AccountsPrime ==
    /\ SlotsAccounted' <=> psem' \in Nat /\ nodes' \in Nat /\ SlotSum' = Slots
    /\ TokensAccounted' <=> csem' \in Nat /\ TokenSum' = nodes' + Tokens
<1>1. (/\ SlotsAccounted <=> psem \in Nat /\ nodes \in Nat /\ SlotSum = Slots
       /\ TokensAccounted <=> csem \in Nat /\ TokenSum = nodes + Tokens)'
    BY Accounts, PTL
<1> QED BY <1>1

LEMMA InitIInv == Init => IInv
<1> SUFFICES ASSUME Init PROVE IInv
    OBVIOUS
<1>1. Places
    BY ThreadKinds DEF Init, Places
<1>2. \A S \in SUBSET Threads : \A k : k # "sem_wait" => In(S, k) = {}
    BY DEF Init, In
<1>3. /\ In(Threads, "link") = {} /\ In(Threads, "unlink") = {}
      /\ In(Producers, "sem_post") = {} /\ In(Consumers, "sem_post") = {}
    BY <1>2, ThreadKinds
<1>4. SlotSum = Slots /\ TokenSum = nodes + Tokens
    BY <1>3, FS_EmptySet, SemBufferAssumption DEF SlotSum, TokenSum, Init
<1> QED BY <1>1, <1>4, Accounts, SemBufferAssumption DEF Init, IInv

LEMMA NextIInv == IInv /\ [Next]_vars => IInv'
<1> SUFFICES ASSUME IInv, [Next]_vars PROVE IInv'
    OBVIOUS
<1> USE ThreadKinds
<1>0. /\ Places /\ pc = [u \in Threads |-> pc[u]]
      /\ psem \in Nat /\ csem \in Nat /\ nodes \in Nat
      /\ SlotSum = Slots /\ TokenSum = nodes + Tokens
    BY Accounts DEF IInv, Places
<1>1. /\ Cardinality(In(Threads, "link")) \in Nat /\ Cardinality(In(Threads, "unlink")) \in Nat
      /\ Cardinality(In(Producers, "sem_post")) \in Nat
      /\ Cardinality(In(Consumers, "sem_post")) \in Nat /\ Slots \in Nat /\ Tokens \in Nat
    BY InFinite, SemBufferAssumption
<1>2. ASSUME psem' \in Nat, csem' \in Nat, nodes' \in Nat, Places',
             SlotSum' = Slots, TokenSum' = nodes' + Tokens
      PROVE  IInv'
    BY <1>2, AccountsPrime DEF IInv
<1>3. ASSUME NEW p \in Producers, WaitPsem(p) PROVE IInv'
    <2>1. Goto(p, "link") /\ pc[p] = "sem_wait"
        BY <1>3 DEF WaitPsem
    <2>2. Cardinality(In(Threads, "link")') = Cardinality(In(Threads, "link")) + 1
        BY <1>0, <2>1, GotoCounts
    <2>3. /\ Cardinality(In(Threads, "unlink")') = Cardinality(In(Threads, "unlink"))
          /\ Cardinality(In(Producers, "sem_post")') = Cardinality(In(Producers, "sem_post"))
          /\ Cardinality(In(Consumers, "sem_post")') = Cardinality(In(Consumers, "sem_post"))
        BY <1>0, <2>1, GotoCounts
    <2>4. Places'
        BY <1>0, <2>1 DEF Places, Goto
    <2> QED BY <1>0, <1>1, <1>2, <1>3, <2>2, <2>3, <2>4 DEF WaitPsem, SlotSum, TokenSum
<1>4. ASSUME NEW p \in Producers, Link(p) PROVE IInv'
    <2>1. Goto(p, "sem_post") /\ pc[p] = "link"
        BY <1>4 DEF Link
    <2>2. Cardinality(In(Threads, "link")') = Cardinality(In(Threads, "link")) - 1
        BY <1>0, <2>1, GotoCounts
    <2>3. Cardinality(In(Producers, "sem_post")') = Cardinality(In(Producers, "sem_post")) + 1
        BY <1>0, <2>1, GotoCounts
    <2>4. /\ Cardinality(In(Threads, "unlink")') = Cardinality(In(Threads, "unlink"))
          /\ Cardinality(In(Consumers, "sem_post")') = Cardinality(In(Consumers, "sem_post"))
        BY <1>0, <2>1, GotoCounts
    <2>5. Places'
        BY <1>0, <2>1 DEF Places, Goto
    <2> QED BY <1>0, <1>1, <1>2, <1>4, <2>2, <2>3, <2>4, <2>5 DEF Link, SlotSum, TokenSum
<1>5. ASSUME NEW p \in Producers, PostCsem(p) PROVE IInv'
    <2>1. Goto(p, "sem_wait") /\ pc[p] = "sem_post"
        BY <1>5 DEF PostCsem
    <2>2. Cardinality(In(Producers, "sem_post")') = Cardinality(In(Producers, "sem_post")) - 1
        BY <1>0, <2>1, GotoCounts
    <2>3. /\ Cardinality(In(Threads, "link")') = Cardinality(In(Threads, "link"))
          /\ Cardinality(In(Threads, "unlink")') = Cardinality(In(Threads, "unlink"))
          /\ Cardinality(In(Consumers, "sem_post")') = Cardinality(In(Consumers, "sem_post"))
        BY <1>0, <2>1, GotoCounts
    <2>4. Places'
        BY <1>0, <2>1 DEF Places, Goto
    <2> QED BY <1>0, <1>1, <1>2, <1>5, <2>2, <2>3, <2>4 DEF PostCsem, SlotSum, TokenSum
<1>6. ASSUME NEW c \in Consumers, WaitCsem(c) PROVE IInv'
    <2>1. Goto(c, "unlink") /\ pc[c] = "sem_wait"
        BY <1>6 DEF WaitCsem
    <2>2. Cardinality(In(Threads, "unlink")') = Cardinality(In(Threads, "unlink")) + 1
        BY <1>0, <2>1, GotoCounts
    <2>3. /\ Cardinality(In(Threads, "link")') = Cardinality(In(Threads, "link"))
          /\ Cardinality(In(Producers, "sem_post")') = Cardinality(In(Producers, "sem_post"))
          /\ Cardinality(In(Consumers, "sem_post")') = Cardinality(In(Consumers, "sem_post"))
        BY <1>0, <2>1, GotoCounts
    <2>4. Places'
        BY <1>0, <2>1 DEF Places, Goto
    <2> QED BY <1>0, <1>1, <1>2, <1>6, <2>2, <2>3, <2>4 DEF WaitCsem, SlotSum, TokenSum
<1>7. ASSUME NEW c \in Consumers, Unlink(c) PROVE IInv'
    <2>1. Goto(c, "sem_post") /\ pc[c] = "unlink"
        BY <1>7 DEF Unlink
    <2>2. Cardinality(In(Threads, "unlink")') = Cardinality(In(Threads, "unlink")) - 1
        BY <1>0, <2>1, GotoCounts
    <2>3. Cardinality(In(Consumers, "sem_post")') = Cardinality(In(Consumers, "sem_post")) + 1
        BY <1>0, <2>1, GotoCounts
    <2>4. /\ Cardinality(In(Threads, "link")') = Cardinality(In(Threads, "link"))
          /\ Cardinality(In(Producers, "sem_post")') = Cardinality(In(Producers, "sem_post"))
        BY <1>0, <2>1, GotoCounts
    <2>5. Places'
        BY <1>0, <2>1 DEF Places, Goto
    <2> QED BY <1>0, <1>1, <1>2, <1>7, <2>2, <2>3, <2>4, <2>5 DEF Unlink, SlotSum, TokenSum
<1>8. ASSUME NEW c \in Consumers, PostPsem(c) PROVE IInv'
    <2>1. Goto(c, "sem_wait") /\ pc[c] = "sem_post"
        BY <1>8 DEF PostPsem
    <2>2. Cardinality(In(Consumers, "sem_post")') = Cardinality(In(Consumers, "sem_post")) - 1
        BY <1>0, <2>1, GotoCounts
    <2>3. /\ Cardinality(In(Threads, "link")') = Cardinality(In(Threads, "link"))
          /\ Cardinality(In(Threads, "unlink")') = Cardinality(In(Threads, "unlink"))
          /\ Cardinality(In(Producers, "sem_post")') = Cardinality(In(Producers, "sem_post"))
        BY <1>0, <2>1, GotoCounts
    <2>4. Places'
        BY <1>0, <2>1 DEF Places, Goto
    <2> QED BY <1>0, <1>1, <1>2, <1>8, <2>2, <2>3, <2>4 DEF PostPsem, SlotSum, TokenSum
<1>9. ASSUME UNCHANGED <<pc, psem, csem, nodes>> PROVE IInv'
    <2>1. \A S, k : In(S, k)' = In(S, k)
        BY <1>9 DEF In
    <2>2. Places'
        BY <1>0, <1>9 DEF Places
    <2> QED BY <1>0, <1>2, <1>9, <2>1, <2>2 DEF SlotSum, TokenSum
<1>10. ASSUME NEW c \in Consumers, UnlinkNull(c) PROVE IInv'
    BY <1>9, <1>10 DEF UnlinkNull
<1>11. ASSUME UNCHANGED vars PROVE IInv'
    BY <1>9, <1>11 DEF vars
<1> QED
    BY <1>3, <1>4, <1>5, <1>6, <1>7, <1>8, <1>10, <1>11
       DEF Next, ProducerStep, ConsumerStep

------------------------------------------------------------------------------
(* The theorems. *)

LEMMA Inductive == Spec => []IInv
BY InitIInv, NextIInv, PTL DEF Spec

\* psem and the list never lose or invent a slot: each is free, claimed by a
\* producer, filled, or being given back.
THEOREM SlotsKept == Spec => []SlotsAccounted
<1>1. IInv => SlotsAccounted
    BY DEF IInv
<1> QED BY Inductive, <1>1, PTL

\* csem never grants more than the nodes that are or will be on the list and
\* the tokens it started with.
THEOREM TokensKept == Spec => []TokensAccounted
<1>1. IInv => TokensAccounted
    BY DEF IInv
<1> QED BY Inductive, <1>1, PTL

\* The list never holds more than psem's initial value, whatever csem's is.
THEOREM ListBounded == Spec => [](nodes <= Slots)
<1>1. IInv => nodes <= Slots
    BY Accounts, InFinite, ThreadKinds DEF IInv, SlotSum
<1> QED BY Inductive, <1>1, PTL

\* The fault in main (a consumer that follows a NULL head) comes from the initial
\* value of csem alone: were it 0, as the list is empty, no consumer let through
\* by sem_wait would ever find the list empty.
THEOREM FaultIsInitialTokens ==
    ASSUME Tokens = 0
    PROVE  Spec => []ConsumerFindsNode
<1>1. Init => ConsumerFindsNode
    BY DEF Init, ConsumerFindsNode
<1>2. IInv /\ ConsumerFindsNode /\ [Next]_vars => ConsumerFindsNode'
    <2> SUFFICES ASSUME IInv, ConsumerFindsNode, [Next]_vars PROVE ConsumerFindsNode'
        OBVIOUS
    <2>1. ASSUME NEW c \in Consumers, UnlinkNull(c) PROVE FALSE
        <3>1. c \in In(Threads, "unlink") /\ nodes = 0
            BY <2>1, ThreadKinds DEF UnlinkNull, In
        <3>2. Cardinality(In(Threads, "unlink")) # 0
            BY <3>1, InFinite, FS_EmptySet
        <3>3. /\ csem \in Nat /\ Cardinality(In(Threads, "unlink")) \in Nat
              /\ Cardinality(In(Producers, "sem_post")) \in Nat
            BY InFinite, ThreadKinds, Accounts DEF IInv
        <3> QED BY <3>1, <3>2, <3>3, Accounts DEF IInv, TokenSum
    <2>2. CASE UNCHANGED crashed
        BY <2>2 DEF ConsumerFindsNode
    <2> QED
        BY <2>1, <2>2 DEF Next, ProducerStep, ConsumerStep, WaitPsem, Link, PostCsem,
           WaitCsem, Unlink, PostPsem, vars
<1> QED BY Inductive, <1>1, <1>2, PTL DEF Spec

==============================================================================
