--------------------------- MODULE CondQueueProofs ---------------------------
(***************************************************************************)
(* Proofs about the message queues of Pthread/condlock.c and               *)
(* Pthread/生产与消费.c, for any numbers of producers and consumers and any    *)
(* mixture of signals and broadcasts.                                      *)
(***************************************************************************)
EXTENDS CondQueue, FiniteSetTheorems, TLAPS

LEMMA ThreadKinds ==
    /\ Producers \subseteq Threads /\ Consumers \subseteq Threads
    /\ \A p \in Producers : p \notin Consumers
    /\ \A t \in Threads : t \in Producers \/ t \in Consumers
BY CondQueueAssumption DEF Threads

LEMMA AtFinite ==
    ASSUME NEW label
    PROVE  IsFiniteSet(At(label)) /\ Cardinality(At(label)) \in Nat
<1>1. IsFiniteSet(Threads)
    BY CondQueueAssumption, FS_Union DEF Threads
<1>2. At(label) \in SUBSET Threads
    BY DEF At
<1>3. IsFiniteSet(At(label))
    BY <1>1, <1>2, FS_Subset
<1> QED BY <1>3, FS_CardinalityType

LEMMA ReadyCounts == Cardinality(At("take")) \in Nat /\ Cardinality(At("wake")) \in Nat
BY AtFinite

\* At a label there are as many threads as before, one more, or one less.
LEMMA Counted ==
    ASSUME NEW label, NEW t
    PROVE  /\ At(label)' = At(label) => Cardinality(At(label)') = Cardinality(At(label))
           /\ At(label)' = At(label) \cup {t} /\ t \notin At(label) =>
                  Cardinality(At(label)') = Cardinality(At(label)) + 1
           /\ At(label)' = At(label) \ {t} /\ t \in At(label) =>
                  Cardinality(At(label)') = Cardinality(At(label)) - 1
<1>1. IsFiniteSet(At(label)) /\ Cardinality(At(label)) \in Nat
    BY AtFinite
<1>2. t \notin At(label) => Cardinality(At(label) \cup {t}) = Cardinality(At(label)) + 1
    BY <1>1, FS_AddElement
<1>3. t \in At(label) => Cardinality(At(label) \ {t}) = Cardinality(At(label)) - 1
    BY <1>1, FS_RemoveElement
<1> QED BY <1>2, <1>3

------------------------------------------------------------------------------
(* The inductive invariant. *)

\* Each thread is at a point of its own code.
Places ==
    /\ pc \in [Threads -> {"link", "wake", "take", "qready", "process"}]
    /\ \A p \in Producers : pc[p] \in {"link", "wake"}
    /\ \A c \in Consumers : pc[c] \in {"take", "qready", "process"}

IInv == Places /\ AwakeForEachMsg

LEMMA InitIInv == Init => IInv
<1> SUFFICES ASSUME Init PROVE IInv
    OBVIOUS
<1>1. Places
    BY ThreadKinds DEF Init, Places
<1>2. At("qready") = {}
    BY DEF Init, At
<1> QED BY <1>1, <1>2 DEF Init, IInv, AwakeForEachMsg

LEMMA PlacesStep == IInv /\ [Next]_vars => Places'
<1> SUFFICES ASSUME Places, [Next]_vars PROVE Places'
    BY DEF IInv
<1> USE ThreadKinds
<1>1. ASSUME NEW p \in Producers, Link(p) \/ Wake(p) PROVE Places'
    BY <1>1 DEF Link, Wake, At, Places
<1>2. ASSUME NEW c \in Consumers, ConsumerStep(c) \/ SpuriousWakeup(c) PROVE Places'
    BY <1>2 DEF ConsumerStep, Wait, Take, Process, SpuriousWakeup, Places
<1>3. CASE UNCHANGED vars
    BY <1>3 DEF vars, Places
<1> QED BY <1>1, <1>2, <1>3 DEF Next

\* The waiters of qready sleep only while takers and wakers match the list.
LEMMA AwakeStep == IInv /\ [Next]_vars => AwakeForEachMsg'
<1> SUFFICES ASSUME IInv, [Next]_vars PROVE AwakeForEachMsg'
    OBVIOUS
<1> USE ThreadKinds
<1>0. Places /\ AwakeForEachMsg /\ workq \in Nat
    BY DEF IInv, AwakeForEachMsg
<1>1. Cardinality(At("take")) \in Nat /\ Cardinality(At("wake")) \in Nat
    BY ReadyCounts
<1>2. ASSUME NEW p \in Producers, Link(p) PROVE AwakeForEachMsg'
    <2>1. /\ pc[p] = "link" /\ workq' = workq + 1
          /\ \A t \in Threads : pc'[t] = IF t = p THEN "wake" ELSE pc[t]
        BY <1>0, <1>2 DEF Link, Places
    <2>2. /\ At("qready")' = At("qready") /\ At("take")' = At("take")
          /\ At("wake")' = At("wake") \cup {p} /\ p \notin At("wake")
        BY <2>1 DEF At
    <2>3. /\ Cardinality(At("take")') = Cardinality(At("take"))
          /\ Cardinality(At("wake")') = Cardinality(At("wake")) + 1
        BY <2>2, Counted
    <2> QED BY <1>0, <1>1, <2>1, <2>2, <2>3 DEF AwakeForEachMsg
<1>3. ASSUME NEW p \in Producers, Wake(p) PROVE AwakeForEachMsg'
    <2>1. PICK woken \in {At("qready")} \cup {{c} : c \in At("qready")} :
              pc' = [t \in Threads |-> IF t = p THEN "link"
                                       ELSE IF t \in woken THEN "take" ELSE pc[t]]
        BY <1>3 DEF Wake
    <2>2. pc[p] = "wake" /\ workq' = workq
        BY <1>3 DEF Wake
    <2>3. CASE woken = At("qready")
        <3>1. At("qready")' = {}
            BY <2>1, <2>3 DEF At
        <3> QED BY <1>0, <2>2, <3>1 DEF AwakeForEachMsg
    <2>4. ASSUME NEW c \in At("qready"), woken = {c} PROVE AwakeForEachMsg'
        <3>1. c \in Threads /\ pc[c] = "qready" /\ c # p
            BY <2>2, <2>4 DEF At
        <3>2. /\ At("take")' = At("take") \cup {c} /\ c \notin At("take")
              /\ At("wake")' = At("wake") \ {p} /\ p \in At("wake")
            BY <2>1, <2>2, <2>4, <3>1 DEF At
        <3>3. Cardinality(At("take")') = Cardinality(At("take")) + 1
            BY <3>2, Counted
        <3>4. Cardinality(At("wake")') = Cardinality(At("wake")) - 1
            BY <3>2, Counted
        <3>5. workq <= Cardinality(At("take")) + Cardinality(At("wake"))
            BY <1>0, <2>4 DEF AwakeForEachMsg
        <3> QED BY <1>0, <1>1, <2>2, <3>3, <3>4, <3>5 DEF AwakeForEachMsg
    <2> QED BY <2>3, <2>4
<1>4. ASSUME NEW c \in Consumers, Wait(c) PROVE AwakeForEachMsg'
    <2>1. workq' = 0
        BY <1>4 DEF Wait
    <2>2. (Cardinality(At("take")) \in Nat /\ Cardinality(At("wake")) \in Nat)'
        BY ReadyCounts, PTL
    <2> QED BY <2>1, <2>2 DEF AwakeForEachMsg
<1>5. ASSUME NEW c \in Consumers, Take(c) PROVE AwakeForEachMsg'
    <2>1. /\ pc[c] = "take" /\ workq # 0 /\ workq' = workq - 1
          /\ \A t \in Threads : pc'[t] = IF t = c THEN "process" ELSE pc[t]
        BY <1>0, <1>5 DEF Take, Places
    <2>2. /\ At("qready")' = At("qready") /\ At("wake")' = At("wake")
          /\ At("take")' = At("take") \ {c} /\ c \in At("take")
        BY <2>1 DEF At
    <2>3. /\ Cardinality(At("wake")') = Cardinality(At("wake"))
          /\ Cardinality(At("take")') = Cardinality(At("take")) - 1
        BY <2>2, Counted
    <2> QED BY <1>0, <1>1, <2>1, <2>2, <2>3 DEF AwakeForEachMsg
<1>6. ASSUME NEW c \in Consumers, pc[c] \in {"process", "qready"}, workq' = workq,
             pc' = [pc EXCEPT ![c] = "take"]
      PROVE  AwakeForEachMsg'
    <2>1. \A t \in Threads : pc'[t] = IF t = c THEN "take" ELSE pc[t]
        BY <1>0, <1>6 DEF Places
    <2>2. /\ At("qready")' \subseteq At("qready") /\ At("wake")' = At("wake")
          /\ At("take")' = At("take") \cup {c} /\ c \notin At("take")
        BY <1>6, <2>1 DEF At
    <2>3. /\ Cardinality(At("wake")') = Cardinality(At("wake"))
          /\ Cardinality(At("take")') = Cardinality(At("take")) + 1
        BY <2>2, Counted
    <2> QED BY <1>0, <1>1, <1>6, <2>2, <2>3 DEF AwakeForEachMsg
<1>7. CASE UNCHANGED vars
    <2>1. \A label : At(label)' = At(label)
        BY <1>7 DEF vars, At
    <2> QED BY <1>0, <1>7, <2>1 DEF vars, AwakeForEachMsg
<1> QED
    BY <1>2, <1>3, <1>4, <1>5, <1>6, <1>7
       DEF Next, ConsumerStep, Process, SpuriousWakeup

------------------------------------------------------------------------------
(* The theorem. *)

LEMMA Inductive == Spec => []IInv
BY InitIInv, PlacesStep, AwakeStep, PTL DEF Spec, IInv

\* Although both programs wake the consumers only after the unlock (condlock.c:40,
\* 生产与消费.c:29), no message is left to sleeping consumers: each has a consumer
\* that is up to take it or a producer about to wake one.
THEOREM WakeupsSuffice == Spec => []AwakeForEachMsg
<1>1. IInv => AwakeForEachMsg
    BY DEF IInv
<1> QED BY Inductive, <1>1, PTL

==============================================================================
