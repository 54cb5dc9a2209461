---------------------------- MODULE HashLockProofs ----------------------------
(***************************************************************************)
(* Facts about the object table of Pthread/hashlock.c, for any number of   *)
(* threads, identifiers, chains, allocations and holds: an inductive       *)
(* invariant from which TableComplete and NumberCounts follow.             *)
(* ProgramsProofs makes theorems of the specification of them.             *)
(***************************************************************************)
EXTENDS HashLock, FiniteSetTheorems, SequenceTheorems, TLAPS

Foo == [f_id : Nat, f_count : Nat]

\* The chain of the object f, and its places on it.
Own(f) == HASH(foo[f].f_id)
Places(f) == {k \in DOMAIN fh[Own(f)] : fh[Own(f)][k] = f}

\* The objects that have been held and the chained ones have been allocated.
Typed ==
    /\ HashLockTypeOK
    /\ foo \in Seq(Foo) /\ holds \in Seq(Nat)
    /\ fh \in [0..NHASH-1 -> Seq(Nat)] /\ seen \in [Threads -> Seq(Nat)]
    /\ \A k \in DOMAIN holds : holds[k] \in DOMAIN foo
    /\ \A idx \in 0..NHASH-1 : \A k \in DOMAIN fh[idx] : fh[idx][k] \in DOMAIN foo

Allocating(t) == pc[t] \in {"alloc", "link", "count", "counting"}

\* hashlock is held by the thread between its read and its write, and by it
\* alone; an object being allocated has one thread and is not yet counted.
Working ==
    \A t \in Threads :
        /\ pc[t] # "idle" => fp[t] \in DOMAIN foo
        /\ pc[t] = "idle" => fp[t] = 0
        /\ pc[t] \in {"link", "holding"} <=> hashlock = t
        /\ pc[t] \in {"hold", "holding"} => fp[t] \in counted
        /\ Allocating(t) => fp[t] \notin counted
        /\ \A u \in Threads : Allocating(t) /\ Allocating(u) /\ fp[t] = fp[u] => t = u

\* What was read under hashlock is still there when it is written back.
Seen ==
    \A t \in Threads :
        /\ pc[t] = "link" => seen[t] = fh[Own(fp[t])]
        /\ pc[t] = "holding" => seen[t] = <<foo[fp[t]].f_count>>

CountsKept == \A f \in DOMAIN foo : foo[f].f_count = 1 + Calls(f)

ChainsKept ==
    \A f \in DOMAIN foo :
        /\ Published(f) => \E k : Places(f) = {k}
        /\ ~Published(f) => Places(f) = {}

\* A read of number is not above the allocations counted; it is up to date for
\* as long as nobody has come between.
NumberSeen ==
    /\ number \in Nat /\ 1 <= number
    /\ \A t \in Threads : pc[t] = "counting" =>
           /\ \E n \in 1..(1 + Cardinality(counted)) : seen[t] = <<n>>
           /\ ~raced => seen[t] = <<number>>
    /\ ~raced => \A t, u \in Threads : pc[t] = "counting" /\ pc[u] = "counting" => t = u

IInv == Typed /\ Working /\ Seen /\ CountsKept /\ ChainsKept /\ NumberSeen /\ NumberCounts

------------------------------------------------------------------------------
LEMMA HashRange ==
    ASSUME HashLockAssumption, NEW id \in Nat
    PROVE  HASH(id) \in 0..NHASH-1
BY DEF HashLockAssumption, HASH

\* The types, as they are cited below.
LEMMA Types ==
    ASSUME HashLockAssumption, Typed
    PROVE  /\ Len(foo) \in Nat /\ DOMAIN foo = 1..Len(foo)
           /\ \A f \in DOMAIN foo : foo[f] \in Foo /\ foo[f].f_id \in Nat /\ foo[f].f_count \in Nat
           /\ \A f \in DOMAIN foo : Own(f) \in 0..NHASH-1
           /\ IsFiniteSet(counted) /\ Cardinality(counted) \in Nat
           /\ Len(holds) \in Nat /\ DOMAIN holds = 1..Len(holds)
<1>1. Len(foo) \in Nat /\ DOMAIN foo = 1..Len(foo) /\ foo \in Seq(Foo)
    BY LenProperties DEF Typed
<1>2. \A f \in DOMAIN foo : foo[f] \in Foo
    BY <1>1, ElementOfSeq
<1>3. \A f \in DOMAIN foo : foo[f].f_id \in Nat /\ foo[f].f_count \in Nat
    BY <1>2 DEF Foo
<1>4. \A f \in DOMAIN foo : Own(f) \in 0..NHASH-1
    BY <1>3, HashRange DEF Own
<1>5. IsFiniteSet(counted)
    <2>1. IsFiniteSet(1..Len(foo)) /\ counted \in SUBSET (1..Len(foo))
        BY <1>1, FS_Interval DEF Typed, HashLockTypeOK
    <2> QED BY <2>1, FS_Subset, Zenon
<1>6. Cardinality(counted) \in Nat
    BY <1>5, FS_CardinalityType
<1>7. Len(holds) \in Nat /\ DOMAIN holds = 1..Len(holds)
    BY LenProperties DEF Typed
<1> QED BY <1>1, <1>2, <1>3, <1>4, <1>5, <1>6, <1>7

\* What does not write the tables leaves what is said of them.
LEMMA TablesKept ==
    ASSUME IInv, UNCHANGED <<foo, fh, holds>>,
           \A f \in DOMAIN foo : Published(f)' <=> Published(f)
    PROVE  CountsKept' /\ ChainsKept'
<1>1. CountsKept'
    BY DEF IInv, CountsKept, Calls
<1>2. \A f \in DOMAIN foo : Places(f)' = Places(f)
    BY DEF Own, Places
<1>3. ChainsKept'
    BY <1>2 DEF IInv, ChainsKept
<1> QED BY <1>1, <1>3

LEMMA NewFooKeeps ==
    ASSUME HashLockAssumption, IInv, NEW t \in Threads, NewFoo(t)
    PROVE  IInv'
<1> PICK new : new = Len(foo) + 1
    OBVIOUS
<1>0. /\ Typed /\ Working /\ Seen /\ CountsKept /\ ChainsKept /\ NumberSeen /\ NumberCounts
      /\ HashLockTypeOK
    BY DEF IInv, Typed
<1>1. PICK id \in Ids : foo' = Append(foo, [f_id |-> id, f_count |-> 1])
    BY DEF NewFoo
<1>2. /\ pc[t] = "idle" /\ pc' = [pc EXCEPT ![t] = "alloc"] /\ fp' = [fp EXCEPT ![t] = new]
      /\ UNCHANGED <<hashlock, fh, number, seen, holds, counted, raced>>
    BY DEF NewFoo, At
<1>3. /\ foo' \in Seq(Foo) /\ DOMAIN foo' = DOMAIN foo \cup {new}
      /\ \A f \in DOMAIN foo : foo'[f] = foo[f]
      /\ foo'[new] = [f_id |-> id, f_count |-> 1]
      /\ new \notin DOMAIN foo /\ new \in Nat \ {0} /\ Len(foo') = new
    <2>1. [f_id |-> id, f_count |-> 1] \in Foo
        BY DEF HashLockAssumption, Foo
    <2>2. /\ foo' \in Seq(Foo) /\ Len(foo') = new
          /\ \A f \in 1..Len(foo) : foo'[f] = foo[f]
          /\ foo'[new] = [f_id |-> id, f_count |-> 1]
        BY <1>0, <1>1, <2>1, AppendProperties DEF Typed
    <2>3. DOMAIN foo' = 1..new
        BY <2>2, LenProperties
    <2> QED BY <1>0, <2>2, <2>3, Types
<1>4. /\ \A u \in Threads : pc'[u] = IF u = t THEN "alloc" ELSE pc[u]
      /\ \A u \in Threads : fp'[u] = IF u = t THEN new ELSE fp[u]
    BY <1>0, <1>2 DEF HashLockTypeOK
<1>5. Typed'
    <2>1. fp' \in [Threads -> 0..Len(foo')]
        BY <1>0, <1>2, <1>3, Types DEF HashLockTypeOK
    <2>2. HashLockTypeOK'
        BY <1>0, <1>2, <1>3, <2>1 DEF HashLockTypeOK
    <2> QED BY <1>0, <1>2, <1>3, <2>2 DEF Typed
<1>6. Working'
    <2>1. \A u \in Threads : u # t => fp[u] # new
        BY <1>0, <1>3 DEF Working, HashLockTypeOK
    <2>2. new \notin counted
        BY <1>0, <1>3 DEF HashLockTypeOK
    <2> QED BY <1>0, <1>2, <1>3, <1>4, <2>1, <2>2 DEF Working, Allocating
<1>7. Seen'
    <2>1. \A u \in Threads : pc[u] \in {"link", "holding"} => fp[u] \in DOMAIN foo
        BY <1>0 DEF Working
    <2> QED BY <1>0, <1>2, <1>3, <1>4, <2>1 DEF Seen, Own
<1>8. CountsKept'
    <2>1. \A f : Calls(f)' = Calls(f)
        BY <1>2 DEF Calls
    <2>2. Calls(new) = 0
        <3>1. {k \in DOMAIN holds : holds[k] = new} = {}
            BY <1>0, <1>3 DEF Typed
        <3> QED BY <3>1, FS_EmptySet DEF Calls
    <2> QED BY <1>0, <1>3, <2>1, <2>2 DEF CountsKept
<1>9. ChainsKept'
    <2>1. \A f \in DOMAIN foo : Places(f)' = Places(f) /\ (Published(f)' <=> Published(f))
        BY <1>2, <1>3, <1>4 DEF Places, Own, Published
    <2>2. ~Published(new)'
        BY <1>2, <1>4 DEF Published
    <2>3. Own(new)' \in 0..NHASH-1
        <3>1. id \in Nat
            BY DEF HashLockAssumption
        <3> QED BY <1>3, <3>1, HashRange DEF Own
    <2>4. Places(new)' = {}
        BY <1>0, <1>2, <1>3, <2>3 DEF Places, Typed
    <2> QED BY <1>0, <1>3, <2>1, <2>2, <2>4 DEF ChainsKept
<1>10. NumberSeen' /\ NumberCounts'
    BY <1>0, <1>2, <1>4 DEF NumberSeen, NumberCounts
<1> QED BY <1>5, <1>6, <1>7, <1>8, <1>9, <1>10 DEF IInv

LEMMA CallHoldKeeps ==
    ASSUME HashLockAssumption, IInv, NEW t \in Threads, CallHold(t)
    PROVE  IInv'
<1>0. /\ Typed /\ Working /\ Seen /\ NumberSeen /\ NumberCounts /\ HashLockTypeOK
    BY DEF IInv, Typed
<1>1. /\ pc[t] = "idle" /\ pc' = [pc EXCEPT ![t] = "hold"]
      /\ UNCHANGED <<hashlock, fh, foo, number, seen, holds, counted, raced>>
    BY DEF CallHold, At
<1>2. PICK f \in counted : fp' = [fp EXCEPT ![t] = f]
    BY DEF CallHold
<1>3. f \in DOMAIN foo
    BY <1>0 DEF HashLockTypeOK
<1>4. \A u \in Threads : /\ pc'[u] = IF u = t THEN "hold" ELSE pc[u]
                         /\ fp'[u] = IF u = t THEN f ELSE fp[u]
    BY <1>0, <1>1, <1>2 DEF HashLockTypeOK
<1>5. Typed'
    <2>1. f \in 0..Len(foo)
        BY <1>0, <1>3, Types
    <2>2. HashLockTypeOK'
        BY <1>0, <1>1, <1>2, <2>1 DEF HashLockTypeOK
    <2> QED BY <1>0, <1>1, <2>2 DEF Typed
<1>6. Working'
    BY <1>0, <1>1, <1>3, <1>4 DEF Working, Allocating
<1>7. Seen'
    BY <1>0, <1>1, <1>4 DEF Seen, Own
<1>8. CountsKept' /\ ChainsKept'
    <2>1. \A g \in DOMAIN foo : Published(g)' <=> Published(g)
        BY <1>1, <1>4 DEF Published
    <2> QED BY <1>1, <2>1, TablesKept
<1>9. NumberSeen' /\ NumberCounts'
    BY <1>0, <1>1, <1>4 DEF NumberSeen, NumberCounts
<1> QED BY <1>5, <1>6, <1>7, <1>8, <1>9 DEF IInv

\* The two reads under hashlock.
LEMMA LockedReadKeeps ==
    ASSUME HashLockAssumption, IInv, NEW t \in Threads, ReadHead(t) \/ ReadCount(t)
    PROVE  IInv'
<1>0. /\ Typed /\ Working /\ Seen /\ NumberSeen /\ NumberCounts /\ HashLockTypeOK
    BY DEF IInv, Typed
<1>1. PICK to \in {"link", "holding"} : \E value :
          /\ pc[t] = (IF to = "link" THEN "alloc" ELSE "hold") /\ pc' = [pc EXCEPT ![t] = to]
          /\ hashlock = Nobody /\ hashlock' = t
          /\ value = IF to = "link" THEN fh[Own(fp[t])] ELSE <<foo[fp[t]].f_count>>
          /\ seen' = [seen EXCEPT ![t] = value]
          /\ UNCHANGED <<fh, foo, number, fp, holds, counted, raced>>
    <2>1. CASE ReadHead(t)
        BY <2>1 DEF ReadHead, At, LockTable, Read, Own
    <2>2. CASE ReadCount(t)
        BY <2>2 DEF ReadCount, At, LockTable, Read, Own
    <2> QED BY <2>1, <2>2
<1> DEFINE value == IF to = "link" THEN fh[Own(fp[t])] ELSE <<foo[fp[t]].f_count>>
<1>2. fp[t] \in DOMAIN foo
    BY <1>0, <1>1 DEF Working
<1>3. \A u \in Threads : /\ pc'[u] = IF u = t THEN to ELSE pc[u]
                         /\ seen'[u] = IF u = t THEN value ELSE seen[u]
    BY <1>0, <1>1 DEF Typed, HashLockTypeOK
<1>4. Typed'
    <2>1. value \in Seq(Nat)
        BY <1>0, <1>1, <1>2, Types DEF Typed
    <2>2. HashLockTypeOK'
        BY <1>0, <1>1 DEF HashLockTypeOK
    <2> QED BY <1>0, <1>1, <2>1, <2>2 DEF Typed
<1>5. Working'
    <2>1. \A u \in Threads : hashlock # u
        BY <1>1 DEF HashLockAssumption
    <2> QED BY <1>0, <1>1, <1>3, <2>1 DEF Working, Allocating
<1>6. Seen'
    BY <1>0, <1>1, <1>3 DEF Seen, Own
<1>7. CountsKept' /\ ChainsKept'
    <2>1. \A g \in DOMAIN foo : Published(g)' <=> Published(g)
        BY <1>1, <1>3 DEF Published
    <2> QED BY <1>1, <2>1, TablesKept
<1>8. NumberSeen' /\ NumberCounts'
    BY <1>0, <1>1, <1>3 DEF NumberSeen, NumberCounts
<1> QED BY <1>4, <1>5, <1>6, <1>7, <1>8 DEF IInv

\* The head of a chain goes to its second place, and so on.
LEMMA ChainGrows ==
    ASSUME NEW q \in Seq(Nat), NEW g \in Nat
    PROVE  /\ <<g>> \o q \in Seq(Nat)
           /\ DOMAIN (<<g>> \o q) = 1..(Len(q) + 1) /\ Len(q) \in Nat /\ DOMAIN q = 1..Len(q)
           /\ (<<g>> \o q)[1] = g
           /\ \A k \in DOMAIN q : k + 1 \in DOMAIN (<<g>> \o q) /\ (<<g>> \o q)[k + 1] = q[k]
           /\ \A k \in DOMAIN (<<g>> \o q) : k = 1 \/ (k - 1 \in DOMAIN q /\ (<<g>> \o q)[k] = q[k - 1])
<1>1. <<g>> \in Seq(Nat) /\ Len(<<g>>) = 1 /\ <<g>>[1] = g
    OBVIOUS
<1>2. /\ <<g>> \o q \in Seq(Nat) /\ Len(<<g>> \o q) = Len(q) + 1
      /\ \A k \in 1..(Len(q) + 1) : (<<g>> \o q)[k] = IF k <= 1 THEN <<g>>[k] ELSE q[k - 1]
      /\ Len(q) \in Nat
    BY <1>1, ConcatProperties, LenProperties
<1>3. DOMAIN (<<g>> \o q) = 1..(Len(q) + 1) /\ DOMAIN q = 1..Len(q)
    BY <1>2, LenProperties
<1> QED BY <1>1, <1>2, <1>3

LEMMA PublishKeeps ==
    ASSUME HashLockAssumption, IInv, NEW t \in Threads, Publish(t)
    PROVE  IInv'
<1> PICK g, idx : g = fp[t] /\ idx = Own(g)
    OBVIOUS
<1>0. /\ Typed /\ Working /\ Seen /\ CountsKept /\ ChainsKept /\ NumberSeen /\ NumberCounts
      /\ HashLockTypeOK
    BY DEF IInv, Typed
<1>1. /\ pc[t] = "link" /\ pc' = [pc EXCEPT ![t] = "count"]
      /\ fh' = [fh EXCEPT ![idx] = <<g>> \o seen[t]]
      /\ hashlock' = Nobody /\ seen' = [seen EXCEPT ![t] = <<>>]
      /\ UNCHANGED <<foo, number, fp, holds, counted, raced>>
    BY DEF Publish, At, Forget, Own
<1>2. /\ g \in DOMAIN foo /\ g \in Nat /\ idx \in 0..NHASH-1
      /\ seen[t] = fh[idx] /\ fh[idx] \in Seq(Nat) /\ hashlock = t
    BY <1>0, <1>1, Types DEF Working, Seen, Typed
<1>3. \A u \in Threads : /\ pc'[u] = IF u = t THEN "count" ELSE pc[u]
                         /\ seen'[u] = IF u = t THEN <<>> ELSE seen[u]
    BY <1>0, <1>1 DEF Typed, HashLockTypeOK
<1> DEFINE chain == <<g>> \o fh[idx]
<1>4. /\ chain \in Seq(Nat) /\ 1 \in DOMAIN chain /\ chain[1] = g
      /\ \A k \in DOMAIN fh[idx] : k + 1 \in DOMAIN chain /\ chain[k + 1] = fh[idx][k] /\ k \in Nat
      /\ \A k \in DOMAIN chain : k = 1 \/ (k - 1 \in DOMAIN fh[idx] /\ chain[k] = fh[idx][k - 1])
      /\ \A k \in DOMAIN chain : k \in Nat \ {0}
      /\ \A k \in DOMAIN fh[idx] : k \in Nat \ {0}
    BY <1>2, ChainGrows
<1>5. \A i \in 0..NHASH-1 : fh'[i] = IF i = idx THEN chain ELSE fh[i]
    BY <1>0, <1>1, <1>2 DEF Typed
<1> HIDE DEF chain
<1>6. Typed'
    <2>1. HashLockTypeOK'
        BY <1>0, <1>1 DEF HashLockTypeOK
    <2>2. fh' \in [0..NHASH-1 -> Seq(Nat)]
        BY <1>0, <1>1, <1>2, <1>4 DEF Typed, chain
    <2>3. \A k \in DOMAIN chain : chain[k] \in DOMAIN foo
        BY <1>0, <1>2, <1>4 DEF Typed
    <2>4. seen' \in [Threads -> Seq(Nat)]
        BY <1>0, <1>1 DEF Typed
    <2> QED BY <1>0, <1>1, <1>5, <2>1, <2>2, <2>3, <2>4 DEF Typed
<1>7. Working'
    <2>1. \A u \in Threads : u # t => pc[u] \notin {"link", "holding"}
        BY <1>0, <1>2 DEF Working
    <2>2. \A u \in Threads : Allocating(u)' <=> Allocating(u)
        BY <1>1, <1>3 DEF Allocating
    <2>3. \A u \in Threads : Nobody # u
        BY DEF HashLockAssumption
    <2> QED BY <1>0, <1>1, <1>3, <2>1, <2>2, <2>3 DEF Working
<1>8. Seen'
    <2>1. \A u \in Threads : pc'[u] \notin {"link", "holding"}
        BY <1>0, <1>2, <1>3 DEF Working
    <2> QED BY <2>1 DEF Seen
<1>9. CountsKept'
    BY <1>0, <1>1 DEF CountsKept, Calls
<1>10. ChainsKept'
    <2>1. ~Published(g) /\ Published(g)'
        <3>1. \A u \in Threads : u # t /\ pc[u] \in {"alloc", "link"} => fp[u] # g
            BY <1>0, <1>1 DEF Working, Allocating
        <3> QED BY <1>1, <1>3, <3>1 DEF Published
    <2>2. \A f \in DOMAIN foo : f # g => (Published(f)' <=> Published(f))
        BY <1>1, <1>3 DEF Published
    <2>3. \A f \in DOMAIN foo : Own(f)' = Own(f) /\ Own(f) \in 0..NHASH-1
        BY <1>0, <1>1, Types DEF Own
    <2>4. \A f \in DOMAIN foo : Own(f) # idx => Places(f)' = Places(f)
        BY <1>5, <2>3 DEF Places
    <2>5. ASSUME NEW f \in DOMAIN foo, Own(f) = idx
          PROVE  Places(f)' = {k \in DOMAIN chain : chain[k] = f}
        BY <1>5, <2>3, <2>5 DEF Places
    <2>6. ASSUME NEW f \in DOMAIN foo, f # g, Own(f) = idx
          PROVE  /\ \A k : Places(f) = {k} => Places(f)' = {k + 1}
                 /\ Places(f) = {} => Places(f)' = {}
        <3>1. \A k : k \in Places(f)' <=> k \in Nat \ {0} /\ k - 1 \in Places(f)
            BY <1>4, <2>5, <2>6 DEF Places
        <3>2. \A k \in Places(f) : k \in Nat \ {0}
            BY <1>4, <2>6 DEF Places
        <3> QED BY <3>1, <3>2
    <2>7. Places(g)' = {1}
        <3>1. Places(g) = {}
            BY <1>0, <1>2, <2>1 DEF ChainsKept
        <3> QED BY <1>2, <1>4, <2>5, <3>1 DEF Places
    <2>8. ASSUME NEW f \in DOMAIN foo
          PROVE  /\ Published(f)' => \E k : Places(f)' = {k}
                 /\ ~Published(f)' => Places(f)' = {}
        <3>1. CASE f = g
            BY <2>1, <2>7, <3>1
        <3>2. CASE f # g /\ Own(f) # idx
            BY <1>0, <2>2, <2>4, <3>2 DEF ChainsKept
        <3>3. CASE f # g /\ Own(f) = idx
            BY <1>0, <2>2, <2>6, <3>3 DEF ChainsKept
        <3> QED BY <3>1, <3>2, <3>3
    <2> QED BY <1>1, <2>8 DEF ChainsKept
<1>11. NumberSeen' /\ NumberCounts'
    BY <1>0, <1>1, <1>3 DEF NumberSeen, NumberCounts
<1> QED BY <1>6, <1>7, <1>8, <1>9, <1>10, <1>11 DEF IInv

LEMMA ReadNumberKeeps ==
    ASSUME HashLockAssumption, IInv, NEW t \in Threads, ReadNumber(t)
    PROVE  IInv'
<1>0. /\ Typed /\ Working /\ Seen /\ NumberSeen /\ NumberCounts /\ HashLockTypeOK
    BY DEF IInv, Typed
<1>1. /\ pc[t] = "count" /\ pc' = [pc EXCEPT ![t] = "counting"]
      /\ seen' = [seen EXCEPT ![t] = <<number>>]
      /\ raced' = (raced \/ \E u \in Threads : pc[u] = "counting")
      /\ UNCHANGED <<hashlock, fh, foo, number, fp, holds, counted>>
    BY DEF ReadNumber, At, Read
<1>2. \A u \in Threads : /\ pc'[u] = IF u = t THEN "counting" ELSE pc[u]
                         /\ seen'[u] = IF u = t THEN <<number>> ELSE seen[u]
    BY <1>0, <1>1 DEF Typed, HashLockTypeOK
<1>3. Typed'
    <2>1. <<number>> \in Seq(Nat)
        BY <1>0 DEF HashLockTypeOK
    <2>2. HashLockTypeOK'
        BY <1>0, <1>1 DEF HashLockTypeOK
    <2> QED BY <1>0, <1>1, <2>1, <2>2 DEF Typed
<1>4. Working'
    BY <1>0, <1>1, <1>2 DEF Working, Allocating
<1>5. Seen'
    BY <1>0, <1>1, <1>2 DEF Seen, Own
<1>6. CountsKept' /\ ChainsKept'
    <2>1. \A g \in DOMAIN foo : Published(g)' <=> Published(g)
        BY <1>1, <1>2 DEF Published
    <2> QED BY <1>1, <2>1, TablesKept
<1>7. NumberSeen'
    <2>1. number \in 1..(1 + Cardinality(counted))
        BY <1>0, Types DEF NumberSeen, NumberCounts
    <2>2. \A u \in Threads : pc'[u] = "counting" =>
              /\ \E n \in 1..(1 + Cardinality(counted)) : seen'[u] = <<n>>
              /\ ~raced => seen'[u] = <<number>>
        BY <1>0, <1>2, <2>1 DEF NumberSeen
    <2>3. ~raced' => ~raced /\ \A u \in Threads : pc[u] # "counting"
        BY <1>1
    <2>4. ~raced' => \A u, v \in Threads : pc'[u] = "counting" /\ pc'[v] = "counting" => u = v
        BY <1>2, <2>3
    <2> QED BY <1>0, <1>1, <2>2, <2>3, <2>4 DEF NumberSeen
<1>8. NumberCounts'
    BY <1>0, <1>1 DEF NumberCounts
<1> QED BY <1>3, <1>4, <1>5, <1>6, <1>7, <1>8 DEF IInv

LEMMA WriteNumberKeeps ==
    ASSUME HashLockAssumption, IInv, NEW t \in Threads, WriteNumber(t)
    PROVE  IInv'
<1> PICK g : g = fp[t]
    OBVIOUS
<1>0. /\ Typed /\ Working /\ Seen /\ NumberSeen /\ NumberCounts /\ HashLockTypeOK
    BY DEF IInv, Typed
<1>1. /\ pc[t] = "counting" /\ pc' = [pc EXCEPT ![t] = "idle"]
      /\ number' = seen[t][1] + 1 /\ counted' = counted \cup {g}
      /\ fp' = [fp EXCEPT ![t] = 0] /\ seen' = [seen EXCEPT ![t] = <<>>]
      /\ UNCHANGED <<hashlock, fh, foo, holds, raced>>
    BY DEF WriteNumber, At, Return, Forget
<1>2. \A u \in Threads : /\ pc'[u] = IF u = t THEN "idle" ELSE pc[u]
                         /\ fp'[u] = IF u = t THEN 0 ELSE fp[u]
                         /\ seen'[u] = IF u = t THEN <<>> ELSE seen[u]
    BY <1>0, <1>1 DEF Typed, HashLockTypeOK
<1>3. g \in DOMAIN foo /\ g \notin counted
    BY <1>0, <1>1 DEF Working, Allocating
<1>4. PICK n \in 1..(1 + Cardinality(counted)) :
          /\ seen[t] = <<n>> /\ number' = n + 1 /\ number' \in Nat
          /\ ~raced => n = number
    <2>1. PICK n \in 1..(1 + Cardinality(counted)) : seen[t] = <<n>>
        BY <1>0, <1>1 DEF NumberSeen
    <2>2. seen[t][1] = n /\ n \in Nat /\ number' = n + 1
        BY <1>1, <2>1
    <2>3. ~raced => n = number
        BY <1>0, <1>1, <2>1, <2>2 DEF NumberSeen
    <2> QED BY <2>1, <2>2, <2>3
<1>5. Cardinality(counted') = Cardinality(counted) + 1 /\ Cardinality(counted) \in Nat
    BY <1>0, <1>1, <1>3, Types, FS_AddElement
<1>6. Typed'
    <2>1. HashLockTypeOK'
        BY <1>0, <1>1, <1>3, <1>4, Types DEF HashLockTypeOK
    <2>2. seen' \in [Threads -> Seq(Nat)]
        BY <1>0, <1>1 DEF Typed
    <2> QED BY <1>0, <1>1, <2>1, <2>2 DEF Typed
<1>7. Working'
    <2>1. \A u \in Threads : u # t /\ Allocating(u) => fp[u] # g
        BY <1>0, <1>1 DEF Working, Allocating
    <2> QED BY <1>0, <1>1, <1>2, <2>1 DEF Working, Allocating
<1>8. Seen'
    BY <1>0, <1>1, <1>2 DEF Seen, Own
<1>9. CountsKept' /\ ChainsKept'
    <2>1. \A f \in DOMAIN foo : Published(f)' <=> Published(f)
        BY <1>1, <1>2 DEF Published
    <2> QED BY <1>1, <2>1, TablesKept
<1>10. NumberSeen'
    <2>1. \A u \in Threads : pc'[u] = "counting" =>
              \E k \in 1..(1 + Cardinality(counted')) : seen'[u] = <<k>>
        BY <1>0, <1>2, <1>5 DEF NumberSeen
    <2>2. ~raced => \A u \in Threads : pc'[u] # "counting"
        BY <1>0, <1>1, <1>2 DEF NumberSeen
    <2>3. number' \in Nat /\ 1 <= number' /\ raced' = raced
        BY <1>1, <1>4
    <2>4. ~raced' => \A u \in Threads : pc'[u] # "counting"
        BY <2>2, <2>3
    <2> QED BY <2>1, <2>3, <2>4 DEF NumberSeen
<1>11. NumberCounts'
    BY <1>0, <1>1, <1>4, <1>5 DEF NumberCounts
<1> QED BY <1>6, <1>7, <1>8, <1>9, <1>10, <1>11 DEF IInv

LEMMA WriteCountKeeps ==
    ASSUME HashLockAssumption, IInv, NEW t \in Threads, WriteCount(t)
    PROVE  IInv'
<1> PICK g, c : g = fp[t] /\ c = foo[g].f_count
    OBVIOUS
<1>0. /\ Typed /\ Working /\ Seen /\ CountsKept /\ ChainsKept /\ NumberSeen /\ NumberCounts
      /\ HashLockTypeOK
    BY DEF IInv, Typed
<1>1. /\ pc[t] = "holding" /\ pc' = [pc EXCEPT ![t] = "idle"]
      /\ holds' = Append(holds, g) /\ hashlock' = Nobody
      /\ fp' = [fp EXCEPT ![t] = 0] /\ seen' = [seen EXCEPT ![t] = <<>>]
      /\ UNCHANGED <<fh, number, counted, raced>>
    BY DEF WriteCount, At, Return, Forget
<1>2. \A u \in Threads : /\ pc'[u] = IF u = t THEN "idle" ELSE pc[u]
                         /\ fp'[u] = IF u = t THEN 0 ELSE fp[u]
                         /\ seen'[u] = IF u = t THEN <<>> ELSE seen[u]
    BY <1>0, <1>1 DEF Typed, HashLockTypeOK
<1>3. g \in DOMAIN foo /\ c \in Nat /\ seen[t][1] = c /\ g \in Nat /\ hashlock = t
    <2>1. g \in DOMAIN foo /\ seen[t] = <<c>> /\ hashlock = t
        BY <1>0, <1>1 DEF Working, Seen
    <2> QED BY <1>0, <2>1, Types
<1>4. /\ foo' \in Seq(Foo) /\ DOMAIN foo' = DOMAIN foo /\ Len(foo') = Len(foo)
      /\ \A f \in DOMAIN foo : /\ foo'[f].f_id = foo[f].f_id
                               /\ foo'[f].f_count = IF f = g THEN c + 1 ELSE foo[f].f_count
    <2> DEFINE new == [foo[g] EXCEPT !.f_count = c + 1]
    <2>1. foo' = [foo EXCEPT ![g] = new]
        BY <1>3 DEF WriteCount
    <2>2. new \in Foo /\ new.f_id = foo[g].f_id /\ new.f_count = c + 1
        BY <1>0, <1>3, Types DEF Foo
    <2>3. g \in 1..Len(foo) /\ foo \in Seq(Foo) /\ DOMAIN foo = 1..Len(foo)
        BY <1>0, <1>3, Types DEF Typed
    <2> HIDE DEF new
    <2>4. /\ foo' \in Seq(Foo) /\ Len(foo') = Len(foo)
          /\ \A f \in 1..Len(foo) : foo'[f] = IF f = g THEN new ELSE foo[f]
        BY <2>1, <2>2, <2>3, ExceptSeq
    <2>5. DOMAIN foo' = DOMAIN foo
        BY <2>3, <2>4, LenProperties
    <2> QED BY <2>2, <2>3, <2>4, <2>5
<1>5. /\ holds' \in Seq(Nat) /\ Len(holds') = Len(holds) + 1 /\ Len(holds) \in Nat
      /\ DOMAIN holds = 1..Len(holds) /\ DOMAIN holds' = 1..(Len(holds) + 1)
      /\ holds'[Len(holds) + 1] = g /\ \A k \in DOMAIN holds : holds'[k] = holds[k]
    <2>1. /\ holds' \in Seq(Nat) /\ Len(holds') = Len(holds) + 1
          /\ holds'[Len(holds) + 1] = g /\ \A k \in 1..Len(holds) : holds'[k] = holds[k]
        BY <1>0, <1>1, <1>3, AppendProperties DEF Typed
    <2> QED BY <1>0, <2>1, Types, LenProperties
<1>6. Typed'
    <2>1. HashLockTypeOK'
        BY <1>0, <1>1, <1>4, Types DEF HashLockTypeOK
    <2>2. seen' \in [Threads -> Seq(Nat)]
        BY <1>0, <1>1 DEF Typed
    <2>3. \A k \in DOMAIN holds' : holds'[k] \in DOMAIN foo
        <3>1. \A k \in DOMAIN holds' : k \in DOMAIN holds \/ k = Len(holds) + 1
            BY <1>5
        <3> QED BY <1>0, <1>3, <1>5, <3>1 DEF Typed
    <2> QED BY <1>0, <1>1, <1>4, <1>5, <2>1, <2>2, <2>3 DEF Typed
<1>7. Working'
    <2>1. \A u \in Threads : u # t => pc[u] \notin {"link", "holding"}
        BY <1>0, <1>3 DEF Working
    <2>2. \A u \in Threads : Nobody # u
        BY DEF HashLockAssumption
    <2> QED BY <1>0, <1>1, <1>2, <1>4, <2>1, <2>2 DEF Working, Allocating
<1>8. Seen'
    <2>1. \A u \in Threads : pc'[u] \notin {"link", "holding"}
        BY <1>0, <1>2, <1>3 DEF Working
    <2> QED BY <2>1 DEF Seen
<1>9. CountsKept'
    <2>1. ASSUME NEW f \in DOMAIN foo
          PROVE  Calls(f)' = (IF f = g THEN Calls(f) + 1 ELSE Calls(f)) /\ Calls(f) \in Nat
        <3> DEFINE S == {k \in DOMAIN holds : holds[k] = f}
        <3>1. S \subseteq 1..Len(holds) /\ Calls(f) = Cardinality(S)
            BY <1>5 DEF Calls
        <3>2. IsFiniteSet(S) /\ Cardinality(S) \in Nat
            <4>1. IsFiniteSet(1..Len(holds)) /\ S \in SUBSET (1..Len(holds))
                BY <1>5, <3>1, FS_Interval
            <4> HIDE DEF S
            <4>2. IsFiniteSet(S)
                BY <4>1, FS_Subset, Zenon
            <4> QED BY <4>2, FS_CardinalityType
        <3>3. {k \in DOMAIN holds' : holds'[k] = f} = IF f = g THEN S \cup {Len(holds) + 1} ELSE S
            BY <1>5
        <3>4. Len(holds) + 1 \notin S
            BY <1>5
        <3>5. Calls(f)' = Cardinality({k \in DOMAIN holds' : holds'[k] = f})
            BY DEF Calls
        <3> HIDE DEF S
        <3>6. Cardinality(S \cup {Len(holds) + 1}) = Cardinality(S) + 1
            BY <3>2, <3>4, FS_AddElement
        <3> QED BY <3>1, <3>2, <3>3, <3>5, <3>6
    <2>2. \A f \in DOMAIN foo : foo'[f].f_count = 1 + Calls(f)'
        BY <1>0, <1>3, <1>4, <2>1 DEF CountsKept
    <2> QED BY <1>4, <2>2 DEF CountsKept
<1>10. ChainsKept'
    <2>1. \A f \in DOMAIN foo : Published(f)' <=> Published(f)
        BY <1>0, <1>1, <1>2, <1>3, <1>4 DEF Published, Working, HashLockTypeOK
    <2>2. \A f \in DOMAIN foo : Places(f)' = Places(f)
        BY <1>1, <1>4 DEF Places, Own
    <2>3. ASSUME NEW f \in DOMAIN foo
          PROVE  /\ Published(f)' => \E k : Places(f)' = {k}
                 /\ ~Published(f)' => Places(f)' = {}
        BY <1>0, <2>1, <2>2 DEF ChainsKept
    <2> QED BY <1>4, <2>3 DEF ChainsKept
<1>11. NumberSeen' /\ NumberCounts'
    BY <1>0, <1>1, <1>2 DEF NumberSeen, NumberCounts
<1> QED BY <1>6, <1>7, <1>8, <1>9, <1>10, <1>11 DEF IInv

------------------------------------------------------------------------------
(* What the table promises of its start, of a step, and of a state. *)

LEMMA HashLockStarts == HashLockAssumption /\ HashLockInit => IInv
<1> SUFFICES ASSUME HashLockAssumption, HashLockInit PROVE IInv
    OBVIOUS
<1>1. /\ <<>> \in Seq(Nat) /\ <<>> \in Seq(Foo) /\ Len(<<>>) = 0 /\ DOMAIN <<>> = {}
    BY EmptySeq
<1>2. Cardinality({}) = 0
    BY FS_EmptySet
<1>3. Typed
    <2>1. foo = <<>> /\ holds = <<>> /\ Len(foo) = 0
        BY <1>1 DEF HashLockInit
    <2>2. HashLockTypeOK
        BY <2>1 DEF HashLockInit, HashLockTypeOK
    <2>3. fh \in [0..NHASH-1 -> Seq(Nat)] /\ seen \in [Threads -> Seq(Nat)]
        BY <1>1 DEF HashLockInit
    <2> QED BY <1>1, <2>1, <2>2, <2>3 DEF Typed, HashLockInit
<1>4. Working /\ Seen
    BY DEF HashLockInit, HashLockAssumption, Working, Seen, Allocating
<1>5. CountsKept /\ ChainsKept
    BY <1>1 DEF HashLockInit, CountsKept, ChainsKept
<1>6. NumberSeen /\ NumberCounts
    BY <1>2 DEF HashLockInit, NumberSeen, NumberCounts
<1> QED BY <1>3, <1>4, <1>5, <1>6 DEF IInv

LEMMA HashLockSteps == HashLockAssumption /\ IInv /\ [HashLockNext]_hashVars => IInv'
<1> SUFFICES ASSUME HashLockAssumption, IInv, [HashLockNext]_hashVars PROVE IInv'
    OBVIOUS
<1>1. CASE UNCHANGED hashVars
    <2>1. CountsKept' /\ ChainsKept'
        <3>1. \A f \in DOMAIN foo : Published(f)' <=> Published(f)
            BY <1>1 DEF hashVars, Published
        <3> QED BY <1>1, <3>1, TablesKept DEF hashVars
    <2>2. Typed' /\ Working' /\ Seen' /\ NumberSeen' /\ NumberCounts'
        BY <1>1 DEF IInv, hashVars, Typed, HashLockTypeOK, Working, Allocating, Seen, Own,
                    NumberSeen, NumberCounts
    <2> QED BY <2>1, <2>2 DEF IInv
<1>2. ASSUME NEW t \in Threads,
             \/ NewFoo(t) \/ ReadHead(t) \/ Publish(t) \/ ReadNumber(t) \/ WriteNumber(t)
             \/ CallHold(t) \/ ReadCount(t) \/ WriteCount(t)
      PROVE  IInv'
    BY <1>2, NewFooKeeps, LockedReadKeeps, PublishKeeps, ReadNumberKeeps, WriteNumberKeeps,
       CallHoldKeeps, WriteCountKeeps
<1> QED BY <1>1, <1>2 DEF HashLockNext

LEMMA TableIsComplete == HashLockAssumption /\ IInv => TableComplete
<1> SUFFICES ASSUME IInv, NEW f \in DOMAIN foo
             PROVE  /\ foo[f].f_count = 1 + Calls(f)
                    /\ Published(f) => Cardinality(Places(f)) = 1
    BY DEF TableComplete, Places, Own
<1>1. \A k : Cardinality({k}) = 1
    BY FS_Singleton
<1> QED BY <1>1 DEF IInv, CountsKept, ChainsKept

LEMMA NumberIsCounted == IInv => NumberCounts
BY DEF IInv
==============================================================================
