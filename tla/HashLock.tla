------------------------------- MODULE HashLock -------------------------------
(***************************************************************************)
(* The table of reference-counted objects of Pthread/hashlock.c: hash      *)
(* chains and counts under one lock, hashlock, and a global number that is *)
(* increased under the lock of a single object.                            *)
(*                                                                         *)
(* An object is a number in the order of malloc.  A chain is the sequence  *)
(* of the objects on it: f_next never changes once it is set, so to read   *)
(* the head is to read the chain.  Reading and writing a shared variable   *)
(* are two steps.                                                          *)
(***************************************************************************)
EXTENDS Integers, Sequences, FiniteSets

CONSTANTS
    Threads,
    Nobody,     \* the holder of a free mutex
    NHASH,
    Ids,        \* the identifiers objects are made for
    MaxFoo,     \* bound: objects allocated
    MaxHolds    \* bound: calls of foo_hold

HashLockAssumption == Nobody \notin Threads /\ NHASH \in Nat \ {0} /\ Ids \subseteq Nat

VARIABLES
    pc,         \* where each thread is
    hashlock,
    fh,         \* the chains
    foo,        \* the objects: f_id and f_count
    number,
    fp,         \* the object each thread works on
    seen,       \* what each thread has read and not yet written back
    holds,      \* history: the objects foo_hold has returned from
    counted,    \* history: the objects whose number++ is complete
    raced       \* history: two threads have been inside number++ at once

hashVars == <<pc, hashlock, fh, foo, number, fp, seen, holds, counted, raced>>

HashLockInit ==
    /\ pc = [t \in Threads |-> "idle"] /\ hashlock = Nobody
    /\ fh = [idx \in 0..NHASH-1 |-> <<>>] /\ foo = <<>> /\ number = 1
    /\ fp = [t \in Threads |-> 0] /\ seen = [t \in Threads |-> <<>>]
    /\ holds = <<>> /\ counted = {} /\ raced = FALSE

HASH(id) == id % NHASH
At(t, from, to) == pc[t] = from /\ pc' = [pc EXCEPT ![t] = to]
Read(t, value) == seen' = [seen EXCEPT ![t] = value]
Forget(t) == seen' = [seen EXCEPT ![t] = <<>>]
Return(t) == fp' = [fp EXCEPT ![t] = 0] /\ Forget(t)

\* foo_alloc up to the lock; a failed malloc or mutex_init changes nothing.
NewFoo(t) ==
    /\ At(t, "idle", "alloc") /\ Len(foo) < MaxFoo
    /\ \E id \in Ids : foo' = Append(foo, [f_id |-> id, f_count |-> 1])
    /\ fp' = [fp EXCEPT ![t] = Len(foo) + 1]
    /\ UNCHANGED <<hashlock, fh, number, seen, holds, counted, raced>>

\* Any object that some foo_alloc has returned can be held.
CallHold(t) ==
    /\ At(t, "idle", "hold") /\ Len(holds) < MaxHolds
    /\ \E f \in counted : fp' = [fp EXCEPT ![t] = f]
    /\ UNCHANGED <<hashlock, fh, foo, number, seen, holds, counted, raced>>

\* Mutant: neither function takes hashlock.
Barge(t) == UNCHANGED hashlock
LockTable(t) == hashlock = Nobody /\ hashlock' = t

\* foo_alloc: the lock, then the head of the chain is read.
ReadHead(t) ==
    /\ At(t, "alloc", "link")
    /\ LockTable(t)
    /\ Read(t, fh[HASH(foo[fp[t]].f_id)])
    /\ UNCHANGED <<fh, foo, number, fp, holds, counted, raced>>

\* The new head; f_lock, which nobody else can have; and hashlock is free.
Publish(t) ==
    /\ At(t, "link", "count")
    /\ fh' = [fh EXCEPT ![HASH(foo[fp[t]].f_id)] = <<fp[t]>> \o seen[t]]
    /\ hashlock' = Nobody
    /\ Forget(t)
    /\ UNCHANGED <<foo, number, fp, holds, counted, raced>>

\* number++ under f_lock, the lock of this object alone.
ReadNumber(t) ==
    /\ At(t, "count", "counting")
    /\ Read(t, <<number>>)
    /\ raced' = (raced \/ \E u \in Threads : pc[u] = "counting")
    /\ UNCHANGED <<hashlock, fh, foo, number, fp, holds, counted>>

\* Mutant: number = number++.
WriteBack(t) ==
    /\ At(t, "counting", "idle")
    /\ number' = seen[t][1]
    /\ counted' = counted \cup {fp[t]}
    /\ Return(t)
    /\ UNCHANGED <<hashlock, fh, foo, holds, raced>>

WriteNumber(t) ==
    /\ At(t, "counting", "idle")
    /\ number' = seen[t][1] + 1
    /\ counted' = counted \cup {fp[t]}
    /\ Return(t)
    /\ UNCHANGED <<hashlock, fh, foo, holds, raced>>

ReadCount(t) ==
    /\ At(t, "hold", "holding")
    /\ LockTable(t)
    /\ Read(t, <<foo[fp[t]].f_count>>)
    /\ UNCHANGED <<fh, foo, number, fp, holds, counted, raced>>

WriteCount(t) ==
    /\ At(t, "holding", "idle")
    /\ foo' = [foo EXCEPT ![fp[t]].f_count = seen[t][1] + 1]
    /\ holds' = Append(holds, fp[t])
    /\ hashlock' = Nobody
    /\ Return(t)
    /\ UNCHANGED <<fh, number, counted, raced>>

HashLockNext ==
    \E t \in Threads :
        \/ NewFoo(t) \/ ReadHead(t) \/ Publish(t) \/ ReadNumber(t) \/ WriteNumber(t)
        \/ CallHold(t) \/ ReadCount(t) \/ WriteCount(t)

------------------------------------------------------------------------------
(* Properties *)

\* The variables of the table have their types.
HashLockTypeOK ==
    /\ hashlock \in Threads \cup {Nobody} /\ number \in Nat /\ counted \subseteq DOMAIN foo
    /\ fp \in [Threads -> 0..Len(foo)]
    /\ pc \in [Threads -> {"idle", "alloc", "link", "count", "counting", "hold", "holding"}]

Calls(f) == Cardinality({k \in DOMAIN holds : holds[k] = f})
Published(f) == \A t \in Threads : ~(fp[t] = f /\ pc[t] \in {"alloc", "link"})

\* Whatever threads do at once, what hashlock guards loses nothing: every
\* published object is on the chain of its id once, and every foo_hold counts.
TableComplete ==
    \A f \in DOMAIN foo :
        /\ foo[f].f_count = 1 + Calls(f)
        /\ Published(f) =>
            Cardinality({k \in DOMAIN fh[HASH(foo[f].f_id)] : fh[HASH(foo[f].f_id)][k] = f}) = 1

\* number counts the allocations, unless two of them were inside number++ at
\* once (36): it may then have lost any of them but one, and has gained none.
NumberCounts ==
    /\ number <= 1 + Cardinality(counted)
    /\ counted # {} => number > 1
    /\ raced \/ number = 1 + Cardinality(counted)
==============================================================================
