------------------------------ MODULE JobService ------------------------------
(***************************************************************************)
(* What a client of a thread pool is promised, without threads, locks or   *)
(* condition variables.  The service accepts jobs while it is open and has *)
(* room, starts them in the order it accepted them and runs each one to    *)
(* its end.  Closing it stops the admission; it is closed only when        *)
(* nothing is pending, and gone only when nothing is running.              *)
(***************************************************************************)
EXTENDS Naturals, Sequences

CONSTANTS
    Jobs,       \* all jobs that may be submitted
    Room        \* how many jobs may be pending

VARIABLES
    pending,    \* accepted and not started, in order
    running,    \* started and not finished
    done,       \* finished
    phase       \* "open", "closing", "closed" or "gone"

vars == <<pending, running, done, phase>>

Known == {pending[i] : i \in DOMAIN pending} \cup running \cup done

Init ==
    /\ pending = <<>>
    /\ running = {}
    /\ done = {}
    /\ phase = "open"

Accept(j) ==
    /\ phase = "open"
    /\ j \notin Known
    /\ Len(pending) < Room
    /\ pending' = Append(pending, j)
    /\ UNCHANGED <<running, done, phase>>

Start ==
    /\ pending # <<>>
    /\ running' = running \cup {Head(pending)}
    /\ pending' = Tail(pending)
    /\ UNCHANGED <<done, phase>>

Finish(j) ==
    /\ j \in running
    /\ running' = running \ {j}
    /\ done' = done \cup {j}
    /\ UNCHANGED <<pending, phase>>

BeginClose ==
    /\ phase = "open"
    /\ phase' = "closing"
    /\ UNCHANGED <<pending, running, done>>

Close ==
    /\ phase \in {"open", "closing"}
    /\ pending = <<>>
    /\ phase' = "closed"
    /\ UNCHANGED <<pending, running, done>>

Release ==
    /\ phase = "closed"
    /\ running = {}
    /\ phase' = "gone"
    /\ UNCHANGED <<pending, running, done>>

Next ==
    \/ \E j \in Jobs : Accept(j) \/ Finish(j)
    \/ Start \/ BeginClose \/ Close \/ Release

Spec == Init /\ [][Next]_vars

\* What was accepted is run; what has begun to close goes away.
Fairness ==
    /\ WF_vars(Start)
    /\ \A j \in Jobs : WF_vars(Finish(j))
    /\ WF_vars(phase = "closing" /\ Close)
    /\ WF_vars(Release)

FairSpec == Spec /\ Fairness
===============================================================================
