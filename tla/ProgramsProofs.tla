---------------------------- MODULE ProgramsProofs ----------------------------
(***************************************************************************)
(* Theorems about the small programs of Programs: a step of Programs is a  *)
(* step of one program, and for each other one a stutter.                  *)
(*                                                                         *)
(* For the table with two locks and the echo programs the inductive        *)
(* invariants are those of HashLockProofs and EchoProofs.  Programs        *)
(* reaches a program by one INSTANCE and its facts are reached here by     *)
(* another, so the first lemmas of these two parts say that the instances  *)
(* define the same.  The invariants of ls and of the shell are here:       *)
(* LsInv, and Control with what else a theorem needs (Homes for the        *)
(* directories, Balance for wait, Output for the file of redirections).    *)
(***************************************************************************)
EXTENDS Programs, SequenceTheorems, FiniteSetTheorems, TLAPS

TabP == INSTANCE HashLockProofs
EcP == INSTANCE EchoProofs

------------------------------------------------------------------------------
(* Pthread/hashlock.c *)

LEMMA SameHashLock == Tab!HashLockNext => TabP!HashLockNext
BY DEF Tab!HashLockNext, TabP!HashLockNext, Tab!HASH, TabP!HASH, Tab!At, TabP!At, Tab!Read,
       TabP!Read, Tab!Forget, TabP!Forget, Tab!Return, TabP!Return, Tab!NewFoo, TabP!NewFoo,
       Tab!CallHold, TabP!CallHold, Tab!LockTable, TabP!LockTable, Tab!ReadHead, TabP!ReadHead,
       Tab!Publish, TabP!Publish, Tab!ReadNumber, TabP!ReadNumber, Tab!WriteNumber,
       TabP!WriteNumber, Tab!ReadCount, TabP!ReadCount, Tab!WriteCount, TabP!WriteCount

LEMMA SameCardinality == \A S : Tab!Cardinality(S) = TabP!Cardinality(S)
BY DEF Tab!Cardinality, TabP!Cardinality

LEMMA HashLockAssumed == TabP!HashLockAssumption
BY ProgramsAssumption DEF Tab!HashLockAssumption, TabP!HashLockAssumption

LEMMA HashLockAlone == [Next]_vars => [TabP!HashLockNext]_(TabP!hashVars)
<1> SUFFICES ASSUME [Next]_vars PROVE TabP!HashLockNext \/ UNCHANGED TabP!hashVars
    OBVIOUS
<1>1. CASE HashLockStep
    BY <1>1, SameHashLock DEF HashLockStep
<1>2. CASE ShellStep \/ LsStep \/ EchoStep \/ UNCHANGED vars
    BY <1>2 DEF ShellStep, LsStep, EchoStep, vars, hashVars, TabP!hashVars
<1> QED BY <1>1, <1>2 DEF Next

LEMMA HashLockInductive == Spec => []TabP!IInv
<1>1. Init => TabP!IInv
    <2>1. Init => TabP!HashLockInit
        BY DEF Init, Tab!HashLockInit, TabP!HashLockInit
    <2> QED BY <2>1, HashLockAssumed, TabP!HashLockStarts
<1>2. TabP!IInv /\ [Next]_vars => TabP!IInv'
    BY HashLockAssumed, HashLockAlone, TabP!HashLockSteps
<1> QED BY <1>1, <1>2, PTL DEF Spec

\* Any number of threads that allocate and hold objects at once leave every
\* published object on the chain of its id once, and every hold counted.
THEOREM TableKept == Spec => []TableComplete
<1>1. TabP!IInv => TabP!TableComplete
    BY HashLockAssumed, TabP!TableIsComplete
<1>2. TabP!TableComplete => TableComplete
    BY SameCardinality
    DEF TableComplete, Tab!TableComplete, TabP!TableComplete, Tab!Calls, TabP!Calls,
        Tab!Published, TabP!Published, Tab!HASH, TabP!HASH
<1> QED BY <1>1, <1>2, HashLockInductive, PTL

\* number never counts more than the allocations, always more than none, and all
\* of them if no two have been inside number++ at once.
THEOREM NumberKept == Spec => []NumberCounts
<1>1. TabP!IInv => NumberCounts
    BY SameCardinality, TabP!NumberIsCounted
    DEF NumberCounts, Tab!NumberCounts, TabP!NumberCounts
<1> QED BY <1>1, HashLockInductive, PTL

------------------------------------------------------------------------------
(* The echo client and server *)

LEMMA SameEcho == Ec!EchoNext => EcP!EchoNext
BY DEF Ec!EchoNext, EcP!EchoNext, Ec!clientVars, EcP!clientVars, Ec!serverVars, EcP!serverVars,
       Ec!Rest, EcP!Rest, Ec!Sleep, EcP!Sleep, Ec!CloseFailed, EcP!CloseFailed, Ec!Connect,
       EcP!Connect, Ec!ConnectFails, EcP!ConnectFails, Ec!NextAddress, EcP!NextAddress, Ec!Send,
       EcP!Send, Ec!print_uptime, EcP!print_uptime, Ec!Close, EcP!Close, Ec!initserver,
       EcP!initserver, Ec!FindAddress, EcP!FindAddress, Ec!Accept, EcP!Accept, Ec!ForkChild,
       EcP!ForkChild, Ec!serve, EcP!serve, Ec!ServeNothing, EcP!ServeNothing, Ec!RecvFails,
       EcP!RecvFails, Ec!Say, EcP!Say, Ec!Answer, EcP!Answer, Ec!ChildFails, EcP!ChildFails,
       Ec!WaitChild, EcP!WaitChild

LEMMA EchoAssumed == EcP!EchoAssumption
BY ProgramsAssumption DEF Ec!EchoAssumption, EcP!EchoAssumption

LEMMA EchoBegins == Init => EcP!EchoInit
BY DEF Init, Ec!EchoInit, EcP!EchoInit

LEMMA EchoAlone == [Next]_vars => [EcP!EchoNext]_(EcP!echoVars)
<1> SUFFICES ASSUME [Next]_vars PROVE EcP!EchoNext \/ UNCHANGED EcP!echoVars
    OBVIOUS
<1>1. CASE EchoStep
    BY <1>1, SameEcho DEF EchoStep
<1>2. CASE ShellStep \/ LsStep \/ HashLockStep \/ UNCHANGED vars
    BY <1>2 DEF ShellStep, LsStep, HashLockStep, vars, echoVars,
                EcP!echoVars, EcP!clientVars, EcP!serverVars
<1> QED BY <1>1, <1>2 DEF Next

LEMMA EchoInductive == Spec => []EcP!IInv
<1>1. Init => EcP!IInv
    BY EchoBegins, EcP!EchoStarts
<1>2. EcP!IInv /\ [Next]_vars => EcP!IInv'
    BY EchoAssumed, EchoAlone, EcP!EchoSteps
<1> QED BY <1>1, <1>2, PTL DEF Spec

\* connect_retry sleeps MAXSLEEP - 1 seconds for an address and leaves no socket
\* open, for every MAXSLEEP that doubling reaches from 1, as the source's 128 is.
THEOREM RetriesAlwaysBounded ==
    ASSUME EcP!Doubles(1, MAXSLEEP)
    PROVE  Spec => []RetriesBounded
<1>1. Init => EcP!Slept
    BY EchoAssumed, EchoBegins, EcP!SleepsStart
<1>2. EcP!Slept /\ [Next]_vars => EcP!Slept'
    BY EchoAssumed, EchoAlone, EcP!SleepsStep
<1>3. EcP!Slept => RetriesBounded
    BY EchoAssumed, EcP!RetriesAreBounded
    DEF RetriesBounded, Ec!RetriesBounded, EcP!RetriesBounded
<1> QED BY <1>1, <1>2, <1>3, PTL DEF Spec

\* A client that waits for an answer never waits for nothing.
THEOREM SomethingAlwaysComes == Spec => []SomethingComes
<1>1. EcP!IInv => SomethingComes
    BY EcP!SomethingAlwaysComes DEF SomethingComes, Ec!SomethingComes, EcP!SomethingComes
<1> QED BY <1>1, EchoInductive, PTL

\* The operator is shown the requests in their order, none twice, as long as the
\* client is there or has left requests to read.
THEOREM ShownInOrder == Spec => ShownOnce
<1>1. EcP!IInv /\ [Next]_vars =>
        [server = "recv" /\ server' = "waitpid" =>
            shown' > shown \/ (client = "gone" /\ toServer = <<>>)]_(Ec!echoVars)
    BY EchoAlone, EcP!ShownInOrder
<1> QED BY <1>1, EchoInductive, PTL DEF Spec, ShownOnce, Ec!ShownOnce

------------------------------------------------------------------------------
(* ls_command/ls.3.c *)

Files == UNION {Directories[d] : d \in DOMAIN Directories}
Pairs == (DOMAIN Directories) \X Files
RowType == [filename : Files \cup {""}, pathname : Pairs \cup {<<>>}, size : Nat]

LsPlaces ==
    /\ step \in {"args", "bysize", "reverse", "stat", "done", "overrun"}
    /\ dir \in DOMAIN Directories \cup {Dir!NoDir}
    /\ dir # Dir!NoDir => step = "args" /\ left \subseteq Directories[dir]
    /\ count \in 0..(Rows - 1) /\ ls \in [0..(Rows - 1) -> RowType]
    /\ read \in Seq(Pairs) /\ Len(read) = count
    /\ m \in 0..count /\ n \in -1..(count + 1)
    /\ step = "args" => m = 0 /\ n = 0
    /\ step = "bysize" => "s" \in cnd /\ m < n /\ (m >= count - 1 \/ n <= count)
    /\ step = "reverse" => "s" \notin cnd /\ "r" \in cnd /\ m + n = count - 1 /\ m <= n + 1
    /\ step = "done" => m = count
    /\ step = "overrun" => count = Rows - 1

\* Where a row's file stands in read while the order is known.
Place(k) ==
    CASE step = "args" -> k + 1
      [] step = "reverse" -> IF m <= k /\ k <= n THEN k + 1 ELSE count - k
      [] OTHER -> IF "r" \in cnd THEN count - k ELSE k + 1

\* Each row is a file that was read, and each file read has a row.
RowsHold ==
    /\ \A k \in 0..(count - 1) :
        /\ ls[k].filename = ls[k].pathname[2]
        /\ \E j \in 1..count : ls[k].pathname = read[j]
    /\ \A j \in 1..count : \E k \in 0..(count - 1) : ls[k].pathname = read[j]
    /\ step = "args" \/ (step # "overrun" /\ "s" \notin cnd) =>
        \A k \in 0..(count - 1) : ls[k].pathname = read[Place(k)]

RowsPrinted ==
    /\ printed \in Seq([name : Files \cup {""}, size : Nat])
    /\ step \in {"args", "bysize", "reverse"} => printed = <<>>
    /\ cnd \cap {"l", "i"} = {} /\ step \in {"stat", "done"} =>
        /\ Len(printed) = m
        /\ \A k \in 1..m : printed[k].name = ls[k - 1].filename

\* While rows are being sorted those before m are in order and not below any after
\* them, and m is not below those before n.
SizesSorted ==
    /\ step = "args" =>
        /\ ls[0].size = 0
        /\ \A k \in 1..(Rows - 1) : ls[k].size = 0 \/ (k <= count /\ ls[k].size = Size[read[k][2]])
    /\ step \notin {"args", "overrun"} /\ "s" \in cnd =>
        \A a, b \in 0..(count - 1) :
            a < b /\ (step # "bysize" \/ a < m \/ (a = m /\ b < n)) => ls[a].size >= ls[b].size

LsInv == LsPlaces /\ RowsHold /\ RowsPrinted /\ SizesSorted

LEMMA LsAssumed == Dir!LsAssumption
BY ProgramsAssumption

LEMMA FileSizes == Rows \in Nat \ {0} /\ \A f \in Files : Size[f] \in Nat
BY LsAssumed DEF Dir!LsAssumption, Files

LEMMA LsStarts == Init => LsInv
<1> SUFFICES ASSUME Dir!LsInit PROVE LsInv
    BY DEF Init
<1>1. Dir!Empty \in RowType /\ Dir!Empty.size = 0
    BY DEF Dir!Empty, RowType
<1>2. ls \in [0..(Rows - 1) -> RowType] /\ \A k \in 0..(Rows - 1) : ls[k].size = 0
    BY <1>1 DEF Dir!LsInit
<1>3. <<>> \in Seq(Pairs) /\ Len(<<>>) = 0 /\ <<>> \in Seq([name : Files \cup {""}, size : Nat])
    BY EmptySeq
<1>4. LsPlaces
    BY <1>2, <1>3, FileSizes DEF Dir!LsInit, LsPlaces
<1> QED BY <1>2, <1>3, <1>4, FileSizes DEF Dir!LsInit, LsInv, RowsHold, RowsPrinted, SizesSorted

\* The rows after readdir has returned f.
LEMMA EntryRows ==
    ASSUME LsInv, NEW f \in left, NEW found \in BOOLEAN, dir # Dir!NoDir, count < Rows - 1,
           ls' = Dir!ls_R(Dir!Entry(f), count + 1, f, found)
    PROVE  /\ f \in Files /\ <<dir, f>> \in Pairs
           /\ ls' \in [0..(Rows - 1) -> RowType]
           /\ \A k \in 0..(Rows - 1) : k # count /\ k # count + 1 => ls'[k] = ls[k]
           /\ ls'[count].pathname = <<dir, f>> /\ ls'[count].filename = f
           /\ ls'[count].size = ls[count].size
           /\ ls'[count + 1].size \in {ls[count + 1].size, Size[f]}
<1>1. f \in Files /\ <<dir, f>> \in Pairs
    <2>1. dir \in DOMAIN Directories /\ left \subseteq Directories[dir]
        BY DEF LsInv, LsPlaces
    <2>2. f \in Directories[dir]
        BY <2>1
    <2>3. f \in Files
        BY <2>1, <2>2, Zenon DEF Files
    <2> QED BY <2>1, <2>3 DEF Pairs
<1>2. /\ count \in 0..(Rows - 1) /\ count + 1 \in 0..(Rows - 1) /\ count # count + 1
      /\ ls \in [0..(Rows - 1) -> RowType]
    BY FileSizes DEF LsInv, LsPlaces
<1> DEFINE mine == [ls[count] EXCEPT !.pathname = <<dir, f>>, !.filename = f]
<1>3. Dir!Entry(f) = [ls EXCEPT ![count] = mine]
    BY <1>2 DEF Dir!Entry
<1>4. /\ mine \in RowType /\ mine.pathname = <<dir, f>> /\ mine.filename = f
      /\ mine.size = ls[count].size
    BY <1>1, <1>2 DEF RowType
<1> HIDE DEF mine
<1>5. /\ Dir!Entry(f) \in [0..(Rows - 1) -> RowType] /\ Dir!Entry(f)[count] = mine
      /\ \A k \in 0..(Rows - 1) : k # count => Dir!Entry(f)[k] = ls[k]
    BY <1>2, <1>3, <1>4
<1> DEFINE table == Dir!Entry(f)
           next == [table[count + 1] EXCEPT !.pathname = <<dir, f>>,
                                            !.size = IF found THEN Size[f] ELSE @]
<1> HIDE DEF table
<1>6. ls' = [table EXCEPT ![count + 1] = next]
    <2>1. ls' = Dir!ls_R(table, count + 1, f, found)
        BY DEF table
    <2> QED BY <1>2, <1>5, <2>1 DEF Dir!ls_R, table
<1>7. next \in RowType /\ next.size \in {ls[count + 1].size, Size[f]}
    <2>1. table[count + 1] \in RowType /\ table[count + 1] = ls[count + 1] /\ Size[f] \in Nat
        BY <1>1, <1>2, <1>5, FileSizes DEF table
    <2> QED BY <1>1, <2>1 DEF RowType
<1> HIDE DEF next
<1>8. /\ ls' \in [0..(Rows - 1) -> RowType] /\ ls'[count + 1] = next
      /\ \A k \in 0..(Rows - 1) : k # count + 1 => ls'[k] = table[k]
    BY <1>2, <1>5, <1>6, <1>7 DEF table
<1> QED BY <1>1, <1>2, <1>4, <1>5, <1>7, <1>8 DEF table

LEMMA ReadKeeps == LsInv /\ Dir!ReadEntry => LsInv'
<1> SUFFICES ASSUME LsInv, Dir!ReadEntry PROVE LsInv'
    OBVIOUS
<1>0. LsPlaces /\ RowsHold /\ RowsPrinted /\ SizesSorted
    BY DEF LsInv
<1>1. PICK f \in left, found \in BOOLEAN :
          /\ left' = left \ {f}
          /\ ls' = Dir!ls_R(Dir!Entry(f), count + 1, f, found)
          /\ read' = Append(read, <<dir, f>>)
    BY DEF Dir!ReadEntry
<1>2. /\ dir # Dir!NoDir /\ count < Rows - 1 /\ count' = count + 1 /\ step = "args"
      /\ UNCHANGED <<step, given, cnd, dir, m, n, printed>>
    BY <1>0 DEF Dir!ReadEntry, LsPlaces
<1>3. /\ f \in Files /\ <<dir, f>> \in Pairs
      /\ ls' \in [0..(Rows - 1) -> RowType]
      /\ \A k \in 0..(Rows - 1) : k # count /\ k # count + 1 => ls'[k] = ls[k]
      /\ ls'[count].pathname = <<dir, f>> /\ ls'[count].filename = f
      /\ ls'[count].size = ls[count].size
      /\ ls'[count + 1].size \in {ls[count + 1].size, Size[f]}
    BY <1>1, <1>2, EntryRows
<1>4. /\ read \in Seq(Pairs) /\ Len(read) = count /\ count \in Nat /\ Rows \in Nat
      /\ ls \in [0..(Rows - 1) -> RowType] /\ count + 1 \in 0..(Rows - 1)
    BY <1>0, <1>2, FileSizes DEF LsPlaces
<1>5. /\ read' \in Seq(Pairs) /\ Len(read') = count + 1
      /\ read'[count + 1] = <<dir, f>>
      /\ \A j \in 1..count : read'[j] = read[j]
    <2> DEFINE pair == <<dir, f>>
    <2>1. pair \in Pairs /\ read' = Append(read, pair)
        BY <1>1, <1>3
    <2> HIDE DEF pair
    <2>2. read' \in Seq(Pairs) /\ Len(read') = count + 1 /\ read'[count + 1] = pair
          /\ \A j \in 1..count : read'[j] = read[j]
        BY <1>4, <2>1, AppendProperties
    <2> QED BY <2>2 DEF pair
<1>6. LsPlaces'
    <2>1. dir' # Dir!NoDir => step' = "args" /\ left' \subseteq Directories[dir']
        BY <1>0, <1>1, <1>2 DEF LsPlaces
    <2>2. count' \in 0..(Rows - 1) /\ m' \in 0..count' /\ n' \in -1..(count' + 1) /\ m' = 0 /\ n' = 0
        BY <1>0, <1>2, <1>4 DEF LsPlaces
    <2> QED BY <1>0, <1>2, <1>3, <1>5, <2>1, <2>2 DEF LsPlaces
<1>7. \A k \in 0..(count - 1) : ls'[k] = ls[k]
    BY <1>3, <1>4
<1>8. RowsHold'
    <2>1. ASSUME NEW k \in 0..count
          PROVE  ls'[k].filename = ls'[k].pathname[2] /\ ls'[k].pathname = read'[k + 1]
        <3>1. CASE k = count
            <4>1. /\ ls'[count].pathname = <<dir, f>> /\ ls'[count].filename = f
                  /\ read'[count + 1] = <<dir, f>>
                BY <1>3, <1>5
            <4>2. <<dir, f>>[2] = f
                OBVIOUS
            <4> QED BY <3>1, <4>1, <4>2
        <3>2. CASE k \in 0..(count - 1)
            <4>1. Place(k) = k + 1
                BY <1>2 DEF Place
            <4>2. ls[k].pathname = read[k + 1] /\ ls[k].filename = ls[k].pathname[2]
                BY <1>0, <1>2, <3>2, <4>1 DEF RowsHold
            <4>3. k + 1 \in 1..count
                BY <1>4, <3>2
            <4> QED BY <1>5, <1>7, <3>2, <4>2, <4>3
        <3> QED BY <1>4, <3>1, <3>2
    <2>2. \A k \in 0..count : k + 1 \in 1..(count + 1) /\ ls'[k].pathname = read'[k + 1]
        BY <1>4, <2>1
    <2>3. \A j \in 1..(count + 1) : j - 1 \in 0..count /\ ls'[j - 1].pathname = read'[j]
        BY <1>4, <2>1
    <2>4. count' - 1 = count /\ count' = count + 1 /\ step' = "args"
        BY <1>2, <1>4
    <2>5. \A k \in 0..count : Place(k)' = k + 1
        BY <2>4 DEF Place
    <2> QED BY <2>1, <2>2, <2>3, <2>4, <2>5 DEF RowsHold
<1>9. RowsPrinted'
    BY <1>0, <1>2 DEF RowsPrinted
<1>10. SizesSorted'
    <2>1. ls'[0].size = 0
        <3>1. ls[0].size = 0 /\ 0 \in 0..(Rows - 1) /\ count + 1 # 0
            BY <1>0, <1>2, <1>4 DEF SizesSorted
        <3>2. ls'[0] = ls[0] \/ (count = 0 /\ ls'[count].size = ls[count].size)
            BY <1>3, <3>1
        <3> QED BY <3>1, <3>2
    <2>2. ASSUME NEW k \in 1..(Rows - 1)
          PROVE  ls'[k].size = 0 \/ (k <= count' /\ ls'[k].size = Size[read'[k][2]])
        <3>0. ls[k].size = 0 \/ (k <= count /\ ls[k].size = Size[read[k][2]])
            BY <1>0, <1>2 DEF SizesSorted
        <3>1. CASE k = count + 1
            <4>1. ls[k].size = 0 /\ read'[k] = <<dir, f>> /\ k <= count'
                BY <1>2, <1>4, <1>5, <3>0, <3>1
            <4>2. ls'[k].size \in {0, Size[f]}
                BY <1>3, <3>1, <4>1
            <4> QED BY <4>1, <4>2
        <3>2. CASE k <= count
            <4>1. ls'[k].size = ls[k].size
                BY <1>3, <1>4, <3>2
            <4>2. k \in 1..count /\ k <= count'
                BY <1>2, <1>4, <3>2
            <4>3. read'[k] = read[k]
                BY <1>5, <4>2
            <4> QED BY <3>0, <4>1, <4>2, <4>3
        <3>3. CASE k > count + 1
            <4>1. ls'[k] = ls[k] /\ ls[k].size = 0
                BY <1>3, <1>4, <3>0, <3>3
            <4> QED BY <4>1
        <3> QED BY <1>4, <3>1, <3>2, <3>3
    <2> QED BY <1>2, <2>1, <2>2 DEF SizesSorted
<1> QED BY <1>6, <1>8, <1>9, <1>10 DEF LsInv

\* The other steps before the rows are sorted.
LEMMA ReadingKeeps ==
    LsInv /\ (Dir!Option \/ (\E d \in DOMAIN Directories : Dir!Open(d)) \/ Dir!CloseDir) => LsInv'
<1> SUFFICES ASSUME LsInv, Dir!Option \/ (\E d \in DOMAIN Directories : Dir!Open(d)) \/ Dir!CloseDir
             PROVE  LsInv'
    OBVIOUS
<1>0. LsPlaces /\ RowsHold /\ RowsPrinted /\ SizesSorted
    BY DEF LsInv
<1>1. step = "args" /\ UNCHANGED <<step, ls, count, m, n, read, printed>>
    BY <1>0 DEF Dir!Option, Dir!Open, Dir!CloseDir, LsPlaces
<1>2. LsPlaces'
    <2>1. /\ dir' \in DOMAIN Directories \cup {Dir!NoDir}
          /\ dir' # Dir!NoDir => left' \subseteq Directories[dir']
        BY <1>0 DEF Dir!Option, Dir!Open, Dir!CloseDir, LsPlaces
    <2> QED BY <1>0, <1>1, <2>1 DEF LsPlaces
<1>3. RowsHold'
    <2>1. \A k : Place(k) = k + 1 /\ Place(k)' = k + 1
        BY <1>1 DEF Place
    <2> QED BY <1>0, <1>1, <2>1 DEF RowsHold
<1>4. RowsPrinted'
    BY <1>0, <1>1 DEF RowsPrinted
<1>5. SizesSorted'
    BY <1>0, <1>1 DEF SizesSorted
<1> QED BY <1>2, <1>3, <1>4, <1>5 DEF LsInv

LEMMA OverrunKeeps == LsInv /\ Dir!Overrun => LsInv'
<1> SUFFICES ASSUME LsInv, Dir!Overrun PROVE LsInv'
    OBVIOUS
<1>0. LsPlaces /\ RowsHold /\ RowsPrinted /\ SizesSorted
    BY DEF LsInv
<1>1. /\ step = "args" /\ step' = "overrun" /\ dir' = Dir!NoDir /\ count = Rows - 1
      /\ UNCHANGED <<cnd, ls, count, m, n, read, printed>>
    BY <1>0, FileSizes DEF Dir!Overrun, LsPlaces
<1>2. LsPlaces'
    BY <1>0, <1>1 DEF LsPlaces
<1>3. RowsHold'
    BY <1>0, <1>1 DEF RowsHold
<1>4. RowsPrinted'
    BY <1>0, <1>1 DEF RowsPrinted
<1>5. SizesSorted'
    BY <1>1 DEF SizesSorted
<1> QED BY <1>2, <1>3, <1>4, <1>5 DEF LsInv

LEMMA StartSortKeeps == LsInv /\ Dir!StartSort => LsInv'
<1> SUFFICES ASSUME LsInv, Dir!StartSort PROVE LsInv'
    OBVIOUS
<1>0. LsPlaces /\ RowsHold /\ RowsPrinted /\ SizesSorted
    BY DEF LsInv
<1>1. /\ step = "args" /\ dir = Dir!NoDir /\ m' = 0 /\ UNCHANGED <<given, cnd, dir, left, ls, count, read, printed>>
      /\ step' = IF "s" \in cnd THEN "bysize" ELSE IF "r" \in cnd THEN "reverse" ELSE "stat"
      /\ n' = IF "s" \in cnd THEN 1 ELSE count - 1
    BY DEF Dir!StartSort
<1>2. count \in Nat /\ Rows \in Nat
    BY <1>0, FileSizes DEF LsPlaces
<1>3. LsPlaces'
    BY <1>0, <1>1, <1>2 DEF LsPlaces
<1>4. RowsHold'
    <2>1. \A k : Place(k) = k + 1
        BY <1>1 DEF Place
    <2>2. "s" \notin cnd => \A k \in 0..(count - 1) : Place(k)' = k + 1
        BY <1>1, <1>2 DEF Place
    <2>3. step' = "args" \/ "s" \notin cnd' => "s" \notin cnd
        BY <1>1
    <2> QED BY <1>0, <1>1, <2>1, <2>2, <2>3 DEF RowsHold
<1>5. RowsPrinted'
    <2>1. printed = <<>> /\ Len(printed) = 0
        BY <1>0, <1>1, EmptySeq DEF RowsPrinted
    <2> QED BY <1>0, <1>1, <2>1 DEF RowsPrinted
<1>6. SizesSorted'
    BY <1>0, <1>1, <1>2 DEF SizesSorted
<1> QED BY <1>3, <1>4, <1>5, <1>6 DEF LsInv

\* Exchanging two rows.
LEMMA SwapFacts ==
    ASSUME LsInv, NEW a \in 0..(count - 1), NEW b \in 0..(count - 1)
    PROVE  /\ Dir!Swapped(a, b) \in [0..(Rows - 1) -> RowType]
           /\ \A k \in 0..(Rows - 1) :
               Dir!Swapped(a, b)[k] = ls[IF k = a THEN b ELSE IF k = b THEN a ELSE k]
<1>1. ls \in [0..(Rows - 1) -> RowType] /\ a \in 0..(Rows - 1) /\ b \in 0..(Rows - 1)
    BY FileSizes DEF LsInv, LsPlaces
<1> QED BY <1>1 DEF Dir!Swapped

LEMMA CompareKeeps == LsInv /\ Dir!CompareSizes => LsInv'
<1> SUFFICES ASSUME LsInv, Dir!CompareSizes PROVE LsInv'
    OBVIOUS
<1>0. LsPlaces /\ RowsHold /\ RowsPrinted /\ SizesSorted
    BY DEF LsInv
<1>1. /\ step = "bysize" /\ m < count - 1 /\ "s" \in cnd
      /\ UNCHANGED <<step, given, cnd, dir, left, count, read, printed>>
      /\ m \in Nat /\ n \in Nat /\ count \in Nat /\ Rows \in Nat /\ count <= Rows - 1 /\ m < n /\ n <= count
      /\ ls \in [0..(Rows - 1) -> RowType]
    BY <1>0, FileSizes DEF Dir!CompareSizes, LsPlaces
<1>2. RowsPrinted'
    BY <1>0, <1>1 DEF RowsPrinted
<1>3. \A a, b \in 0..(count - 1) : a < b /\ (a < m \/ (a = m /\ b < n)) => ls[a].size >= ls[b].size
    BY <1>0, <1>1 DEF SizesSorted
<1>4. \A k \in 0..(Rows - 1) : ls[k].size \in Nat
    BY <1>1 DEF RowType
<1>5. CASE n < count /\ ls[m].size < ls[n].size
    <2>1. /\ ls' = Dir!Swapped(m, n) /\ n' = n + 1 /\ m' = m
          /\ m \in 0..(count - 1) /\ n \in 0..(count - 1)
        BY <1>1, <1>5 DEF Dir!CompareSizes
    <2>2. /\ ls' \in [0..(Rows - 1) -> RowType]
          /\ \A k \in 0..(Rows - 1) : ls'[k] = ls[IF k = m THEN n ELSE IF k = n THEN m ELSE k]
        BY <2>1, SwapFacts
    <2>3. \A k \in 0..(count - 1) : k \in 0..(Rows - 1) /\ (IF k = m THEN n ELSE IF k = n THEN m ELSE k) \in 0..(count - 1)
        BY <1>1, <2>1
    <2>4. LsPlaces'
        BY <1>0, <1>1, <1>5, <2>1, <2>2 DEF LsPlaces
    <2>5. RowsHold'
        <3>1. ASSUME NEW k \in 0..(count - 1)
              PROVE  /\ ls'[k].filename = ls'[k].pathname[2]
                     /\ \E j \in 1..count : ls'[k].pathname = read[j]
            <4>1. PICK from \in 0..(count - 1) : ls'[k] = ls[from]
                BY <2>2, <2>3
            <4>2. /\ ls[from].filename = ls[from].pathname[2]
                  /\ \E j \in 1..count : ls[from].pathname = read[j]
                BY <1>0 DEF RowsHold
            <4> QED BY <4>1, <4>2
        <3>2. ASSUME NEW j \in 1..count PROVE \E k \in 0..(count - 1) : ls'[k].pathname = read[j]
            <4>1. PICK k \in 0..(count - 1) : ls[k].pathname = read[j]
                BY <1>0 DEF RowsHold
            <4>2. CASE k = m
                BY <2>1, <2>2, <2>3, <4>1, <4>2
            <4>3. CASE k = n
                BY <2>1, <2>2, <2>3, <4>1, <4>3
            <4>4. CASE k # m /\ k # n
                BY <2>2, <2>3, <4>1, <4>4
            <4> QED BY <4>2, <4>3, <4>4
        <3> QED BY <1>1, <3>1, <3>2 DEF RowsHold
    <2>6. SizesSorted'
        <3>1. ASSUME NEW a \in 0..(count - 1), NEW b \in 0..(count - 1), a < b,
                     a < m \/ (a = m /\ b < n + 1)
              PROVE  ls'[a].size >= ls'[b].size
            <4>1. CASE a < m
                <5>1. ls'[a] = ls[a]
                    BY <1>1, <2>2, <2>3, <4>1
                <5>2. PICK c \in 0..(count - 1) : a < c /\ ls'[b] = ls[c]
                    BY <1>1, <2>1, <2>2, <2>3, <3>1, <4>1
                <5> QED BY <1>3, <4>1, <5>1, <5>2
            <4>2. CASE a = m /\ b = n
                <5>1. ls'[a] = ls[n] /\ ls'[b] = ls[m]
                    BY <1>1, <2>1, <2>2, <2>3, <4>2
                <5>2. ls[n].size \in Nat /\ ls[m].size \in Nat
                    BY <1>4, <2>1, <2>3
                <5> QED BY <1>5, <5>1, <5>2
            <4>3. CASE a = m /\ b < n
                <5>1. ls'[a] = ls[n] /\ ls'[b] = ls[b]
                    BY <1>1, <2>1, <2>2, <2>3, <3>1, <4>3
                <5>2. ls[m].size >= ls[b].size
                    BY <1>3, <2>1, <3>1, <4>3
                <5>3. ls[n].size \in Nat /\ ls[m].size \in Nat /\ ls[b].size \in Nat
                    BY <1>4, <2>1, <2>3
                <5> QED BY <1>5, <5>1, <5>2, <5>3
            <4> QED BY <1>1, <3>1, <4>1, <4>2, <4>3
        <3> QED BY <1>1, <2>1, <3>1 DEF SizesSorted
    <2> QED BY <1>2, <2>4, <2>5, <2>6 DEF LsInv
<1>6. CASE ~(n < count /\ ls[m].size < ls[n].size)
    <2>1. /\ ls' = ls
          /\ \/ n < count /\ n' = n + 1 /\ m' = m
             \/ n = count /\ m' = m + 1 /\ n' = m + 2
        BY <1>1, <1>6 DEF Dir!CompareSizes, Dir!StartNext
    <2>2. LsPlaces'
        BY <1>0, <1>1, <2>1 DEF LsPlaces
    <2>3. RowsHold'
        BY <1>0, <1>1, <2>1 DEF RowsHold
    <2>4. SizesSorted'
        <3>1. ASSUME NEW a \in 0..(count - 1), NEW b \in 0..(count - 1), a < b,
                     a < m' \/ (a = m' /\ b < n')
              PROVE  ls[a].size >= ls[b].size
            <4>1. CASE a < m \/ (a = m /\ b < n)
                BY <1>3, <3>1, <4>1
            <4>2. CASE n < count /\ a = m /\ b = n
                <5>1. ls[a].size \in Nat /\ ls[b].size \in Nat /\ ~(ls[m].size < ls[n].size)
                    BY <1>1, <1>4, <1>6, <4>2
                <5> QED BY <4>2, <5>1
            <4> QED BY <1>1, <2>1, <3>1, <4>1, <4>2
        <3> QED BY <1>1, <2>1, <3>1 DEF SizesSorted
    <2> QED BY <1>2, <2>2, <2>3, <2>4 DEF LsInv
<1> QED BY <1>5, <1>6

LEMMA ReverseKeeps == LsInv /\ Dir!ReverseRows => LsInv'
<1> SUFFICES ASSUME LsInv, Dir!ReverseRows PROVE LsInv'
    OBVIOUS
<1>0. LsPlaces /\ RowsHold /\ RowsPrinted /\ SizesSorted
    BY DEF LsInv
<1>1. /\ step = "reverse" /\ m < n /\ "s" \notin cnd /\ m + n = count - 1
      /\ ls' = Dir!Swapped(m, n) /\ m' = m + 1 /\ n' = n - 1
      /\ UNCHANGED <<step, given, cnd, dir, left, count, read, printed>>
      /\ m \in Nat /\ n \in Nat /\ count \in Nat /\ Rows \in Nat /\ count <= Rows - 1
      /\ m \in 0..(count - 1) /\ n \in 0..(count - 1)
    BY <1>0, FileSizes DEF Dir!ReverseRows, LsPlaces
<1>2. /\ ls' \in [0..(Rows - 1) -> RowType]
      /\ \A k \in 0..(Rows - 1) : ls'[k] = ls[IF k = m THEN n ELSE IF k = n THEN m ELSE k]
    BY <1>1, SwapFacts
<1>3. \A k \in 0..(count - 1) :
        k \in 0..(Rows - 1) /\ (IF k = m THEN n ELSE IF k = n THEN m ELSE k) \in 0..(count - 1)
    BY <1>1
<1>4. LsPlaces'
    <2>1. m' \in 0..count /\ n' \in -1..(count + 1) /\ m' + n' = count - 1 /\ m' <= n' + 1
        BY <1>1
    <2>2. step' = "reverse" /\ "s" \notin cnd' /\ "r" \in cnd'
        BY <1>0, <1>1 DEF LsPlaces
    <2> QED BY <1>0, <1>1, <1>2, <2>1, <2>2 DEF LsPlaces
<1>5. RowsHold'
    <2>1. ASSUME NEW k \in 0..(count - 1)
          PROVE  /\ ls'[k].filename = ls'[k].pathname[2]
                 /\ ls'[k].pathname = read[Place(k)'] /\ Place(k)' \in 1..count
        <3> DEFINE from == IF k = m THEN n ELSE IF k = n THEN m ELSE k
        <3>1. from \in 0..(count - 1) /\ ls'[k] = ls[from]
            BY <1>2, <1>3
        <3>2. Place(from) = Place(k)' /\ Place(k)' \in 1..count
            BY <1>1 DEF Place
        <3> HIDE DEF from
        <3>3. ls[from].filename = ls[from].pathname[2] /\ ls[from].pathname = read[Place(from)]
            BY <1>0, <1>1, <3>1 DEF RowsHold
        <3> QED BY <3>1, <3>2, <3>3
    <2>2. ASSUME NEW j \in 1..count PROVE \E k \in 0..(count - 1) : Place(k)' = j
        <3>1. CASE m' <= j - 1 /\ j - 1 <= n'
            BY <1>1, <3>1 DEF Place
        <3>2. CASE ~(m' <= j - 1 /\ j - 1 <= n')
            <4>1. PICK k \in 0..(count - 1) : k = count - j
                BY <1>1
            <4>2. ~(m' <= k /\ k <= n') /\ count' - k = j
                BY <1>1, <3>2, <4>1
            <4>3. Place(k)' = j
                BY <1>1, <4>2 DEF Place
            <4> QED BY <4>3
        <3> QED BY <3>1, <3>2
    <2>3. \A j \in 1..count : \E k \in 0..(count - 1) : ls'[k].pathname = read[j]
        BY <2>1, <2>2
    <2> QED BY <1>1, <2>1, <2>3 DEF RowsHold
<1>6. RowsPrinted'
    BY <1>0, <1>1 DEF RowsPrinted
<1>7. SizesSorted'
    BY <1>1 DEF SizesSorted
<1> QED BY <1>4, <1>5, <1>6, <1>7 DEF LsInv

LEMMA EndSortKeeps == LsInv /\ Dir!EndSort => LsInv'
<1> SUFFICES ASSUME LsInv, Dir!EndSort PROVE LsInv'
    OBVIOUS
<1>0. LsPlaces /\ RowsHold /\ RowsPrinted /\ SizesSorted
    BY DEF LsInv
<1>1. /\ step' = "stat" /\ m' = 0
      /\ UNCHANGED <<given, cnd, dir, left, ls, count, n, read, printed>>
      /\ \/ step = "bysize" /\ "s" \in cnd /\ m >= count - 1
         \/ step = "reverse" /\ "r" \in cnd /\ "s" \notin cnd /\ m >= n
      /\ m \in Nat /\ n \in Int /\ count \in Nat
    BY <1>0, FileSizes DEF Dir!EndSort, LsPlaces
<1>2. LsPlaces'
    BY <1>0, <1>1 DEF LsPlaces
<1>3. RowsHold'
    <2>1. "s" \notin cnd => \A k \in 0..(count - 1) : Place(k)' = Place(k)
        BY <1>0, <1>1 DEF Place, LsPlaces
    <2> QED BY <1>0, <1>1, <2>1 DEF RowsHold
<1>4. RowsPrinted'
    <2>1. printed = <<>> /\ Len(printed) = 0
        BY <1>0, <1>1, EmptySeq DEF RowsPrinted
    <2> QED BY <1>0, <1>1, <2>1 DEF RowsPrinted
<1>5. SizesSorted'
    BY <1>0, <1>1 DEF SizesSorted
<1> QED BY <1>2, <1>3, <1>4, <1>5 DEF LsInv

LEMMA PrintKeeps == LsInv /\ (Dir!PrintRow \/ Dir!Finish) => LsInv'
<1> SUFFICES ASSUME LsInv, Dir!PrintRow \/ Dir!Finish PROVE LsInv'
    OBVIOUS
<1>0. LsPlaces /\ RowsHold /\ RowsPrinted /\ SizesSorted
    BY DEF LsInv
<1>1. /\ step = "stat" /\ step' \in {"stat", "done"} /\ m' \in {m, m + 1}
      /\ UNCHANGED <<given, cnd, dir, left, ls, count, n, read>>
      /\ step' = "done" => m' = count
      /\ m' <= count /\ m \in Nat /\ count \in 0..(Rows - 1) /\ Rows \in Nat
    BY <1>0, FileSizes DEF Dir!PrintRow, Dir!Finish, LsPlaces
<1>2. LsPlaces'
    BY <1>0, <1>1 DEF LsPlaces
<1>3. RowsHold'
    <2>1. \A k : Place(k)' = Place(k)
        BY <1>1 DEF Place
    <2> QED BY <1>0, <1>1, <2>1 DEF RowsHold
<1>4. RowsPrinted'
    <2>1. CASE Dir!Finish
        BY <1>0, <2>1 DEF Dir!Finish, RowsPrinted
    <2>2. CASE Dir!PrintRow /\ cnd \cap {"l", "i"} # {} /\ UNCHANGED printed
        BY <1>0, <1>1, <2>2 DEF Dir!PrintRow, RowsPrinted
    <2>3. CASE Dir!PrintRow /\ printed' = Append(printed, Dir!show_file_info(ls[m]))
        <3> DEFINE Info == [name : Files \cup {""}, size : Nat]
                   info == Dir!show_file_info(ls[m])
        <3>1. m < count /\ m' = m + 1 /\ step' = "stat"
            BY <2>3 DEF Dir!PrintRow
        <3>2. info \in Info /\ info.name = ls[m].filename
            <4>1. ls[m] \in RowType /\ ls[count] \in RowType
                BY <1>0, <1>1, <3>1 DEF LsPlaces
            <4> QED BY <4>1 DEF Dir!show_file_info, RowType
        <3> HIDE DEF info
        <3>3. printed \in Seq(Info)
            BY <1>0 DEF RowsPrinted
        <3> HIDE DEF Info
        <3>4. /\ printed' \in Seq(Info) /\ Len(printed') = Len(printed) + 1
              /\ printed'[Len(printed) + 1] = info
              /\ \A k \in 1..Len(printed) : printed'[k] = printed[k]
            <4>1. printed' = Append(printed, info)
                BY <2>3 DEF info
            <4> QED BY <3>2, <3>3, <4>1, AppendProperties
        <3>5. ASSUME cnd \cap {"l", "i"} = {}
              PROVE  /\ Len(printed') = m'
                     /\ \A k \in 1..m' : printed'[k].name = ls[k - 1].filename
            <4>1. Len(printed) = m /\ \A k \in 1..m : printed[k].name = ls[k - 1].filename
                BY <1>0, <1>1, <3>5 DEF RowsPrinted
            <4>2. \A k \in 1..m : printed'[k].name = ls[k - 1].filename
                BY <3>4, <4>1
            <4>3. printed'[m + 1].name = ls[(m + 1) - 1].filename
                BY <1>1, <3>2, <3>4, <4>1
            <4> QED BY <1>1, <3>1, <3>4, <4>1, <4>2, <4>3
        <3> QED BY <1>1, <3>1, <3>4, <3>5 DEF RowsPrinted, Info
    <2> QED BY <2>1, <2>2, <2>3 DEF Dir!PrintRow
<1>5. SizesSorted'
    BY <1>0, <1>1 DEF SizesSorted
<1> QED BY <1>2, <1>3, <1>4, <1>5 DEF LsInv

LEMMA LsSteps == LsInv /\ [Next]_vars => LsInv'
<1> SUFFICES ASSUME LsInv, [Next]_vars PROVE LsInv'
    OBVIOUS
<1>1. CASE LsStep
    <2>1. Dir!LsNext
        BY <1>1 DEF LsStep
    <2> QED BY <2>1, ReadKeeps, ReadingKeeps, OverrunKeeps, StartSortKeeps, CompareKeeps, ReverseKeeps,
               EndSortKeeps, PrintKeeps DEF Dir!LsNext
<1>2. CASE ShellStep \/ EchoStep \/ HashLockStep \/ UNCHANGED vars
    <2>1. UNCHANGED lsVars
        BY <1>2 DEF ShellStep, EchoStep, HashLockStep, vars
    <2> QED BY <2>1 DEF lsVars, LsInv, LsPlaces, RowsHold, Place, RowsPrinted, SizesSorted
<1> QED BY <1>1, <1>2 DEF Next

LEMMA LsInductive == Spec => []LsInv
<1>1. LsInv /\ [Next]_vars => LsInv'
    BY LsSteps
<1> QED BY LsStarts, <1>1, PTL DEF Spec

\* Until the table is overrun, which takes as many files as it has rows, every file
\* that ls has read has one row of it with its name and path, in the order the
\* options ask for, and every row is printed: for any directories and any length of
\* the table.
THEOREM RowsKept == Spec => []RowsAreFiles
<1>1. LsInv => RowsAreFiles
    <2> SUFFICES ASSUME LsPlaces, RowsHold, RowsPrinted PROVE RowsAreFiles
        BY DEF LsInv
    <2>0. count \in Nat /\ read \in Seq(Pairs) /\ Len(read) = count /\ DOMAIN read = 1..count
        BY FileSizes, LenProperties DEF LsPlaces
    <2>1. Dir!Listed = [k \in 1..count |-> ls[k - 1].pathname]
        BY DEF Dir!Listed
    <2>2. \A k \in 1..count : Dir!Listed[k] = ls[k - 1].pathname /\ k - 1 \in 0..(count - 1)
        BY <2>0, <2>1
    <2>3. \A k \in 1..count : Dir!Listed[k][2] = ls[k - 1].filename
        BY <2>2 DEF RowsHold
    <2>4. Dir!ToSet(Dir!Listed) = Dir!ToSet(read)
        <3>1. DOMAIN Dir!Listed = 1..count
            BY <2>1
        <3>2. \A k \in 1..count : \E j \in 1..count : Dir!Listed[k] = read[j]
            BY <2>2 DEF RowsHold
        <3>3. \A j \in 1..count : \E k \in 1..count : Dir!Listed[k] = read[j]
            <4> SUFFICES ASSUME NEW j \in 1..count
                         PROVE  \E k \in 1..count : Dir!Listed[k] = read[j]
                OBVIOUS
            <4>1. PICK k \in 0..(count - 1) : ls[k].pathname = read[j]
                BY DEF RowsHold
            <4>2. k + 1 \in 1..count /\ (k + 1) - 1 = k
                BY <2>0
            <4> QED BY <2>2, <4>1, <4>2
        <3> DEFINE rows == Dir!Listed
        <3>4. Dir!ToSet(rows) = {rows[k] : k \in 1..count}
            BY <3>1 DEF Dir!ToSet
        <3>5. Dir!ToSet(read) = {read[j] : j \in 1..count}
            BY <2>0 DEF Dir!ToSet
        <3>6. (\A k \in 1..count : \E j \in 1..count : rows[k] = read[j])
              /\ (\A j \in 1..count : \E k \in 1..count : rows[k] = read[j])
            BY <3>2, <3>3
        <3> HIDE DEF rows
        <3>7. {rows[k] : k \in 1..count} = {read[j] : j \in 1..count}
            <4>1. ASSUME NEW x PROVE x \in {rows[k] : k \in 1..count} <=> \E k \in 1..count : x = rows[k]
                OBVIOUS
            <4>2. ASSUME NEW x PROVE x \in {read[j] : j \in 1..count} <=> \E j \in 1..count : x = read[j]
                OBVIOUS
            <4>3. ASSUME NEW x
                  PROVE  (\E k \in 1..count : x = rows[k]) <=> (\E j \in 1..count : x = read[j])
                BY <3>6, Zenon
            <4> QED BY <4>1, <4>2, <4>3, Zenon
        <3> QED BY <3>4, <3>5, <3>7 DEF rows
    <2>5. ASSUME NEW s \in Seq(Pairs), Len(s) = count, \A k \in 1..count : ls[k - 1].pathname = s[k]
          PROVE  Dir!Listed = s
        <3>1. DOMAIN s = 1..count /\ s = [k \in 1..count |-> s[k]]
            BY <2>5, LenProperties
        <3> QED BY <2>1, <2>5, <3>1
    <2>6. step = "args" => Dir!Listed = read
        <3> SUFFICES ASSUME step = "args" PROVE Dir!Listed = read
            OBVIOUS
        <3>1. \A k \in 1..count : k - 1 \in 0..(count - 1) /\ Place(k - 1) = k
            BY <2>0 DEF Place
        <3>2. \A k \in 1..count : ls[k - 1].pathname = read[k]
            BY <3>1 DEF RowsHold
        <3> QED BY <2>0, <2>5, <3>2
    <2>7. Dir!Sorted /\ "s" \notin cnd =>
            Dir!Listed = IF "r" \in cnd THEN Dir!Reverse(read) ELSE read
        <3> SUFFICES ASSUME Dir!Sorted, "s" \notin cnd
                     PROVE  Dir!Listed = IF "r" \in cnd THEN Dir!Reverse(read) ELSE read
            OBVIOUS
        <3>1. \A k \in 1..count :
                /\ k - 1 \in 0..(count - 1)
                /\ Place(k - 1) = IF "r" \in cnd THEN count - k + 1 ELSE k
            BY <2>0 DEF Place, Dir!Sorted
        <3>2. \A k \in 0..(count - 1) : ls[k].pathname = read[Place(k)]
            BY DEF RowsHold, Dir!Sorted
        <3>3. \A k \in 1..count :
                ls[k - 1].pathname = read[IF "r" \in cnd THEN count - k + 1 ELSE k]
            BY <3>1, <3>2
        <3>4. CASE "r" \in cnd
            <4>1. Dir!Reverse(read) = [k \in 1..count |-> read[count - k + 1]]
                BY <2>0 DEF Dir!Reverse
            <4> QED BY <2>1, <3>3, <3>4, <4>1
        <3>5. CASE "r" \notin cnd
            BY <2>0, <2>5, <3>3, <3>5
        <3> QED BY <3>4, <3>5
    <2>8. step = "done" /\ cnd \cap {"l", "i"} = {} =>
            [k \in DOMAIN printed |-> printed[k].name] = [k \in 1..count |-> ls[k - 1].filename]
        <3> SUFFICES ASSUME step = "done", cnd \cap {"l", "i"} = {}
                     PROVE  [k \in DOMAIN printed |-> printed[k].name] =
                            [k \in 1..count |-> ls[k - 1].filename]
            OBVIOUS
        <3>1. /\ DOMAIN printed = 1..count
              /\ \A k \in 1..count : printed[k].name = ls[k - 1].filename
            BY LenProperties DEF RowsPrinted, LsPlaces
        <3> QED BY <3>1
    <2>9. step = "overrun" => Len(read) + 1 = Rows
        BY FileSizes DEF LsPlaces
    <2> QED BY <2>0, <2>3, <2>4, <2>6, <2>7, <2>8, <2>9 DEF RowsAreFiles, Dir!RowsAreFiles
<1> QED BY <1>1, LsInductive, PTL

\* The size in a row is that of the file read before, and by these sizes the rows
\* are sorted into falling order, unless the files have overrun the table before:
\* for any directories and any length of the table.
THEOREM SizesAreBehind == Spec => []SizesBehind
<1>1. LsInv => SizesBehind
    <2> SUFFICES ASSUME LsPlaces, SizesSorted PROVE SizesBehind
        BY DEF LsInv
    <2>0. count \in 0..(Rows - 1) /\ Rows \in Nat
        BY FileSizes DEF LsPlaces
    <2>1. ASSUME step = "args", NEW k \in 1..count PROVE ls[k].size \in {0, Size[read[k][2]]}
        BY <2>0, <2>1 DEF SizesSorted
    <2>2. ASSUME Dir!Sorted, "s" \in cnd, NEW k \in 1..(count - 1)
          PROVE  ls[k - 1].size >= ls[k].size
        <3>1. k - 1 \in 0..(count - 1) /\ k \in 0..(count - 1) /\ k - 1 < k
            BY <2>0
        <3> QED BY <2>2, <3>1 DEF SizesSorted, Dir!Sorted
    <2> QED BY <2>1, <2>2 DEF SizesSorted, SizesBehind, Dir!SizesBehind
<1> QED BY <1>1, LsInductive, PTL

------------------------------------------------------------------------------
(* myShell/myshell3.c: the children *)

LEMMA ShellAssumed == Sh!ShellAssumption
BY ProgramsAssumption

Kinds == {"exe", "background", "redir_r", "redir_a", "pipe"}
Places == {"open", "run", "blocked", "zombie", "reaped", "polled"}
Child == [kind : Kinds, at : Places, in : Nat, out : Nat, data : 0..PipeCap, late : BOOLEAN]

Waiting == {"open", "run", "zombie"}
Redirected == {"redir_r", "redir_a"}

\* Only a pipe blocks a child, only a background job is polled, and a child that
\* has not opened its file has written nothing.
Children ==
    /\ procs \in Seq(Child)
    /\ \A p \in 1..Len(procs) :
        /\ procs[p].in < p
        /\ procs[p].at = "blocked" => procs[p].kind = "pipe"
        /\ procs[p].at = "polled" => procs[p].kind = "background"
        /\ procs[p].at = "open" => procs[p].kind \in Redirected /\ procs[p].out = 0

LEMMA ChildrenTypes ==
    ASSUME Children
    PROVE  /\ Len(procs) \in Nat /\ DOMAIN procs = 1..Len(procs)
           /\ PipeCap \in Nat \ {0}
           /\ \A p \in 1..Len(procs) :
               /\ procs[p] \in Child /\ procs[p].kind \in Kinds /\ procs[p].at \in Places
               /\ procs[p].in \in Nat /\ procs[p].out \in Nat /\ procs[p].data \in 0..PipeCap
               /\ procs[p].late \in BOOLEAN
<1>1. Len(procs) \in Nat /\ DOMAIN procs = 1..Len(procs) /\ PipeCap \in Nat \ {0}
    BY ShellAssumed, LenProperties DEF Children, Sh!ShellAssumption
<1>2. \A p \in 1..Len(procs) : procs[p] \in Child
    BY ElementOfSeq DEF Children
<1> QED BY <1>1, <1>2 DEF Child

\* A new child.
LEMMA ForkFacts ==
    ASSUME Children, NEW kind \in Kinds, NEW at \in {"open", "run"}, NEW in \in 0..Len(procs),
           at = "open" => kind \in Redirected, Sh!Fork(kind, at, in)
    PROVE  /\ Children' /\ Len(procs') = Len(procs) + 1
           /\ \A p \in 1..Len(procs) : procs'[p] = procs[p]
           /\ procs'[Len(procs) + 1] = [kind |-> kind, at |-> at, in |-> in,
                                        out |-> 0, data |-> 0, late |-> FALSE]
<1> DEFINE proc == [kind |-> kind, at |-> at, in |-> in, out |-> 0, data |-> 0, late |-> FALSE]
<1>1. Len(procs) \in Nat /\ procs \in Seq(Child) /\ PipeCap \in Nat \ {0}
    BY ChildrenTypes DEF Children
<1>2. proc \in Child
    BY <1>1 DEF Child, Places
<1>3. procs' = Append(procs, proc)
    BY DEF Sh!Fork
<1>4. proc.in = in /\ proc.at = at /\ proc.kind = kind /\ proc.out = 0
    OBVIOUS
<1> HIDE DEF proc
<1>5. /\ procs' \in Seq(Child) /\ Len(procs') = Len(procs) + 1
      /\ \A p \in 1..Len(procs) : procs'[p] = procs[p]
      /\ procs'[Len(procs) + 1] = proc
    BY <1>1, <1>2, <1>3, AppendProperties
<1>6. Children'
    <2> SUFFICES ASSUME NEW p \in 1..Len(procs')
                 PROVE  /\ procs'[p].in < p
                        /\ procs'[p].at = "blocked" => procs'[p].kind = "pipe"
                        /\ procs'[p].at = "polled" => procs'[p].kind = "background"
                        /\ procs'[p].at = "open" => procs'[p].kind \in Redirected /\ procs'[p].out = 0
        BY <1>5 DEF Children
    <2>1. CASE p = Len(procs) + 1
        BY <1>1, <1>4, <1>5, <2>1
    <2>2. CASE p \in 1..Len(procs)
        BY <1>5, <2>2 DEF Children
    <2> QED BY <1>1, <1>5, <2>1, <2>2
<1> QED BY <1>5, <1>6 DEF proc

\* What a step of a child, or a read of its pipe, may change of a child.
Moves ==
    /\ Len(procs') = Len(procs)
    /\ \A p \in 1..Len(procs) :
        /\ procs'[p].kind = procs[p].kind /\ procs'[p].late = procs[p].late
        /\ \/ procs'[p].at = procs[p].at
           \/ procs[p].at = "open" /\ procs'[p].at \in {"run", "zombie"}
           \/ procs[p].at = "run" /\ procs'[p].at = "zombie"
           \/ procs[p].at = "run" /\ procs'[p].at = "blocked" /\ procs[p].kind = "pipe"
           \/ procs[p].at = "blocked" /\ procs'[p].at = "run"

\* One child is changed and the others are not.
LEMMA OneChild ==
    ASSUME Children, NEW p \in 1..Len(procs), NEW proc \in Child,
           procs' = [procs EXCEPT ![p] = proc],
           proc.in = procs[p].in,
           proc.at = "blocked" => proc.kind = "pipe",
           proc.at = "polled" => proc.kind = "background",
           proc.at = "open" => proc.kind \in Redirected /\ proc.out = 0
    PROVE  /\ Children' /\ Len(procs') = Len(procs)
           /\ procs'[p] = proc
           /\ \A q \in 1..Len(procs) : q # p => procs'[q] = procs[q]
<1>1. procs \in Seq(Child) /\ Len(procs) \in Nat
    BY ChildrenTypes DEF Children
<1>2. /\ procs' \in Seq(Child) /\ Len(procs') = Len(procs)
      /\ \A q \in 1..Len(procs) : procs'[q] = IF q = p THEN proc ELSE procs[q]
    BY <1>1, ExceptSeq
<1>3. Children'
    BY <1>2 DEF Children
<1> QED BY <1>2, <1>3

\* A read of a pipe.
LEMMA DrainedFacts ==
    ASSUME Children, NEW p \in 1..Len(procs), NEW k \in 1..procs[p].data, procs' = Sh!Drained(p, k)
    PROVE  /\ Children' /\ Moves
           /\ \A q \in 1..Len(procs) : procs'[q].out = procs[q].out
<1> DEFINE proc == [procs[p] EXCEPT !.data = @ - k, !.at = IF @ = "blocked" THEN "run" ELSE @]
<1>1. /\ procs[p] \in Child /\ procs[p].data \in 0..PipeCap /\ PipeCap \in Nat
      /\ DOMAIN procs = 1..Len(procs)
    BY ChildrenTypes
<1>2. /\ proc \in Child /\ proc.in = procs[p].in /\ proc.kind = procs[p].kind
      /\ proc.late = procs[p].late /\ proc.out = procs[p].out
      /\ proc.at = IF procs[p].at = "blocked" THEN "run" ELSE procs[p].at
    <2> DEFINE rest == [procs[p] EXCEPT !.data = @ - k]
    <2>1. /\ rest \in Child /\ rest.in = procs[p].in /\ rest.kind = procs[p].kind
          /\ rest.late = procs[p].late /\ rest.out = procs[p].out /\ rest.at = procs[p].at
        BY <1>1 DEF Child
    <2>2. proc = [rest EXCEPT !.at = IF @ = "blocked" THEN "run" ELSE @]
        BY <1>1 DEF Child
    <2> HIDE DEF rest, proc
    <2> QED BY <2>1, <2>2 DEF Child, Places
<1>3. procs' = [procs EXCEPT ![p] = proc]
    BY <1>1 DEF Sh!Drained
<1> HIDE DEF proc
<1>4. /\ proc.at = "blocked" => proc.kind = "pipe"
      /\ proc.at = "polled" => proc.kind = "background"
      /\ proc.at = "open" => proc.kind \in Redirected /\ proc.out = 0
    BY <1>2 DEF Children
<1>5. /\ Children' /\ Len(procs') = Len(procs) /\ procs'[p] = proc
      /\ \A q \in 1..Len(procs) : q # p => procs'[q] = procs[q]
    BY <1>2, <1>3, <1>4, OneChild
<1> QED BY <1>2, <1>5 DEF Moves

\* A step of a child.
LEMMA ChildFacts ==
    ASSUME Children, NEW p \in 1..Len(procs), Sh!ChildStep(p)
    PROVE  Children' /\ Moves
<1>1. /\ procs[p] \in Child /\ procs[p].data \in 0..PipeCap /\ PipeCap \in Nat \ {0}
      /\ DOMAIN procs = 1..Len(procs) /\ procs[p].out \in Nat
    BY ChildrenTypes
<1>2. ASSUME NEW proc \in Child, procs' = [procs EXCEPT ![p] = proc],
             proc.in = procs[p].in, proc.kind = procs[p].kind, proc.late = procs[p].late,
             \/ procs[p].at = "open" /\ proc.at \in {"run", "zombie"}
             \/ procs[p].at = "run" /\ proc.at \in {"run", "zombie"}
             \/ procs[p].at = "run" /\ proc.at = "blocked" /\ proc.kind = "pipe"
      PROVE  Children' /\ Moves
    <2>1. /\ Children' /\ Len(procs') = Len(procs) /\ procs'[p] = proc
          /\ \A q \in 1..Len(procs) : q # p => procs'[q] = procs[q]
        BY <1>2, OneChild
    <2> QED BY <1>2, <2>1 DEF Moves
<1>3. CASE Sh!ChildOpen(p)
    <2>1. PICK to \in {"run", "zombie"} : procs' = [procs EXCEPT ![p].at = to]
        BY <1>3 DEF Sh!ChildOpen
    <2> DEFINE proc == [procs[p] EXCEPT !.at = to]
    <2>2. /\ proc \in Child /\ proc.in = procs[p].in /\ proc.kind = procs[p].kind
          /\ proc.late = procs[p].late /\ proc.at = to
        BY <1>1 DEF Child, Places
    <2>3. procs' = [procs EXCEPT ![p] = proc]
        BY <1>1, <2>1
    <2> QED BY <1>2, <1>3, <2>2, <2>3 DEF Sh!ChildOpen
<1>4. CASE Sh!ChildWrite(p)
    <2> DEFINE proc == [procs[p] EXCEPT !.out = @ + 1]
    <2>1. /\ proc \in Child /\ proc.in = procs[p].in /\ proc.kind = procs[p].kind
          /\ proc.late = procs[p].late /\ proc.at = procs[p].at
        BY <1>1 DEF Child
    <2>2. procs' = [procs EXCEPT ![p] = proc] /\ procs[p].at = "run"
        BY <1>1, <1>4 DEF Sh!ChildWrite
    <2> QED BY <1>2, <2>1, <2>2
<1>5. CASE Sh!ChildWritePipe(p)
    <2>1. CASE procs[p].data < PipeCap
        <3> DEFINE proc == [procs[p] EXCEPT !.data = @ + 1, !.out = @ + 1]
        <3>1. /\ proc \in Child /\ proc.in = procs[p].in /\ proc.kind = procs[p].kind
              /\ proc.late = procs[p].late /\ proc.at = procs[p].at
            <4> DEFINE written == [procs[p] EXCEPT !.data = @ + 1]
            <4>1. /\ written \in Child /\ written.in = procs[p].in /\ written.kind = procs[p].kind
                  /\ written.late = procs[p].late /\ written.out = procs[p].out
                  /\ written.at = procs[p].at
                BY <1>1, <2>1 DEF Child
            <4>2. proc = [written EXCEPT !.out = @ + 1]
                BY <1>1 DEF Child
            <4> HIDE DEF written, proc
            <4> QED BY <1>1, <4>1, <4>2 DEF Child
        <3>2. procs' = [procs EXCEPT ![p] = proc] /\ procs[p].at = "run"
            BY <1>1, <1>5, <2>1 DEF Sh!ChildWritePipe
        <3> QED BY <1>2, <3>1, <3>2
    <2>2. CASE ~(procs[p].data < PipeCap)
        <3> DEFINE proc == [procs[p] EXCEPT !.at = "blocked"]
        <3>1. /\ proc \in Child /\ proc.in = procs[p].in /\ proc.kind = procs[p].kind
              /\ proc.late = procs[p].late /\ proc.at = "blocked"
            BY <1>1 DEF Child, Places
        <3>2. procs' = [procs EXCEPT ![p] = proc] /\ procs[p].at = "run" /\ procs[p].kind = "pipe"
            BY <1>1, <1>5, <2>2 DEF Sh!ChildWritePipe
        <3> QED BY <1>2, <3>1, <3>2
    <2> QED BY <2>1, <2>2
<1>6. CASE Sh!ChildRead(p)
    <2>1. /\ procs[p].in \in 1..Len(procs) /\ procs[procs[p].in].data > 0
          /\ procs' = Sh!Drained(procs[p].in, 1)
        BY <1>6, ChildrenTypes DEF Sh!ChildRead, Children
    <2>2. PICK q \in 1..Len(procs) : procs[q].data > 0 /\ procs' = Sh!Drained(q, 1)
        BY <2>1
    <2>3. 1 \in 1..procs[q].data
        BY <2>2, ChildrenTypes
    <2> QED BY <2>2, <2>3, DrainedFacts
<1>7. CASE Sh!ChildEnd(p)
    <2> DEFINE proc == [procs[p] EXCEPT !.at = "zombie"]
    <2>1. /\ proc \in Child /\ proc.in = procs[p].in /\ proc.kind = procs[p].kind
          /\ proc.late = procs[p].late /\ proc.at = "zombie"
        BY <1>1 DEF Child, Places
    <2>2. procs' = [procs EXCEPT ![p] = proc] /\ procs[p].at = "run"
        BY <1>1, <1>7 DEF Sh!ChildEnd
    <2> QED BY <1>2, <2>1, <2>2
<1> QED BY <1>3, <1>4, <1>5, <1>6, <1>7 DEF Sh!ChildStep

\* A child is collected by wait, or found by waitpid, or its late open is noted.
LEMMA CollectFacts ==
    ASSUME Children, NEW p \in 1..Len(procs), NEW to \in {"reaped", "polled"},
           procs[p].at = "zombie", to = "polled" => procs[p].kind = "background",
           procs' = [procs EXCEPT ![p].at = to]
    PROVE  /\ Children' /\ Len(procs') = Len(procs)
           /\ procs'[p] = [procs[p] EXCEPT !.at = to]
           /\ \A q \in 1..Len(procs) : q # p => procs'[q] = procs[q]
<1> DEFINE proc == [procs[p] EXCEPT !.at = to]
<1>1. procs[p] \in Child /\ DOMAIN procs = 1..Len(procs)
    BY ChildrenTypes
<1>2. /\ proc \in Child /\ proc.in = procs[p].in /\ proc.kind = procs[p].kind
      /\ proc.at = to
    BY <1>1 DEF Child, Places
<1>3. procs' = [procs EXCEPT ![p] = proc]
    BY <1>1
<1> HIDE DEF proc
<1>4. /\ proc.at = "blocked" => proc.kind = "pipe"
      /\ proc.at = "polled" => proc.kind = "background"
      /\ proc.at = "open" => proc.kind \in Redirected /\ proc.out = 0
    BY <1>2
<1>5. /\ Children' /\ Len(procs') = Len(procs) /\ procs'[p] = proc
      /\ \A q \in 1..Len(procs) : q # p => procs'[q] = procs[q]
    BY <1>2, <1>3, <1>4, OneChild
<1> QED BY <1>5 DEF proc

LEMMA LateFacts ==
    ASSUME Children, NEW p \in 1..Len(procs), NEW late \in BOOLEAN,
           procs' = [procs EXCEPT ![p].late = late]
    PROVE  /\ Children' /\ Len(procs') = Len(procs)
           /\ procs'[p] = [procs[p] EXCEPT !.late = late]
           /\ \A q \in 1..Len(procs) : q # p => procs'[q] = procs[q]
<1> DEFINE proc == [procs[p] EXCEPT !.late = late]
<1>1. procs[p] \in Child /\ DOMAIN procs = 1..Len(procs)
    BY ChildrenTypes
<1>2. /\ proc \in Child /\ proc.in = procs[p].in /\ proc.kind = procs[p].kind
      /\ proc.at = procs[p].at /\ proc.out = procs[p].out
    BY <1>1 DEF Child
<1>3. procs' = [procs EXCEPT ![p] = proc]
    BY <1>1
<1> HIDE DEF proc
<1>4. /\ proc.at = "blocked" => proc.kind = "pipe"
      /\ proc.at = "polled" => proc.kind = "background"
      /\ proc.at = "open" => proc.kind \in Redirected /\ proc.out = 0
    BY <1>2 DEF Children
<1>5. /\ Children' /\ Len(procs') = Len(procs) /\ procs'[p] = proc
      /\ \A q \in 1..Len(procs) : q # p => procs'[q] = procs[q]
    BY <1>2, <1>3, <1>4, OneChild
<1> QED BY <1>5 DEF proc

------------------------------------------------------------------------------
(* Where the shell is *)

\* The last vertices have no sign: no line is so long.
Array == L \in [1..8 -> 0..5] /\ L[7] = 0 /\ L[8] = 0

ShPlaces ==
    /\ place \in {"prompt", "execute", "wait", "waitpid", "open", "stage", "sink", "read", "gone"}
    /\ Array /\ here \in 1..8
    /\ base \in Nat /\ base <= Len(procs)
    /\ i \in 0..Len(procs) /\ waits \in 0..(Len(procs) + 1)
    /\ stdin \in {"terminal", "file"}
    /\ place = "execute" => base = Len(procs) /\ here = 1
    /\ place = "stage" => base + i = Len(procs) /\ i > 0 /\ L[here] = 1
    /\ place \in {"sink", "read"} => base + i <= Len(procs) /\ base < Len(procs)

Signs == L[here] \in {3, 5}

\* The child forked last, where the shell counts on it.
Newest ==
    /\ place \in {"waitpid", "open", "stage", "sink", "read"} => Len(procs) > 0
    /\ place = "waitpid" => procs[Len(procs)].kind = "background"
    /\ place = "open" => procs[Len(procs)].kind \in Redirected /\ procs[Len(procs)].at \in Waiting
    /\ place \in {"stage", "sink", "read"} =>
        /\ procs[Len(procs)].kind = "pipe"
        /\ procs[Len(procs)].at \in {"run", "blocked", "zombie"}
    /\ place = "wait" =>
        /\ waits > 0
        /\ \/ Signs \/ Len(procs) > base + 1
           \/ /\ waits = 1 /\ Len(procs) > 0 /\ procs[Len(procs)].at \in Waiting
              /\ procs[Len(procs)].kind # "pipe" \/ procs[Len(procs)].at = "zombie"

Control == Children /\ ShPlaces /\ Newest

\* A line overwrites the first vertices only.
LEMMA LineFacts ==
    ASSUME Array, Sh!ReadLine
    PROVE  Array'
<1>1. PICK new : /\ Sh!Split(new)
                 /\ L' = [v \in Sh!Vertices |-> IF v <= Len(new) THEN new[v].sign ELSE L[v]]
    BY ShellAssumed DEF Sh!ReadLine, Sh!ShellAssumption
<1> DEFINE V == [sign : 0..5, args : Seq(Sh!Words)]
<1>2. new \in Seq(V) /\ Len(new) \in 1..7 /\ new[Len(new)].sign = 0
    BY <1>1 DEF Sh!Split
<1>3. \A v \in V : v.sign \in 0..5
    OBVIOUS
<1> HIDE DEF V
<1>4. \A v \in 1..Len(new) : new[v].sign \in 0..5
    BY <1>2, <1>3, ElementOfSeq
<1>5. L' \in [1..8 -> 0..5]
    BY <1>1, <1>2, <1>4 DEF Array, Sh!Vertices
<1>6. L'[7] = 0 /\ L'[8] = 0
    <2>1. 7 \in Sh!Vertices /\ 8 \in Sh!Vertices /\ L[7] = 0 /\ L[8] = 0
        BY DEF Array, Sh!Vertices
    <2>2. L'[8] = 0
        <3>1. ~(8 <= Len(new))
            BY <1>2
        <3> QED BY <1>1, <2>1, <3>1
    <2>3. CASE Len(new) = 7
        BY <1>1, <1>2, <2>1, <2>2, <2>3
    <2>4. CASE Len(new) # 7
        <3>1. ~(7 <= Len(new))
            BY <1>2, <2>4
        <3> QED BY <1>1, <2>1, <2>2, <3>1
    <2> QED BY <2>3, <2>4
<1> QED BY <1>5, <1>6 DEF Array

\* Behind `|` and past `>` there are vertices still.
LEMMA OnwardFacts ==
    ASSUME Array, NEW v \in 1..8, L[v] \in {1, 3}
    PROVE  Sh!Onward(v) \in 1..8 /\ L[Sh!Onward(v)] \in 0..5
<1>1. v \in 1..6
    BY DEF Array
<1>2. PICK w \in 1..7 : w = IF L[v] = 1 THEN v + 1 ELSE v
    BY <1>1
<1>3. L[w] = 2 => w # 7
    BY DEF Array
<1>4. Sh!Onward(v) = IF L[w] = 2 THEN w + 2 ELSE w
    BY <1>2 DEF Sh!Onward
<1>5. Sh!Onward(v) \in 1..8
    BY <1>3, <1>4
<1> QED BY <1>5 DEF Array

LEMMA ControlStarts == Init => Control
<1> SUFFICES ASSUME Sh!ShellInit PROVE Control
    BY DEF Init
<1>1. procs = <<>> /\ Len(procs) = 0 /\ procs \in Seq(Child)
    BY EmptySeq DEF Sh!ShellInit
<1> QED BY <1>1 DEF Sh!ShellInit, Sh!Vertices, Control, Children, ShPlaces, Array, Newest

\* Steps that leave the children alone.
LEMMA QuietKeeps ==
    Control /\ (Sh!ReadLine \/ Sh!Stop \/ Sh!execute_cddir \/ Sh!ReadGarbage \/ Sh!OpenSink)
        => Control'
<1> SUFFICES ASSUME Control, Sh!ReadLine \/ Sh!Stop \/ Sh!execute_cddir \/ Sh!ReadGarbage \/ Sh!OpenSink
             PROVE  Control'
    OBVIOUS
<1>0. Children /\ ShPlaces /\ Newest /\ Len(procs) \in Nat
    BY ChildrenTypes DEF Control
<1>1. procs' = procs /\ stdin' = stdin
    BY DEF Sh!ReadLine, Sh!Stop, Sh!execute_cddir, Sh!ReadGarbage, Sh!OpenSink
<1>2. Children'
    BY <1>0, <1>1 DEF Children
<1>3. CASE Sh!ReadLine
    <2>1. place' = "execute" /\ base' = Len(procs) /\ here' = 1 /\ UNCHANGED <<i, waits>>
        BY <1>3 DEF Sh!ReadLine
    <2>2. Array'
        BY <1>0, <1>3, LineFacts DEF ShPlaces
    <2>3. ShPlaces'
        BY <1>0, <1>1, <2>1, <2>2 DEF ShPlaces
    <2> QED BY <1>2, <2>1, <2>3 DEF Control, Newest
<1>4. CASE Sh!OpenSink
    <2>1. place = "sink" /\ place' \in {"read", "gone"} /\ UNCHANGED <<L, here, base, i, waits>>
        BY <1>4 DEF Sh!OpenSink, Sh!line
    <2>2. ShPlaces'
        BY <1>0, <1>1, <2>1 DEF ShPlaces, Array
    <2>3. Newest'
        BY <1>0, <1>1, <2>1 DEF Newest
    <2> QED BY <1>2, <2>2, <2>3 DEF Control
<1>5. CASE ~Sh!ReadLine /\ ~Sh!OpenSink
    <2>1. /\ place' \in {"prompt", "gone"} /\ UNCHANGED <<L, base>> /\ here' \in {here, 1}
          /\ i' \in {i, 0} /\ waits' \in {waits, 0}
        <3>1. CASE Sh!Stop
            BY <3>1 DEF Sh!Stop, Sh!line
        <3>2. CASE Sh!execute_cddir
            BY <3>2 DEF Sh!execute_cddir, Sh!Prompt, Sh!line
        <3>3. CASE Sh!ReadGarbage
            BY <3>3 DEF Sh!ReadGarbage, Sh!Prompt
        <3> QED BY <1>5, <3>1, <3>2, <3>3
    <2>2. /\ Array' /\ here' \in 1..8
          /\ base' \in Nat /\ base' <= Len(procs') /\ stdin' \in {"terminal", "file"}
          /\ i' \in 0..Len(procs') /\ waits' \in 0..(Len(procs') + 1)
        BY <1>0, <1>1, <2>1 DEF ShPlaces, Array
    <2>3. ShPlaces'
        BY <2>1, <2>2 DEF ShPlaces
    <2> QED BY <1>2, <2>1, <2>3 DEF Control, Newest
<1> QED BY <1>3, <1>4, <1>5

LEMMA ForkKeeps == Control /\ (Sh!execute_exe \/ Sh!ForkRedirected) => Control'
<1> SUFFICES ASSUME Control, Sh!execute_exe \/ Sh!ForkRedirected PROVE Control'
    OBVIOUS
<1>0. Children /\ ShPlaces /\ Newest /\ Len(procs) \in Nat
    BY ChildrenTypes DEF Control
<1>1. PICK kind \in Kinds \ {"pipe"}, at \in {"open", "run"} :
          /\ Sh!Fork(kind, at, 0) /\ (at = "open" <=> kind \in Redirected)
          /\ place' = IF at = "open" THEN "open" ELSE IF kind = "exe" THEN "wait" ELSE "waitpid"
          /\ at = "open" => waits' = waits
          /\ at # "open" => waits' = 1
          /\ kind \in {"exe", "background"} \cup Redirected
    <2>1. CASE Sh!execute_exe /\ L[1] = 0
        <3>1. /\ Sh!Fork("exe", "run", 0) /\ place' = "wait" /\ waits' = 1
              /\ "exe" \in Kinds \ {"pipe"} /\ "exe" \notin Redirected
            BY <2>1 DEF Sh!execute_exe, Kinds, Redirected
        <3> QED BY <3>1
    <2>2. CASE Sh!execute_exe /\ L[1] # 0
        <3>1. /\ Sh!Fork("background", "run", 0) /\ place' = "waitpid" /\ waits' = 1
              /\ "background" \in Kinds \ {"pipe"} /\ "background" \notin Redirected
            BY <2>2 DEF Sh!execute_exe, Kinds, Redirected
        <3> QED BY <3>1
    <2>3. CASE Sh!ForkRedirected
        <3>1. PICK kind \in Redirected : Sh!Fork(kind, "open", 0)
            BY <2>3 DEF Sh!ForkRedirected, Redirected
        <3>2. place' = "open" /\ waits' = waits /\ kind \in Kinds \ {"pipe"}
            BY <2>3 DEF Sh!ForkRedirected, Kinds, Redirected
        <3> QED BY <3>1, <3>2
    <2> QED BY <2>1, <2>2, <2>3
<1>2. /\ UNCHANGED <<L, here, base, i, stdin>> /\ place = "execute"
    BY DEF Sh!execute_exe, Sh!ForkRedirected, Sh!line, Sh!Executes
<1>3. /\ Children' /\ Len(procs') = Len(procs) + 1
      /\ procs'[Len(procs')] = [kind |-> kind, at |-> at, in |-> 0,
                                out |-> 0, data |-> 0, late |-> FALSE]
    BY <1>0, <1>1, ForkFacts
<1>4. Array' /\ here' \in 1..8
    BY <1>0, <1>2 DEF ShPlaces, Array
<1>5. ShPlaces'
    BY <1>0, <1>1, <1>2, <1>3, <1>4 DEF ShPlaces
<1>6. Newest'
    BY <1>0, <1>1, <1>2, <1>3 DEF Newest, Waiting, Redirected, Signs
<1> QED BY <1>3, <1>5, <1>6 DEF Control

LEMMA StageKeeps == Control /\ Sh!Stage => Control'
<1> SUFFICES ASSUME Control, Sh!Stage PROVE Control'
    OBVIOUS
<1>0. Children /\ ShPlaces /\ Newest /\ Len(procs) \in Nat
    BY ChildrenTypes DEF Control
<1>1. PICK in \in 0..Len(procs) : Sh!Fork("pipe", "run", in)
    BY <1>0 DEF Sh!Stage
<1>2. /\ Children' /\ Len(procs') = Len(procs) + 1
      /\ procs'[Len(procs')].kind = "pipe" /\ procs'[Len(procs')].at = "run"
    <2>1. "pipe" \in Kinds /\ "run" \in {"open", "run"} /\ "run" # "open"
        BY DEF Kinds
    <2>2. Children' /\ Len(procs') = Len(procs) + 1
          /\ procs'[Len(procs) + 1] = [kind |-> "pipe", at |-> "run", in |-> in,
                                       out |-> 0, data |-> 0, late |-> FALSE]
        BY <1>0, <1>1, <2>1, ForkFacts
    <2> QED BY <2>2
<1>3. place \in {"execute", "stage"} /\ Array /\ here \in 1..8 /\ L[here] \in {1, 3}
    BY <1>0 DEF Sh!Stage, Sh!Executes, ShPlaces
<1>4. L' = L /\ here' \in 1..8 /\ L[here'] \in 0..5
    BY <1>3, OnwardFacts DEF Sh!Stage
<1>5. /\ i' = (IF place = "stage" THEN i ELSE 0) + 1 /\ waits' = i' + 1 /\ base' = base
      /\ stdin' \in {"file", stdin}
    BY DEF Sh!Stage
<1>6. /\ place' \in {"stage", "sink", "read", "wait"}
      /\ place' = "wait" => L[here'] \in {3, 5}
      /\ place' = "stage" => L[here'] = 1
    <2>1. PICK sign \in 0..5 : sign = L[here']
        BY <1>4
    <2>2. place' = Sh!AfterStage({sign})
        BY <1>4, <2>1 DEF Sh!Stage
    <2>3. sign \in {2, 4} => {sign} \cap {2, 4} # {}
        OBVIOUS
    <2> QED BY <2>1, <2>2, <2>3 DEF Sh!AfterStage
<1>7. base + i' = Len(procs') /\ i' > 0 /\ base < Len(procs') /\ i' \in 0..Len(procs')
    BY <1>0, <1>2, <1>3, <1>5 DEF ShPlaces
<1>8. Array'
    BY <1>3, <1>4 DEF Array
<1>9. ShPlaces'
    BY <1>0, <1>2, <1>4, <1>5, <1>6, <1>7, <1>8 DEF ShPlaces
<1>10. Newest'
    BY <1>2, <1>4, <1>5, <1>6, <1>7 DEF Newest, Signs
<1> QED BY <1>2, <1>9, <1>10 DEF Control

\* A move of the children keeps what the shell counts on.
LEMMA MovesKeep ==
    ASSUME Control, Children', Moves, UNCHANGED <<L, here, base, stdin>>,
           i' \in 0..i, place' = place /\ waits' = waits, i' # i => place = "read"
    PROVE  Control'
<1>0. Children /\ ShPlaces /\ Newest /\ Len(procs) \in Nat /\ Len(procs') = Len(procs)
    BY ChildrenTypes DEF Control, Moves
<1>1. Array' /\ here' \in 1..8
    BY <1>0 DEF ShPlaces, Array
<1>2. ShPlaces'
    <2>1. i \in 0..Len(procs) /\ base \in Nat /\ i' \in 0..Len(procs) /\ i' <= i
        BY <1>0 DEF ShPlaces
    <2>2. place = "stage" => i' = i
        OBVIOUS
    <2>3. /\ base' \in Nat /\ base' <= Len(procs') /\ stdin' \in {"terminal", "file"}
          /\ i' \in 0..Len(procs') /\ waits' \in 0..(Len(procs') + 1)
        BY <1>0, <2>1 DEF ShPlaces
    <2>4. /\ place' = "execute" => base' = Len(procs') /\ here' = 1
          /\ place' = "stage" => base' + i' = Len(procs') /\ i' > 0 /\ L'[here'] = 1
          /\ place' \in {"sink", "read"} => base' + i' <= Len(procs') /\ base' < Len(procs')
        <3>1. /\ place = "execute" => base = Len(procs) /\ here = 1
              /\ place = "stage" => base + i = Len(procs) /\ i > 0 /\ L[here] = 1
              /\ place \in {"sink", "read"} => base + i <= Len(procs) /\ base < Len(procs)
            BY <1>0 DEF ShPlaces
        <3>2. /\ base' = base /\ Len(procs') = Len(procs) /\ place' = place /\ i \in Nat /\ i' \in Nat
              /\ L' = L /\ here' = here
            BY <1>0, <2>1
        <3>3. CASE place = "read"
            <4>1. base + i' <= Len(procs)
                BY <1>0, <2>1, <3>1, <3>2, <3>3
            <4> QED BY <3>1, <3>2, <3>3, <4>1
        <3>4. CASE place # "read"
            BY <3>1, <3>2, <3>4
        <3> QED BY <3>3, <3>4
    <2>5. place' \in {"prompt", "execute", "wait", "waitpid", "open", "stage", "sink", "read", "gone"}
        BY <1>0 DEF ShPlaces
    <2> QED BY <1>1, <2>3, <2>4, <2>5 DEF ShPlaces
<1>3. Len(procs) > 0 =>
        /\ procs'[Len(procs)].kind = procs[Len(procs)].kind
        /\ procs[Len(procs)].at \in Waiting /\ procs[Len(procs)].kind # "pipe" =>
              procs'[Len(procs)].at \in Waiting
        /\ procs[Len(procs)].at = "zombie" => procs'[Len(procs)].at = "zombie"
        /\ procs[Len(procs)].at \in {"run", "blocked", "zombie"} =>
              procs'[Len(procs)].at \in {"run", "blocked", "zombie"}
    BY <1>0 DEF Moves, Waiting
<1>4. Newest'
    BY <1>0, <1>3 DEF Newest, Signs, Waiting, Redirected
<1> QED BY <1>2, <1>4 DEF Control

LEMMA ReadKeepsControl == Control /\ Sh!ReadPipe => Control'
<1> SUFFICES ASSUME Control, Sh!ReadPipe PROVE Control'
    OBVIOUS
<1>0. Children /\ ShPlaces /\ Newest /\ Len(procs) \in Nat
    BY ChildrenTypes DEF Control
<1>1. /\ place = "read" /\ i' = i - 1 /\ i \in Nat \ {0} /\ base \in Nat /\ base + i <= Len(procs)
      /\ UNCHANGED <<L, here, base, stdin>>
    BY <1>0 DEF Sh!ReadPipe, ShPlaces, Sh!line
<1>2. PICK p \in 1..Len(procs) : p = base + i
    BY <1>1
<1>3. CASE \E k \in 1..procs[p].data : procs' = Sh!Drained(p, k) /\ UNCHANGED <<place, waits>>
    BY <1>0, <1>1, <1>3, DrainedFacts, MovesKeep
<1>4. CASE /\ procs[p].data = 0 /\ Sh!Ended(p) /\ place' = "wait" /\ waits' = i /\ UNCHANGED procs
    <2>1. Children'
        BY <1>0, <1>4 DEF Children
    <2>2. Array' /\ here' \in 1..8
        BY <1>0, <1>1 DEF ShPlaces, Array
    <2>3. ShPlaces'
        BY <1>0, <1>1, <1>4, <2>2 DEF ShPlaces
    <2>4. Len(procs) = base + 1 => i = 1 /\ procs[Len(procs)].at = "zombie"
        BY <1>0, <1>1, <1>2, <1>4 DEF Newest, Sh!Ended, ShPlaces
    <2>5. Newest'
        BY <1>0, <1>1, <1>4, <2>4 DEF Newest, ShPlaces, Signs, Waiting
    <2> QED BY <2>1, <2>3, <2>5 DEF Control
<1> QED BY <1>2, <1>3, <1>4 DEF Sh!ReadPipe

\* waitpid finds the last child ended, or changes nothing.
LEMMA PollFacts ==
    ASSUME Control, Sh!Poll
    PROVE  /\ Children' /\ Len(procs') = Len(procs)
           /\ \A p \in 1..Len(procs) :
               /\ procs'[p].kind = procs[p].kind /\ procs'[p].late = procs[p].late
               /\ procs'[p].out = procs[p].out
               /\ procs'[p].at \in {procs[p].at, "polled"}
               /\ procs'[p].at # procs[p].at => procs[p].at = "zombie"
<1> DEFINE p == Len(procs)
           proc == [procs[p] EXCEPT !.at = IF @ = "zombie" THEN "polled" ELSE @]
<1>1. Children /\ Len(procs) \in Nat /\ DOMAIN procs = 1..Len(procs)
    BY ChildrenTypes DEF Control
<1>2. p \in 1..Len(procs) /\ procs[p].kind = "background" /\ procs[p] \in Child
    BY <1>1, ChildrenTypes DEF Control, Newest, Sh!Poll
<1>3. /\ proc \in Child /\ proc.in = procs[p].in /\ proc.kind = procs[p].kind
      /\ proc.late = procs[p].late /\ proc.out = procs[p].out
      /\ proc.at \in {procs[p].at, "polled"}
      /\ proc.at # procs[p].at => procs[p].at = "zombie"
    BY <1>2 DEF Child, Places
<1>4. procs' = [procs EXCEPT ![p] = proc]
    BY <1>1, <1>2 DEF Sh!Poll
<1> HIDE DEF proc
<1>5. /\ proc.at = "blocked" => proc.kind = "pipe"
      /\ proc.at = "polled" => proc.kind = "background"
      /\ proc.at = "open" => proc.kind \in Redirected /\ proc.out = 0
    BY <1>1, <1>2, <1>3 DEF Children
<1>6. /\ Children' /\ Len(procs') = Len(procs) /\ procs'[p] = proc
      /\ \A q \in 1..Len(procs) : q # p => procs'[q] = procs[q]
    BY <1>1, <1>2, <1>3, <1>4, <1>5, OneChild
<1> QED BY <1>3, <1>6

\* The shell's own open notes whether it came late.
LEMMA OpenFacts ==
    ASSUME Control, Sh!ShellOpen
    PROVE  /\ Children' /\ Len(procs') = Len(procs) /\ Len(procs) \in 1..Len(procs)
           /\ \A p \in 1..Len(procs) :
               /\ procs'[p].kind = procs[p].kind /\ procs'[p].at = procs[p].at
               /\ procs'[p].out = procs[p].out
               /\ p # Len(procs) => procs'[p].late = procs[p].late
           /\ ~procs'[Len(procs)].late => procs[Len(procs)].out = 0
<1> DEFINE p == Len(procs)
           late == procs[p].out > 0
<1>1. Children /\ p \in 1..Len(procs) /\ procs[p] \in Child /\ procs[p].out \in Nat
    BY ChildrenTypes DEF Control, Newest, Sh!ShellOpen
<1>2. late \in BOOLEAN /\ procs' = [procs EXCEPT ![p].late = late]
    BY DEF Sh!ShellOpen
<1>3. ~late => procs[p].out = 0
    BY <1>1
<1> HIDE DEF late
<1>4. /\ Children' /\ Len(procs') = Len(procs)
      /\ procs'[p] = [procs[p] EXCEPT !.late = late]
      /\ \A q \in 1..Len(procs) : q # p => procs'[q] = procs[q]
    BY <1>1, <1>2, LateFacts
<1>5. /\ procs'[p].at = procs[p].at /\ procs'[p].kind = procs[p].kind
      /\ procs'[p].out = procs[p].out /\ procs'[p].late = late
    BY <1>1, <1>4 DEF Child
<1> QED BY <1>1, <1>3, <1>4, <1>5

\* wait takes a child that has ended; if it takes none all have been collected.
LEMMA WaitFacts ==
    ASSUME Control, Sh!Wait
    PROVE  /\ Children' /\ Len(procs') = Len(procs)
           /\ \/ \E p \in 1..Len(procs) :
                    procs[p].at = "zombie" /\ procs' = [procs EXCEPT ![p].at = "reaped"]
              \/ procs' = procs /\ \A p \in 1..Len(procs) : procs[p].at \in {"reaped", "polled"}
<1>1. Children /\ DOMAIN procs = 1..Len(procs)
    BY ChildrenTypes DEF Control
<1>2. CASE \E p \in 1..Len(procs) :
              procs[p].at = "zombie" /\ procs' = [procs EXCEPT ![p].at = "reaped"]
    BY <1>1, <1>2, CollectFacts
<1>3. CASE procs' = procs /\ \A p \in 1..Len(procs) : procs[p].at \in {"reaped", "polled"}
    BY <1>1, <1>3 DEF Children
<1> QED BY <1>1, <1>2, <1>3 DEF Sh!Wait

LEMMA CollectKeeps == Control /\ (Sh!Poll \/ Sh!ShellOpen \/ Sh!Wait) => Control'
<1> SUFFICES ASSUME Control, Sh!Poll \/ Sh!ShellOpen \/ Sh!Wait PROVE Control'
    OBVIOUS
<1>0. Children /\ ShPlaces /\ Newest /\ Len(procs) \in Nat
    BY ChildrenTypes DEF Control
<1>1. ASSUME Children', Len(procs') = Len(procs), place' = "prompt", i' = 0, waits' = 0,
             here' = 1, UNCHANGED <<L, base, stdin>>
      PROVE  Control'
    <2>1. /\ base' \in Nat /\ base' <= Len(procs') /\ stdin' \in {"terminal", "file"}
          /\ i' \in 0..Len(procs') /\ waits' \in 0..(Len(procs') + 1)
        <3>1. base \in Nat /\ base <= Len(procs) /\ stdin \in {"terminal", "file"}
            BY <1>0 DEF ShPlaces
        <3>2. base' = base /\ stdin' = stdin
            BY <1>1
        <3> QED BY <1>0, <1>1, <3>1, <3>2
    <2>2. Array' /\ here' \in 1..8
        BY <1>0, <1>1 DEF ShPlaces, Array
    <2>3. ShPlaces'
        BY <1>1, <2>1, <2>2 DEF ShPlaces
    <2> QED BY <1>1, <2>3 DEF Control, Newest
<1>2. CASE Sh!Poll
    <2>1. place' = "prompt" /\ i' = 0 /\ waits' = 0 /\ here' = 1 /\ UNCHANGED <<L, base, stdin>>
        BY <1>2 DEF Sh!Poll, Sh!Prompt
    <2> QED BY <1>1, <1>2, <2>1, PollFacts
<1>3. CASE Sh!ShellOpen
    <2>1. /\ place = "open" /\ place' = "wait" /\ waits' = 1 /\ UNCHANGED <<L, here, base, i, stdin>>
        BY <1>3 DEF Sh!ShellOpen, Sh!line
    <2>2. /\ Children' /\ Len(procs') = Len(procs) /\ Len(procs) \in 1..Len(procs)
          /\ procs'[Len(procs)].at = procs[Len(procs)].at
          /\ procs'[Len(procs)].kind = procs[Len(procs)].kind
        BY <1>3, OpenFacts
    <2>3. Array' /\ here' \in 1..8
        BY <1>0, <2>1 DEF ShPlaces, Array
    <2>4. ShPlaces'
        BY <1>0, <2>1, <2>2, <2>3 DEF ShPlaces
    <2>5. Newest'
        BY <1>0, <2>1, <2>2 DEF Newest, Signs, Waiting, Redirected
    <2> QED BY <2>2, <2>4, <2>5 DEF Control
<1>4. CASE Sh!Wait
    <2>1. Children' /\ Len(procs') = Len(procs)
        BY <1>4, WaitFacts
    <2>2. CASE waits = 1
        <3>1. place' = "prompt" /\ i' = 0 /\ waits' = 0 /\ here' = 1 /\ UNCHANGED <<L, base, stdin>>
            BY <1>4, <2>2 DEF Sh!Wait, Sh!Prompt
        <3> QED BY <1>1, <2>1, <3>1
    <2>3. CASE waits # 1
        <3>1. /\ waits' = waits - 1 /\ place = "wait" /\ place' = "wait"
              /\ UNCHANGED <<L, here, base, i, stdin>>
            BY <1>4, <2>3 DEF Sh!Wait, Sh!line
        <3>2. waits > 1 /\ (Signs \/ Len(procs) > base + 1)
            BY <1>0, <2>3, <3>1 DEF Newest, ShPlaces
        <3>3. Array' /\ here' \in 1..8
            BY <1>0, <3>1 DEF ShPlaces, Array
        <3>4. ShPlaces'
            BY <1>0, <2>1, <3>1, <3>2, <3>3 DEF ShPlaces
        <3>5. Newest'
            BY <1>0, <2>1, <3>1, <3>2 DEF Newest, Signs, ShPlaces
        <3> QED BY <2>1, <3>4, <3>5 DEF Control
    <2> QED BY <2>2, <2>3
<1> QED BY <1>2, <1>3, <1>4

LEMMA ChildKeeps ==
    ASSUME Control, NEW p \in DOMAIN procs, Sh!ChildStep(p)
    PROVE  Control'
<1>1. Children /\ p \in 1..Len(procs) /\ i \in Nat
    <2>1. Children /\ i \in 0..Len(procs)
        BY DEF Control, ShPlaces
    <2> QED BY <2>1, ChildrenTypes
<1>2. UNCHANGED <<place, L, here, base, i, waits, stdin>>
    BY DEF Sh!ChildStep, Sh!ChildOpen, Sh!ChildWrite, Sh!ChildWritePipe, Sh!ChildRead, Sh!ChildEnd, Sh!line
<1> QED BY <1>1, <1>2, ChildFacts, MovesKeep

LEMMA ControlSteps == Control /\ [Sh!ShellNext]_shellVars => Control'
<1> SUFFICES ASSUME Control, [Sh!ShellNext]_shellVars PROVE Control'
    OBVIOUS
<1>1. CASE UNCHANGED shellVars
    BY <1>1 DEF shellVars, Control, Children, ShPlaces, Array, Newest, Signs
<1> QED BY <1>1, QuietKeeps, ForkKeeps, StageKeeps, ReadKeepsControl, CollectKeeps, ChildKeeps
        DEF Sh!ShellNext

------------------------------------------------------------------------------
(* What the shell waits for, and where it goes *)

LEMMA ShellAlone == [Next]_vars => [Sh!ShellNext]_shellVars
<1> SUFFICES ASSUME [Next]_vars PROVE Sh!ShellNext \/ UNCHANGED shellVars
    OBVIOUS
<1>1. CASE ShellStep
    BY <1>1 DEF ShellStep
<1>2. CASE LsStep \/ EchoStep \/ HashLockStep \/ UNCHANGED vars
    BY <1>2 DEF LsStep, EchoStep, HashLockStep, vars
<1> QED BY <1>1, <1>2 DEF Next

LEMMA ControlInductive == Spec => []Control
<1>1. Control /\ [Next]_vars => Control'
    BY ShellAlone, ControlSteps
<1> QED BY ControlStarts, <1>1, PTL DEF Spec

\* What the two buffers hold: a name that was stored, or nothing yet; and olddir is
\* as long as the longest name moved there.
Homes ==
    /\ cwd \in Dirs /\ prev \in Dirs /\ been \subseteq Dirs
    /\ curdir2 \in Seq(STRING) /\ olddir \in Seq(STRING)
    /\ Len(curdir2) < MAXPATH /\ Len(olddir) < MAXPATH
    /\ dirsign = 1 => curdir2 = <<>> /\ olddir = <<>> /\ been = {}
    /\ dirsign # 1 /\ Sh!Fits(prev) => curdir2 = Name[prev]
    /\ curdir2 # <<>> =>
        dirsign # 1 /\ \E d \in been \cup {prev} : Sh!Fits(d) /\ curdir2 = Name[d]
    /\ \A d \in been : Sh!Fits(d) => Len(Name[d]) <= Len(olddir)
    /\ olddir # <<>> => \E d \in been : Sh!Fits(d) /\ Len(olddir) = Len(Name[d])

LEMMA Names ==
    /\ MAXPATH \in Nat \ {0} /\ Home \in Dirs
    /\ \A d \in Dirs : Name[d] \in Seq(STRING) /\ Name[d] # <<>> /\ Len(Name[d]) \in Nat
    /\ \A d, e \in Dirs : Name[d] = Name[e] => d = e
<1>1. /\ MAXPATH \in Nat \ {0} /\ Home \in Dirs /\ Name \in [Dirs -> Seq(STRING) \ {<<>>}]
      /\ \A d, e \in Dirs : Name[d] = Name[e] => d = e
    BY ShellAssumed DEF Sh!ShellAssumption
<1>2. \A d \in Dirs : Name[d] \in Seq(STRING) /\ Name[d] # <<>>
    BY <1>1
<1> QED BY <1>1, <1>2, LenProperties

\* The longer of the two lengths; nothing of the old name is left behind one as long.
LEMMA MovedFacts ==
    ASSUME NEW old \in Seq(STRING), NEW name \in Seq(STRING)
    PROVE  /\ Sh!Moved(old, name) \in Seq(STRING)
           /\ Len(Sh!Moved(old, name)) = IF Len(old) <= Len(name) THEN Len(name) ELSE Len(old)
           /\ Len(old) <= Len(name) => Sh!Moved(old, name) = name
<1>1. Len(old) \in Nat /\ Len(name) \in Nat
    BY LenProperties
<1>2. CASE Len(old) <= Len(name)
    <2>1. SubSeq(old, Len(name) + 1, Len(old)) = <<>>
        BY <1>1, <1>2, SubSeqEmpty
    <2>2. name \o <<>> = name
        BY ConcatEmptySeq
    <2> QED BY <1>2, <2>1, <2>2 DEF Sh!Moved
<1>3. CASE ~(Len(old) <= Len(name))
    <2>1. PICK rest : rest = SubSeq(old, Len(name) + 1, Len(old))
        OBVIOUS
    <2>2. rest \in Seq(STRING) /\ Len(rest) = Len(old) - Len(name)
        BY <1>1, <1>3, <2>1, SubSeqProperties
    <2>3. name \o rest \in Seq(STRING) /\ Len(name \o rest) = Len(name) + Len(rest)
        BY <2>2, ConcatProperties
    <2> QED BY <1>1, <1>3, <2>1, <2>2, <2>3 DEF Sh!Moved
<1> QED BY <1>2, <1>3

LEMMA HomesStart == Init => Homes
<1> SUFFICES ASSUME Sh!ShellInit PROVE Homes
    BY DEF Init
<1>1. <<>> \in Seq(STRING) /\ Len(<<>>) = 0
    BY EmptySeq
<1> QED BY <1>1, Names DEF Sh!ShellInit, Homes

LEMMA OnlyCdMoves ==
    Sh!ShellNext => Sh!execute_cddir \/ UNCHANGED <<cwd, curdir2, olddir, dirsign, prev, been>>
<1> USE DEF Sh!dirs
<1> SUFFICES ASSUME Sh!ShellNext, ~Sh!execute_cddir
             PROVE  UNCHANGED <<cwd, curdir2, olddir, dirsign, prev, been>>
    OBVIOUS
<1>1. CASE Sh!ReadLine \/ Sh!Stop \/ Sh!execute_exe \/ Sh!Poll \/ Sh!ForkRedirected
    BY <1>1 DEF Sh!ReadLine, Sh!Stop, Sh!execute_exe, Sh!Poll, Sh!ForkRedirected
<1>2. CASE Sh!ShellOpen \/ Sh!Wait \/ Sh!Stage \/ Sh!ReadPipe \/ Sh!ReadGarbage \/ Sh!OpenSink
    BY <1>2 DEF Sh!ShellOpen, Sh!Wait, Sh!Stage, Sh!ReadPipe, Sh!ReadGarbage, Sh!OpenSink
<1>3. CASE \E p \in DOMAIN procs : Sh!ChildStep(p)
    BY <1>3 DEF Sh!ChildStep, Sh!ChildOpen, Sh!ChildWrite, Sh!ChildWritePipe, Sh!ChildRead,
                Sh!ChildEnd
<1> QED BY <1>1, <1>2, <1>3 DEF Sh!ShellNext

\* What a cd stores, and what is in olddir when chdir is called.
LEMMA CdStores ==
    ASSUME Homes, Sh!execute_cddir
    PROVE  /\ dirsign' = 2 /\ prev' = cwd /\ cwd' \in Dirs
           /\ been' = IF dirsign = 1 THEN been ELSE been \cup {prev}
           /\ curdir2' = IF Sh!Fits(cwd) THEN Name[cwd] ELSE curdir2
           /\ dirsign = 1 => olddir' = <<>>
           /\ dirsign # 1 =>
                /\ olddir' \in Seq(STRING)
                /\ Len(olddir') = IF Len(olddir) <= Len(curdir2) THEN Len(curdir2) ELSE Len(olddir)
                /\ Len(olddir) <= Len(curdir2) => olddir' = curdir2
<1>1. /\ dirsign' = 2 /\ prev' = cwd
      /\ been' = IF dirsign = 1 THEN been ELSE been \cup {prev}
      /\ cwd' \in Dirs \/ cwd' = cwd
    BY DEF Sh!execute_cddir
<1>2. /\ curdir2' = IF Sh!Fits(cwd) THEN Name[cwd] ELSE curdir2
      /\ olddir' = IF dirsign = 1 THEN olddir ELSE Sh!Moved(olddir, curdir2)
    BY DEF Sh!execute_cddir, Sh!Remember, Sh!getcwd
<1>3. /\ curdir2 \in Seq(STRING) /\ olddir \in Seq(STRING) /\ cwd \in Dirs
      /\ dirsign = 1 => olddir = <<>>
    BY DEF Homes
<1>4. PICK moved : moved = Sh!Moved(olddir, curdir2)
    OBVIOUS
<1>5. /\ moved \in Seq(STRING)
      /\ Len(moved) = IF Len(olddir) <= Len(curdir2) THEN Len(curdir2) ELSE Len(olddir)
      /\ Len(olddir) <= Len(curdir2) => moved = curdir2
    BY <1>3, <1>4, MovedFacts
<1>6. dirsign # 1 => olddir' = moved
    BY <1>2, <1>4
<1>7. dirsign = 1 => olddir' = <<>>
    BY <1>2, <1>3
<1>8. cwd' \in Dirs
    BY <1>1, <1>3
<1> QED BY <1>1, <1>2, <1>5, <1>6, <1>7, <1>8

LEMMA CdKeeps == Homes /\ Sh!execute_cddir => Homes'
<1> SUFFICES ASSUME Homes, Sh!execute_cddir PROVE Homes'
    OBVIOUS
<1>0. /\ cwd \in Dirs /\ prev \in Dirs /\ been \subseteq Dirs /\ MAXPATH \in Nat \ {0}
      /\ curdir2 \in Seq(STRING) /\ olddir \in Seq(STRING)
      /\ Len(curdir2) \in Nat /\ Len(olddir) \in Nat
      /\ <<>> \in Seq(STRING) /\ Len(<<>>) = 0
    BY Names, LenProperties, EmptySeq DEF Homes
<1>1. cwd' \in Dirs /\ prev' \in Dirs /\ been' \subseteq Dirs /\ dirsign' # 1
    BY <1>0, CdStores
<1>2. /\ curdir2' \in Seq(STRING) /\ Len(curdir2') < MAXPATH
      /\ Sh!Fits(cwd) => curdir2' = Name[cwd]
    BY <1>0, CdStores, Names DEF Homes, Sh!Fits
<1>3. curdir2' # <<>> => \E d \in been' \cup {cwd} : Sh!Fits(d) /\ curdir2' = Name[d]
    <2>1. CASE Sh!Fits(cwd)
        BY <1>2, <2>1
    <2>2. CASE ~Sh!Fits(cwd)
        <3>1. curdir2' = curdir2
            BY <2>2, CdStores
        <3>2. CASE curdir2 # <<>>
            <4>1. dirsign # 1 /\ \E d \in been \cup {prev} : Sh!Fits(d) /\ curdir2 = Name[d]
                BY <3>2 DEF Homes
            <4>2. been' = been \cup {prev}
                BY <4>1, CdStores
            <4> QED BY <3>1, <4>1, <4>2
        <3> QED BY <3>1, <3>2
    <2> QED BY <2>1, <2>2
<1>4. /\ olddir' \in Seq(STRING) /\ Len(olddir') < MAXPATH
      /\ \A d \in been' : Sh!Fits(d) => Len(Name[d]) <= Len(olddir')
      /\ olddir' # <<>> => \E d \in been' : Sh!Fits(d) /\ Len(olddir') = Len(Name[d])
    <2>1. CASE dirsign = 1
        <3>1. olddir' = <<>> /\ been' = {}
            BY <2>1, CdStores DEF Homes
        <3> QED BY <1>0, <3>1
    <2>2. CASE dirsign # 1
        <3>1. /\ been' = been \cup {prev} /\ olddir' \in Seq(STRING)
              /\ Len(olddir') = IF Len(olddir) <= Len(curdir2) THEN Len(curdir2) ELSE Len(olddir)
              /\ Len(olddir) <= Len(curdir2) => olddir' = curdir2
            BY <2>2, CdStores
        <3>2. Len(olddir') < MAXPATH
            BY <1>0, <3>1 DEF Homes
        <3>3. ASSUME NEW d \in been', Sh!Fits(d)
              PROVE  Len(Name[d]) <= Len(olddir')
            <4>1. Len(Name[d]) \in Nat
                BY <1>1, Names
            <4>2. CASE d \in been
                <5>1. Len(Name[d]) <= Len(olddir)
                    BY <3>3, <4>2 DEF Homes
                <5> QED BY <1>0, <3>1, <4>1, <5>1
            <4>3. CASE d = prev
                <5>1. curdir2 = Name[d]
                    BY <2>2, <3>3, <4>3 DEF Homes
                <5> QED BY <1>0, <3>1, <4>1, <5>1
            <4> QED BY <3>1, <4>2, <4>3
        <3>4. ASSUME olddir' # <<>>
              PROVE  \E d \in been' : Sh!Fits(d) /\ Len(olddir') = Len(Name[d])
            <4>1. CASE Len(olddir) <= Len(curdir2)
                <5>1. olddir' = curdir2 /\ curdir2 # <<>>
                    BY <3>1, <3>4, <4>1
                <5>2. \E d \in been \cup {prev} : Sh!Fits(d) /\ curdir2 = Name[d]
                    BY <5>1 DEF Homes
                <5> QED BY <3>1, <5>1, <5>2
            <4>2. CASE ~(Len(olddir) <= Len(curdir2))
                <5>1. Len(olddir') = Len(olddir) /\ olddir # <<>>
                    BY <1>0, <3>1, <4>2
                <5>2. \E d \in been : Sh!Fits(d) /\ Len(olddir) = Len(Name[d])
                    BY <5>1 DEF Homes
                <5> QED BY <3>1, <5>1, <5>2
            <4> QED BY <4>1, <4>2
        <3> QED BY <3>1, <3>2, <3>3, <3>4
    <2> QED BY <2>1, <2>2
<1>5. prev' = cwd
    BY CdStores
<1> QED BY <1>1, <1>2, <1>3, <1>4, <1>5 DEF Homes, Sh!Fits

\* cd - succeeds: the name in olddir is the directory's.
LEMMA DashFacts ==
    ASSUME Homes, Sh!execute_cddir, Sh!Argument(2) = "-", place' = "prompt"
    PROVE  cwd' = prev <=> /\ Sh!Fits(prev)
                           /\ \A d \in been : Sh!Fits(d) => Len(Name[d]) <= Len(Name[prev])
<1>0. /\ prev \in Dirs /\ been \subseteq Dirs /\ MAXPATH \in Nat \ {0}
      /\ Len(curdir2) \in Nat /\ Len(olddir) \in Nat
      /\ Len(curdir2) < MAXPATH /\ Len(olddir) < MAXPATH
      /\ Len(Name[prev]) \in Nat /\ Len(<<>>) = 0
    BY Names, LenProperties, EmptySeq DEF Homes
<1>1. cwd' \in Dirs /\ Name[cwd'] = olddir'
    BY DEF Sh!execute_cddir
<1>2. /\ Len(olddir') = IF Len(olddir) <= Len(curdir2) THEN Len(curdir2) ELSE Len(olddir)
      /\ Len(olddir) <= Len(curdir2) => olddir' = curdir2
      /\ dirsign # 1
    BY <1>1, CdStores, Names
<1>3. ASSUME cwd' = prev
      PROVE  /\ Sh!Fits(prev)
             /\ \A d \in been : Sh!Fits(d) => Len(Name[d]) <= Len(Name[prev])
    <2>1. Len(Name[prev]) = Len(olddir')
        BY <1>1, <1>3
    <2>2. Sh!Fits(prev)
        BY <1>0, <1>2, <2>1 DEF Sh!Fits
    <2>3. ASSUME NEW d \in been, Sh!Fits(d)
          PROVE  Len(Name[d]) <= Len(Name[prev])
        <3>1. Len(Name[d]) <= Len(olddir) /\ Len(Name[d]) \in Nat
            BY <1>0, <2>3, Names DEF Homes
        <3> QED BY <1>0, <1>2, <2>1, <3>1
    <2> QED BY <2>2, <2>3
<1>4. ASSUME Sh!Fits(prev),
             \A d \in been : Sh!Fits(d) => Len(Name[d]) <= Len(Name[prev])
      PROVE  cwd' = prev
    <2>1. curdir2 = Name[prev]
        BY <1>2, <1>4 DEF Homes
    <2>2. Len(olddir) <= Len(curdir2)
        <3>1. CASE olddir = <<>>
            BY <1>0, <3>1
        <3>2. CASE olddir # <<>>
            BY <1>4, <2>1, <3>2 DEF Homes
        <3> QED BY <3>1, <3>2
    <2>3. Name[cwd'] = Name[prev]
        BY <1>1, <1>2, <2>1, <2>2
    <2> QED BY <1>0, <1>1, <2>3, Names
<1> QED BY <1>3, <1>4

LEMMA HomesStep == Homes /\ [Sh!ShellNext]_shellVars => Homes'
<1>1. UNCHANGED <<cwd, curdir2, olddir, dirsign, prev, been>> /\ Homes => Homes'
    BY DEF Homes, Sh!Fits
<1>2. UNCHANGED shellVars => UNCHANGED <<cwd, curdir2, olddir, dirsign, prev, been>>
    BY DEF shellVars
<1> QED BY <1>1, <1>2, OnlyCdMoves, CdKeeps

LEMMA HomesInductive == Spec => []Homes
<1>1. Homes /\ [Next]_vars => Homes'
    BY ShellAlone, HomesStep
<1> QED BY HomesStart, <1>1, PTL DEF Spec

\* cd - goes back to where the shell was before the last cd exactly when that name
\* was stored and no longer one was moved to olddir before it.
THEOREM DashGoesBack == Spec => DashReturns
<1>1. Homes => (Sh!execute_cddir /\ Sh!Argument(2) = "-" /\ place' = "prompt" =>
        (cwd' = prev <=> /\ Sh!Fits(prev)
                         /\ \A d \in been : Sh!Fits(d) => Len(Name[d]) <= Len(Name[prev])))
    BY DashFacts
<1>2. Homes => [Sh!execute_cddir /\ Sh!Argument(2) = "-" /\ place' = "prompt" =>
        (cwd' = prev <=> /\ Sh!Fits(prev)
                         /\ \A d \in been : Sh!Fits(d) => Len(Name[d]) <= Len(Name[prev]))]_(Sh!shellVars)
    BY <1>1
<1> QED BY <1>2, HomesInductive, PTL DEF DashReturns, Sh!DashReturns

\* The shell is never left waiting for a child that a full pipe blocks, but after
\* the kinds of line that the property names.
THEOREM WaitGoesOn == Spec => []WaitReturns
<1>1. Control => WaitReturns
    <2> SUFFICES ASSUME Control, place = "wait", ~Signs, ~(Len(procs) > base + 1)
                 PROVE  \E p \in DOMAIN procs : procs[p].at \in {"open", "run", "zombie"}
        BY DEF WaitReturns, Sh!WaitReturns, Signs
    <2>1. DOMAIN procs = 1..Len(procs) /\ Len(procs) \in Nat
        BY ChildrenTypes DEF Control
    <2>2. Len(procs) > 0 /\ procs[Len(procs)].at \in Waiting
        BY DEF Control, Newest
    <2>3. Len(procs) \in DOMAIN procs
        BY <2>1, <2>2
    <2> QED BY <2>2, <2>3 DEF Waiting
<1> QED BY <1>1, ControlInductive, PTL

------------------------------------------------------------------------------
(* Which commands have been collected *)

Foregrounds == {"exe", "redir_r", "redir_a"}
Owing == {p \in 1..Len(procs) : procs[p].kind \in Foregrounds /\ procs[p].at # "reaped"}
Paid == {p \in 1..Len(procs) : procs[p].kind \notin Foregrounds /\ procs[p].at = "reaped"}

\* Each foreground command that has not been collected is paid for by another child
\* that has been, but for the one the shell is about to wait for.
Balance ==
    /\ place \in {"open", "wait"} => Cardinality(Owing) <= Cardinality(Paid) + 1
    /\ place \notin {"open", "wait", "gone"} => Cardinality(Owing) <= Cardinality(Paid)

LEMMA OwingFinite ==
    ASSUME Children
    PROVE  /\ IsFiniteSet(Owing) /\ IsFiniteSet(Paid)
           /\ Cardinality(Owing) \in Nat /\ Cardinality(Paid) \in Nat
<1> DEFINE All == 1..Len(procs)
<1>1. IsFiniteSet(All)
    BY ChildrenTypes, FS_Interval
<1>2. Owing \in SUBSET All /\ Paid \in SUBSET All
    BY DEF Owing, Paid
<1> HIDE DEF All
<1>3. IsFiniteSet(Owing) /\ IsFiniteSet(Paid)
    BY <1>1, <1>2, FS_Subset, Zenon
<1> QED BY <1>3, FS_CardinalityType

Counted == Cardinality(Owing) \in Nat /\ Cardinality(Paid) \in Nat

LEMMA BalanceTypes == Children => Counted
BY OwingFinite DEF Counted

\* Children that only move leave both sets as they are.
LEMMA SameBalance ==
    ASSUME Children, Len(procs') = Len(procs),
           \A p \in 1..Len(procs) : /\ procs'[p].kind = procs[p].kind
                                    /\ procs'[p].at = "reaped" <=> procs[p].at = "reaped"
    PROVE  Owing' = Owing /\ Paid' = Paid
BY DEF Owing, Paid

\* A new child is one more to be waited for if it is in the foreground.
LEMMA ForkBalance ==
    ASSUME Children, NEW kind \in Kinds, NEW at \in {"open", "run"}, NEW in \in 0..Len(procs),
           at = "open" => kind \in Redirected, Sh!Fork(kind, at, in)
    PROVE  /\ Paid' = Paid
           /\ kind \notin Foregrounds => Owing' = Owing
           /\ kind \in Foregrounds => Owing' = Owing \cup {Len(procs) + 1}
<1>0. /\ Len(procs') = Len(procs) + 1 /\ \A p \in 1..Len(procs) : procs'[p] = procs[p]
      /\ procs'[Len(procs) + 1] = [kind |-> kind, at |-> at, in |-> in,
                                   out |-> 0, data |-> 0, late |-> FALSE]
    BY ForkFacts
<1>1. /\ Len(procs') = Len(procs) + 1 /\ Len(procs) \in Nat
      /\ \A p \in 1..Len(procs) : procs'[p] = procs[p]
      /\ procs'[Len(procs) + 1].kind = kind /\ procs'[Len(procs) + 1].at = at
    BY <1>0, ChildrenTypes
<1>2. \A p : p \in 1..(Len(procs) + 1) <=> p \in 1..Len(procs) \/ p = Len(procs) + 1
    BY <1>1
<1>3. at # "reaped"
    OBVIOUS
<1>4. Len(procs) + 1 \notin 1..Len(procs)
    BY <1>1
<1> QED BY <1>1, <1>2, <1>3, <1>4 DEF Owing, Paid

\* A read of a pipe or a step of a child moves the children or leaves them alone.
LEMMA StepMoves ==
    ASSUME Control, Sh!ReadPipe \/ \E p \in DOMAIN procs : Sh!ChildStep(p)
    PROVE  Moves \/ procs' = procs
<1>1. Children /\ DOMAIN procs = 1..Len(procs) /\ Len(procs) \in Nat
    BY ChildrenTypes DEF Control
<1>2. CASE Sh!ReadPipe
    <2>1. base + i \in 1..Len(procs)
        BY <1>1, <1>2 DEF Sh!ReadPipe, Control, ShPlaces
    <2>2. PICK p \in 1..Len(procs) : p = base + i
        BY <2>1
    <2>3. (\E k \in 1..procs[p].data : procs' = Sh!Drained(p, k)) \/ procs' = procs
        BY <1>2, <2>2 DEF Sh!ReadPipe
    <2> QED BY <1>1, <2>3, DrainedFacts
<1>3. CASE \E p \in DOMAIN procs : Sh!ChildStep(p)
    BY <1>1, <1>3, ChildFacts
<1> QED BY <1>2, <1>3

\* One more is at most one more.
LEMMA OneMore ==
    ASSUME NEW S, IsFiniteSet(S), NEW x
    PROVE  Cardinality(S \cup {x}) \in Nat /\ Cardinality(S \cup {x}) <= Cardinality(S) + 1
<1>1. IsFiniteSet(S \cup {x}) /\ Cardinality(S) \in Nat
    BY FS_AddElement, FS_CardinalityType
<1>2. Cardinality(S \cup {x}) \in {Cardinality(S), Cardinality(S) + 1}
    BY FS_AddElement
<1> QED BY <1>1, <1>2, FS_CardinalityType

\* wait takes a foreground child off the one side or puts another on the other.
LEMMA ReapBalance ==
    ASSUME Children, NEW p \in 1..Len(procs), procs[p].at = "zombie",
           procs' = [procs EXCEPT ![p].at = "reaped"]
    PROVE  \/ Paid' = Paid /\ p \in Owing /\ Owing' = Owing \ {p}
           \/ Owing' = Owing /\ p \notin Paid /\ Paid' = Paid \cup {p}
<1>1. /\ Len(procs') = Len(procs) /\ procs'[p] = [procs[p] EXCEPT !.at = "reaped"]
      /\ \A q \in 1..Len(procs) : q # p => procs'[q] = procs[q]
    BY CollectFacts
<1>2. procs'[p].at = "reaped" /\ procs'[p].kind = procs[p].kind
    BY <1>1, ChildrenTypes DEF Child
<1>3. CASE procs[p].kind \in Foregrounds
    BY <1>1, <1>2, <1>3 DEF Owing, Paid
<1>4. CASE procs[p].kind \notin Foregrounds
    BY <1>1, <1>2, <1>4 DEF Owing, Paid
<1> QED BY <1>3, <1>4

LEMMA BalanceStarts == Init => Balance
<1> SUFFICES ASSUME Sh!ShellInit PROVE Balance
    BY DEF Init
<1>1. procs = <<>> /\ Len(procs) = 0 /\ place = "prompt"
    BY EmptySeq DEF Sh!ShellInit
<1>2. Owing = {} /\ Paid = {}
    BY <1>1 DEF Owing, Paid
<1> QED BY <1>1, <1>2, FS_EmptySet DEF Balance

LEMMA BalanceSteps == Control /\ Balance /\ [Sh!ShellNext]_shellVars => Balance'
<1> SUFFICES ASSUME Control, Balance, [Sh!ShellNext]_shellVars PROVE Balance'
    OBVIOUS
<1>0. /\ Children /\ Newest /\ DOMAIN procs = 1..Len(procs) /\ Len(procs) \in Nat
      /\ Cardinality(Owing) \in Nat /\ Cardinality(Paid) \in Nat
      /\ IsFiniteSet(Owing) /\ IsFiniteSet(Paid)
    BY ChildrenTypes, OwingFinite DEF Control
<1>1. ASSUME Owing' = Owing, Paid' = Paid,
             place' = place \/ place' = "gone" \/ place \notin {"open", "wait", "gone"}
                            \/ (place = "open" /\ place' = "wait")
      PROVE  Balance'
    BY <1>0, <1>1 DEF Balance
<1>2. CASE Sh!ReadLine \/ Sh!Stop \/ Sh!execute_cddir \/ Sh!ReadGarbage \/ Sh!OpenSink
    <2>1. UNCHANGED procs /\ place \notin {"open", "wait", "gone"}
        BY <1>2 DEF Sh!ReadLine, Sh!Stop, Sh!execute_cddir, Sh!ReadGarbage, Sh!OpenSink, Sh!Executes
    <2>2. place' \notin {"open", "wait"}
        <3>1. CASE Sh!ReadLine \/ Sh!Stop \/ Sh!OpenSink
            BY <3>1 DEF Sh!ReadLine, Sh!Stop, Sh!OpenSink
        <3>2. CASE Sh!execute_cddir \/ Sh!ReadGarbage
            BY <3>2 DEF Sh!execute_cddir, Sh!ReadGarbage, Sh!Prompt
        <3> QED BY <1>2, <3>1, <3>2
    <2>3. Owing' = Owing /\ Paid' = Paid
        BY <2>1 DEF Owing, Paid
    <2> QED BY <1>1, <2>1, <2>3
<1>3. CASE Sh!execute_exe
    <2>1. PICK kind \in {"exe", "background"} :
              /\ Sh!Fork(kind, "run", 0)
              /\ place' = IF kind = "exe" THEN "wait" ELSE "waitpid"
        <3>1. CASE L[1] = 0
            BY <1>3, <3>1 DEF Sh!execute_exe
        <3>2. CASE L[1] # 0
            BY <1>3, <3>2 DEF Sh!execute_exe
        <3> QED BY <3>1, <3>2
    <2>2. place = "execute" /\ kind \in Kinds /\ 0 \in 0..Len(procs)
        BY <1>0, <1>3, <2>1 DEF Sh!execute_exe, Sh!Executes, Kinds
    <2>3. /\ Paid' = Paid
          /\ kind \notin Foregrounds => Owing' = Owing
          /\ kind \in Foregrounds => Owing' = Owing \cup {Len(procs) + 1}
        BY <1>0, <2>1, <2>2, ForkBalance
    <2>4. CASE kind = "background"
        BY <1>1, <2>2, <2>3, <2>4 DEF Foregrounds
    <2>5. CASE kind = "exe"
        <3>1. Owing' = Owing \cup {Len(procs) + 1} /\ place' = "wait"
            BY <2>1, <2>3, <2>5 DEF Foregrounds
        <3>2. Cardinality(Owing') <= Cardinality(Paid') + 1
            <4>1. Cardinality(Owing) <= Cardinality(Paid)
                BY <2>2 DEF Balance
            <4>2. Cardinality(Owing') <= Cardinality(Owing) + 1 /\ Cardinality(Owing') \in Nat
                BY <1>0, <3>1, OneMore
            <4> QED BY <1>0, <2>3, <4>1, <4>2
        <3> QED BY <3>1, <3>2 DEF Balance
    <2> QED BY <2>1, <2>4, <2>5
<1>4. CASE Sh!ForkRedirected
    <2>1. PICK kind \in Redirected : Sh!Fork(kind, "open", 0)
        BY <1>4 DEF Sh!ForkRedirected, Redirected
    <2>2. place = "execute" /\ kind \in Kinds /\ 0 \in 0..Len(procs) /\ kind \in Foregrounds
          /\ place' = "open"
        BY <1>0, <1>4, <2>1 DEF Sh!ForkRedirected, Sh!Executes, Kinds, Redirected, Foregrounds
    <2>3. Paid' = Paid /\ Owing' = Owing \cup {Len(procs) + 1}
        BY <1>0, <2>1, <2>2, ForkBalance
    <2>4. Cardinality(Owing') <= Cardinality(Owing) + 1 /\ Cardinality(Owing') \in Nat
        BY <1>0, <2>3, OneMore
    <2>5. Cardinality(Owing) <= Cardinality(Paid)
        BY <2>2 DEF Balance
    <2>6. Cardinality(Owing') <= Cardinality(Paid') + 1
        BY <1>0, <2>3, <2>4, <2>5
    <2> QED BY <2>2, <2>6 DEF Balance
<1>5. CASE Sh!Poll
    <2>1. Owing' = Owing /\ Paid' = Paid
        <3>1. /\ Len(procs') = Len(procs)
              /\ \A p \in 1..Len(procs) : /\ procs'[p].kind = procs[p].kind
                                          /\ procs'[p].at = "reaped" <=> procs[p].at = "reaped"
            BY <1>5, PollFacts
        <3> QED BY <1>0, <3>1, SameBalance
    <2> QED BY <1>1, <1>5, <2>1 DEF Sh!Poll
<1>6. CASE Sh!ShellOpen
    <2>1. Owing' = Owing /\ Paid' = Paid
        BY <1>0, <1>6, OpenFacts, SameBalance
    <2> QED BY <1>1, <1>6, <2>1 DEF Sh!ShellOpen
<1>7. CASE Sh!Wait
    <2>1. place = "wait" /\ place' \in {"wait", "prompt"}
        BY <1>7 DEF Sh!Wait, Sh!Prompt
    <2>2. Cardinality(Owing) <= Cardinality(Paid) + 1
        BY <2>1 DEF Balance
    <2>3. Cardinality(Owing') <= Cardinality(Paid')
        <3>1. CASE procs' = procs /\ \A p \in 1..Len(procs) : procs[p].at \in {"reaped", "polled"}
            <4>1. Owing = {}
                BY <1>0, <3>1 DEF Children, Owing, Foregrounds
            <4>2. Owing' = Owing /\ Paid' = Paid
                BY <3>1 DEF Owing, Paid
            <4> QED BY <1>0, <4>1, <4>2, FS_EmptySet
        <3>2. CASE \E p \in 1..Len(procs) :
                      procs[p].at = "zombie" /\ procs' = [procs EXCEPT ![p].at = "reaped"]
            <4>1. PICK p \in 1..Len(procs) :
                      procs[p].at = "zombie" /\ procs' = [procs EXCEPT ![p].at = "reaped"]
                BY <3>2
            <4>2. CASE Paid' = Paid /\ p \in Owing /\ Owing' = Owing \ {p}
                <5>1. Cardinality(Owing') = Cardinality(Owing) - 1
                    BY <1>0, <4>2, FS_RemoveElement
                <5> QED BY <1>0, <2>2, <4>2, <5>1
            <4>3. CASE Owing' = Owing /\ p \notin Paid /\ Paid' = Paid \cup {p}
                <5>1. Cardinality(Paid') = Cardinality(Paid) + 1
                    BY <1>0, <4>3, FS_AddElement
                <5> QED BY <1>0, <2>2, <4>3, <5>1
            <4> QED BY <1>0, <4>1, <4>2, <4>3, ReapBalance
        <3> QED BY <1>7, <3>1, <3>2, WaitFacts
    <2>4. Cardinality(Owing') \in Nat /\ Cardinality(Paid') \in Nat
        <3>1. Children'
            BY <1>7, WaitFacts
        <3>2. Children' => Counted'
            BY BalanceTypes, PTL
        <3> QED BY <3>1, <3>2 DEF Counted
    <2> QED BY <2>1, <2>3, <2>4 DEF Balance
<1>8. CASE Sh!Stage
    <2>1. PICK in \in 0..Len(procs) : Sh!Fork("pipe", "run", in)
        BY <1>0, <1>8 DEF Sh!Stage
    <2>2. "pipe" \in Kinds /\ "pipe" \notin Foregrounds /\ "run" \in {"open", "run"} /\ "run" # "open"
        BY DEF Kinds, Foregrounds
    <2>3. Owing' = Owing /\ Paid' = Paid
        BY <1>0, <2>1, <2>2, ForkBalance
    <2>4. place \in {"execute", "stage"}
        BY <1>8 DEF Sh!Stage, Sh!Executes
    <2> QED BY <1>1, <2>3, <2>4
<1>9. CASE Sh!ReadPipe \/ \E p \in DOMAIN procs : Sh!ChildStep(p)
    <2>1. Owing' = Owing /\ Paid' = Paid
        <3>1. CASE Moves
            <4>1. /\ Len(procs') = Len(procs)
                  /\ \A p \in 1..Len(procs) : /\ procs'[p].kind = procs[p].kind
                                              /\ procs'[p].at = "reaped" <=> procs[p].at = "reaped"
                BY <3>1 DEF Moves
            <4> QED BY <1>0, <4>1, SameBalance
        <3>2. CASE procs' = procs
            BY <3>2 DEF Owing, Paid
        <3> QED BY <1>9, <3>1, <3>2, StepMoves
    <2>2. place' = place \/ place = "read"
        BY <1>9 DEF Sh!ReadPipe, Sh!ChildStep, Sh!ChildOpen, Sh!ChildWrite, Sh!ChildWritePipe,
                    Sh!ChildRead, Sh!ChildEnd
    <2> QED BY <1>1, <2>1, <2>2
<1>10. CASE UNCHANGED shellVars
    <2>1. Owing' = Owing /\ Paid' = Paid /\ place' = place
        BY <1>10 DEF shellVars, Owing, Paid
    <2> QED BY <1>1, <2>1
<1> QED BY <1>2, <1>3, <1>4, <1>5, <1>6, <1>7, <1>8, <1>9, <1>10 DEF Sh!ShellNext

LEMMA BalanceInductive == Spec => [](Control /\ Balance)
<1>1. Control /\ Balance /\ [Next]_vars => (Control /\ Balance)'
    BY ShellAlone, ControlSteps, BalanceSteps
<1> QED BY ControlStarts, BalanceStarts, <1>1, PTL DEF Spec

LEMMA ShellCardinality == \A S : Sh!Cardinality(S) = Cardinality(S)
BY DEF Sh!Cardinality, Cardinality

\* Whenever the prompt returns before a foreground command has been collected,
\* wait has taken a background job or a pipeline's child in its place.
THEOREM PromptWaits == Spec => []ForegroundWaited
<1>1. Control /\ Balance => ForegroundWaited
    <2> SUFFICES ASSUME Children, Balance, place = "prompt"
                 PROVE  Cardinality(Sh!Of({"exe", "redir_r", "redir_a"}) \ Sh!Waited)
                            <= Cardinality(Sh!Of({"background", "pipe"}) \cap Sh!Waited)
        BY ShellCardinality DEF Control, ForegroundWaited, Sh!ForegroundWaited
    <2>1. DOMAIN procs = 1..Len(procs) /\ \A p \in 1..Len(procs) : procs[p].kind \in Kinds
        BY ChildrenTypes
    <2>2. Sh!Of({"exe", "redir_r", "redir_a"}) \ Sh!Waited = Owing
        BY <2>1 DEF Sh!Of, Sh!Waited, Owing, Foregrounds
    <2>3. Sh!Of({"background", "pipe"}) \cap Sh!Waited = Paid
        BY <2>1 DEF Sh!Of, Sh!Waited, Paid, Foregrounds, Kinds
    <2> QED BY <2>2, <2>3 DEF Balance
<1> QED BY <1>1, BalanceInductive, PTL

------------------------------------------------------------------------------
(* What is in the file that redirections name *)

Redirections == {p \in 1..Len(procs) : procs[p].kind \in Redirected}
Chunks(p) == {k \in 1..Len(file) : file[k] = p}

\* While every redirection appends, each child's chunks are all there; while there
\* is one redirection that truncates, and the shell's own open was not late, the
\* file is what its child has written.
Output ==
    /\ file \in Seq(Nat) /\ \A k \in 1..Len(file) : file[k] <= Len(procs)
    /\ \A p \in Redirections : procs[p].late => procs[p].out > 0
    /\ Redirections = {} => file = <<>>
    /\ (\A p \in Redirections : procs[p].kind = "redir_a") =>
           \A p \in Redirections : Cardinality(Chunks(p)) = procs[p].out
    /\ \A p \in 1..Len(procs) :
           Redirections = {p} /\ procs[p].kind = "redir_r" /\ ~procs[p].late =>
               Len(file) = procs[p].out /\ \A k \in 1..Len(file) : file[k] = p

LEMMA OutputStarts == Init => Output
<1> SUFFICES ASSUME Sh!ShellInit PROVE Output
    BY DEF Init
<1>1. procs = <<>> /\ Len(procs) = 0 /\ file = <<>> /\ Len(file) = 0 /\ file \in Seq(Nat)
    BY EmptySeq DEF Sh!ShellInit
<1>2. Redirections = {}
    BY <1>1 DEF Redirections
<1> QED BY <1>1, <1>2 DEF Output

\* The children's kinds, and what the redirected ones have written, stay.
SameOutput ==
    /\ Len(procs') = Len(procs)
    /\ \A p \in 1..Len(procs) :
        /\ procs'[p].kind = procs[p].kind
        /\ procs[p].kind \in Redirected => procs'[p].out = procs[p].out
                                           /\ procs'[p].late = procs[p].late

LEMMA SameKeeps ==
    ASSUME Output, SameOutput, file' = file
    PROVE  Output'
<1>1. Redirections' = Redirections
    BY DEF Redirections, SameOutput
<1>2. \A p \in Redirections : /\ p \in 1..Len(procs) /\ procs'[p].kind = procs[p].kind
                              /\ procs'[p].out = procs[p].out /\ procs'[p].late = procs[p].late
    BY DEF Redirections, SameOutput
<1>3. \A p : Chunks(p)' = Chunks(p)
    BY DEF Chunks
<1>4. Len(procs') = Len(procs) /\ Len(file') = Len(file)
    BY DEF SameOutput
<1>5. (\A p \in Redirections' : procs'[p].kind = "redir_a") =>
          \A p \in Redirections' : Cardinality(Chunks(p)') = procs'[p].out
    BY <1>1, <1>2, <1>3 DEF Output
<1>6. ASSUME NEW p \in 1..Len(procs'), Redirections' = {p}, procs'[p].kind = "redir_r",
             ~procs'[p].late
      PROVE  Len(file') = procs'[p].out /\ \A k \in 1..Len(file') : file'[k] = p
    <2>1. p \in Redirections /\ p \in 1..Len(procs)
        BY <1>1, <1>6 DEF Redirections
    <2> QED BY <1>1, <1>2, <1>6, <2>1 DEF Output
<1>7. /\ file' \in Seq(Nat) /\ \A k \in 1..Len(file') : file'[k] <= Len(procs')
      /\ \A p \in Redirections' : procs'[p].late => procs'[p].out > 0
      /\ Redirections' = {} => file' = <<>>
    BY <1>1, <1>2, <1>4 DEF Output
<1> QED BY <1>5, <1>6, <1>7 DEF Output

LEMMA ForkOutput ==
    ASSUME Children, Output, NEW kind \in Kinds, NEW at \in {"open", "run"},
           NEW in \in 0..Len(procs), at = "open" => kind \in Redirected,
           Sh!Fork(kind, at, in), file' = file
    PROVE  Output'
<1> DEFINE new == Len(procs) + 1
<1>0. /\ Len(procs') = new /\ \A p \in 1..Len(procs) : procs'[p] = procs[p]
      /\ procs'[new] = [kind |-> kind, at |-> at, in |-> in,
                        out |-> 0, data |-> 0, late |-> FALSE]
    BY ForkFacts
<1>1. /\ procs'[new].kind = kind /\ procs'[new].out = 0 /\ procs'[new].late = FALSE
      /\ Len(procs) \in Nat /\ new \notin 1..Len(procs)
      /\ \A p : p \in 1..new <=> p \in 1..Len(procs) \/ p = new
    BY <1>0, ChildrenTypes
<1>2. \A p : Chunks(p)' = Chunks(p)
    BY DEF Chunks
<1>3. /\ file' \in Seq(Nat) /\ Len(file) \in Nat
      /\ \A k \in 1..Len(file) : file[k] \in Nat /\ file[k] <= Len(procs)
    BY LenProperties, ElementOfSeq DEF Output
<1>4. Chunks(new) = {}
    BY <1>1, <1>3 DEF Chunks
<1>5. \A k \in 1..Len(file') : file'[k] <= Len(procs')
    BY <1>0, <1>1, <1>3
<1>6. new \notin Redirections
    BY <1>1 DEF Redirections
<1> HIDE DEF new
<1>7. CASE kind \notin Redirected
    <2>1. Redirections' = Redirections
        BY <1>0, <1>1, <1>7 DEF Redirections
    <2>2. \A p \in Redirections : p \in 1..Len(procs) /\ procs'[p] = procs[p]
        BY <1>0 DEF Redirections
    <2>3. /\ \A p \in Redirections' : procs'[p].late => procs'[p].out > 0
          /\ Redirections' = {} => file' = <<>>
          /\ (\A p \in Redirections' : procs'[p].kind = "redir_a") =>
                 \A p \in Redirections' : Cardinality(Chunks(p)') = procs'[p].out
        BY <1>2, <2>1, <2>2 DEF Output
    <2>4. ASSUME NEW p \in 1..Len(procs'), Redirections' = {p}, procs'[p].kind = "redir_r",
                 ~procs'[p].late
          PROVE  Len(file') = procs'[p].out /\ \A k \in 1..Len(file') : file'[k] = p
        BY <2>1, <2>2, <2>4 DEF Output
    <2> QED BY <1>3, <1>5, <2>3, <2>4 DEF Output
<1>8. CASE kind \in Redirected
    <2>1. Redirections' = Redirections \cup {new}
        BY <1>0, <1>1, <1>8 DEF Redirections
    <2>2. \A p \in Redirections : p \in 1..Len(procs) /\ procs'[p] = procs[p]
        BY <1>0 DEF Redirections
    <2>3. /\ \A p \in Redirections' : procs'[p].late => procs'[p].out > 0
          /\ Redirections' # {}
        BY <1>1, <2>1, <2>2 DEF Output
    <2>4. ASSUME \A p \in Redirections' : procs'[p].kind = "redir_a", NEW p \in Redirections'
          PROVE  Cardinality(Chunks(p)') = procs'[p].out
        <3>1. CASE p = new
            BY <1>1, <1>2, <1>4, <3>1, FS_EmptySet
        <3>2. CASE p \in Redirections
            <4>1. \A q \in Redirections : procs[q].kind = "redir_a"
                BY <2>1, <2>2, <2>4
            <4> QED BY <1>2, <2>2, <3>2, <4>1 DEF Output
        <3> QED BY <2>1, <3>1, <3>2
    <2>5. ASSUME NEW p \in 1..Len(procs'), Redirections' = {p}, procs'[p].kind = "redir_r",
                 ~procs'[p].late
          PROVE  Len(file') = procs'[p].out /\ \A k \in 1..Len(file') : file'[k] = p
        <3>1. p = new /\ Redirections = {}
            BY <1>6, <2>1, <2>5
        <3>2. file' = <<>> /\ Len(file') = 0
            BY <3>1, EmptySeq DEF Output
        <3> QED BY <1>1, <3>1, <3>2
    <2> QED BY <1>3, <1>5, <2>3, <2>4, <2>5 DEF Output
<1> QED BY <1>7, <1>8

\* An open that may truncate: nothing has been written, or the child's lateness tells.
LEMMA TruncateKeeps ==
    ASSUME Output, Children, NEW p \in Redirections, Len(procs') = Len(procs),
           \A q \in 1..Len(procs) : /\ procs'[q].kind = procs[q].kind
                                    /\ procs'[q].out = procs[q].out
                                    /\ q # p => procs'[q].late = procs[q].late,
           procs'[p].late => procs[p].out > 0,
           ~procs'[p].late => procs[p].out = 0 \/ (file' = file /\ ~procs[p].late),
           file' = file \/ (file' = <<>> /\ procs[p].kind = "redir_r")
    PROVE  Output'
<1>1. Redirections' = Redirections
    BY DEF Redirections
<1>2. p \in 1..Len(procs) /\ procs[p].out \in Nat /\ procs[p].kind \in Redirected
      /\ \A q \in Redirections : q \in 1..Len(procs)
    BY ChildrenTypes DEF Redirections
<1>3. /\ file' \in Seq(Nat) /\ \A k \in 1..Len(file') : file'[k] <= Len(procs')
      /\ \A q \in Redirections' : procs'[q].late => procs'[q].out > 0
      /\ Redirections' # {}
    <2>1. \A q \in Redirections' : procs'[q].late => procs'[q].out > 0
        BY <1>1, <1>2 DEF Output
    <2>2. file' \in Seq(Nat) /\ \A k \in 1..Len(file') : file'[k] <= Len(procs')
        <3>1. CASE file' = file
            BY <3>1 DEF Output
        <3>2. CASE file' = <<>>
            BY <3>2, EmptySeq
        <3> QED BY <3>1, <3>2
    <2> QED BY <1>1, <2>1, <2>2
<1>4. ASSUME \A q \in Redirections' : procs'[q].kind = "redir_a", NEW q \in Redirections'
      PROVE  Cardinality(Chunks(q)') = procs'[q].out
    <2>1. \A x \in Redirections : procs[x].kind = "redir_a"
        BY <1>1, <1>2, <1>4
    <2>2. file' = file
        BY <2>1
    <2>3. Chunks(q)' = Chunks(q)
        BY <2>2 DEF Chunks
    <2> QED BY <1>1, <1>2, <2>1, <2>3 DEF Output
<1>5. ASSUME NEW q \in 1..Len(procs'), Redirections' = {q}, procs'[q].kind = "redir_r",
             ~procs'[q].late
      PROVE  Len(file') = procs'[q].out /\ \A k \in 1..Len(file') : file'[k] = q
    <2>1. q = p /\ Redirections = {p} /\ procs[p].kind = "redir_r" /\ procs'[p].out = procs[p].out
        BY <1>1, <1>2, <1>5
    <2>2. ~procs[p].late
        BY <1>2, <1>5, <2>1 DEF Output
    <2>3. Len(file) = procs[p].out /\ \A k \in 1..Len(file) : file[k] = p
        BY <1>2, <2>1, <2>2 DEF Output
    <2>4. CASE file' = file
        BY <2>1, <2>3, <2>4
    <2>5. CASE file' # file
        <3>1. file' = <<>> /\ procs[p].out = 0
            BY <1>5, <2>1, <2>5
        <3>2. Len(file') = 0
            BY <3>1, EmptySeq
        <3> QED BY <2>1, <3>1, <3>2
    <2> QED BY <2>4, <2>5
<1> QED BY <1>3, <1>4, <1>5 DEF Output

\* One more chunk of a child that appends.
LEMMA AppendKeeps ==
    ASSUME Output, Children, NEW p \in Redirections, procs[p].kind = "redir_a",
           Len(procs') = Len(procs),
           \A q \in 1..Len(procs) : /\ procs'[q].kind = procs[q].kind
                                    /\ procs'[q].late = procs[q].late
                                    /\ q # p => procs'[q].out = procs[q].out,
           procs'[p].out = procs[p].out + 1,
           file' = Append(file, p)
    PROVE  Output'
<1>1. Redirections' = Redirections
    BY DEF Redirections
<1>2. /\ p \in 1..Len(procs) /\ p \in Nat /\ p <= Len(procs) /\ procs[p].out \in Nat
      /\ \A q \in Redirections : q \in 1..Len(procs)
    BY ChildrenTypes DEF Redirections
<1>3. /\ file \in Seq(Nat) /\ Len(file) \in Nat /\ file' \in Seq(Nat) /\ Len(file') = Len(file) + 1
      /\ file'[Len(file) + 1] = p /\ \A k \in 1..Len(file) : file'[k] = file[k]
    BY <1>2, AppendProperties, LenProperties DEF Output
<1>4. \A k : k \in 1..Len(file') <=> k \in 1..Len(file) \/ k = Len(file) + 1
    BY <1>3
<1>5. \A k \in 1..Len(file') : file'[k] <= Len(procs')
    BY <1>2, <1>3, <1>4 DEF Output
<1>6. ASSUME NEW q \in Redirections', procs'[q].late PROVE procs'[q].out > 0
    <2>1. procs[q].late /\ procs[q].out > 0 /\ procs[q].out \in Nat
        BY <1>1, <1>2, <1>6, ChildrenTypes DEF Output
    <2> QED BY <1>1, <1>2, <2>1
<1>7. ASSUME \A q \in Redirections' : procs'[q].kind = "redir_a", NEW q \in Redirections'
      PROVE  Cardinality(Chunks(q)') = procs'[q].out
    <2>1. \A x \in Redirections : procs[x].kind = "redir_a"
        BY <1>1, <1>2, <1>7
    <2>2. Cardinality(Chunks(q)) = procs[q].out
        BY <1>1, <2>1 DEF Output
    <2>3. CASE q # p
        <3>1. Chunks(q)' = Chunks(q)
            BY <1>3, <1>4, <2>3 DEF Chunks
        <3> QED BY <1>1, <1>2, <2>2, <2>3, <3>1
    <2>4. CASE q = p
        <3> DEFINE new == Len(file) + 1
        <3>1. Chunks(q)' = Chunks(q) \cup {new} /\ new \notin Chunks(q)
            BY <1>3, <1>4, <2>4 DEF Chunks
        <3>2. IsFiniteSet(1..Len(file)) /\ Chunks(q) \in SUBSET (1..Len(file))
            BY <1>3, FS_Interval DEF Chunks
        <3>3. IsFiniteSet(Chunks(q))
            BY <3>2, FS_Subset, Zenon
        <3> HIDE DEF new
        <3>4. Cardinality(Chunks(q) \cup {new}) = Cardinality(Chunks(q)) + 1
            BY <3>1, <3>3, FS_AddElement
        <3> QED BY <2>2, <2>4, <3>1, <3>4
    <2> QED BY <2>3, <2>4
<1>8. ASSUME NEW q \in 1..Len(procs'), Redirections' = {q}, procs'[q].kind = "redir_r",
             ~procs'[q].late
      PROVE  FALSE
    BY <1>1, <1>2, <1>8
<1> QED BY <1>1, <1>3, <1>5, <1>6, <1>7, <1>8 DEF Output

\* One more chunk of a child that writes where it is.
LEMMA WriteKeeps ==
    ASSUME Output, Children, NEW p \in Redirections, procs[p].kind = "redir_r",
           Len(procs') = Len(procs),
           \A q \in 1..Len(procs) : /\ procs'[q].kind = procs[q].kind
                                    /\ procs'[q].late = procs[q].late
                                    /\ q # p => procs'[q].out = procs[q].out,
           procs'[p].out = procs[p].out + 1,
           file' = Sh!WriteAt(procs[p].out + 1, p)
    PROVE  Output'
<1> DEFINE offset == procs[p].out + 1
           length == IF Len(file) >= offset THEN Len(file) ELSE offset
           write(k) == IF k = offset THEN p ELSE IF k <= Len(file) THEN file[k] ELSE 0
<1>1. Redirections' = Redirections
    BY DEF Redirections
<1>2. /\ p \in 1..Len(procs) /\ p \in Nat /\ p <= Len(procs) /\ procs[p].out \in Nat
      /\ \A q \in Redirections : q \in 1..Len(procs)
    BY ChildrenTypes DEF Redirections
<1>3. /\ file \in Seq(Nat) /\ Len(file) \in Nat
      /\ \A k \in 1..Len(file) : file[k] \in Nat /\ file[k] <= Len(procs)
    BY LenProperties, ElementOfSeq DEF Output
<1>4. length \in Nat /\ offset \in Nat
    BY <1>2, <1>3
<1>5. \A k \in 1..length : write(k) \in Nat /\ write(k) <= Len(procs)
    BY <1>2, <1>3, <1>4
<1>6. file' = [k \in 1..length |-> write(k)]
    BY DEF Sh!WriteAt
<1>7. Len(file) = procs[p].out => length = offset /\ \A k \in 1..length : k = offset \/ k \in 1..Len(file)
    BY <1>2, <1>3
<1>8. \A k \in 1..Len(file) : k <= Len(file)
    BY <1>3
<1> HIDE DEF length
<1>9. /\ file' \in Seq(Nat) /\ Len(file') = length
      /\ \A k \in 1..length : file'[k] = write(k)
    <2>1. file' \in [1..length -> Nat]
        BY <1>5, <1>6
    <2>2. file' \in Seq(Nat)
        BY <1>4, <2>1, SeqDef
    <2>3. Len(file') = length
        BY <1>4, <1>6, <2>2, LenProperties
    <2> QED BY <1>6, <2>2, <2>3
<1>10. ASSUME NEW q \in Redirections', procs'[q].late PROVE procs'[q].out > 0
    <2>1. procs[q].late /\ procs[q].out > 0 /\ procs[q].out \in Nat
        BY <1>1, <1>2, <1>10, ChildrenTypes DEF Output
    <2> QED BY <1>1, <1>2, <2>1
<1>11. ~ \A q \in Redirections' : procs'[q].kind = "redir_a"
    BY <1>1, <1>2
<1>12. ASSUME NEW q \in 1..Len(procs'), Redirections' = {q}, procs'[q].kind = "redir_r",
              ~procs'[q].late
       PROVE  Len(file') = procs'[q].out /\ \A k \in 1..Len(file') : file'[k] = q
    <2>1. q = p /\ Redirections = {p} /\ ~procs[p].late
        BY <1>1, <1>2, <1>12
    <2>2. Len(file) = procs[p].out /\ \A k \in 1..Len(file) : file[k] = p
        BY <1>2, <2>1 DEF Output
    <2>3. length = offset /\ \A k \in 1..length : write(k) = p
        BY <1>7, <1>8, <2>2
    <2> QED BY <1>9, <2>1, <2>3
<1>13. \A k \in 1..Len(file') : file'[k] <= Len(procs')
    BY <1>5, <1>9
<1>14. Redirections' # {}
    BY <1>1
<1> HIDE DEF offset, write
<1> QED BY <1>9, <1>10, <1>11, <1>12, <1>13, <1>14 DEF Output

LEMMA ChildOutput ==
    ASSUME Control, Output, NEW p \in DOMAIN procs, Sh!ChildStep(p)
    PROVE  Output'
<1>1. Children /\ p \in 1..Len(procs) /\ DOMAIN procs = 1..Len(procs)
    BY ChildrenTypes DEF Control
<1>2. /\ procs[p] \in Child /\ procs[p].out \in Nat /\ procs[p].late \in BOOLEAN
      /\ procs \in Seq(Child)
    BY <1>1, ChildrenTypes DEF Children
<1>3. Len(procs') = Len(procs) /\ \A q \in 1..Len(procs) : procs'[q].kind = procs[q].kind
                                                          /\ procs'[q].late = procs[q].late
    BY <1>1, ChildFacts DEF Moves
<1>4. CASE Sh!ChildOpen(p)
    <2>1. p \in Redirections /\ procs[p].out = 0
        BY <1>1, <1>4 DEF Sh!ChildOpen, Children, Redirections
    <2>2. PICK to \in {"run", "zombie"} : procs' = [procs EXCEPT ![p].at = to]
        BY <1>4 DEF Sh!ChildOpen
    <2>3. \A q \in 1..Len(procs) : procs'[q].out = procs[q].out
        BY <1>1, <1>2, <2>2 DEF Child
    <2>4. file' = file \/ (file' = <<>> /\ procs[p].kind = "redir_r")
        BY <1>4 DEF Sh!ChildOpen, Sh!OpenFile
    <2>5. procs'[p].late => procs[p].out > 0
        BY <1>1, <1>3, <2>1 DEF Output
    <2> QED BY <1>1, <1>3, <2>1, <2>3, <2>4, <2>5, TruncateKeeps
<1>5. CASE Sh!ChildWrite(p)
    <2>1. /\ procs' = [procs EXCEPT ![p].out = @ + 1] /\ procs[p].kind \in Redirected
          /\ file' = Sh!Written(p)
        BY <1>5 DEF Sh!ChildWrite, Redirected
    <2>2. p \in Redirections
        BY <1>1, <2>1 DEF Redirections
    <2>3. procs'[p].out = procs[p].out + 1
          /\ \A q \in 1..Len(procs) : q # p => procs'[q].out = procs[q].out
        BY <1>1, <1>2, <2>1 DEF Child
    <2>4. CASE procs[p].kind = "redir_a"
        <3>1. file' = Append(file, p)
            BY <2>1, <2>4 DEF Sh!Written
        <3> QED BY <1>1, <1>3, <2>2, <2>3, <2>4, <3>1, AppendKeeps
    <2>5. CASE procs[p].kind = "redir_r"
        <3>1. file' = Sh!WriteAt(procs[p].out + 1, p)
            BY <2>1, <2>5 DEF Sh!Written
        <3> QED BY <1>1, <1>3, <2>2, <2>3, <2>5, <3>1, WriteKeeps
    <2> QED BY <2>1, <2>4, <2>5 DEF Redirected
<1>6. CASE Sh!ChildWritePipe(p)
    <2>1. \A q \in 1..Len(procs) : q # p => procs'[q] = procs[q]
        BY <1>1, <1>6 DEF Sh!ChildWritePipe
    <2>2. file' = file /\ procs[p].kind \notin Redirected
        BY <1>6 DEF Sh!ChildWritePipe, Redirected
    <2> QED BY <1>3, <2>1, <2>2, SameKeeps DEF SameOutput
<1>7. CASE Sh!ChildRead(p)
    <2>1. /\ procs[p].in \in 1..Len(procs) /\ procs[procs[p].in].data > 0
          /\ procs' = Sh!Drained(procs[p].in, 1) /\ file' = file
        BY <1>1, <1>7, ChildrenTypes DEF Sh!ChildRead, Children
    <2>2. PICK q \in 1..Len(procs) : procs[q].data > 0 /\ procs' = Sh!Drained(q, 1)
        BY <2>1
    <2>3. 1 \in 1..procs[q].data
        BY <1>1, <2>2, ChildrenTypes
    <2>4. \A x \in 1..Len(procs) : procs'[x].out = procs[x].out
        BY <1>1, <2>2, <2>3, DrainedFacts
    <2> QED BY <1>3, <2>1, <2>4, SameKeeps DEF SameOutput
<1>8. CASE Sh!ChildEnd(p)
    <2>1. procs' = [procs EXCEPT ![p].at = "zombie"] /\ file' = file
        BY <1>8 DEF Sh!ChildEnd
    <2>2. \A q \in 1..Len(procs) : procs'[q].out = procs[q].out
        BY <1>1, <1>2, <2>1 DEF Child
    <2> QED BY <1>3, <2>1, <2>2, SameKeeps DEF SameOutput
<1> QED BY <1>4, <1>5, <1>6, <1>7, <1>8 DEF Sh!ChildStep

LEMMA OutputSteps == Control /\ Output /\ [Sh!ShellNext]_shellVars => Output'
<1> SUFFICES ASSUME Control, Output, [Sh!ShellNext]_shellVars PROVE Output'
    OBVIOUS
<1>0. /\ Children /\ Newest /\ DOMAIN procs = 1..Len(procs) /\ Len(procs) \in Nat
    BY ChildrenTypes DEF Control
<1>1. CASE UNCHANGED <<procs, file>>
    BY <1>1, SameKeeps DEF SameOutput
<1>2. CASE Sh!ReadLine \/ Sh!Stop \/ Sh!execute_cddir \/ Sh!ReadGarbage \/ Sh!OpenSink
           \/ UNCHANGED shellVars
    BY <1>1, <1>2 DEF Sh!ReadLine, Sh!Stop, Sh!execute_cddir, Sh!ReadGarbage, Sh!OpenSink, shellVars
<1>3. CASE Sh!execute_exe
    <2>1. PICK kind \in Kinds : Sh!Fork(kind, "run", 0)
        BY <1>3 DEF Sh!execute_exe, Kinds
    <2>2. file' = file /\ 0 \in 0..Len(procs) /\ "run" \in {"open", "run"} /\ "run" # "open"
        BY <1>0, <1>3 DEF Sh!execute_exe
    <2> QED BY <1>0, <2>1, <2>2, ForkOutput
<1>4. CASE Sh!ForkRedirected
    <2>1. PICK kind \in Redirected : Sh!Fork(kind, "open", 0)
        BY <1>4 DEF Sh!ForkRedirected, Redirected
    <2>2. file' = file /\ 0 \in 0..Len(procs) /\ kind \in Kinds
        BY <1>0, <1>4 DEF Sh!ForkRedirected, Redirected, Kinds
    <2> QED BY <1>0, <2>1, <2>2, ForkOutput
<1>5. CASE Sh!Poll
    <2>1. file' = file
        BY <1>5 DEF Sh!Poll
    <2> QED BY <1>5, <2>1, PollFacts, SameKeeps DEF SameOutput
<1>6. CASE Sh!ShellOpen
    <2>1. /\ Len(procs') = Len(procs) /\ Len(procs) \in 1..Len(procs)
          /\ \A p \in 1..Len(procs) :
               /\ procs'[p].kind = procs[p].kind /\ procs'[p].at = procs[p].at
               /\ procs'[p].out = procs[p].out
               /\ p # Len(procs) => procs'[p].late = procs[p].late
          /\ ~procs'[Len(procs)].late => procs[Len(procs)].out = 0
        BY <1>6, OpenFacts
    <2>2. procs'[Len(procs)].late => procs[Len(procs)].out > 0
        <3>1. procs[Len(procs)] \in Child
            BY <1>0, <2>1, ChildrenTypes
        <3>2. procs' = [procs EXCEPT ![Len(procs)].late = procs[Len(procs)].out > 0]
            BY <1>6 DEF Sh!ShellOpen
        <3> QED BY <1>0, <2>1, <3>1, <3>2 DEF Child
    <2>3. Len(procs) \in Redirections
        BY <1>0, <1>6, <2>1 DEF Newest, Redirections, Sh!ShellOpen
    <2>4. file' = file \/ (file' = <<>> /\ procs[Len(procs)].kind = "redir_r")
        BY <1>6 DEF Sh!ShellOpen, Sh!OpenFile, Sh!Last
    <2> QED BY <1>0, <2>1, <2>2, <2>3, <2>4, TruncateKeeps
<1>7. CASE Sh!Wait
    <2>1. file' = file
        BY <1>7 DEF Sh!Wait
    <2>2. CASE procs' = procs
        BY <1>1, <2>1, <2>2
    <2>3. CASE \E p \in 1..Len(procs) :
                  procs[p].at = "zombie" /\ procs' = [procs EXCEPT ![p].at = "reaped"]
        <3>1. PICK p \in 1..Len(procs) :
                  procs[p].at = "zombie" /\ procs' = [procs EXCEPT ![p].at = "reaped"]
            BY <2>3
        <3>2. /\ Len(procs') = Len(procs) /\ procs'[p] = [procs[p] EXCEPT !.at = "reaped"]
              /\ \A q \in 1..Len(procs) : q # p => procs'[q] = procs[q]
            BY <1>0, <3>1, CollectFacts
        <3>3. /\ procs'[p].kind = procs[p].kind /\ procs'[p].out = procs[p].out
              /\ procs'[p].late = procs[p].late
            BY <1>0, <3>2, ChildrenTypes DEF Child
        <3> QED BY <2>1, <3>2, <3>3, SameKeeps DEF SameOutput
    <2> QED BY <1>7, <2>2, <2>3, WaitFacts
<1>8. CASE Sh!Stage
    <2>1. PICK in \in 0..Len(procs) : Sh!Fork("pipe", "run", in)
        BY <1>0, <1>8 DEF Sh!Stage
    <2>2. file' = file /\ "pipe" \in Kinds /\ "run" \in {"open", "run"} /\ "run" # "open"
        BY <1>8 DEF Sh!Stage, Kinds
    <2> QED BY <1>0, <2>1, <2>2, ForkOutput
<1>9. CASE Sh!ReadPipe
    <2>1. base + i \in 1..Len(procs) /\ file' = file
        BY <1>0, <1>9 DEF Sh!ReadPipe, Control, ShPlaces
    <2>2. PICK p \in 1..Len(procs) : p = base + i
        BY <2>1
    <2>3. (\E k \in 1..procs[p].data : procs' = Sh!Drained(p, k)) \/ procs' = procs
        BY <1>9, <2>2 DEF Sh!ReadPipe
    <2>4. CASE procs' = procs
        BY <1>1, <2>1, <2>4
    <2>5. CASE \E k \in 1..procs[p].data : procs' = Sh!Drained(p, k)
        BY <1>0, <2>1, <2>5, DrainedFacts, SameKeeps DEF SameOutput, Moves
    <2> QED BY <2>3, <2>4, <2>5
<1>10. CASE \E p \in DOMAIN procs : Sh!ChildStep(p)
    BY <1>10, ChildOutput
<1> QED BY <1>2, <1>3, <1>4, <1>5, <1>6, <1>7, <1>8, <1>9, <1>10 DEF Sh!ShellNext

\* One redirection alone, or any number that append, lose no output but to the
\* shell's own open when it comes after the child's first write.
THEOREM NothingOverwritten == Spec => []OutputKept
<1>1. Control /\ Output /\ [Next]_vars => (Control /\ Output)'
    BY ShellAlone, ControlSteps, OutputSteps
<1>2. Control /\ Output => OutputKept
    <2> SUFFICES ASSUME Children, Output,
                        \/ Redirections \subseteq Sh!Of({"redir_a"})
                        \/ Cardinality(Redirections) = 1,
                        NEW p \in Redirections,
                        Cardinality({k \in DOMAIN file : file[k] = p}) < procs[p].out
                 PROVE  procs[p].kind = "redir_r" /\ procs[p].late
        <3>1. Children => Sh!Of({"redir_r", "redir_a"}) = Redirections
            BY ChildrenTypes DEF Sh!Of, Redirections, Redirected
        <3> QED BY <3>1, ShellCardinality DEF Control, OutputKept, Sh!OutputKept, Sh!Lost
    <2>1. /\ DOMAIN procs = 1..Len(procs) /\ p \in 1..Len(procs) /\ procs[p].out \in Nat
          /\ DOMAIN file = 1..Len(file) /\ Len(file) \in Nat /\ procs[p].kind \in Redirected
          /\ procs[p].late \in BOOLEAN
        BY ChildrenTypes, LenProperties DEF Output, Redirections
    <2>2. Cardinality(Chunks(p)) < procs[p].out
        BY <2>1 DEF Chunks
    <2>3. ~ \A q \in Redirections : procs[q].kind = "redir_a"
        BY <2>1, <2>2 DEF Output
    <2>4. Cardinality(Redirections) = 1
        BY <2>3 DEF Sh!Of
    <2>5. Redirections = {p}
        <3>1. IsFiniteSet(1..Len(procs)) /\ Redirections \in SUBSET (1..Len(procs))
            BY ChildrenTypes, FS_Interval DEF Redirections
        <3>2. IsFiniteSet(Redirections)
            BY <3>1, FS_Subset, Zenon
        <3>3. \E x : Redirections = {x}
            BY <2>4, <3>2, FS_Singleton
        <3> QED BY <3>3
    <2>6. procs[p].kind = "redir_r"
        BY <2>1, <2>3, <2>5 DEF Redirected
    <2>7. CASE ~procs[p].late
        <3>1. Len(file) = procs[p].out /\ \A k \in 1..Len(file) : file[k] = p
            BY <2>1, <2>5, <2>6, <2>7 DEF Output
        <3>2. Chunks(p) = 1..Len(file)
            BY <3>1 DEF Chunks
        <3>3. Cardinality(Chunks(p)) = Len(file)
            <4> DEFINE first == 1
                       last == Len(file)
            <4>1. first \in Int /\ last \in Int
                BY <2>1
            <4> HIDE DEF first, last
            <4>2. Cardinality(first..last) = IF first > last THEN 0 ELSE last - first + 1
                BY <4>1, FS_Interval
            <4> QED BY <2>1, <3>2, <4>2 DEF first, last
        <3> QED BY <2>1, <2>2, <3>1, <3>3
    <2> QED BY <2>1, <2>6, <2>7
<1> QED BY ControlStarts, OutputStarts, <1>1, <1>2, PTL DEF Spec

------------------------------------------------------------------------------
(* The types *)

LEMMA EchoTyped == Spec => []EcP!Typed
<1>1. Init => EcP!Typed
    BY EchoAssumed, EchoBegins, EcP!TypesStart
<1>2. EcP!IInv' /\ EcP!Typed /\ [Next]_vars => EcP!Typed'
    BY EchoAssumed, EchoAlone, EcP!TypesStep
<1> QED BY <1>1, <1>2, EchoInductive, PTL DEF Spec

\* Every variable of every program has its type.
THEOREM ProgramsTyped == Spec => []TypeOK
<1>1. Control /\ Homes => Sh!ShellTypeOK
    <2> SUFFICES ASSUME Children, ShPlaces, Homes PROVE Sh!ShellTypeOK
        BY DEF Control
    <2>1. \A p \in DOMAIN procs :
              /\ procs[p].at \in {"open", "run", "blocked", "zombie", "reaped", "polled"}
              /\ procs[p].data \in 0..PipeCap /\ procs[p].in < p
        BY ChildrenTypes DEF Children, Places
    <2>2. /\ {cwd, prev} \cup been \subseteq Dirs
          /\ Len(curdir2) < MAXPATH /\ Len(olddir) < MAXPATH
        BY DEF Homes
    <2> QED BY <2>1, <2>2 DEF ShPlaces, Array, Sh!Vertices, Sh!ShellTypeOK
<1>2. LsInv => Dir!LsTypeOK
    BY DEF LsInv, LsPlaces, Dir!LsTypeOK
<1>3. EcP!Typed => Ec!EchoTypeOK
    BY DEF EcP!Typed, EcP!EchoTypeOK, Ec!EchoTypeOK
<1>4. TabP!IInv => Tab!HashLockTypeOK
    BY DEF TabP!IInv, TabP!Typed, TabP!HashLockTypeOK, Tab!HashLockTypeOK
<1> QED BY <1>1, <1>2, <1>3, <1>4, ControlInductive, HomesInductive, LsInductive, EchoTyped,
        HashLockInductive, PTL DEF TypeOK
==============================================================================
