------------------------------- MODULE Programs -------------------------------
(***************************************************************************)
(* The small programs in one specification, so that one run checks them:   *)
(* Shell, Ls, Echo and HashLock share nothing.  In the first state program *)
(* names the one that runs; the others stay where they start.              *)
(***************************************************************************)
EXTENDS Integers, Sequences

CONSTANTS Lines, Dirs, Name, Home, MAXPATH, PipeCap, MaxLines, MaxProcs, MaxOut  \* Shell
CONSTANTS Directories, Size, Letters, Rows              \* Ls
CONSTANTS Addresses, MAXSLEEP, MaxRequests              \* Echo
CONSTANTS Threads, Nobody, NHASH, Ids, MaxFoo, MaxHolds \* HashLock

VARIABLES place, lines, L, args, here, base, i, waits, procs, file, stdin,
          cwd, curdir2, olddir, dirsign, prev, been
shellVars == <<place, lines, L, args, here, base, i, waits, procs, file, stdin,
               cwd, curdir2, olddir, dirsign, prev, been>>

VARIABLES step, given, cnd, dir, left, ls, count, m, n, read, printed
lsVars == <<step, given, cnd, dir, left, ls, count, m, n, read, printed>>

VARIABLES client, address, numsec, slept, sockets, sent,
          server, bound, child, shown, toServer, toClient, reset
echoVars == <<client, address, numsec, slept, sockets, sent,
              server, bound, child, shown, toServer, toClient, reset>>

VARIABLES pc, hashlock, fh, foo, number, fp, seen, holds, counted, raced
hashVars == <<pc, hashlock, fh, foo, number, fp, seen, holds, counted, raced>>

VARIABLE program
vars == <<program, shellVars, lsVars, echoVars, hashVars>>

Sh == INSTANCE Shell
Dir == INSTANCE Ls
Ec == INSTANCE Echo
Tab == INSTANCE HashLock

ASSUME ProgramsAssumption ==
    Sh!ShellAssumption /\ Dir!LsAssumption /\ Ec!EchoAssumption /\ Tab!HashLockAssumption

Init ==
    /\ program \in {"myshell3", "ls.3", "echo", "hashlock"}
    /\ Sh!ShellInit /\ Dir!LsInit /\ Ec!EchoInit /\ Tab!HashLockInit

ShellStep ==
    /\ program = "myshell3" /\ Sh!ShellNext
    /\ UNCHANGED <<program, lsVars, echoVars, hashVars>>
LsStep ==
    /\ program = "ls.3" /\ Dir!LsNext
    /\ UNCHANGED <<program, shellVars, echoVars, hashVars>>
EchoStep ==
    /\ program = "echo" /\ Ec!EchoNext
    /\ UNCHANGED <<program, shellVars, lsVars, hashVars>>
HashLockStep ==
    /\ program = "hashlock" /\ Tab!HashLockNext
    /\ UNCHANGED <<program, shellVars, lsVars, echoVars>>

Next == ShellStep \/ LsStep \/ EchoStep \/ HashLockStep

Spec == Init /\ [][Next]_vars

------------------------------------------------------------------------------
(* The properties, each stated and explained in its module *)

\* Every variable of every program has its type.
TypeOK == Sh!ShellTypeOK /\ Dir!LsTypeOK /\ Ec!EchoTypeOK /\ Tab!HashLockTypeOK

\* Shell: the prompt waits for a foreground command, but for what wait(NULL) takes.
ForegroundWaited == Sh!ForegroundWaited
\* Shell: wait is not for ever, but after the lines it names.
WaitReturns == Sh!WaitReturns
\* Shell: when cd - goes back.
DashReturns == Sh!DashReturns
\* Shell: redirected output is lost only to the shell's own truncation.
OutputKept == Sh!OutputKept
\* Ls: one row per file, with its name and path, as long as the table can hold them.
RowsAreFiles == Dir!RowsAreFiles
\* Ls: whose sizes are in the rows and sorted by.
SizesBehind == Dir!SizesBehind
\* Echo: connect_retry's sleeps and sockets.
RetriesBounded == Ec!RetriesBounded
\* Echo: a client that waits is answered.
SomethingComes == Ec!SomethingComes
\* Echo: no request is shown twice while the client is there.
ShownOnce == Ec!ShownOnce
\* HashLock: chains and reference counts are complete.
TableComplete == Tab!TableComplete
\* HashLock: what the global number counts.
NumberCounts == Tab!NumberCounts
==============================================================================
