-------------------------------- MODULE Shell --------------------------------
(***************************************************************************)
(* The shell of myShell/myshell3.c: one process that reads a line, forks   *)
(* the commands of it and waits, and the children it has forked.           *)
(*                                                                         *)
(* A child is a record: what kind of line it comes from, where it is, the  *)
(* child whose output is its standard input, how much it has written, how  *)
(* much of that is unread in its pipe, and whether the shell's own open of *)
(* the file came after its first write.  A chunk of output is one write.   *)
(* A child whose execvp fails exits in execute_exe; in a pipeline or a     *)
(* redirection it goes on as another shell, which to this one is a child   *)
(* that runs on.                                                           *)
(***************************************************************************)
EXTENDS Integers, Sequences, SequencesExt, FiniteSets

CONSTANTS
    Lines,      \* the lines typed, each the sequence of its words
    Dirs,
    Name,       \* the absolute name of each directory, in pieces of equal length
    Home,       \* where the shell is started
    MAXPATH,    \* the size of olddir and curdir2, in such pieces
    PipeCap,    \* what a pipe holds, in chunks
    MaxLines,   \* bound: lines read
    MaxProcs,   \* bound: no line is read once so many children were forked
    MaxOut      \* bound: chunks written by a child

VARIABLES
    place,      \* where the shell is
    lines,      \* lines read so far
    L,          \* the sign of each vertex: a line overwrites those it has
    args,       \* the words of the first vertex
    here,       \* the vertex a function's own L points to
    base,       \* children forked before this line
    i,          \* the code's i in execute_pipe
    waits,      \* calls of wait still to make
    procs,      \* the children, in the order they were forked
    file,       \* the file redirections name: who wrote each chunk, 0 for a hole
    stdin,      \* what descriptor 0 of the shell is
    cwd, curdir2, olddir, dirsign,
    prev,       \* history: where the shell was before the last cd
    been        \* history: where it was before the cds before that

dirs == <<cwd, curdir2, olddir, dirsign, prev, been>>
line == <<lines, L, args, here, base>>
shellVars == <<place, line, i, waits, procs, file, stdin, dirs>>

Vertices == 1..8

ShellInit ==
    /\ place = "prompt" /\ lines = 0 /\ base = 0
    /\ L = [v \in Vertices |-> 0] /\ args = <<>> /\ here = 1
    /\ i = 0 /\ waits = 0 /\ procs = <<>> /\ file = <<>> /\ stdin = "terminal"
    /\ cwd = Home /\ curdir2 = <<>> /\ olddir = <<>> /\ dirsign = 1
    /\ prev = Home /\ been = {}

------------------------------------------------------------------------------
(* Reading a line *)

Sign == [w \in {"|", ">", "<", ">>", "&", "&&"} |->
    CASE w = "|" -> 1 [] w = ">" -> 2 [] w = "<" -> 3 [] w = ">>" -> 4
      [] w = "&" -> 5 [] OTHER -> 0]   \* a word that only begins like an operator

Vertex == [sign |-> 0, args |-> <<>>]

Word(vertices, w) ==
    LET n == Len(vertices) IN
    IF w \in DOMAIN Sign
    THEN Append([vertices EXCEPT ![n].sign = Sign[w]], Vertex)
    ELSE [vertices EXCEPT ![n].args = Append(@, w)]

command_split(words) == FoldLeft(Word, <<Vertex>>, words)

Words == UNION {ToSet(words) : words \in Lines}

\* The last vertex has no sign.  Lines of more than seven vertices are left out, as
\* 137 can go two further, and so is `<` but as the first operator: behind `|`
\* dup2 gets an fd nobody has set (172).
Split(vertices) ==
    /\ vertices \in Seq([sign : 0..5, args : Seq(Words)])
    /\ Len(vertices) \in 1..7 /\ vertices[Len(vertices)].sign = 0
    /\ \A v \in 2..Len(vertices) : vertices[v].sign # 3

\* The last line but one is about the fold above; TLC evaluates it for the lines it
\* runs.
ShellAssumption ==
    /\ Home \in Dirs /\ MAXPATH \in Nat \ {0}
    /\ Name \in [Dirs -> Seq(STRING) \ {<<>>}]
    /\ \A d, e \in Dirs : Name[d] = Name[e] => d = e
    /\ \A words \in Lines : Split(command_split(words))
    /\ PipeCap \in Nat \ {0}

\* main: also when standard input has become a file, whose lines are then run.
\* Behind the line's own vertices L keeps what earlier lines have left.
ReadLine ==
    /\ place = "prompt" /\ lines < MaxLines /\ Len(procs) < MaxProcs
    /\ \E words \in Lines :
        LET new == command_split(words) IN
        /\ L' = [v \in Vertices |-> IF v <= Len(new) THEN new[v].sign ELSE L[v]]
        /\ args' = new[1].args
    /\ lines' = lines + 1 /\ here' = 1 /\ base' = Len(procs)
    /\ place' = "execute"
    /\ UNCHANGED <<i, waits, procs, file, stdin, dirs>>

\* Back to the prompt: of the line only the signs are used again.
Prompt ==
    /\ place' = "prompt" /\ args' = <<>> /\ here' = 1 /\ i' = 0 /\ waits' = 0
    /\ UNCHANGED <<lines, L, base>>

Executes(signs) == place = "execute" /\ L[1] \in signs
Argument(n) == IF Len(args) >= n THEN args[n] ELSE "NULL"

\* exit; or memcmp or *path follows the NULL of an empty line or of a cd alone.
Stop ==
    /\ Executes({0, 5})
    /\ Argument(1) \in {"NULL", "exit"} \/ (Argument(1) = "cd" /\ Argument(2) = "NULL")
    /\ place' = "gone"
    /\ UNCHANGED <<line, i, waits, procs, file, stdin, dirs>>

------------------------------------------------------------------------------
(* execute_cddir *)

\* memmove of the name without its NUL: the end of a longer name stays.
Moved(old, name) == name \o SubSeq(old, Len(name) + 1, Len(old))

\* A name that does not fit with its NUL is not stored.
Fits(d) == Len(Name[d]) < MAXPATH
getcwd(buffer) == IF Fits(cwd) THEN Name[cwd] ELSE buffer

\* Mutant: getcwd before the memmove.
MovedLate ==
    /\ curdir2' = getcwd(curdir2)
    /\ olddir' = IF dirsign = 1 THEN olddir ELSE Moved(olddir, getcwd(curdir2))

Remember ==
    /\ curdir2' = getcwd(curdir2)
    /\ olddir' = IF dirsign = 1 THEN olddir ELSE Moved(olddir, curdir2)

\* An argument stands for the directory it leads to.  chdir may fail on any
\* directory, and does on a name that none has; the shell then exits.
execute_cddir ==
    /\ Executes({0, 5}) /\ Argument(1) = "cd" /\ Argument(2) # "NULL"
    /\ Remember
    /\ dirsign' = 2          \* any value but 1
    /\ prev' = cwd /\ been' = IF dirsign = 1 THEN been ELSE been \cup {prev}
    /\ \/ /\ cwd' \in Dirs
          /\ IF Argument(2) = "-" THEN Name[cwd'] = olddir' ELSE cwd' = Argument(2)
          /\ Prompt
       \/ cwd' = cwd /\ place' = "gone" /\ UNCHANGED <<line, i, waits>>
    /\ UNCHANGED <<procs, file, stdin>>

------------------------------------------------------------------------------
(* execute_exe, execute_redir_r and execute_redir_a *)

Fork(kind, at, in) ==
    procs' = Append(procs, [kind |-> kind, at |-> at, in |-> in,
                            out |-> 0, data |-> 0, late |-> FALSE])

\* Mutant: the test of the sign is inverted.
ExeSwapped ==
    /\ Executes({0, 5}) /\ Argument(1) \notin {"NULL", "cd", "exit"}
    /\ Fork(IF L[1] = 0 THEN "exe" ELSE "background", "run", 0)
    /\ place' = IF L[1] = 5 THEN "wait" ELSE "waitpid"
    /\ waits' = 1
    /\ UNCHANGED <<line, i, file, stdin, dirs>>

execute_exe ==
    /\ Executes({0, 5}) /\ Argument(1) \notin {"NULL", "cd", "exit"}
    /\ Fork(IF L[1] = 0 THEN "exe" ELSE "background", "run", 0)
    /\ place' = IF L[1] = 0 THEN "wait" ELSE "waitpid"
    /\ waits' = 1
    /\ UNCHANGED <<line, i, file, stdin, dirs>>

\* waitpid with WNOHANG: the child is collected only if it has ended already.
Poll ==
    /\ place = "waitpid" /\ Prompt
    /\ procs' = [procs EXCEPT ![Len(procs)].at = IF @ = "zombie" THEN "polled" ELSE @]
    /\ UNCHANGED <<file, stdin, dirs>>

ForkRedirected ==
    /\ Executes({2, 4})
    /\ Fork(IF L[1] = 2 THEN "redir_r" ELSE "redir_a", "open", 0)
    /\ place' = "open"
    /\ UNCHANGED <<line, i, waits, file, stdin, dirs>>

\* The open after the fork is done by the shell and by its child, in any order.
OpenFile(kind) == file' = IF kind = "redir_r" THEN <<>> ELSE file

ShellOpen ==
    /\ place = "open"
    /\ OpenFile(Last(procs).kind) \/ UNCHANGED file     \* open may fail
    /\ procs' = [procs EXCEPT ![Len(procs)].late = procs[Len(procs)].out > 0]
    /\ place' = "wait" /\ waits' = 1
    /\ UNCHANGED <<line, i, stdin, dirs>>

\* wait takes any child; without one it returns at once.
Wait ==
    /\ place = "wait"
    /\ \/ \E p \in DOMAIN procs :
            /\ procs[p].at = "zombie"
            /\ procs' = [procs EXCEPT ![p].at = "reaped"]
       \/ /\ \A p \in DOMAIN procs : procs[p].at \in {"reaped", "polled"}
          /\ UNCHANGED procs
    /\ IF waits = 1 THEN Prompt ELSE waits' = waits - 1 /\ UNCHANGED <<place, line, i>>
    /\ UNCHANGED <<file, stdin, dirs>>

------------------------------------------------------------------------------
(* execute_pipe *)

\* Mutant: the children are waited for before their output is read.
WaitFirst(signs) == IF 1 \in signs THEN "stage" ELSE "wait"

\* Where the shell goes once a stage is forked: the vertex it has come to is
\* forked next if another follows.
AfterStage(signs) ==
    IF 1 \in signs THEN "stage"
    ELSE IF 0 \in signs THEN "read"
    ELSE IF signs \cap {2, 4} # {} THEN "sink" ELSE "wait"

\* The two tests after the fork, one after the other: past `|` by one vertex, and
\* past the `>` found there by two, to what an earlier line may have left.
Onward(v) ==
    LET next == IF L[v] = 1 THEN v + 1 ELSE v IN IF L[next] = 2 THEN next + 2 ELSE next

\* dup2(0, fd) at the end does not undo dup2(fd, 0).
Stage ==
    /\ Executes({1, 3}) \/ place = "stage"
    /\ stdin' \in IF L[here] = 3 THEN {"file", stdin} ELSE {stdin}
    /\ Fork("pipe", "run", IF place = "stage" THEN Len(procs) ELSE 0)
    /\ here' = Onward(here)
    /\ i' = (IF place = "stage" THEN i ELSE 0) + 1
    /\ place' = AfterStage({L[here']})
    /\ waits' = i' + 1
    /\ UNCHANGED <<lines, L, args, base, file, dirs>>

\* The file for the output of a pipeline, whose name is the next vertex's or what
\* an earlier line has left there; the open may fail.
OpenSink ==
    /\ place = "sink"
    /\ place' \in {"read", "gone"}
    /\ UNCHANGED <<line, i, waits, procs, file, stdin, dirs>>

Ended(p) == procs[p].at \in {"zombie", "reaped", "polled"}

\* A reader of child p's pipe takes n chunks; a writer that was blocked goes on.
Drained(p, n) ==
    [procs EXCEPT ![p].data = @ - n, ![p].at = IF @ = "blocked" THEN "run" ELSE @]

\* One read of pipes[--i]: output, and the loop goes on with the pipe before it,
\* or the end of the file.  What is read goes to the terminal or to a file that
\* no other line names.
ReadPipe ==
    /\ place = "read" /\ i > 0
    /\ LET p == base + i IN
       \/ \E n \in 1..procs[p].data : procs' = Drained(p, n) /\ UNCHANGED <<place, waits>>
       \/ /\ procs[p].data = 0 /\ Ended(p)
          /\ place' = "wait" /\ waits' = i
          /\ UNCHANGED procs
    /\ i' = i - 1
    /\ UNCHANGED <<line, file, stdin, dirs>>

\* pipes[-1] is what the stack holds there: no descriptor, or one whose data is
\* copied before the loop ends.  i is negative then and nobody is waited for.
ReadGarbage ==
    /\ place = "read" /\ i = 0
    /\ Prompt
    /\ UNCHANGED <<procs, file, stdin, dirs>>

------------------------------------------------------------------------------
(* The children *)

WriteAt(offset, p) ==
    [k \in 1..(IF Len(file) >= offset THEN Len(file) ELSE offset) |->
        IF k = offset THEN p ELSE IF k <= Len(file) THEN file[k] ELSE 0]

\* Mutant: execute_redir_a opens without O_APPEND.
Overwritten(p) == WriteAt(procs[p].out + 1, p)

Written(p) ==
    IF procs[p].kind = "redir_a" THEN Append(file, p) ELSE WriteAt(procs[p].out + 1, p)

ChildOpen(p) ==
    /\ procs[p].at = "open"
    /\ \/ OpenFile(procs[p].kind) /\ procs' = [procs EXCEPT ![p].at = "run"]
       \/ UNCHANGED file /\ procs' = [procs EXCEPT ![p].at = "zombie"]   \* dup2(-1, 1)
    /\ UNCHANGED <<place, line, i, waits, stdin, dirs>>

ChildWrite(p) ==
    /\ procs[p].at = "run" /\ procs[p].out < MaxOut
    /\ procs[p].kind \in {"redir_r", "redir_a"}
    /\ file' = Written(p)
    /\ procs' = [procs EXCEPT ![p].out = @ + 1]
    /\ UNCHANGED <<place, line, i, waits, stdin, dirs>>

\* The shell keeps every read end, so a full pipe blocks and never ends a writer.
ChildWritePipe(p) ==
    /\ procs[p].at = "run" /\ procs[p].out < MaxOut /\ procs[p].kind = "pipe"
    /\ procs' = IF procs[p].data < PipeCap
                THEN [procs EXCEPT ![p].data = @ + 1, ![p].out = @ + 1]
                ELSE [procs EXCEPT ![p].at = "blocked"]
    /\ UNCHANGED <<place, line, i, waits, file, stdin, dirs>>

ChildRead(p) ==
    /\ procs[p].at = "run" /\ procs[p].in > 0
    /\ procs[procs[p].in].data > 0
    /\ procs' = Drained(procs[p].in, 1)
    /\ UNCHANGED <<place, line, i, waits, file, stdin, dirs>>

ChildEnd(p) ==
    /\ procs[p].at = "run"
    /\ procs' = [procs EXCEPT ![p].at = "zombie"]
    /\ UNCHANGED <<place, line, i, waits, file, stdin, dirs>>

ChildStep(p) ==
    ChildOpen(p) \/ ChildWrite(p) \/ ChildWritePipe(p) \/ ChildRead(p) \/ ChildEnd(p)

ShellNext ==
    \/ ReadLine \/ Stop \/ execute_cddir
    \/ execute_exe \/ Poll \/ ForkRedirected \/ ShellOpen \/ Wait
    \/ Stage \/ OpenSink \/ ReadPipe \/ ReadGarbage
    \/ place # "gone" /\ \E p \in DOMAIN procs : ChildStep(p)

------------------------------------------------------------------------------
(* Properties *)

Of(kinds) == {p \in DOMAIN procs : procs[p].kind \in kinds}
Waited == {p \in DOMAIN procs : procs[p].at = "reaped"}

\* The shell's variables have their types.
ShellTypeOK ==
    /\ place \in {"prompt", "execute", "wait", "waitpid", "open", "stage", "sink", "read", "gone"}
    /\ L \in [Vertices -> 0..5] /\ here \in Vertices
    /\ i \in 0..Len(procs) /\ waits \in 0..(Len(procs) + 1)
    /\ \A p \in DOMAIN procs :
        /\ procs[p].at \in {"open", "run", "blocked", "zombie", "reaped", "polled"}
        /\ procs[p].data \in 0..PipeCap /\ procs[p].in < p
    /\ stdin \in {"terminal", "file"}
    /\ {cwd, prev} \cup been \subseteq Dirs
    /\ Len(curdir2) < MAXPATH /\ Len(olddir) < MAXPATH

\* The prompt returns before a foreground command has been collected only when
\* wait (202, 227, 250) has taken a background job or a pipeline's child in its
\* place: each such return is paid for by one of them.
ForegroundWaited ==
    place = "prompt" =>
        Cardinality(Of({"exe", "redir_r", "redir_a"}) \ Waited)
            <= Cardinality(Of({"background", "pipe"}) \cap Waited)

\* The shell never waits for ever for a child blocked on a pipe nobody reads, but
\* where there is no read loop, after `<` and where the loop over the stages has
\* stopped at the sign of `&` (the line's own or, two vertices past a `>`, one an
\* earlier line has left), and after a pipeline that has forked two stages (the
\* read loop has left the first pipe).
WaitReturns ==
    place = "wait" =>
        \/ \E p \in DOMAIN procs : procs[p].at \in {"open", "run", "zombie"}
        \/ \A p \in DOMAIN procs : procs[p].at \in {"reaped", "polled"}
        \/ L[here] \in {3, 5}
        \/ Len(procs) > base + 1

\* `cd -` returns to where the shell was before the last cd exactly when that name
\* could be stored (92, 95) and no longer one has been moved to olddir before (94):
\* else it leads elsewhere, as from /home over /home/user, or ends the shell.
DashReturns ==
    [][execute_cddir /\ Argument(2) = "-" /\ place' = "prompt" =>
        (cwd' = prev <=>
            /\ Fits(prev)
            /\ \A d \in been : Fits(d) => Len(Name[d]) <= Len(Name[prev]))]_shellVars

Lost(p) == Cardinality({k \in DOMAIN file : file[k] = p}) < procs[p].out

\* While one redirected command has been run, or all of them with >>, output is
\* lost only to the shell's own O_TRUNC (212) after the child's first write.
OutputKept ==
    LET redirected == Of({"redir_r", "redir_a"}) IN
    redirected \subseteq Of({"redir_a"}) \/ Cardinality(redirected) = 1 =>
        \A p \in redirected : Lost(p) => procs[p].kind = "redir_r" /\ procs[p].late
==============================================================================
