---------------------------------- MODULE Ls ----------------------------------
(***************************************************************************)
(* The ls of ls_command/ls.3.c: the table of files, filled from one        *)
(* directory after the other, sorted in place and printed.                 *)
(*                                                                         *)
(* A write behind the end of the array is the end of what is said of the   *)
(* program (the step "overrun").  Options are the letters of cnd.  Without *)
(* R, whose recursion enters "." again until opendir fails.                *)
(***************************************************************************)
EXTENDS Integers, Sequences, SequencesExt, FiniteSets

CONSTANTS
    Directories,  \* each name given to ls with the files in it
    Size,         \* the size of each file
    Letters,      \* the options the user may give
    Rows          \* the length of the array ls, number in ls.h

LsAssumption ==
    /\ "." \in DOMAIN Directories /\ Letters \cap {"R"} = {}
    /\ \A d \in DOMAIN Directories : \A f \in Directories[d] : Size[f] \in Nat
    /\ Rows \in Nat \ {0}

VARIABLES
    step,     \* where main is
    given,    \* the directories given and not yet read, "." among them at first
    cnd,
    dir,      \* the directory that is read, NoDir between two of them
    left,     \* the files readdir has not yet returned
    ls,
    count,
    m, n,     \* i and j of sort
    read,     \* history: the files in the order they were read, <<dir, file>>
    printed   \* the lines printed, each a filename and a size

lsVars == <<step, given, cnd, dir, left, ls, count, m, n, read, printed>>

NoDir == "none"
Empty == [filename |-> "", pathname |-> <<>>, size |-> 0]

LsInit ==
    /\ step = "args" /\ given = {} /\ cnd = {} /\ dir = NoDir /\ left = {}
    /\ ls = [k \in 0..(Rows - 1) |-> Empty] /\ count = 0 /\ m = 0 /\ n = 0
    /\ read = <<>> /\ printed = <<>>

------------------------------------------------------------------------------
(* main and do_ls *)

Option ==
    /\ step = "args" /\ dir = NoDir
    /\ \E letter \in Letters \ cnd : cnd' = cnd \cup {letter}
    /\ UNCHANGED <<step, given, dir, left, ls, count, m, n, read, printed>>

\* One argument; or "." when no other was given.  opendir may fail.
Open(d) ==
    /\ step = "args" /\ dir = NoDir /\ d \notin given
    /\ given' = given \cup {d}
    /\ \/ dir' = d /\ left' = Directories[d]
       \/ UNCHANGED <<dir, left>>
    /\ UNCHANGED <<step, cnd, ls, count, m, n, read, printed>>

\* ls_R writes the path and, if lstat finds the file, the size to the row after
\* the file's own: count has been increased by then.
ls_R(table, at, f, found) ==
    [table EXCEPT ![at].pathname = <<dir, f>>, ![at].size = IF found THEN Size[f] ELSE @]

\* Mutant: count is increased with the path and not with the name.
EntryLate(f) ==
    [[ls EXCEPT ![count].pathname = <<dir, f>>] EXCEPT ![count + 1].filename = f]

Entry(f) == [ls EXCEPT ![count].pathname = <<dir, f>>, ![count].filename = f]

\* readdir returns the files in any order; both branches of the test of option a
\* do the same.  The file may be gone when lstat looks for it.
ReadEntry ==
    /\ dir # NoDir /\ count < Rows - 1
    /\ \E f \in left, found \in BOOLEAN :
        /\ left' = left \ {f}
        /\ ls' = ls_R(Entry(f), count + 1, f, found)
        /\ read' = Append(read, <<dir, f>>)
    /\ count' = count + 1
    /\ UNCHANGED <<step, given, cnd, dir, m, n, printed>>

\* Nothing tests count (43, 50): the file whose own row is the last of the array has
\* its path and size written behind it, over what the build has put there.
Overrun ==
    /\ dir # NoDir /\ left # {} /\ count >= Rows - 1
    /\ step' = "overrun" /\ dir' = NoDir
    /\ UNCHANGED <<given, cnd, left, ls, count, m, n, read, printed>>

CloseDir ==
    /\ dir # NoDir /\ left = {}
    /\ dir' = NoDir
    /\ UNCHANGED <<step, given, cnd, left, ls, count, m, n, read, printed>>

------------------------------------------------------------------------------
(* sort *)

StartSort ==
    /\ step = "args" /\ dir = NoDir /\ given # {}
    /\ step' = IF "s" \in cnd THEN "bysize" ELSE IF "r" \in cnd THEN "reverse" ELSE "stat"
    /\ m' = 0
    /\ n' = IF "s" \in cnd THEN 1 ELSE count - 1
    /\ UNCHANGED <<given, cnd, dir, left, ls, count, read, printed>>

Swapped(a, b) == [ls EXCEPT ![a] = ls[b], ![b] = ls[a]]

\* Mutant: the inner loop starts behind the neighbour of row m.
StartFar == m + 3
StartNext == m + 2     \* j = i + 1 of the next i

CompareSizes ==
    /\ step = "bysize" /\ m < count - 1
    /\ IF n < count
       THEN /\ ls' = IF ls[m].size < ls[n].size THEN Swapped(m, n) ELSE ls
            /\ n' = n + 1 /\ m' = m
       ELSE m' = m + 1 /\ n' = StartNext /\ ls' = ls
    /\ UNCHANGED <<step, given, cnd, dir, left, count, read, printed>>

ReverseRows ==
    /\ step = "reverse" /\ m < n
    /\ ls' = Swapped(m, n) /\ m' = m + 1 /\ n' = n - 1
    /\ UNCHANGED <<step, given, cnd, dir, left, count, read, printed>>

EndSort ==
    /\ \/ step = "bysize" /\ m >= count - 1
       \/ step = "reverse" /\ m >= n
    /\ step' = "stat" /\ m' = 0
    /\ UNCHANGED <<given, cnd, dir, left, ls, count, n, read, printed>>

------------------------------------------------------------------------------
(* dostat and show_file_info *)

\* With l every line has the size in the row behind the last.
show_file_info(row) ==
    [name |-> row.filename, size |-> IF "l" \in cnd THEN ls[count].size ELSE 0]

\* One row; with l or i only if stat still finds its file.
PrintRow ==
    /\ step = "stat" /\ m < count
    /\ \/ printed' = Append(printed, show_file_info(ls[m]))
       \/ cnd \cap {"l", "i"} # {} /\ UNCHANGED printed
    /\ m' = m + 1
    /\ UNCHANGED <<step, given, cnd, dir, left, ls, count, n, read>>

Finish ==
    /\ step = "stat" /\ m = count
    /\ step' = "done"
    /\ UNCHANGED <<given, cnd, dir, left, ls, count, m, n, read, printed>>

LsNext ==
    \/ Option \/ (\E d \in DOMAIN Directories : Open(d)) \/ ReadEntry \/ Overrun \/ CloseDir
    \/ StartSort \/ CompareSizes \/ ReverseRows \/ EndSort \/ PrintRow \/ Finish

------------------------------------------------------------------------------
(* Properties *)

\* The variables of ls have their types.
LsTypeOK ==
    /\ step \in {"args", "bysize", "reverse", "stat", "done", "overrun"}
    /\ dir \in DOMAIN Directories \cup {NoDir}
    /\ DOMAIN ls = 0..(Rows - 1) /\ count \in DOMAIN ls /\ m \in 0..count /\ n \in -1..(count + 1)

Listed == [k \in 1..count |-> ls[k - 1].pathname]
Sorted == step \in {"stat", "done"}

\* ls_R uses the next row as scratch space, the sort moves rows about: still every
\* file read has one row, with its own name and path, in the order of readdir or,
\* with r and without s, reversed; and without l and i all of them are printed.  That
\* is so until the array is overrun, which takes as many files as it has rows.
RowsAreFiles ==
    IF step = "overrun" THEN Len(read) + 1 = Rows
    ELSE
    /\ \A k \in 1..count : Listed[k][2] = ls[k - 1].filename
    /\ ToSet(Listed) = ToSet(read) /\ Len(read) = count
    /\ step = "args" => Listed = read
    /\ Sorted /\ "s" \notin cnd => Listed = IF "r" \in cnd THEN Reverse(read) ELSE read
    /\ step = "done" /\ cnd \cap {"l", "i"} = {} =>
        [k \in DOMAIN printed |-> printed[k].name] = [k \in 1..count |-> ls[k - 1].filename]

\* The size in a row is that of the file read before the row's own, or none if
\* lstat did not find it (66 writes behind the file's row); by these sizes, and
\* not by the files' own, s sorts into falling order.
SizesBehind ==
    /\ step = "args" =>
        /\ count > 0 => ls[0].size = 0
        /\ \A k \in 1..count : ls[k].size \in {0, Size[read[k][2]]}
    /\ Sorted /\ "s" \in cnd => \A k \in 1..(count - 1) : ls[k - 1].size >= ls[k].size
==============================================================================
