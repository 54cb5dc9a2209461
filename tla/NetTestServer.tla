---------------------------- MODULE NetTestServer ----------------------------
(***************************************************************************)
(* The class NetworkTestServer of network/test_server.cpp.                 *)
(*                                                                         *)
(* A tester registers over gRPC the answer to each message it is about to  *)
(* send and queries how far the messages have been compared; the TCP loop  *)
(* commits each message received.  The three operations hold mtx from      *)
(* their first statement to their return, so each is one action; threads   *)
(* of the gRPC server and the TCP loop may run them in any order.  NetTest  *)
(* says who calls them.                                                    *)
(***************************************************************************)
EXTENDS Integers, Sequences, FiniteSetsExt

CONSTANTS
    Contents,   \* the contents of answers and messages
    Empty,      \* the empty string a new MessageInfo holds
    Deleted     \* what the map holds when its entry has been deleted

ASSUME ServerAssumption ==
    /\ Empty \in Contents
    /\ Deleted \notin [answer : Contents, msg : Contents]

VARIABLES
    status,      \* "Success", "Diff" or "TestError"
    info,        \* the map from index to MessageInfo
    recv_seq,    \* messages committed (these counters stay far below 2^32)
    seq,         \* answers registered
    cmp,         \* messages compared
    reply,       \* the last Result, and the id of the query it answers
    registered,  \* history: the answers registered, in order
    committed    \* history: the messages committed, in order

server == <<status, info, recv_seq, seq, cmp, reply, registered, committed>>

ServerInit ==
    /\ status = "Success"
    /\ info = [i \in {} |-> Deleted]
    /\ recv_seq = 0 /\ seq = 0 /\ cmp = 0
    /\ reply = [query |-> 0, id |-> 0, reason |-> "Success"]
    /\ registered = <<>> /\ committed = <<>>

\* info[i] = t
Put(i, t) == info' = [j \in DOMAIN info \cup {i} |-> IF j = i THEN t ELSE info[j]]

\* Mutant: only one of the failures stops the test.
FailedInPart == status = "TestError"

Failed == status # "Success"

\* AnswerRegister puts a new MessageInfo at the next index, whatever is there.
AnswerRegister(content) ==
    \/ /\ ~Failed
       /\ seq' = seq + 1
       /\ Put(seq + 1, [answer |-> content, msg |-> Empty])
       /\ registered' = Append(registered, content)
       /\ reply' = [query |-> 0, id |-> cmp, reason |-> "Success"]
       /\ UNCHANGED <<status, recv_seq, cmp, committed>>
    \/ /\ Failed
       /\ reply' = [query |-> 0, id |-> 0, reason |-> status]
       /\ UNCHANGED <<status, info, recv_seq, seq, cmp, registered, committed>>

\* Mutant: the entry is always made anew.
NewEntry(msg) == [answer |-> Empty, msg |-> msg]

\* The entry of the next message, once it holds the message.
Entry(msg) ==
    IF recv_seq + 1 \in DOMAIN info
    THEN [info[recv_seq + 1] EXCEPT !.msg = msg]
    ELSE [answer |-> Empty, msg |-> msg]

\* commit stores the message in the entry of its index, made when missing.
commit(msg) ==
    \/ /\ ~Failed
       /\ recv_seq' = recv_seq + 1
       /\ Put(recv_seq + 1, Entry(msg))
       /\ committed' = Append(committed, msg)
       /\ UNCHANGED <<status, seq, cmp, reply, registered>>
    \/ /\ Failed
       /\ UNCHANGED server

\* Mutant: the last pair is not counted.
avaliableButOne == (IF recv_seq < seq THEN recv_seq ELSE seq) - 1

avaliableMaxResult == IF recv_seq < seq THEN recv_seq ELSE seq

\* The entries at which the comparison at 69 stops the loop.
Stops == {i \in (cmp + 1)..avaliableMaxResult : info[i].answer = info[i].msg}

\* Update returns status and cmp like this.
Updated ==
    CASE cmp > avaliableMaxResult                      -> "TestError"
      [] cmp <= avaliableMaxResult /\ Stops # {}       -> "Diff"
      [] cmp <= avaliableMaxResult /\ Stops = {}       -> status

Compared == IF Stops # {} THEN Min(Stops) ELSE Max({cmp, avaliableMaxResult})

\* Mutant: the entries compared are not erased.
Kept == DOMAIN info

\* The entries Update leaves in the map: it deletes and erases the entries it
\* compares, but the one that stops it is deleted and not erased.
Left == {i \in DOMAIN info : i > Compared \/ (i = Compared /\ Stops # {})}

\* Mutant: the two reasons to wait are swapped.
VerdictSwapped(query) ==
    CASE Compared >= query                             -> "Success"
      [] Compared < query /\ Updated # "Success"       -> Updated
      [] Compared < query /\ Updated = "Success"
                          /\ Compared = seq            -> "WaitRPC"
      [] OTHER                                         -> "Wait"

\* What ResultQuery answers when it has called Update.
Verdict(query) ==
    CASE Compared >= query                             -> "Success"
      [] Compared < query /\ Updated # "Success"       -> Updated
      [] Compared < query /\ Updated = "Success"
                          /\ Compared = recv_seq       -> "Wait"
      [] Compared < query /\ Updated = "Success"
                          /\ Compared \in {seq} \ {recv_seq} -> "WaitRPC"
      [] OTHER                                         -> "TestError"

\* Nothing to compare: the test has failed, or the query is answered already.
QueryKnown(query) ==
    /\ Failed \/ query <= cmp
    /\ reply' = [query |-> query, id |-> cmp, reason |-> status]
    /\ UNCHANGED <<status, info, recv_seq, seq, cmp, registered, committed>>

QueryUpdates(query) ==
    /\ ~Failed /\ query > cmp
    /\ reply' = [query |-> query, id |-> Compared, reason |-> Verdict(query)]
    /\ status' = IF Verdict(query) = "TestError" THEN "TestError" ELSE Updated
    /\ cmp' = Compared
    /\ info' = [i \in Left |-> IF i = Compared THEN Deleted ELSE info[i]]
    /\ UNCHANGED <<recv_seq, seq, registered, committed>>

ResultQuery(query) == QueryKnown(query) \/ QueryUpdates(query)

------------------------------------------------------------------------------
(* Properties *)

\* Every variable has its type, and the counters count what they are named for.
ServerTypeOK ==
    /\ status \in {"Success", "Diff", "TestError"}
    /\ \A i \in DOMAIN info :
           info[i] = Deleted \/ info[i] \in [answer : Contents, msg : Contents]
    /\ recv_seq = Len(committed) /\ seq = Len(registered)
    /\ cmp \in Nat
    /\ reply.reason \in {"Success", "Wait", "WaitRPC", "Diff", "TestError"}

\* The branches that blame the tester itself (64, 115) are never taken: after
\* Update either all that was received or all that was registered is compared.
NeverTestError == status # "TestError"

\* Whatever order the calls come in, the map holds a live entry for each index
\* above cmp that was registered or committed, and no other: Update finds every
\* entry it follows, nothing deleted is followed, nothing is kept too long.
EntriesLive ==
    status = "Success" =>
        /\ DOMAIN info = (cmp + 1)..(IF recv_seq > seq THEN recv_seq ELSE seq)
        /\ \A i \in DOMAIN info : info[i] # Deleted

\* An answer registered is kept until it is compared, whichever of the answer
\* and the message with its index comes first.
AnswersKept ==
    status = "Success" => \A i \in (cmp + 1)..seq : info[i].answer = registered[i]

\* A failed test stays failed: no later call changes anything but the reply.
FailureIsFinal ==
    [][status # "Success" =>
         UNCHANGED <<status, info, recv_seq, seq, cmp, registered, committed>>]_server

\* "Wait" and "WaitRPC" blame the right side: the query is ahead of what was
\* received, or ahead of what was registered.
WaitsForTheRightSide ==
    [][ /\ reply'.reason = "Wait" => cmp' = recv_seq /\ recv_seq <= seq
        /\ reply'.reason = "WaitRPC" => cmp' = seq /\ seq < recv_seq ]_reply

\* Diff, "Msg is Error" (test_client.cpp:94), is the verdict on a message that
\* differs from its answer.
DiffMeansDifferent ==
    status = "Diff" => registered[cmp] # committed[cmp]
==============================================================================
