------------------------------- MODULE NetTest -------------------------------
(***************************************************************************)
(* The network test: the client of network/test_client.cpp against the     *)
(* server of network/test_server.cpp.                                      *)
(*                                                                         *)
(* In the client the tester thread (RunClientTest) registers the answer to *)
(* each message over gRPC, pushes the message into a MsgBuf and checks the *)
(* result after some of the messages; main pops the messages and sends     *)
(* them as length-prefixed frames over TCP.  The server's main reads the   *)
(* frames and commits them.  MsgBuf, the TestStatus values and gRPC are    *)
(* not in the repository: a MsgBuf is a FIFO whose pop blocks, and a failed *)
(* call leaves the Result with its defaults, id 0 and reason Success.      *)
(* The gRPC service is open to other clients, too.                         *)
(***************************************************************************)
EXTENDS NetTestServer

CONSTANTS
    Messages,    \* the number of messages RunClientTest makes
    Cut,         \* a content up to its first NUL character
    CheckAfter,  \* the numbers of messages after which RunClientTest checks
    Modulus,     \* 2^32, the range of uint32_t; smaller for TLC
    MaxFaults    \* bound: failed gRPC calls and registrations by other clients

ASSUME NetTestAssumption ==
    /\ Cut \in [Contents -> Contents]
    /\ Messages \in Nat
    /\ CheckAfter \subseteq 1..Messages
    /\ Modulus \in Nat /\ Messages < Modulus
    /\ MaxFaults \in Nat

VARIABLES
    tester,         \* where the tester thread is
    SendSeq,
    SuccessMaxIdx,
    s,              \* the message the tester thread has made
    msgs,           \* the MsgBuf
    sender,         \* what main has popped and not sent: <<>> or <<str>>
    wire,           \* the frames on the TCP connection
    sent,           \* history: the messages pushed, in order
    faults          \* failed calls and registrations by others so far

counters == <<SendSeq, SuccessMaxIdx>>
pipe == <<msgs, sender, wire>>
vars == <<server, tester, counters, s, pipe, sent, faults>>

Init ==
    /\ ServerInit
    /\ tester = "gen"
    /\ SendSeq = Modulus - 1 /\ SuccessMaxIdx = Modulus - 1   \* uint32_t -1
    /\ s = Empty
    /\ msgs = <<>> /\ sender = <<>> /\ wire = <<>>
    /\ sent = <<>> /\ faults = 0

\* std::max on the counters, which are unsigned.
Larger(m, n) == IF m > n THEN m ELSE n

\* _exit ends both threads of the client; an exception only the tester thread.
Alive == tester # "passed"

Fault ==
    /\ faults < MaxFaults
    /\ faults' = faults + 1

------------------------------------------------------------------------------
(* The tester thread *)

\* Mutant: the counter does not wrap.
NextUnbounded(n) == n + 1

\* The increment of a uint32_t.
NextSeq(n) == (n + 1) % Modulus

\* Mutant: the message is pushed without registering its answer.
GenerateOnly(content) ==
    /\ tester = "gen"
    /\ Len(sent) < Messages
    /\ s' = content
    /\ SendSeq' = NextSeq(SendSeq)
    /\ tester' = "push"
    /\ UNCHANGED <<server, SuccessMaxIdx, pipe, sent, faults>>

\* genAsciiMsg, genBinMsg: a message with random content.
Generate(content) ==
    /\ tester = "gen"
    /\ Len(sent) < Messages
    /\ s' = content
    /\ SendSeq' = NextSeq(SendSeq)
    /\ tester' = "answer"
    /\ UNCHANGED <<server, SuccessMaxIdx, pipe, sent, faults>>

\* SendAnswer: the call returns before the message is pushed.
SendAnswer ==
    /\ tester = "answer"
    /\ AnswerRegister(s)
    /\ tester' = IF reply'.reason = "Success" THEN "push" ELSE "exception"
    /\ SuccessMaxIdx' = IF reply'.reason = "Success"
                        THEN Larger(SuccessMaxIdx, reply'.id) ELSE SuccessMaxIdx
    /\ UNCHANGED <<SendSeq, s, pipe, sent, faults>>

\* The call fails, before or after the server has handled it.  The runtime_error
\* is made and not thrown, so the tester goes on with the default Result.
SendAnswerFails ==
    /\ Fault
    /\ tester = "answer"
    /\ AnswerRegister(s) \/ UNCHANGED server
    /\ tester' = "push"
    /\ UNCHANGED <<counters, s, pipe, sent>>

Push ==
    /\ tester = "push"
    /\ msgs' = Append(msgs, s)
    /\ sent' = Append(sent, s)
    /\ tester' = IF Len(sent') \in CheckAfter THEN "check" ELSE "gen"
    /\ UNCHANGED <<server, counters, s, sender, wire, faults>>

\* Check.  QueryStatus asks the server only for an index above SuccessMaxIdx, and
\* none is above the one it starts with.  What Check returns is printed when it is
\* not Success, and changes nothing.
Check ==
    /\ tester = "check"
    /\ IF SendSeq <= SuccessMaxIdx
       THEN /\ tester' = "gen"
            /\ UNCHANGED <<server, SuccessMaxIdx>>
       ELSE /\ ResultQuery(SendSeq)
            /\ tester' = IF reply'.reason \in {"Diff", "TestError"}
                         THEN "exception" ELSE "gen"
            /\ SuccessMaxIdx' = IF reply'.reason = "Success"
                                THEN Larger(SuccessMaxIdx, reply'.id) ELSE SuccessMaxIdx
    /\ UNCHANGED <<SendSeq, s, pipe, sent, faults>>

\* "Success Pass All Test", and _exit(0).
Pass ==
    /\ tester = "gen"
    /\ Len(sent) = Messages
    /\ tester' = "passed"
    /\ UNCHANGED <<server, counters, s, pipe, sent, faults>>

------------------------------------------------------------------------------
(* main of the client, and main of the server *)

\* Mutant: the buffer is a stack.
PopLast ==
    /\ Alive
    /\ sender = <<>> /\ msgs # <<>>
    /\ sender' = <<msgs[Len(msgs)]>>
    /\ msgs' = SubSeq(msgs, 1, Len(msgs) - 1)
    /\ UNCHANGED <<server, tester, counters, s, wire, sent, faults>>

Pop ==
    /\ Alive
    /\ sender = <<>> /\ msgs # <<>>
    /\ sender' = <<Head(msgs)>>
    /\ msgs' = Tail(msgs)
    /\ UNCHANGED <<server, tester, counters, s, wire, sent, faults>>

sendMsg ==
    /\ Alive
    /\ sender # <<>>
    /\ wire' = wire \o sender
    /\ sender' = <<>>
    /\ UNCHANGED <<server, tester, counters, s, msgs, sent, faults>>

\* recvMsg builds the string from a char pointer, so it ends at the first NUL.
recvMsg ==
    /\ wire # <<>>
    /\ commit(Cut[Head(wire)])
    /\ wire' = Tail(wire)
    /\ UNCHANGED <<tester, counters, s, msgs, sender, sent, faults>>

\* Another client of the gRPC service registers an answer, or queries.
OtherRegister(content) ==
    /\ Fault
    /\ AnswerRegister(content)
    /\ UNCHANGED <<tester, counters, s, pipe, sent>>

OtherQuery(query) ==
    /\ ResultQuery(query)
    /\ UNCHANGED <<tester, counters, s, pipe, sent, faults>>

------------------------------------------------------------------------------
Next ==
    \/ \E c \in Contents : Generate(c)
    \/ SendAnswer \/ SendAnswerFails \/ Push
    \/ Check \/ Pass
    \/ Pop \/ sendMsg \/ recvMsg
    \/ \E c \in Contents : OtherRegister(c)
    \/ \E q \in 1..(Messages + 1) : OtherQuery(q)

Spec == Init /\ [][Next]_vars

------------------------------------------------------------------------------
(* Properties *)

\* Every variable has its type, in the client and in the server.
TypeOK ==
    /\ ServerTypeOK
    /\ tester \in {"gen", "answer", "push", "check", "exception", "passed"}
    /\ SendSeq \in 0..(Modulus - 1) /\ SuccessMaxIdx \in 0..(Modulus - 1)
    /\ s \in Contents
    /\ \A q \in {msgs, sender, wire, sent} : q \in Seq(Contents)
    /\ faults \in 0..MaxFaults

\* The server learns the answer to a message before it receives the message,
\* although the two travel on different connections: a registration then never
\* replaces an entry whose message has been committed, and each message is
\* compared with its own answer.  A failed call breaks this.
AnswerFirst ==
    status = "Success" /\ faults = 0 =>
        /\ recv_seq <= seq
        /\ \A i \in (cmp + 1)..recv_seq :
               info[i].msg = committed[i] /\ committed[i] = Cut[info[i].answer]

\* While the server takes messages, they come in the order they were pushed,
\* each once and cut at its first NUL; the rest is still under way.
InOrder ==
    status = "Success" =>
        /\ committed = [i \in 1..recv_seq |-> Cut[sent[i]]]
        /\ SubSeq(sent, recv_seq + 1, Len(sent)) = wire \o sender \o msgs

\* Read by the message it prints ("Success Pass All Test", test_client.cpp:217)
\* the client passes only when the server has received and compared every
\* message and found no error.
PassMeansCompared ==
    tester = "passed" => cmp = Messages /\ status = "Success"
==============================================================================
