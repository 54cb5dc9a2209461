---------------------------- MODULE NetTestProofs -----------------------------
(***************************************************************************)
(* Proofs about the network test of test_client.cpp and test_server.cpp,   *)
(* for any contents, any number of messages, any points at which the       *)
(* client checks and any number of failed or foreign gRPC calls.           *)
(***************************************************************************)
EXTENDS NetTest, SequenceTheorems, WellFoundedInduction, TLAPS

------------------------------------------------------------------------------
(* Update: the smallest index that stops it, or the largest available one. *)

\* A set of naturals that is not empty has its Min.
LEMMA MinFacts ==
    ASSUME NEW S \in SUBSET Nat, S # {}
    PROVE  Min(S) \in S /\ \A k \in S : Min(S) <= k
<1>1. PICK m \in S : \A k \in S : <<k, m>> \notin OpToRel(<, Nat)
    BY WFMin, NatLessThanWellFounded, Zenon
<1>2. \A k \in S : ~(k < m)
    BY <1>1 DEF OpToRel
<1>3. \A k \in S : m <= k
    BY <1>2
<1> QED BY <1>3 DEF Min

\* Max of two naturals in order is the second.
LEMMA MaxOfTwo ==
    ASSUME NEW a \in Nat, NEW b \in Nat, a <= b
    PROVE  Max({a, b}) = b
<1>1. b \in {a, b} /\ \A k \in {a, b} : b >= k
    OBVIOUS
<1>2. \A m \in {a, b} : (\A k \in {a, b} : m >= k) => m = b
    OBVIOUS
<1> QED BY <1>1, <1>2 DEF Max

------------------------------------------------------------------------------
(* The server's part of the inductive invariant. *)

Latest == IF recv_seq > seq THEN recv_seq ELSE seq

\* The counters count; nothing that was not received or not registered has been
\* compared, nor reported as compared; the map is what the properties say.
ServerInv ==
    /\ ServerTypeOK
    /\ committed \in Seq(Contents) /\ registered \in Seq(Contents)
    /\ cmp <= recv_seq /\ cmp <= seq
    /\ reply.id \in 0..recv_seq
    /\ NeverTestError
    /\ EntriesLive
    /\ AnswersKept

LEMMA Counters ==
    ASSUME ServerInv
    PROVE  /\ recv_seq \in Nat /\ seq \in Nat /\ cmp \in Nat
           /\ avaliableMaxResult \in Nat /\ cmp <= avaliableMaxResult
           /\ avaliableMaxResult <= recv_seq /\ avaliableMaxResult <= seq
           /\ avaliableMaxResult \in {recv_seq, seq}
           /\ Latest \in Nat /\ avaliableMaxResult <= Latest
<1>1. recv_seq \in Nat /\ seq \in Nat /\ cmp \in Nat /\ cmp <= recv_seq /\ cmp <= seq
    BY LenProperties DEF ServerInv, ServerTypeOK
<1> QED BY <1>1 DEF avaliableMaxResult, Latest

LEMMA ComparedFacts ==
    ASSUME ServerInv
    PROVE  /\ Compared \in Nat /\ cmp <= Compared /\ Compared <= avaliableMaxResult
           /\ Stops = {} => Compared = avaliableMaxResult
<1>1. CASE Stops # {}
    <2>1. Stops \in SUBSET Nat /\ \A k \in Stops : cmp < k /\ k <= avaliableMaxResult
        BY Counters DEF Stops
    <2>2. Compared \in Stops
        BY <1>1, <2>1, MinFacts DEF Compared
    <2> QED BY <1>1, <2>1, <2>2, Counters
<1>2. CASE Stops = {}
    <2>1. Compared = avaliableMaxResult
        BY <1>2, Counters, MaxOfTwo DEF Compared
    <2> QED BY <2>1, Counters
<1> QED BY <1>1, <1>2

\* The last branch of ResultQuery, which blames the tester, is never reached.
LEMMA VerdictFacts ==
    ASSUME ServerInv, ~Failed, NEW query \in Nat
    PROVE  /\ Updated = IF Stops = {} THEN "Success" ELSE "Diff"
           /\ Verdict(query) \in {"Success", "Wait", "WaitRPC", "Diff"}
           /\ Verdict(query) = "Wait" => Compared = recv_seq /\ Stops = {}
           /\ Verdict(query) = "WaitRPC" => Compared = seq /\ seq # recv_seq /\ Stops = {}
<1>1. Updated = IF Stops = {} THEN "Success" ELSE "Diff"
    BY Counters DEF Updated, Failed
<1>2. CASE Compared >= query
    BY <1>1, <1>2 DEF Verdict
<1>3. CASE Compared < query /\ Stops # {}
    <2>1. ~(Compared >= query)
        BY <1>3, ComparedFacts
    <2> QED BY <1>1, <1>3, <2>1 DEF Verdict
<1>4. CASE Compared < query /\ Stops = {}
    <2>1. ~(Compared >= query) /\ Compared \in {recv_seq, seq}
        BY <1>4, ComparedFacts, Counters
    <2> QED BY <1>1, <1>4, <2>1 DEF Verdict
<1> QED BY <1>1, <1>2, <1>3, <1>4, ComparedFacts

------------------------------------------------------------------------------
(* The three operations keep it. *)

LEMMA RegisterKeeps ==
    ASSUME ServerInv, NEW content \in Contents, AnswerRegister(content)
    PROVE  ServerInv'
<1>0. /\ ServerTypeOK /\ EntriesLive /\ AnswersKept
      /\ registered \in Seq(Contents) /\ committed \in Seq(Contents)
      /\ cmp <= recv_seq /\ cmp <= seq /\ reply.id \in 0..recv_seq
    BY DEF ServerInv
<1>1. CASE Failed
    <2>1. /\ UNCHANGED <<status, info, recv_seq, seq, cmp, registered, committed>>
          /\ reply' = [query |-> 0, id |-> 0, reason |-> status]
        BY <1>1 DEF AnswerRegister
    <2> QED BY <1>0, <2>1, Counters
            DEF ServerInv, ServerTypeOK, NeverTestError, EntriesLive, AnswersKept
<1>2. CASE ~Failed
    <2>1. /\ seq' = seq + 1 /\ registered' = Append(registered, content)
          /\ Put(seq + 1, [answer |-> content, msg |-> Empty])
          /\ reply' = [query |-> 0, id |-> cmp, reason |-> "Success"]
          /\ UNCHANGED <<status, recv_seq, cmp, committed>> /\ status = "Success"
        BY <1>2 DEF AnswerRegister, Failed
    <2>2. /\ DOMAIN info' = DOMAIN info \cup {seq + 1}
          /\ \A i \in DOMAIN info' :
                 info'[i] = IF i = seq + 1 THEN [answer |-> content, msg |-> Empty] ELSE info[i]
        BY <2>1 DEF Put
    <2>3. /\ DOMAIN info = (cmp + 1)..Latest
          /\ \A i \in DOMAIN info : info[i] # Deleted
          /\ \A i \in (cmp + 1)..seq : info[i].answer = registered[i]
        BY <1>0, <2>1 DEF EntriesLive, AnswersKept, Latest
    <2>4. (DOMAIN info)' = (cmp + 1)..Latest'
        BY <1>0, <2>1, <2>2, <2>3, Counters DEF Latest
    <2>5. [answer |-> content, msg |-> Empty] \in [answer : Contents, msg : Contents]
        BY ServerAssumption
    <2>6. /\ registered' \in Seq(Contents) /\ Len(registered') = seq + 1
          /\ registered'[seq + 1] = content
          /\ \A i \in 1..seq : registered'[i] = registered[i]
        BY <1>0, <2>1, AppendProperties DEF ServerTypeOK
    <2>7. ServerTypeOK'
        BY <1>0, <2>1, <2>2, <2>5, <2>6 DEF ServerTypeOK
    <2>8. EntriesLive'
        BY <2>1, <2>2, <2>3, <2>4, <2>5, ServerAssumption DEF EntriesLive, Latest
    <2>9. AnswersKept'
        <3>1. ASSUME NEW i \in (cmp + 1)..(seq + 1) PROVE info'[i].answer = registered'[i]
            <4>1. CASE i = seq + 1
                BY <2>2, <2>6, <4>1
            <4>2. CASE i # seq + 1
                <5>1. i \in (cmp + 1)..seq /\ i \in 1..seq /\ i \in DOMAIN info
                    BY <2>3, <4>2, Counters DEF Latest
                <5> QED BY <2>2, <2>3, <2>6, <4>2, <5>1
            <4> QED BY <4>1, <4>2
        <3> QED BY <2>1, <3>1 DEF AnswersKept
    <2> QED BY <1>0, <2>1, <2>6, <2>7, <2>8, <2>9, Counters DEF ServerInv, NeverTestError
<1> QED BY <1>1, <1>2

LEMMA CommitKeeps ==
    ASSUME ServerInv, NEW msg \in Contents, commit(msg)
    PROVE  ServerInv'
<1>0. /\ ServerTypeOK /\ EntriesLive /\ AnswersKept
      /\ registered \in Seq(Contents) /\ committed \in Seq(Contents)
      /\ cmp <= recv_seq /\ cmp <= seq /\ reply.id \in 0..recv_seq
    BY DEF ServerInv
<1>1. CASE Failed
    BY <1>1 DEF commit, server, ServerInv, ServerTypeOK, NeverTestError, EntriesLive, AnswersKept
<1>2. CASE ~Failed
    <2>1. /\ recv_seq' = recv_seq + 1 /\ committed' = Append(committed, msg)
          /\ Put(recv_seq + 1, Entry(msg))
          /\ UNCHANGED <<status, seq, cmp, reply, registered>> /\ status = "Success"
        BY <1>2 DEF commit, Failed
    <2>2. /\ DOMAIN info' = DOMAIN info \cup {recv_seq + 1}
          /\ \A i \in DOMAIN info' : info'[i] = IF i = recv_seq + 1 THEN Entry(msg) ELSE info[i]
        BY <2>1 DEF Put
    <2>3. /\ DOMAIN info = (cmp + 1)..Latest
          /\ \A i \in DOMAIN info : info[i] \in [answer : Contents, msg : Contents]
          /\ \A i \in (cmp + 1)..seq : info[i].answer = registered[i]
        BY <1>0, <2>1 DEF EntriesLive, AnswersKept, Latest, ServerTypeOK
    <2>4. (DOMAIN info)' = (cmp + 1)..Latest'
        BY <1>0, <2>1, <2>2, <2>3, Counters DEF Latest
    <2>5. /\ Entry(msg) \in [answer : Contents, msg : Contents]
          /\ recv_seq + 1 \in DOMAIN info => Entry(msg).answer = info[recv_seq + 1].answer
        BY <2>3, ServerAssumption DEF Entry
    <2>6. committed' \in Seq(Contents) /\ Len(committed') = recv_seq + 1
        BY <1>0, <2>1, AppendProperties DEF ServerTypeOK
    <2>7. ServerTypeOK'
        BY <1>0, <2>1, <2>2, <2>5, <2>6 DEF ServerTypeOK
    <2>8. EntriesLive'
        BY <2>1, <2>2, <2>3, <2>4, <2>5, ServerAssumption DEF EntriesLive, Latest
    <2>9. AnswersKept'
        <3>1. ASSUME NEW i \in (cmp + 1)..seq PROVE info'[i].answer = registered[i]
            <4>1. i \in DOMAIN info
                BY <2>3, Counters DEF Latest
            <4> QED BY <2>2, <2>3, <2>5, <4>1
        <3> QED BY <2>1, <3>1 DEF AnswersKept
    <2> QED BY <1>0, <2>1, <2>6, <2>7, <2>8, <2>9, Counters DEF ServerInv, NeverTestError
<1> QED BY <1>1, <1>2

LEMMA QueryKeeps ==
    ASSUME ServerInv, NEW query \in Nat, ResultQuery(query)
    PROVE  ServerInv'
<1>0. /\ ServerTypeOK /\ EntriesLive /\ AnswersKept /\ NeverTestError
      /\ registered \in Seq(Contents) /\ committed \in Seq(Contents)
      /\ cmp <= recv_seq /\ cmp <= seq /\ reply.id \in 0..recv_seq
    BY DEF ServerInv
<1>1. CASE QueryKnown(query)
    <2>1. /\ UNCHANGED <<status, info, recv_seq, seq, cmp, registered, committed>>
          /\ reply' = [query |-> query, id |-> cmp, reason |-> status]
        BY <1>1 DEF QueryKnown
    <2> QED BY <1>0, <2>1, Counters
            DEF ServerInv, ServerTypeOK, NeverTestError, EntriesLive, AnswersKept
<1>2. CASE QueryUpdates(query)
    <2>1. /\ ~Failed /\ status = "Success"
          /\ reply' = [query |-> query, id |-> Compared, reason |-> Verdict(query)]
          /\ status' = IF Verdict(query) = "TestError" THEN "TestError" ELSE Updated
          /\ cmp' = Compared
          /\ info' = [i \in Left |-> IF i = Compared THEN Deleted ELSE info[i]]
          /\ UNCHANGED <<recv_seq, seq, registered, committed>>
        BY <1>2 DEF QueryUpdates, Failed
    <2>2. status' = IF Stops = {} THEN "Success" ELSE "Diff"
        BY <2>1, VerdictFacts
    <2>3. ServerTypeOK'
        <3>1. reply'.reason \in {"Success", "Wait", "WaitRPC", "Diff"}
            BY <2>1, VerdictFacts
        <3>2. \A i \in DOMAIN info' : i \in DOMAIN info /\ info'[i] \in {Deleted, info[i]}
            BY <2>1 DEF Left
        <3> QED BY <1>0, <2>1, <2>2, <3>1, <3>2, ComparedFacts DEF ServerTypeOK
    <2>4. CASE Stops # {}
        <3>1. status' = "Diff"
            BY <2>2, <2>4
        <3> QED BY <1>0, <2>1, <2>3, <3>1, ComparedFacts, Counters
                DEF ServerInv, NeverTestError, EntriesLive, AnswersKept
    <2>5. CASE Stops = {}
        <3>1. /\ DOMAIN info = (cmp + 1)..Latest
              /\ \A i \in DOMAIN info : info[i] # Deleted
              /\ \A i \in (cmp + 1)..seq : info[i].answer = registered[i]
            BY <1>0, <2>1 DEF EntriesLive, AnswersKept, Latest
        <3>2. Left = (Compared + 1)..Latest
            BY <2>5, <3>1, ComparedFacts, Counters DEF Left
        <3>3. DOMAIN info' = (Compared + 1)..Latest /\ \A i \in DOMAIN info' : info'[i] = info[i]
            BY <2>1, <3>2, ComparedFacts, Counters
        <3>4. /\ (Compared + 1)..Latest \subseteq DOMAIN info
              /\ (Compared + 1)..seq \subseteq (cmp + 1)..seq
            BY <3>1, ComparedFacts, Counters
        <3>5. EntriesLive'
            BY <2>1, <3>1, <3>3, <3>4 DEF EntriesLive, Latest
        <3>6. (Compared + 1)..seq \subseteq (Compared + 1)..Latest
            BY ComparedFacts, Counters DEF Latest
        <3>7. AnswersKept'
            BY <2>1, <3>1, <3>3, <3>4, <3>6 DEF AnswersKept
        <3> QED BY <1>0, <2>1, <2>2, <2>3, <2>5, <3>5, <3>7, ComparedFacts, Counters
                DEF ServerInv, NeverTestError
    <2> QED BY <2>4, <2>5
<1> QED BY <1>1, <1>2 DEF ResultQuery

LEMMA InitServerInv == Init => ServerInv
<1> SUFFICES ASSUME Init PROVE ServerInv
    OBVIOUS
<1>1. /\ registered = <<>> /\ committed = <<>> /\ Len(registered) = 0 /\ Len(committed) = 0
      /\ registered \in Seq(Contents) /\ committed \in Seq(Contents)
    BY EmptySeq DEF Init, ServerInit
<1> QED BY <1>1
        DEF Init, ServerInit, ServerInv, ServerTypeOK, NeverTestError, EntriesLive, AnswersKept

------------------------------------------------------------------------------
(* The client's part: values in their types, and no more messages under way or *)
(* received than were pushed, and no more pushed than RunClientTest makes.      *)

ClientInv ==
    /\ tester \in {"gen", "answer", "push", "check", "exception", "passed"}
    /\ SendSeq \in 0..(Modulus - 1) /\ SuccessMaxIdx \in 0..(Modulus - 1)
    /\ s \in Contents
    /\ msgs \in Seq(Contents) /\ sender \in Seq(Contents) /\ wire \in Seq(Contents)
    /\ sent \in Seq(Contents)
    /\ faults \in 0..MaxFaults
    /\ Len(sent) <= Messages
    /\ tester \in {"answer", "push"} => Len(sent) < Messages
    /\ recv_seq + Len(wire) + Len(sender) + Len(msgs) <= Len(sent)

LEMMA Lengths ==
    ASSUME ServerInv, ClientInv
    PROVE  /\ Len(sent) \in Nat /\ Len(wire) \in Nat /\ Len(sender) \in Nat /\ Len(msgs) \in Nat
           /\ recv_seq \in Nat /\ recv_seq <= Len(sent) /\ recv_seq < Modulus
           /\ Messages \in Nat /\ Modulus \in Nat /\ SendSeq \in Nat /\ SuccessMaxIdx \in Nat
<1>1. Len(sent) \in Nat /\ Len(wire) \in Nat /\ Len(sender) \in Nat /\ Len(msgs) \in Nat
    BY LenProperties DEF ClientInv
<1> QED BY <1>1, Counters, NetTestAssumption DEF ClientInv

LEMMA InitClientInv == Init => ClientInv
<1> SUFFICES ASSUME Init PROVE ClientInv
    OBVIOUS
<1>1. <<>> \in Seq(Contents) /\ Len(<<>>) = 0
    BY EmptySeq
<1> QED BY <1>1, NetTestAssumption, ServerAssumption DEF Init, ServerInit, ClientInv

\* The server sees nothing but its three operations.
LEMMA ServerStep ==
    ASSUME ServerInv, ClientInv, [Next]_vars
    PROVE  \/ \E c \in Contents : AnswerRegister(c)
           \/ \E c \in Contents : commit(c)
           \/ \E q \in Nat : ResultQuery(q)
           \/ UNCHANGED server
<1>1. CASE SendAnswer
    BY <1>1 DEF SendAnswer, ClientInv
<1>2. CASE SendAnswerFails
    BY <1>2 DEF SendAnswerFails, ClientInv
<1>3. CASE Check
    BY <1>3, Lengths DEF Check
<1>4. CASE recvMsg
    <2>1. wire # <<>> /\ commit(Cut[Head(wire)])
        BY <1>4 DEF recvMsg
    <2>2. Cut[Head(wire)] \in Contents
        BY <2>1, HeadTailProperties, NetTestAssumption DEF ClientInv
    <2> QED BY <2>1, <2>2
<1>5. CASE \E c \in Contents : OtherRegister(c)
    BY <1>5 DEF OtherRegister
<1>6. CASE \E q \in 1..(Messages + 1) : OtherQuery(q)
    BY <1>6, NetTestAssumption DEF OtherQuery
<1>7. CASE (\E c \in Contents : Generate(c)) \/ Push \/ Pass \/ Pop \/ sendMsg \/ UNCHANGED vars
    BY <1>7 DEF Generate, Push, Pass, Pop, sendMsg, vars
<1> QED BY <1>1, <1>2, <1>3, <1>4, <1>5, <1>6, <1>7 DEF Next

LEMMA ServerInvStep == ServerInv /\ ClientInv /\ [Next]_vars => ServerInv'
<1> SUFFICES ASSUME ServerInv, ClientInv, [Next]_vars PROVE ServerInv'
    OBVIOUS
<1>1. CASE UNCHANGED server
    BY <1>1 DEF server, ServerInv, ServerTypeOK, NeverTestError, EntriesLive, AnswersKept
<1> QED BY <1>1, ServerStep, RegisterKeeps, CommitKeeps, QueryKeeps

\* What the server counts as received changes only when it receives.
LEMMA ReceivedStep ==
    /\ \A c : AnswerRegister(c) => UNCHANGED <<recv_seq, committed>>
    /\ \A q : ResultQuery(q) => UNCHANGED <<recv_seq, committed>>
BY DEF AnswerRegister, ResultQuery, QueryKnown, QueryUpdates

LEMMA ClientInvStep == ServerInv /\ ClientInv /\ [Next]_vars => ClientInv'
<1> SUFFICES ASSUME ServerInv, ClientInv, [Next]_vars PROVE ClientInv'
    OBVIOUS
<1>1. reply'.id \in Nat /\ reply'.id <= recv_seq' /\ recv_seq' \in Nat
    <2>1. ServerInv'
        BY ServerInvStep
    <2>2. recv_seq' \in Nat
        BY <2>1, LenProperties DEF ServerInv, ServerTypeOK
    <2> QED BY <2>1, <2>2 DEF ServerInv
<1>2. ASSUME recv_seq' = recv_seq
      PROVE  Larger(SuccessMaxIdx, reply'.id) \in 0..(Modulus - 1)
    BY <1>1, <1>2, Lengths DEF Larger, ClientInv
<1>3. NextSeq(SendSeq) \in 0..(Modulus - 1)
    BY Lengths, NetTestAssumption DEF NextSeq
<1>4. ASSUME NEW c \in Contents, Generate(c) PROVE ClientInv'
    BY <1>3, <1>4, Lengths DEF Generate, server, pipe, ClientInv
<1>5. CASE SendAnswer
    <2>1. UNCHANGED <<recv_seq, SendSeq, s, pipe, sent, faults>>
        BY <1>5, ReceivedStep DEF SendAnswer
    <2>2. /\ tester = "answer" /\ tester' \in {"push", "exception"}
          /\ SuccessMaxIdx' \in {SuccessMaxIdx, Larger(SuccessMaxIdx, reply'.id)}
        BY <1>5 DEF SendAnswer
    <2> QED BY <1>2, <2>1, <2>2 DEF ClientInv, pipe
<1>6. CASE SendAnswerFails
    <2>1. UNCHANGED <<recv_seq, counters, s, pipe, sent>>
        BY <1>6, ReceivedStep DEF SendAnswerFails, server
    <2>2. tester = "answer" /\ tester' = "push" /\ faults' \in 0..MaxFaults
        BY <1>6, NetTestAssumption DEF SendAnswerFails, Fault, ClientInv
    <2> QED BY <2>1, <2>2 DEF ClientInv, pipe, counters
<1>7. CASE Push
    <2>1. /\ tester = "push" /\ tester' \in {"check", "gen"}
          /\ msgs' = Append(msgs, s) /\ sent' = Append(sent, s)
          /\ UNCHANGED <<recv_seq, SendSeq, SuccessMaxIdx, s, sender, wire, faults>>
        BY <1>7 DEF Push, server, counters
    <2>2. /\ msgs' \in Seq(Contents) /\ Len(msgs') = Len(msgs) + 1
          /\ sent' \in Seq(Contents) /\ Len(sent') = Len(sent) + 1
        BY <2>1, AppendProperties DEF ClientInv
    <2> QED BY <2>1, <2>2, Lengths DEF ClientInv
<1>8. CASE Check
    <2>1. UNCHANGED <<recv_seq, SendSeq, s, pipe, sent, faults>>
        BY <1>8, ReceivedStep DEF Check, server
    <2>2. /\ tester' \in {"gen", "exception"}
          /\ SuccessMaxIdx' \in {SuccessMaxIdx, Larger(SuccessMaxIdx, reply'.id)}
        BY <1>8 DEF Check
    <2> QED BY <1>2, <2>1, <2>2 DEF ClientInv, pipe
<1>9. CASE Pass \/ UNCHANGED vars
    BY <1>9 DEF Pass, vars, server, counters, pipe, ClientInv
<1>10. CASE Pop
    <2>1. /\ sender = <<>> /\ msgs # <<>> /\ sender' = <<Head(msgs)>> /\ msgs' = Tail(msgs)
          /\ UNCHANGED <<recv_seq, tester, SendSeq, SuccessMaxIdx, s, wire, sent, faults>>
        BY <1>10 DEF Pop, server, counters
    <2>2. /\ Head(msgs) \in Contents /\ msgs' \in Seq(Contents) /\ Len(msgs') = Len(msgs) - 1
          /\ Len(sender) = 0
        BY <2>1, HeadTailProperties, EmptySeq DEF ClientInv
    <2>3. sender' \in Seq(Contents) /\ Len(sender') = 1
        BY <2>1, <2>2
    <2> QED BY <2>1, <2>2, <2>3, Lengths DEF ClientInv
<1>11. CASE sendMsg
    <2>1. /\ wire' = wire \o sender /\ sender' = <<>>
          /\ UNCHANGED <<recv_seq, tester, SendSeq, SuccessMaxIdx, s, msgs, sent, faults>>
        BY <1>11 DEF sendMsg, server, counters
    <2>2. /\ wire' \in Seq(Contents) /\ Len(wire') = Len(wire) + Len(sender)
          /\ sender' \in Seq(Contents) /\ Len(sender') = 0
        BY <2>1, ConcatProperties, EmptySeq DEF ClientInv
    <2> QED BY <2>1, <2>2, Lengths DEF ClientInv
<1>12. CASE recvMsg
    <2>1. /\ wire # <<>> /\ wire' = Tail(wire) /\ recv_seq' \in {recv_seq, recv_seq + 1}
          /\ UNCHANGED <<tester, SendSeq, SuccessMaxIdx, s, msgs, sender, sent, faults>>
        BY <1>12 DEF recvMsg, commit, server, counters
    <2>2. wire' \in Seq(Contents) /\ Len(wire') = Len(wire) - 1
        BY <2>1, HeadTailProperties DEF ClientInv
    <2> QED BY <2>1, <2>2, Lengths DEF ClientInv
<1>13. CASE \E c \in Contents : OtherRegister(c)
    <2>1. UNCHANGED <<recv_seq, tester, counters, s, pipe, sent>>
        BY <1>13, ReceivedStep DEF OtherRegister
    <2>2. faults' \in 0..MaxFaults
        BY <1>13, NetTestAssumption DEF OtherRegister, Fault, ClientInv
    <2> QED BY <2>1, <2>2 DEF ClientInv, pipe, counters
<1>14. CASE \E q \in 1..(Messages + 1) : OtherQuery(q)
    <2>1. UNCHANGED <<recv_seq, tester, counters, s, pipe, sent, faults>>
        BY <1>14, ReceivedStep DEF OtherQuery
    <2> QED BY <2>1 DEF ClientInv, pipe, counters
<1> QED BY <1>4, <1>5, <1>6, <1>7, <1>8, <1>9, <1>10, <1>11, <1>12, <1>13, <1>14 DEF Next

------------------------------------------------------------------------------
(* The messages under way are the ones pushed and not received, in order. *)

LEMMA OnePushed ==
    ASSUME NEW a \in Seq(Contents), NEW m \in Contents, NEW n \in 0..Len(a)
    PROVE  SubSeq(Append(a, m), n + 1, Len(a) + 1) = Append(SubSeq(a, n + 1, Len(a)), m)
<1> DEFINE b == Append(a, m)
<1>1. /\ b \in Seq(Contents) /\ Len(b) = Len(a) + 1 /\ b[Len(a) + 1] = m
      /\ \A i \in 1..Len(a) : b[i] = a[i]
      /\ Len(a) \in Nat
    BY AppendProperties, LenProperties
<1>2. /\ SubSeq(a, n + 1, Len(a)) \in Seq(Contents) /\ Len(SubSeq(a, n + 1, Len(a))) = Len(a) - n
      /\ \A i \in 1..(Len(a) - n) : SubSeq(a, n + 1, Len(a))[i] = a[n + i]
    <2>1. \A i \in (n + 1)..Len(a) : a[i] \in Contents
        BY <1>1, ElementOfSeq
    <2> QED BY <1>1, <2>1, SubSeqProperties
<1>3. /\ SubSeq(b, n + 1, Len(a) + 1) \in Seq(Contents)
      /\ Len(SubSeq(b, n + 1, Len(a) + 1)) = Len(a) + 1 - n
      /\ \A i \in 1..(Len(a) + 1 - n) : SubSeq(b, n + 1, Len(a) + 1)[i] = b[n + i]
    <2>1. \A i \in (n + 1)..(Len(a) + 1) : b[i] \in Contents
        BY <1>1, ElementOfSeq
    <2> QED BY <1>1, <2>1, SubSeqProperties
<1> DEFINE c == Append(SubSeq(a, n + 1, Len(a)), m)
<1>4. /\ c \in Seq(Contents) /\ Len(c) = Len(a) - n + 1 /\ c[Len(a) - n + 1] = m
      /\ \A i \in 1..(Len(a) - n) : c[i] = SubSeq(a, n + 1, Len(a))[i]
    BY <1>2, AppendProperties
<1>5. \A i \in 1..Len(c) : SubSeq(b, n + 1, Len(a) + 1)[i] = c[i]
    <2> SUFFICES ASSUME NEW i \in 1..Len(c) PROVE SubSeq(b, n + 1, Len(a) + 1)[i] = c[i]
        OBVIOUS
    <2> HIDE DEF b, c
    <2>1. CASE i = Len(a) - n + 1
        BY <1>1, <1>3, <1>4, <2>1
    <2>2. CASE i \in 1..(Len(a) - n)
        BY <1>1, <1>2, <1>3, <1>4, <2>2
    <2> QED BY <1>1, <1>4, <2>1, <2>2
<1> HIDE DEF b, c
<1>6. SubSeq(b, n + 1, Len(a) + 1) = c
    BY <1>1, <1>3, <1>4, <1>5, SeqEqual
<1> QED BY <1>6 DEF b, c

\* The messages pushed and not received.
Rest == SubSeq(sent, recv_seq + 1, Len(sent))

\* Pop and sendMsg move a message from one part of the way to the next.
LEMMA WayMoves ==
    ASSUME NEW a \in Seq(Contents), NEW b \in Seq(Contents), NEW c \in Seq(Contents)
    PROVE  /\ (a \o b) \o <<>> \o c = a \o b \o c
           /\ b = <<>> /\ c # <<>> => a \o <<Head(c)>> \o Tail(c) = a \o b \o c
           /\ \A m \in Contents : a \o b \o Append(c, m) = Append(a \o b \o c, m)
           /\ a # <<>> => /\ Tail(a) \o b \o c = Tail(a \o b \o c)
                          /\ Head(a) = Head(a \o b \o c) /\ a \o b \o c # <<>>
           /\ a \o b \o c \in Seq(Contents)
           /\ Len(a \o b \o c) = Len(a) + Len(b) + Len(c)
<1>1. /\ Len(a) \in Nat /\ Len(b) \in Nat /\ Len(c) \in Nat
      /\ a \o b \in Seq(Contents) /\ Len(a \o b) = Len(a) + Len(b)
      /\ \A i \in 1..(Len(a) + Len(b)) : (a \o b)[i] = IF i <= Len(a) THEN a[i] ELSE b[i - Len(a)]
    BY LenProperties, ConcatProperties
<1>2. /\ a \o b \o c \in Seq(Contents) /\ Len(a \o b \o c) = Len(a) + Len(b) + Len(c)
      /\ a \o b \o c = a \o (b \o c)
    BY <1>1, ConcatProperties, ConcatAssociative
<1>3. (a \o b) \o <<>> = a \o b
    BY <1>1, ConcatEmptySeq
<1>4. ASSUME b = <<>>, c # <<>> PROVE a \o <<Head(c)>> \o Tail(c) = a \o b \o c
    <2>1. /\ Head(c) \in Contents /\ Tail(c) \in Seq(Contents) /\ <<Head(c)>> \in Seq(Contents)
        BY <1>4, HeadTailProperties
    <2>2. c = <<Head(c)>> \o Tail(c)
        <3>1. Len(c) \in Nat \ {0}
            BY <1>4, EmptySeq
        <3>2. /\ SubSeq(c, 1, Len(c)) = <<c[1]>> \o SubSeq(c, 2, Len(c))
              /\ SubSeq(c, 1, Len(c)) = c
            BY <3>1, SubSeqRecursiveFirst, SubSeqFull
        <3>3. Tail(c) = SubSeq(c, 2, Len(c)) /\ Head(c) = c[1]
            BY <1>4, TailIsSubSeq
        <3> QED BY <3>2, <3>3
    <2>3. (a \o <<Head(c)>>) \o Tail(c) = a \o (<<Head(c)>> \o Tail(c))
        BY <2>1, ConcatAssociative
    <2>4. a \o b = a
        BY <1>4, ConcatEmptySeq
    <2> QED BY <2>2, <2>3, <2>4
<1>5. ASSUME NEW m \in Contents PROVE a \o b \o Append(c, m) = Append(a \o b \o c, m)
    <2>1. /\ Append(c, m) = c \o <<m>> /\ Append(a \o b \o c, m) = (a \o b \o c) \o <<m>>
          /\ <<m>> \in Seq(Contents)
        BY <1>2, AppendIsConcat
    <2>2. (a \o b) \o (c \o <<m>>) = (a \o b \o c) \o <<m>>
        BY <1>1, <2>1, ConcatAssociative
    <2> QED BY <2>1, <2>2
<1>6. ASSUME a # <<>>
      PROVE  /\ Tail(a) \o b \o c = Tail(a \o b \o c)
             /\ Head(a) = Head(a \o b \o c) /\ a \o b \o c # <<>>
    <2> DEFINE d == b \o c
    <2>1. d \in Seq(Contents) /\ Len(d) \in Nat
        BY ConcatProperties, LenProperties
    <2>2. /\ Tail(a) \in Seq(Contents) /\ Len(Tail(a)) = Len(a) - 1 /\ Len(a) >= 1
          /\ \A i \in 1..(Len(a) - 1) : Tail(a)[i] = a[i + 1]
        BY <1>1, <1>6, HeadTailProperties, EmptySeq
    <2>3. Tail(a) \o b \o c = Tail(a) \o d
        <3>1. \A x \in Seq(Contents) : (x \o b) \o c = x \o (b \o c)
            BY ConcatAssociative
        <3> QED BY <2>2, <3>1
    <2> HIDE DEF d
    <2>4. /\ a \o d \in Seq(Contents) /\ Len(a \o d) = Len(a) + Len(d)
          /\ \A i \in 1..(Len(a) + Len(d)) :
                 (a \o d)[i] = IF i <= Len(a) THEN a[i] ELSE d[i - Len(a)]
        BY <2>1, ConcatProperties
    <2>5. a \o d # <<>>
        BY <1>1, <2>1, <2>2, <2>4, EmptySeq
    <2>6. /\ Tail(a \o d) \in Seq(Contents) /\ Len(Tail(a \o d)) = Len(a) + Len(d) - 1
          /\ \A i \in 1..(Len(a) + Len(d) - 1) : Tail(a \o d)[i] = (a \o d)[i + 1]
        BY <2>4, <2>5, HeadTailProperties
    <2>7. /\ Tail(a) \o d \in Seq(Contents) /\ Len(Tail(a) \o d) = Len(a) - 1 + Len(d)
          /\ \A i \in 1..(Len(a) - 1 + Len(d)) :
                 (Tail(a) \o d)[i] = IF i <= Len(a) - 1 THEN Tail(a)[i] ELSE d[i - (Len(a) - 1)]
        BY <2>1, <2>2, ConcatProperties
    <2>8. \A i \in 1..(Len(a) + Len(d) - 1) : (Tail(a) \o d)[i] = Tail(a \o d)[i]
        <3> SUFFICES ASSUME NEW i \in 1..(Len(a) + Len(d) - 1)
                     PROVE  (Tail(a) \o d)[i] = Tail(a \o d)[i]
            OBVIOUS
        <3>1. Tail(a \o d)[i] = IF i + 1 <= Len(a) THEN a[i + 1] ELSE d[i + 1 - Len(a)]
            BY <1>1, <2>1, <2>4, <2>6
        <3>2. CASE i <= Len(a) - 1
            BY <1>1, <2>1, <2>2, <2>7, <3>1, <3>2
        <3>3. CASE i > Len(a) - 1
            <4>1. i + 1 - Len(a) = i - (Len(a) - 1)
                BY <1>1
            <4> QED BY <1>1, <2>1, <2>7, <3>1, <3>3, <4>1
        <3> QED BY <1>1, <2>1, <3>2, <3>3
    <2>9. Tail(a) \o d = Tail(a \o d)
        BY <1>1, <2>1, <2>6, <2>7, <2>8, SeqEqual
    <2>10. Head(a) = Head(a \o d)
        BY <1>1, <1>6, <2>1, <2>2, <2>4, <2>5
    <2> QED BY <1>2, <2>3, <2>5, <2>9, <2>10 DEF d
<1> QED BY <1>2, <1>3, <1>4, <1>5, <1>6

LEMMA InOrderStep == ServerInv /\ ClientInv /\ InOrder /\ [Next]_vars => InOrder'
<1> SUFFICES ASSUME ServerInv, ClientInv, InOrder, [Next]_vars, status' = "Success"
             PROVE  /\ committed' = [i \in 1..recv_seq' |-> Cut[sent'[i]]]
                    /\ Rest' = wire' \o sender' \o msgs'
    BY DEF InOrder, Rest
<1>1. status = "Success"
    <2>1. CASE \E c \in Contents : AnswerRegister(c)
        BY <2>1 DEF AnswerRegister
    <2>2. CASE \E c \in Contents : commit(c)
        BY <2>2 DEF commit, server
    <2>3. CASE \E q \in Nat : ResultQuery(q)
        BY <2>3 DEF ResultQuery, QueryKnown, QueryUpdates, Failed
    <2>4. CASE UNCHANGED server
        BY <2>4 DEF server
    <2> QED BY <2>1, <2>2, <2>3, <2>4, ServerStep
<1>2. /\ committed = [i \in 1..recv_seq |-> Cut[sent[i]]]
      /\ Rest = wire \o sender \o msgs
    BY <1>1 DEF InOrder, Rest
<1>3. /\ recv_seq \in 0..Len(sent) /\ Len(sent) \in Nat /\ sent \in Seq(Contents)
      /\ msgs \in Seq(Contents) /\ sender \in Seq(Contents) /\ wire \in Seq(Contents)
    BY Lengths DEF ClientInv
<1>4. ASSUME UNCHANGED <<recv_seq, committed, pipe, sent>>
      PROVE  /\ committed' = [i \in 1..recv_seq' |-> Cut[sent'[i]]]
             /\ Rest' = wire' \o sender' \o msgs'
    BY <1>2, <1>4 DEF Rest, pipe
<1>5. CASE \/ \E c \in Contents : Generate(c) \/ OtherRegister(c)
           \/ \E q \in 1..(Messages + 1) : OtherQuery(q)
           \/ SendAnswer \/ SendAnswerFails \/ Check \/ Pass \/ UNCHANGED vars
    <2>1. UNCHANGED <<recv_seq, committed, pipe, sent>>
        BY <1>5, ReceivedStep DEF Generate, OtherRegister, OtherQuery, SendAnswer, SendAnswerFails,
           Check, Pass, vars, server
    <2> QED BY <1>4, <2>1
<1>6. CASE Push
    <2>1. /\ msgs' = Append(msgs, s) /\ sent' = Append(sent, s) /\ s \in Contents
          /\ UNCHANGED <<recv_seq, committed, sender, wire>>
        BY <1>6 DEF Push, server, ClientInv
    <2>2. /\ Len(sent') = Len(sent) + 1 /\ \A i \in 1..Len(sent) : sent'[i] = sent[i]
        BY <1>3, <2>1, AppendProperties
    <2>3. Rest' = Append(Rest, s)
        BY <1>3, <2>1, <2>2, OnePushed DEF Rest
    <2>4. wire \o sender \o Append(msgs, s) = Append(wire \o sender \o msgs, s)
        BY <1>3, <2>1, WayMoves
    <2>5. \A i \in 1..recv_seq : sent'[i] = sent[i]
        BY <1>3, <2>2
    <2>6. [i \in 1..recv_seq |-> Cut[sent'[i]]] = [i \in 1..recv_seq |-> Cut[sent[i]]]
        BY <2>5
    <2> QED BY <1>2, <2>1, <2>3, <2>4, <2>6
<1>7. CASE Pop
    <2>1. /\ sender = <<>> /\ msgs # <<>> /\ sender' = <<Head(msgs)>> /\ msgs' = Tail(msgs)
          /\ UNCHANGED <<recv_seq, committed, sent, wire>>
        BY <1>7 DEF Pop, server
    <2>2. wire \o <<Head(msgs)>> \o Tail(msgs) = wire \o sender \o msgs
        BY <1>3, <2>1, WayMoves
    <2> QED BY <1>2, <2>1, <2>2 DEF Rest
<1>8. CASE sendMsg
    <2>1. /\ wire' = wire \o sender /\ sender' = <<>>
          /\ UNCHANGED <<recv_seq, committed, sent, msgs>>
        BY <1>8 DEF sendMsg, server
    <2>2. (wire \o sender) \o <<>> \o msgs = wire \o sender \o msgs
        BY <1>3, WayMoves
    <2> QED BY <1>2, <2>1, <2>2 DEF Rest
<1>9. CASE recvMsg
    <2> DEFINE msg == Cut[Head(wire)]
    <2>1. /\ wire # <<>> /\ wire' = Tail(wire) /\ UNCHANGED <<sent, sender, msgs>>
          /\ recv_seq' = recv_seq + 1 /\ committed' = Append(committed, msg)
        BY <1>1, <1>9 DEF recvMsg, commit, Failed
    <2>2. /\ Head(wire) = Head(Rest) /\ Tail(Rest) = wire' \o sender \o msgs
          /\ Rest # <<>> /\ Rest \in Seq(Contents)
        BY <1>2, <1>3, <2>1, WayMoves
    <2>3. recv_seq + 1 \in 1..Len(sent)
        <3>1. recv_seq < Len(sent)
            <4>1. CASE recv_seq = Len(sent)
                BY <1>3, <2>2, <4>1, SubSeqEmpty DEF Rest
            <4> QED BY <1>3, <4>1
        <3> QED BY <1>3, <3>1
    <2>4. Head(Rest) = sent[recv_seq + 1] /\ Tail(Rest) = SubSeq(sent, recv_seq + 2, Len(sent))
        <3>1. Len(sent) \in (recv_seq + 1)..Len(sent)
            BY <1>3, <2>3
        <3> HIDE DEF msg
        <3> QED BY <1>3, <2>3, <3>1, HeadTailOfSubSeq DEF Rest
    <2>5. Rest' = Tail(Rest)
        <3>1. recv_seq' + 1 = recv_seq + 2 /\ Rest' = SubSeq(sent, recv_seq' + 1, Len(sent))
            BY <1>3, <2>1 DEF Rest
        <3> QED BY <2>4, <3>1
    <2>6. committed' = [i \in 1..recv_seq' |-> Cut[sent[i]]]
        <3>1. /\ Len(committed) = recv_seq /\ committed \in Seq(Contents) /\ msg \in Contents
            <4>1. Head(wire) \in Contents
                BY <1>3, <2>1, HeadTailProperties
            <4> QED BY <4>1, NetTestAssumption DEF ServerInv, ServerTypeOK
        <3>2. msg = Cut[sent[recv_seq + 1]]
            BY <2>2, <2>4
        <3> HIDE DEF msg
        <3>3. /\ committed' \in Seq(Contents) /\ Len(committed') = recv_seq + 1
              /\ committed'[recv_seq + 1] = msg
              /\ \A i \in 1..recv_seq : committed'[i] = committed[i]
            BY <2>1, <3>1, AppendProperties
        <3>4. /\ DOMAIN committed' = 1..(recv_seq + 1)
              /\ committed' = [i \in DOMAIN committed' |-> committed'[i]]
            BY <3>3, LenProperties
        <3>5. \A i \in 1..(recv_seq + 1) : committed'[i] = Cut[sent[i]]
            <4> SUFFICES ASSUME NEW i \in 1..(recv_seq + 1) PROVE committed'[i] = Cut[sent[i]]
                OBVIOUS
            <4>1. CASE i = recv_seq + 1
                BY <3>2, <3>3, <4>1
            <4>2. CASE i \in 1..recv_seq
                BY <1>2, <3>3, <4>2
            <4> QED BY <1>3, <4>1, <4>2
        <3> QED BY <2>1, <3>4, <3>5
    <2> QED BY <2>1, <2>2, <2>5, <2>6
<1> QED BY <1>5, <1>6, <1>7, <1>8, <1>9 DEF Next

------------------------------------------------------------------------------
(* Without a failed or foreign call, what is registered is what was pushed and *)
(* the message being pushed; so no registration comes upon a committed message. *)

NoFaults ==
    status = "Success" /\ faults = 0 =>
        /\ registered = IF tester = "push" THEN Append(sent, s) ELSE sent
        /\ \A i \in (cmp + 1)..recv_seq : info[i].msg = committed[i]

IInv == ServerInv /\ ClientInv /\ InOrder /\ NoFaults

\* What NoFaults says of the numbers: registered is not behind received.
LEMMA RegisteredAhead ==
    ASSUME IInv, status = "Success", faults = 0
    PROVE  /\ Len(sent) <= seq /\ recv_seq <= seq /\ seq \in Nat
           /\ \A i \in 1..Len(sent) : registered[i] = sent[i]
<1>1. sent \in Seq(Contents) /\ s \in Contents /\ seq = Len(registered) /\ Len(sent) \in Nat
      /\ recv_seq \in Nat /\ recv_seq <= Len(sent)
    BY Lengths DEF IInv, ServerInv, ServerTypeOK, ClientInv
<1>2. CASE tester = "push"
    <2>1. registered = Append(sent, s)
        BY <1>2 DEF IInv, NoFaults
    <2> QED BY <1>1, <2>1, AppendProperties
<1>3. CASE tester # "push"
    <2>1. registered = sent
        BY <1>3 DEF IInv, NoFaults
    <2> QED BY <1>1, <2>1
<1> QED BY <1>2, <1>3

LEMMA AnswersComeFirst == IInv => AnswerFirst
<1> SUFFICES ASSUME IInv, status = "Success", faults = 0, NEW i \in (cmp + 1)..recv_seq
             PROVE  info[i].msg = committed[i] /\ committed[i] = Cut[info[i].answer]
    BY RegisteredAhead DEF AnswerFirst
<1>1. /\ i \in 1..recv_seq /\ i \in 1..Len(sent) /\ i \in (cmp + 1)..seq
    BY RegisteredAhead, Lengths, Counters DEF IInv
<1>2. info[i].answer = registered[i] /\ registered[i] = sent[i]
    BY <1>1, RegisteredAhead DEF IInv, ServerInv, AnswersKept
<1>3. committed[i] = Cut[sent[i]]
    BY <1>1 DEF IInv, InOrder
<1>4. info[i].msg = committed[i]
    BY DEF IInv, NoFaults
<1> QED BY <1>2, <1>3, <1>4

LEMMA InitIInv == Init => IInv
<1> SUFFICES ASSUME Init PROVE IInv
    OBVIOUS
<1>1. InOrder
    <2>1. SubSeq(sent, recv_seq + 1, Len(sent)) = <<>>
        <3>1. recv_seq + 1 \in Int /\ Len(sent) \in Int /\ Len(sent) < recv_seq + 1
            BY EmptySeq DEF Init, ServerInit
        <3> QED BY <3>1, SubSeqEmpty
    <2>2. wire \o sender \o msgs = <<>>
        <3>1. <<>> \o <<>> = <<>>
            BY EmptySeq, ConcatEmptySeq
        <3> QED BY <3>1 DEF Init
    <2>3. committed = <<>> /\ recv_seq = 0 /\ [i \in 1..0 |-> Cut[sent[i]]] = <<>>
        BY DEF Init, ServerInit
    <2> QED BY <2>1, <2>2, <2>3 DEF InOrder
<1>2. NoFaults
    BY DEF Init, ServerInit, NoFaults
<1> QED BY <1>1, <1>2, InitServerInv, InitClientInv DEF IInv

LEMMA NoFaultsStep == IInv /\ [Next]_vars => NoFaults'
<1> SUFFICES ASSUME IInv, [Next]_vars, status' = "Success", faults' = 0
             PROVE  /\ registered' = IF tester' = "push" THEN Append(sent', s') ELSE sent'
                    /\ \A i \in (cmp' + 1)..recv_seq' : info'[i].msg = committed'[i]
    BY DEF NoFaults
<1>1. /\ ServerInv /\ ClientInv /\ InOrder /\ NoFaults
      /\ cmp \in Nat /\ recv_seq \in Nat /\ seq \in Nat
      /\ registered \in Seq(Contents) /\ committed \in Seq(Contents)
    BY Counters DEF IInv, ServerInv
<1>2. ASSUME status = "Success"
      PROVE  DOMAIN info = (cmp + 1)..Latest
    BY <1>1, <1>2 DEF ServerInv, EntriesLive, Latest
<1>3. ASSUME NEW c \in Contents, SendAnswerFails \/ OtherRegister(c) PROVE FALSE
    BY <1>1, <1>3, NetTestAssumption DEF SendAnswerFails, OtherRegister, Fault, ClientInv
<1>4. CASE (\E c \in Contents : Generate(c)) \/ Pass \/ Pop \/ sendMsg \/ UNCHANGED vars
    <2>1. UNCHANGED <<status, info, recv_seq, cmp, registered, committed, sent, faults>>
        BY <1>4 DEF Generate, Pass, Pop, sendMsg, vars, server
    <2>2. \/ tester' = tester /\ s' = s
          \/ tester # "push" /\ tester' # "push"
        BY <1>4 DEF Generate, Pass, Pop, sendMsg, vars
    <2> QED BY <1>1, <2>1, <2>2 DEF NoFaults
<1>5. CASE SendAnswer
    <2>1. /\ tester = "answer" /\ AnswerRegister(s) /\ UNCHANGED <<s, sent, faults>>
          /\ tester' = IF reply'.reason = "Success" THEN "push" ELSE "exception"
        BY <1>5 DEF SendAnswer
    <2>2. /\ ~Failed /\ status = "Success" /\ Put(seq + 1, [answer |-> s, msg |-> Empty])
          /\ registered' = Append(registered, s) /\ UNCHANGED <<recv_seq, cmp, committed>>
          /\ reply'.reason = "Success"
        BY <2>1 DEF AnswerRegister, Failed
    <2>3. registered = sent /\ \A i \in (cmp + 1)..recv_seq : info[i].msg = committed[i]
        BY <1>1, <2>1, <2>2 DEF NoFaults
    <2>4. recv_seq <= seq
        BY <2>1, <2>2, RegisteredAhead
    <2>5. \A i \in (cmp + 1)..recv_seq : i \in DOMAIN info /\ i # seq + 1
        BY <1>1, <1>2, <2>2, <2>4 DEF Latest
    <2>6. \A i \in (cmp + 1)..recv_seq : info'[i] = info[i]
        BY <2>2, <2>5 DEF Put
    <2> QED BY <2>1, <2>2, <2>3, <2>6
<1>6. CASE Push
    BY <1>1, <1>6 DEF Push, server, NoFaults
<1>7. ASSUME NEW q \in Nat, ResultQuery(q), UNCHANGED <<s, sent, faults>>,
             tester' = tester \/ (tester = "check" /\ tester' # "push")
      PROVE  /\ registered' = IF tester' = "push" THEN Append(sent', s') ELSE sent'
             /\ \A i \in (cmp' + 1)..recv_seq' : info'[i].msg = committed'[i]
    <2>1. UNCHANGED <<registered, committed, recv_seq>>
        BY <1>7 DEF ResultQuery, QueryKnown, QueryUpdates
    <2>2. CASE QueryKnown(q)
        BY <1>1, <1>7, <2>2 DEF QueryKnown, NoFaults
    <2>3. CASE QueryUpdates(q)
        <3>1. /\ ~Failed /\ status = "Success" /\ cmp' = Compared
              /\ info' = [i \in Left |-> IF i = Compared THEN Deleted ELSE info[i]]
            BY <2>3 DEF QueryUpdates, Failed
        <3>2. /\ Compared \in Nat /\ cmp <= Compared
            BY <1>1, ComparedFacts
        <3>3. \A i \in (Compared + 1)..recv_seq :
                  i \in (cmp + 1)..recv_seq /\ i \in DOMAIN info /\ i > Compared
            BY <1>1, <1>2, <3>1, <3>2 DEF Latest
        <3>4. \A i \in (Compared + 1)..recv_seq : info'[i] = info[i]
            BY <3>1, <3>2, <3>3 DEF Left
        <3> QED BY <1>1, <1>7, <2>1, <3>1, <3>3, <3>4 DEF NoFaults
    <2> QED BY <1>7, <2>2, <2>3 DEF ResultQuery
<1>8. CASE Check
    <2>1. CASE SendSeq <= SuccessMaxIdx
        BY <1>1, <1>8, <2>1 DEF Check, server, NoFaults
    <2>2. CASE ~(SendSeq <= SuccessMaxIdx)
        <3>1. /\ ResultQuery(SendSeq) /\ UNCHANGED <<s, sent, faults>>
              /\ tester = "check" /\ tester' # "push"
            BY <1>8, <2>2 DEF Check
        <3>2. SendSeq \in Nat
            BY <1>1, Lengths
        <3> QED BY <1>7, <3>1, <3>2
    <2> QED BY <2>1, <2>2
<1>9. CASE \E q \in 1..(Messages + 1) : OtherQuery(q)
    <2>1. PICK q \in 1..(Messages + 1) : OtherQuery(q)
        BY <1>9
    <2>2. q \in Nat /\ ResultQuery(q) /\ UNCHANGED <<s, sent, faults>> /\ tester' = tester
        BY <2>1, NetTestAssumption DEF OtherQuery
    <2> QED BY <1>7, <2>2
<1>10. CASE recvMsg
    <2>1. /\ commit(Cut[Head(wire)]) /\ UNCHANGED <<tester, s, sent, faults>>
        BY <1>10 DEF recvMsg
    <2>2. CASE Failed
        BY <1>1, <2>1, <2>2 DEF commit, server, NoFaults
    <2>3. CASE ~Failed
        <3> DEFINE msg == Cut[Head(wire)]
        <3>1. /\ status = "Success" /\ recv_seq' = recv_seq + 1 /\ Put(recv_seq + 1, Entry(msg))
              /\ committed' = Append(committed, msg) /\ UNCHANGED <<cmp, registered>>
            BY <2>1, <2>3 DEF commit, Failed
        <3>2. msg \in Contents
            <4>1. wire # <<>>
                BY <1>10 DEF recvMsg
            <4> QED BY <1>1, <4>1, HeadTailProperties, NetTestAssumption DEF ClientInv
        <3> HIDE DEF msg
        <3>3. /\ committed'[recv_seq + 1] = msg
              /\ \A i \in 1..recv_seq : committed'[i] = committed[i]
            <4>1. Len(committed) = recv_seq
                BY <1>1 DEF ServerInv, ServerTypeOK
            <4> QED BY <1>1, <3>1, <3>2, <4>1, AppendProperties
        <3>4. Entry(msg).msg = msg
            <4>1. CASE recv_seq + 1 \in DOMAIN info
                <5>1. info[recv_seq + 1] \in [answer : Contents, msg : Contents]
                    BY <1>1, <3>1, <4>1 DEF ServerInv, ServerTypeOK, EntriesLive
                <5> QED BY <4>1, <5>1 DEF Entry
            <4>2. CASE recv_seq + 1 \notin DOMAIN info
                BY <4>2 DEF Entry
            <4> QED BY <4>1, <4>2
        <3>5. \A i \in (cmp + 1)..recv_seq : i \in DOMAIN info /\ i \in 1..recv_seq
            BY <1>1, <1>2, <3>1 DEF Latest
        <3>6. /\ info'[recv_seq + 1] = Entry(msg)
              /\ \A i \in (cmp + 1)..recv_seq : info'[i] = info[i]
            <4>1. \A i \in DOMAIN info \cup {recv_seq + 1} :
                      info'[i] = IF i = recv_seq + 1 THEN Entry(msg) ELSE info[i]
                BY <3>1, Zenon DEF Put
            <4>2. \A i \in (cmp + 1)..recv_seq : i # recv_seq + 1
                BY <1>1
            <4> QED BY <3>5, <4>1, <4>2
        <3>7. \A i \in (cmp' + 1)..recv_seq' : info'[i].msg = committed'[i]
            <4> SUFFICES ASSUME NEW i \in (cmp + 1)..(recv_seq + 1)
                         PROVE  info'[i].msg = committed'[i]
                BY <3>1
            <4>1. CASE i = recv_seq + 1
                BY <3>3, <3>4, <3>6, <4>1
            <4>2. CASE i \in (cmp + 1)..recv_seq
                <5>1. info[i].msg = committed[i]
                    BY <1>1, <2>1, <3>1, <4>2 DEF NoFaults
                <5> QED BY <3>3, <3>5, <3>6, <4>2, <5>1
            <4> QED BY <1>1, <4>1, <4>2
        <3> QED BY <1>1, <2>1, <3>1, <3>7 DEF NoFaults
    <2> QED BY <2>2, <2>3
<1>11. CASE SendAnswerFails
    BY <1>1, <1>3, <1>11 DEF ClientInv
<1> QED BY <1>3, <1>4, <1>5, <1>6, <1>8, <1>9, <1>10, <1>11 DEF Next

\* Every reachable state satisfies the inductive invariant.
THEOREM Inductive == Spec => []IInv
<1>1. IInv /\ [Next]_vars => IInv'
    <2> SUFFICES ASSUME IInv, [Next]_vars PROVE IInv'
        OBVIOUS
    <2> QED BY ServerInvStep, ClientInvStep, InOrderStep, NoFaultsStep DEF IInv
<1> QED BY InitIInv, <1>1, PTL DEF Spec

------------------------------------------------------------------------------
(* The theorems *)

\* Every variable of the client and the server keeps its type; the counters of
\* the client stay below the wrap of uint32_t, those of the server count the
\* messages committed and the answers registered.
THEOREM TypeCorrect == Spec => []TypeOK
<1>1. IInv => TypeOK
    BY DEF IInv, ServerInv, ClientInv, TypeOK
<1> QED BY <1>1, Inductive, PTL

\* The tester is never blamed (test_server.cpp:64, 115): the branches are dead.
THEOREM TesterNeverBlamed == Spec => []NeverTestError
<1>1. IInv => NeverTestError
    BY DEF IInv, ServerInv
<1> QED BY <1>1, Inductive, PTL

\* The map of the server holds exactly the entries that are still to compare.
THEOREM MapIsLive == Spec => []EntriesLive
<1>1. IInv => EntriesLive
    BY DEF IInv, ServerInv
<1> QED BY <1>1, Inductive, PTL

\* An answer registered stays in the map until it is compared.
THEOREM AnswersStay == Spec => []AnswersKept
<1>1. IInv => AnswersKept
    BY DEF IInv, ServerInv
<1> QED BY <1>1, Inductive, PTL

\* The messages arrive in the order of the pushes, each once.
THEOREM ArriveInOrder == Spec => []InOrder
<1>1. IInv => InOrder
    BY DEF IInv
<1> QED BY <1>1, Inductive, PTL

\* With no failed and no foreign call, each message is compared with its answer.
THEOREM ComparedWithOwnAnswer == Spec => []AnswerFirst
<1> QED BY AnswersComeFirst, Inductive, PTL

\* A failed test is over: no later call, of whatever client, changes it.
THEOREM FailedStaysFailed == Spec => FailureIsFinal
<1>1. ASSUME IInv, [Next]_vars, status # "Success"
      PROVE  UNCHANGED <<status, info, recv_seq, seq, cmp, registered, committed>>
    <2>1. CASE \E c \in Contents : AnswerRegister(c)
        BY <1>1, <2>1 DEF AnswerRegister, Failed
    <2>2. CASE \E c \in Contents : commit(c)
        BY <1>1, <2>2 DEF commit, server, Failed
    <2>3. CASE \E q \in Nat : ResultQuery(q)
        BY <1>1, <2>3 DEF ResultQuery, QueryKnown, QueryUpdates, Failed
    <2>4. CASE UNCHANGED server
        BY <2>4 DEF server
    <2> QED BY <1>1, <2>1, <2>2, <2>3, <2>4, ServerStep DEF IInv
<1>2. IInv /\ [Next]_vars
        => [status # "Success" =>
              UNCHANGED <<status, info, recv_seq, seq, cmp, registered, committed>>]_server
    BY <1>1
<1> QED BY <1>2, Inductive, PTL DEF Spec, FailureIsFinal

\* A reply "Wait" is given only when all that was received is compared, and
\* "WaitRPC" only when fewer answers are registered than messages received.
THEOREM RightSideBlamed == Spec => WaitsForTheRightSide
<1>1. ASSUME IInv, [Next]_vars, reply' # reply
      PROVE  /\ reply'.reason = "Wait" => cmp' = recv_seq /\ recv_seq <= seq
             /\ reply'.reason = "WaitRPC" => cmp' = seq /\ seq < recv_seq
    <2>0. ServerInv /\ status \in {"Success", "Diff", "TestError"}
        BY <1>1 DEF IInv, ServerInv, ServerTypeOK
    <2>1. CASE \E c \in Contents : AnswerRegister(c)
        BY <2>0, <2>1 DEF AnswerRegister
    <2>2. CASE \E c \in Contents : commit(c)
        BY <1>1, <2>2 DEF commit, server
    <2>3. ASSUME NEW q \in Nat, QueryKnown(q) PROVE reply'.reason = status
        BY <2>3 DEF QueryKnown
    <2>4. ASSUME NEW q \in Nat, QueryUpdates(q)
          PROVE  /\ reply'.reason = "Wait" => cmp' = recv_seq /\ recv_seq <= seq
                 /\ reply'.reason = "WaitRPC" => cmp' = seq /\ seq < recv_seq
        <3>1. ~Failed /\ reply'.reason = Verdict(q) /\ cmp' = Compared
            BY <2>4 DEF QueryUpdates
        <3>2. /\ Verdict(q) = "Wait" => Compared = recv_seq
              /\ Verdict(q) = "WaitRPC" => Compared = seq /\ seq # recv_seq
            BY <2>0, <3>1, VerdictFacts
        <3>3. Compared \in Nat /\ Compared <= recv_seq /\ Compared <= seq
            BY <2>0, Counters, ComparedFacts
        <3> QED BY <2>0, <3>1, <3>2, <3>3, Counters
    <2>5. CASE UNCHANGED server
        BY <1>1, <2>5 DEF server
    <2>6. CASE \E q \in Nat : ResultQuery(q)
        BY <2>0, <2>3, <2>4, <2>6 DEF ResultQuery
    <2> QED BY <1>1, <2>1, <2>2, <2>5, <2>6, ServerStep DEF IInv
<1>2. IInv /\ [Next]_vars
        => [ /\ reply'.reason = "Wait" => cmp' = recv_seq /\ recv_seq <= seq
             /\ reply'.reason = "WaitRPC" => cmp' = seq /\ seq < recv_seq ]_reply
    BY <1>1
<1> QED BY <1>2, Inductive, PTL DEF Spec, WaitsForTheRightSide
==============================================================================
