------------------------------ MODULE EchoProofs ------------------------------
(***************************************************************************)
(* Facts about the echo client and server of network/客户端.cpp and        *)
(* network/服务端.cpp, for any number of addresses and requests and any    *)
(* MAXSLEEP that doubling from 1 reaches, as the client's 128 is: an       *)
(* inductive invariant from which RetriesBounded, SomethingComes and       *)
(* ShownOnce follow.  ProgramsProofs makes theorems of the specification   *)
(* of them.                                                                *)
(***************************************************************************)
EXTENDS Echo, SequenceTheorems, TLAPS

------------------------------------------------------------------------------
(* Doubling *)

\* n is one of a, 2 * a, 4 * a, ...: it is in every set that holds a and the
\* double of each of its members.
Doubles(a, n) ==
    \A S \in SUBSET Nat : a \in S /\ (\A m \in S : 2 * m \in S) => n \in S

\* The value in the source is reached from 1.
LEMMA SourceMAXSLEEP == Doubles(1, 128)
<1> SUFFICES ASSUME NEW S \in SUBSET Nat, 1 \in S, \A m \in S : 2 * m \in S PROVE 128 \in S
    BY DEF Doubles
<1>1. 2 * 1 \in S /\ 2 * 2 \in S /\ 2 * 4 \in S /\ 2 * 8 \in S
    OBVIOUS
<1>2. 2 * 16 \in S /\ 2 * 32 \in S /\ 2 * 64 \in S
    BY <1>1
<1> QED BY <1>2

\* The first of them is the smallest, and the second is the next.
LEMMA DoublesStep ==
    ASSUME NEW a \in Nat \ {0}, NEW n \in Nat, Doubles(a, n)
    PROVE  /\ a <= n
           /\ a # n => Doubles(2 * a, n) /\ 2 * a <= n
<1>1. ASSUME NEW b \in Nat, Doubles(b, n) PROVE b <= n
    <2> DEFINE S == {m \in Nat : b <= m}
    <2>1. S \in SUBSET Nat /\ b \in S /\ \A m \in S : 2 * m \in S
        OBVIOUS
    <2> HIDE DEF S
    <2>2. n \in S
        BY <1>1, <2>1 DEF Doubles
    <2> QED BY <2>2 DEF S
<1>2. ASSUME a # n PROVE Doubles(2 * a, n)
    <2> SUFFICES ASSUME NEW S \in SUBSET Nat, 2 * a \in S, \A m \in S : 2 * m \in S PROVE n \in S
        BY DEF Doubles
    <2>1. S \cup {a} \in SUBSET Nat /\ a \in S \cup {a} /\ \A m \in S \cup {a} : 2 * m \in S \cup {a}
        OBVIOUS
    <2>2. n \in S \cup {a}
        BY <2>1, Zenon DEF Doubles
    <2> QED BY <1>2, <2>2
<1> QED BY <1>1, <1>2

------------------------------------------------------------------------------
(* The inductive invariant *)

Writes == {"answer", "error", "errno", "newline"}

Counts ==
    /\ address \in Nat \ {0} /\ bound \in Nat /\ sent \in Nat /\ shown \in Nat
    /\ toServer \in Seq(Nat) /\ toClient \in Seq(Writes)

\* Up to the last attempt the seconds slept are one less than the next sleep.
Slept ==
    /\ numsec \in Nat \ {0}
    /\ numsec <= MAXSLEEP => Doubles(numsec, MAXSLEEP) /\ slept = numsec - 1
    /\ numsec > MAXSLEEP => slept = MAXSLEEP - 1
    /\ sockets = IF client \in {"prompt", "recv"} THEN 1 ELSE 0

\* A client that is connected has a server that serves.
Serving ==
    /\ client \in {"prompt", "recv"} => bound # 0
    /\ bound # 0 /\ client # "gone" => server \in {"accept", "recv", "waitpid"}
    /\ server = "bind" => bound = 0
    /\ reset => client = "gone"
    /\ client \in {"connect", "prompt", "recv", "gone"}

\* The requests not read by the server are the last ones sent.
Unread ==
    /\ \A i \in 1..Len(toServer) : toServer[i] = sent - Len(toServer) + i
    /\ shown + Len(toServer) <= sent

IInv == Counts /\ Serving /\ Unread /\ SomethingComes

\* What a recv leaves.
LEMMA RestFacts ==
    ASSUME NEW S, NEW q \in Seq(S), NEW n \in 1..Len(q)
    PROVE  /\ Rest(q, n) \in Seq(S) /\ Len(q) \in Nat /\ Len(Rest(q, n)) = Len(q) - n
           /\ \A i \in 1..(Len(q) - n) : Rest(q, n)[i] = q[n + i]
<1>1. Len(q) \in Nat /\ \A i \in (n + 1)..Len(q) : q[i] \in S
    BY LenProperties, ElementOfSeq
<1> DEFINE m == n + 1
           k == Len(q)
<1>2. m \in Int /\ k \in Int /\ \A i \in m..k : q[i] \in S
    BY <1>1
<1> HIDE DEF m, k
<1>3. /\ SubSeq(q, m, k) \in Seq(S)
      /\ Len(SubSeq(q, m, k)) = IF m <= k THEN k - m + 1 ELSE 0
      /\ \A i \in 1..(k - m + 1) : SubSeq(q, m, k)[i] = q[m + i - 1]
    BY <1>2, SubSeqProperties
<1> USE DEF m, k
<1>4. \A i \in 1..(k - m + 1) : m + i - 1 = n + i
    BY <1>1
<1> QED BY <1>1, <1>3, <1>4 DEF Rest

\* What is said to a client that is there reaches it.
LEMMA SayFacts ==
    ASSUME NEW q \in Seq(Writes), NEW writes \in Seq(Writes), writes # <<>>
    PROVE  q \o writes \in Seq(Writes) /\ q \o writes # <<>>
<1>1. q \o writes \in Seq(Writes) /\ Len(q \o writes) = Len(q) + Len(writes)
    BY ConcatProperties
<1>2. Len(q) \in Nat /\ Len(writes) \in Nat \ {0}
    BY LenProperties, EmptySeq
<1>3. Len(<<>>) = 0
    BY EmptySeq
<1> QED BY <1>1, <1>2, <1>3

LEMMA EchoStarts == EchoInit => IInv
<1> SUFFICES ASSUME EchoInit PROVE IInv
    OBVIOUS
<1>1. <<>> \in Seq(Nat) /\ <<>> \in Seq(Writes) /\ Len(<<>>) = 0
    BY EmptySeq
<1> QED BY <1>1 DEF EchoInit, IInv, Counts, Serving, Unread, SomethingComes

\* The step in which the server shows a request keeps the order.
LEMMA ServeFacts ==
    ASSUME IInv, serve
    PROVE  /\ shown' \in Nat /\ shown < shown'
           /\ toServer' \in Seq(Nat) /\ Unread'
<1>0. /\ toServer \in Seq(Nat) /\ sent \in Nat /\ shown \in Nat /\ sent' = sent
      /\ \A i \in 1..Len(toServer) : toServer[i] = sent - Len(toServer) + i
      /\ shown + Len(toServer) <= sent
    BY DEF IInv, Counts, Unread, serve, clientVars
<1>1. PICK n \in 1..Len(toServer) : toServer' = Rest(toServer, n)
    BY DEF serve
<1>2. /\ toServer' \in Seq(Nat) /\ Len(toServer) \in Nat /\ Len(toServer') = Len(toServer) - n
      /\ \A i \in 1..(Len(toServer) - n) : toServer'[i] = toServer[n + i]
    BY <1>0, <1>1, RestFacts
<1>3. shown' = toServer[1] /\ 1 \in 1..Len(toServer)
    <2>1. toServer # <<>>
        BY <1>1, <1>2, EmptySeq
    <2> QED BY <1>1, <1>2, <2>1 DEF serve
<1>4. shown' = sent - Len(toServer) + 1
    BY <1>0, <1>3
<1>5. \A i \in 1..Len(toServer') : toServer'[i] = sent - Len(toServer') + i
    <2> SUFFICES ASSUME NEW i \in 1..Len(toServer') PROVE toServer'[i] = sent - Len(toServer') + i
        OBVIOUS
    <2>1. toServer'[i] = toServer[n + i] /\ n + i \in 1..Len(toServer)
        BY <1>1, <1>2
    <2>2. toServer[n + i] = sent - Len(toServer) + (n + i)
        BY <1>0, <2>1
    <2> QED BY <1>0, <1>2, <2>1, <2>2
<1> QED BY <1>0, <1>2, <1>4, <1>5 DEF Unread

LEMMA EchoSteps == EchoAssumption /\ IInv /\ [EchoNext]_echoVars => IInv'
<1> SUFFICES ASSUME EchoAssumption, IInv, [EchoNext]_echoVars PROVE IInv'
    OBVIOUS
<1> USE DEF clientVars, serverVars
<1>0. Counts /\ Serving /\ Unread /\ SomethingComes
    BY DEF IInv
<1>1. CASE Connect \/ ConnectFails \/ NextAddress
    <2>1. /\ client = "connect" /\ client' \in {"connect", "prompt", "gone"}
          /\ client' = "prompt" => bound = address
          /\ address' \in {address, address + 1}
          /\ UNCHANGED <<sent, server, bound, child, shown, toServer, toClient, reset>>
        BY <1>1 DEF Connect, ConnectFails, NextAddress
    <2> QED BY <1>0, <2>1 DEF IInv, Counts, Serving, Unread, SomethingComes
<1>2. CASE Send
    <2>1. /\ client = "prompt" /\ client' = "recv" /\ sent' = sent + 1
          /\ toServer' = Append(toServer, sent + 1)
          /\ UNCHANGED <<address, server, bound, child, shown, toClient, reset>>
        BY <1>2 DEF Send
    <2>2. toServer \in Seq(Nat) /\ sent \in Nat /\ sent + 1 \in Nat /\ Len(toServer) \in Nat
        BY <1>0, LenProperties DEF Counts
    <2>3. /\ toServer' \in Seq(Nat) /\ Len(toServer') = Len(toServer) + 1
          /\ toServer' # <<>>
          /\ \A i \in 1..Len(toServer) : toServer'[i] = toServer[i]
          /\ toServer'[Len(toServer) + 1] = sent + 1
        BY <2>1, <2>2, AppendProperties
    <2>4. Unread'
        <3>1. ASSUME NEW i \in 1..Len(toServer')
              PROVE  toServer'[i] = sent' - Len(toServer') + i
            <4>1. CASE i = Len(toServer) + 1
                BY <2>1, <2>2, <2>3, <4>1
            <4>2. CASE i \in 1..Len(toServer)
                <5>1. toServer[i] = sent - Len(toServer) + i
                    BY <1>0, <4>2 DEF Unread
                <5> QED BY <2>1, <2>2, <2>3, <4>2, <5>1
            <4> QED BY <2>2, <2>3, <4>1, <4>2
        <3>2. shown' + Len(toServer') <= sent'
            BY <1>0, <2>1, <2>2, <2>3 DEF Unread, Counts
        <3> QED BY <3>1, <3>2 DEF Unread
    <2> QED BY <1>0, <2>1, <2>2, <2>3, <2>4 DEF IInv, Counts, Serving, SomethingComes
<1>3. CASE print_uptime
    <2>1. PICK n \in 1..Len(toClient) : toClient' = Rest(toClient, n)
        BY <1>3 DEF print_uptime
    <2>2. toClient' \in Seq(Writes)
        BY <1>0, <2>1, RestFacts DEF Counts
    <2> QED BY <1>0, <1>3, <2>2 DEF print_uptime, IInv, Counts, Serving, Unread, SomethingComes
<1>4. CASE Close
    <2>1. <<>> \in Seq(Writes)
        BY EmptySeq
    <2> QED BY <1>0, <1>4, <2>1 DEF Close, IInv, Counts, Serving, Unread, SomethingComes
<1>5. CASE FindAddress
    <2>1. /\ server = "bind" /\ bound' \in Nat
          /\ bound' # 0 => server' = "accept"
          /\ server' \in {"accept", "gone"}
          /\ UNCHANGED <<client, address, sent, child, shown, toServer, toClient, reset>>
        BY <1>5 DEF FindAddress, initserver, EchoAssumption
    <2> QED BY <1>0, <2>1 DEF IInv, Counts, Serving, Unread, SomethingComes
<1>6. CASE Accept \/ WaitChild
    BY <1>0, <1>6 DEF Accept, WaitChild, IInv, Counts, Serving, Unread, SomethingComes
<1>7. CASE serve
    <2>1. UNCHANGED <<client, address, sent, bound, toClient, reset>>
          /\ server' = "waitpid" /\ child' = "getline" /\ server = "recv"
        BY <1>7 DEF serve, ForkChild
    <2> QED BY <1>0, <1>7, <2>1, ServeFacts DEF IInv, Counts, Serving, SomethingComes
<1>8. CASE ServeNothing
    BY <1>0, <1>8 DEF ServeNothing, ForkChild, IInv, Counts, Serving, Unread, SomethingComes
<1>9. CASE RecvFails
    BY <1>0, <1>9 DEF RecvFails, IInv, Counts, Serving, Unread, SomethingComes
<1>10. CASE Answer \/ ChildFails
    <2>1. /\ UNCHANGED <<client, address, sent, server, bound, shown, toServer>>
          /\ child' \in {"loop", "none"} /\ reset' = FALSE
        BY <1>10 DEF Answer, ChildFails, Say
    <2>2. toClient' \in Seq(Writes) /\ (client = "gone" \/ toClient' # <<>>)
        <3>1. PICK writes \in {<<"answer">>, <<"error", "errno", "newline">>} : Say(writes)
            BY <1>10 DEF Answer, ChildFails
        <3>2. writes \in Seq(Writes) /\ writes # <<>>
            <4>1. <<"answer">> \in Seq(Writes) /\ <<"answer">> # <<>>
                BY DEF Writes
            <4>2. /\ <<"error", "errno", "newline">> \in Seq(Writes)
                  /\ <<"error", "errno", "newline">> # <<>>
                BY DEF Writes
            <4> QED BY <4>1, <4>2
        <3> QED BY <1>0, <3>1, <3>2, SayFacts DEF Say, Counts
    <2> QED BY <1>0, <2>1, <2>2 DEF IInv, Counts, Serving, Unread, SomethingComes
<1>11. CASE UNCHANGED echoVars
    BY <1>0, <1>11 DEF echoVars, IInv, Counts, Serving, Unread, SomethingComes
<1> QED BY <1>1, <1>2, <1>3, <1>4, <1>5, <1>6, <1>7, <1>8, <1>9, <1>10, <1>11 DEF EchoNext

------------------------------------------------------------------------------
(* What follows *)

\* After the last address there is no attempt more, and the client's one socket is
\* that of its connection.
Typed ==
    /\ EchoTypeOK
    /\ client = "connect" /\ numsec > MAXSLEEP => address <= Addresses
    /\ sockets = IF client \in {"prompt", "recv"} THEN 1 ELSE 0
    /\ numsec \in Nat

LEMMA TypesStart == EchoInit /\ EchoAssumption => Typed
BY DEF EchoInit, EchoAssumption, Typed, EchoTypeOK

LEMMA TypesStep == EchoAssumption /\ IInv' /\ Typed /\ [EchoNext]_echoVars => Typed'
<1> SUFFICES ASSUME EchoAssumption, IInv', Typed, [EchoNext]_echoVars PROVE Typed'
    OBVIOUS
<1> USE DEF clientVars, serverVars
<1>0. Addresses \in Nat /\ MAXSLEEP \in Nat \ {0} /\ MaxRequests \in Nat
    BY DEF EchoAssumption
<1>1. shown' \in Nat /\ shown' <= sent'
    <2>1. shown' \in Nat /\ sent' \in Nat /\ Len(toServer') \in Nat /\ shown' + Len(toServer') <= sent'
        BY LenProperties DEF IInv, Counts, Unread
    <2> QED BY <2>1
<1>2. CASE Connect \/ ConnectFails \/ NextAddress
    <2>1. UNCHANGED <<sent, shown, server, bound, child>>
        BY <1>2 DEF Connect, ConnectFails, NextAddress
    <2>2. CASE Connect
        BY <1>0, <2>1, <2>2 DEF Connect, Typed, EchoTypeOK
    <2>3. CASE ConnectFails
        BY <1>0, <2>1, <2>3 DEF ConnectFails, CloseFailed, Typed, EchoTypeOK
    <2>4. CASE NextAddress
        BY <1>0, <2>1, <2>4 DEF NextAddress, Typed, EchoTypeOK
    <2> QED BY <1>2, <2>2, <2>3, <2>4
<1>3. CASE Send
    BY <1>0, <1>3 DEF Send, Typed, EchoTypeOK
<1>4. CASE print_uptime \/ Close
    BY <1>0, <1>4 DEF print_uptime, Close, Typed, EchoTypeOK
<1>5. CASE FindAddress \/ Accept \/ RecvFails \/ WaitChild
    <2>1. /\ UNCHANGED <<client, address, numsec, sockets, sent, child, shown>>
          /\ server' \in {"accept", "recv", "waitpid", "gone"} /\ bound' \in {bound} \cup 0..Addresses
        BY <1>0, <1>5 DEF FindAddress, initserver, Accept, RecvFails, WaitChild
    <2> QED BY <2>1 DEF Typed, EchoTypeOK
<1>6. CASE serve \/ ServeNothing
    <2>1. /\ UNCHANGED <<client, address, numsec, sockets, sent, bound>>
          /\ server' \in {"waitpid", "gone"} /\ child' \in {"getline", child}
        BY <1>6 DEF serve, ServeNothing, ForkChild
    <2> QED BY <1>0, <1>1, <2>1 DEF Typed, EchoTypeOK
<1>7. CASE Answer \/ ChildFails
    BY <1>7 DEF Answer, ChildFails, Typed, EchoTypeOK
<1>8. CASE UNCHANGED echoVars
    BY <1>8 DEF echoVars, Typed, EchoTypeOK
<1> QED BY <1>2, <1>3, <1>4, <1>5, <1>6, <1>7, <1>8 DEF EchoNext

LEMMA SleepsStart == EchoInit /\ Doubles(1, MAXSLEEP) /\ EchoAssumption => Slept
<1> SUFFICES ASSUME EchoInit, Doubles(1, MAXSLEEP), EchoAssumption PROVE Slept
    OBVIOUS
<1>1. 1 <= MAXSLEEP
    BY DEF EchoAssumption
<1> QED BY <1>1 DEF EchoInit, EchoAssumption, Slept

LEMMA SleepsStep ==
    EchoAssumption /\ Doubles(1, MAXSLEEP) /\ Slept /\ [EchoNext]_echoVars => Slept'
<1> SUFFICES ASSUME EchoAssumption, Doubles(1, MAXSLEEP), Slept, [EchoNext]_echoVars
             PROVE  Slept'
    OBVIOUS
<1> USE DEF clientVars, serverVars
<1>0. MAXSLEEP \in Nat \ {0} /\ numsec \in Nat \ {0}
    BY DEF EchoAssumption, Slept
<1>1. CASE ConnectFails
    <2>1. /\ client = "connect" /\ client' = client /\ numsec <= MAXSLEEP /\ sockets' = sockets
          /\ slept' = slept + Sleep(numsec) /\ numsec' = 2 * numsec
        BY <1>1 DEF ConnectFails, CloseFailed
    <2>2. Doubles(numsec, MAXSLEEP) /\ slept = numsec - 1
        BY <2>1 DEF Slept
    <2>3. CASE numsec # MAXSLEEP
        <3>1. Doubles(2 * numsec, MAXSLEEP) /\ 2 * numsec <= MAXSLEEP
            BY <1>0, <2>2, <2>3, DoublesStep
        <3>2. Sleep(numsec) = numsec
            BY <1>0, <3>1 DEF Sleep
        <3> QED BY <1>0, <2>1, <2>2, <3>1, <3>2 DEF Slept
    <2>4. CASE numsec = MAXSLEEP
        <3>1. Sleep(numsec) = 0
            BY <1>0, <2>4 DEF Sleep
        <3> QED BY <1>0, <2>1, <2>2, <2>4, <3>1 DEF Slept
    <2> QED BY <2>3, <2>4
<1>2. CASE NextAddress
    <2>1. numsec' = 1 /\ slept' = 0 /\ sockets' = sockets
          /\ client = "connect" /\ client' \in {"connect", "gone"}
        BY <1>2 DEF NextAddress
    <2> QED BY <1>0, <2>1 DEF Slept
<1>3. CASE Connect
    BY <1>3 DEF Connect, Slept
<1>4. CASE Send \/ print_uptime \/ Close
    BY <1>4 DEF Send, print_uptime, Close, Slept
<1>5. CASE \/ FindAddress \/ Accept \/ serve \/ ServeNothing \/ RecvFails
           \/ Answer \/ ChildFails \/ WaitChild
    BY <1>5 DEF FindAddress, Accept, serve, ServeNothing, RecvFails, Answer, ChildFails,
                WaitChild, Slept
<1>6. CASE UNCHANGED echoVars
    BY <1>6 DEF echoVars, Slept
<1> QED BY <1>1, <1>2, <1>3, <1>4, <1>5, <1>6 DEF EchoNext

LEMMA RetriesAreBounded == EchoAssumption /\ Slept => RetriesBounded
<1> SUFFICES ASSUME EchoAssumption, Slept PROVE RetriesBounded
    OBVIOUS
<1>1. slept < MAXSLEEP
    BY DEF EchoAssumption, Slept
<1> QED BY <1>1 DEF Slept, RetriesBounded

LEMMA SomethingAlwaysComes == IInv => SomethingComes
BY DEF IInv

LEMMA ShownInOrder ==
    IInv /\ [EchoNext]_echoVars =>
        (server = "recv" /\ server' = "waitpid" =>
            shown' > shown \/ (client = "gone" /\ toServer = <<>>))
<1> SUFFICES ASSUME IInv, [EchoNext]_echoVars, server = "recv", server' = "waitpid"
             PROVE  shown' > shown \/ (client = "gone" /\ toServer = <<>>)
    OBVIOUS
<1>1. serve \/ ServeNothing
    BY DEF EchoNext, echoVars, clientVars, serverVars, Connect, ConnectFails, NextAddress, Send,
           print_uptime, Close, FindAddress, Accept, RecvFails, Answer, ChildFails, WaitChild
<1>2. CASE serve
    BY <1>2, ServeFacts DEF IInv, Counts
<1>3. CASE ServeNothing
    BY <1>3 DEF ServeNothing
<1> QED BY <1>1, <1>2, <1>3
==============================================================================
