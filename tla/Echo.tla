--------------------------------- MODULE Echo ---------------------------------
(***************************************************************************)
(* The client network/客户端.cpp and the server network/服务端.cpp on one    *)
(* connection: connect_retry with its back-off, and the conversation in    *)
(* which the server forks a child for every answer.                        *)
(*                                                                         *)
(* A request is its number, as the client sends it: a line that ends with  *)
(* a newline and does not begin with "exit".  Both directions of the       *)
(* connection are FIFO streams, of which one recv takes any non-empty part *)
(* that has arrived.                                                       *)
(***************************************************************************)
EXTENDS Integers, Sequences

CONSTANTS
    Addresses,    \* how many addresses getaddrinfo returns, to both programs
    MAXSLEEP,
    MaxRequests   \* bound: requests sent

EchoAssumption == Addresses \in Nat /\ MAXSLEEP \in Nat \ {0} /\ MaxRequests \in Nat

VARIABLES
    client,     \* where the client is
    address,    \* the address the client tries
    numsec,
    slept,      \* history: seconds slept in this call of connect_retry
    sockets,    \* descriptors the client has open
    sent,       \* requests sent
    server,     \* where the server is
    bound,      \* the address the server is bound to, 0 for none
    child,      \* where the server's child is
    shown,      \* the request in front of Rebuf, 0 before the first
    toServer, toClient,
    reset       \* the client has closed with answers unread

clientVars == <<client, address, numsec, slept, sockets, sent>>
serverVars == <<server, bound, child, shown>>
echoVars == <<clientVars, serverVars, toServer, toClient, reset>>

EchoInit ==
    /\ client = "connect" /\ address = 1 /\ numsec = 1 /\ slept = 0 /\ sockets = 0
    /\ sent = 0
    /\ server = "bind" /\ bound = 0 /\ child = "none" /\ shown = 0
    /\ toServer = <<>> /\ toClient = <<>> /\ reset = FALSE

Rest(s, n) == SubSeq(s, n + 1, Len(s))

------------------------------------------------------------------------------
(* connect_retry, and the client's loop over the addresses *)

\* Mutant: the last attempt is followed by a sleep, too.
SleepAlways(n) == n

Sleep(n) == IF n <= MAXSLEEP \div 2 THEN n ELSE 0

\* Mutant: the socket of a failed attempt is left open.
KeepSocket == sockets' = sockets + 1

\* socket, a connect that fails, close.
CloseFailed == sockets' = sockets

Connect ==
    /\ client = "connect" /\ address <= Addresses /\ bound = address
    /\ client' = "prompt" /\ sockets' = sockets + 1
    /\ UNCHANGED <<address, numsec, slept, sent, serverVars, toServer, toClient, reset>>

ConnectFails ==
    /\ client = "connect" /\ address <= Addresses /\ bound # address
    /\ numsec <= MAXSLEEP
    /\ CloseFailed
    /\ slept' = slept + Sleep(numsec)
    /\ numsec' = 2 * numsec
    /\ UNCHANGED <<client, address, sent, serverVars, toServer, toClient, reset>>

NextAddress ==
    /\ client = "connect" /\ numsec > MAXSLEEP
    /\ address' = address + 1 /\ numsec' = 1 /\ slept' = 0
    /\ client' = IF address = Addresses THEN "gone" ELSE "connect"
    /\ UNCHANGED <<sockets, sent, serverVars, toServer, toClient, reset>>

------------------------------------------------------------------------------
(* The client's conversation *)

Send ==
    /\ client = "prompt" /\ sent < MaxRequests
    /\ sent' = sent + 1
    /\ toServer' = Append(toServer, sent + 1)
    /\ client' = "recv"
    /\ UNCHANGED <<address, numsec, slept, sockets, serverVars, toClient, reset>>

\* print_uptime: one recv, whatever is still to come.
print_uptime ==
    /\ client = "recv"
    /\ \E n \in 1..Len(toClient) : toClient' = Rest(toClient, n)
    /\ client' = "prompt"
    /\ UNCHANGED <<address, numsec, slept, sockets, sent, serverVars, toServer, reset>>

\* The user types exit: the word is not sent.
Close ==
    /\ client = "prompt"
    /\ client' = "gone" /\ sockets' = sockets - 1
    /\ reset' = (toClient # <<>>) /\ toClient' = <<>>
    /\ UNCHANGED <<address, numsec, slept, sent, serverVars, toServer>>

------------------------------------------------------------------------------
(* The server *)

\* socket, bind and listen on address a.
initserver(a) == bound' = a /\ server' = "accept"

\* One address after the other, until one succeeds.
FindAddress ==
    /\ server = "bind"
    /\ \/ \E a \in 1..Addresses : initserver(a)
       \/ bound' = 0 /\ server' = "gone"
    /\ UNCHANGED <<clientVars, child, shown, toServer, toClient, reset>>

\* The connection may have waited in the queue of listen: requests can be in it
\* already, and it can be closed already.
Accept ==
    /\ server = "accept" /\ client # "connect" /\ address <= Addresses
    /\ server' = "recv"
    /\ UNCHANGED <<clientVars, bound, child, shown, toServer, toClient, reset>>

ForkChild == server' = "waitpid" /\ child' = "getline"

\* One recv: of the requests it takes only the first, up to its newline, is shown.
serve ==
    /\ server = "recv"
    /\ \E n \in 1..Len(toServer) : toServer' = Rest(toServer, n)
    /\ shown' = Head(toServer)
    /\ ForkChild
    /\ UNCHANGED <<clientVars, bound, toClient, reset>>

\* Mutant: a recv that does not block is handled like one that has data.
ServeIdle ==
    /\ server = "recv" /\ ~reset /\ toServer = <<>>
    /\ ForkChild \/ (server' = "gone" /\ child' = child)
    /\ UNCHANGED <<clientVars, bound, shown, toServer, toClient, reset>>

\* recv returns 0: Rebuf still holds the last request, which is served again.
\* Once no newline is left in it find returns npos: the write before the
\* buffer is harmless, or is caught by a build that checks and ends the server.
ServeNothing ==
    /\ server = "recv" /\ ~reset /\ toServer = <<>> /\ client = "gone"
    /\ ForkChild \/ (server' = "gone" /\ child' = child)
    /\ UNCHANGED <<clientVars, bound, shown, toServer, toClient, reset>>

\* After a reset recv fails, at once or when what has arrived is read.
RecvFails ==
    /\ server = "recv" /\ reset
    /\ server' = "gone"
    /\ UNCHANGED <<clientVars, bound, child, shown, toServer, toClient, reset>>

\* Mutant: the answer goes to the server's terminal.
SayHere(writes) == toClient' = toClient /\ reset' = FALSE

\* What the child writes to its standard output or error goes to the client,
\* or nowhere once the client is gone (a second write then ends the child).  After a
\* reset the write fails with the socket's error, and takes it: recv then returns 0.
Say(writes) ==
    /\ toClient' = IF client = "gone" THEN toClient ELSE toClient \o writes
    /\ reset' = FALSE

\* getline from the operator, then the line and its newline.
Answer ==
    /\ child = "getline"
    /\ Say(<<"answer">>)
    /\ child' = "loop"
    /\ UNCHANGED <<clientVars, server, bound, shown, toServer>>

\* Back in the loop the child's recv on the descriptor it has closed fails; the
\* message, with its newline, is three writes of an unbuffered stream.
ChildFails ==
    /\ child = "loop"
    /\ Say(<<"error", "errno", "newline">>)
    /\ child' = "none"
    /\ UNCHANGED <<clientVars, server, bound, shown, toServer>>

WaitChild ==
    /\ server = "waitpid" /\ child = "none"
    /\ server' = "recv"
    /\ UNCHANGED <<clientVars, bound, child, shown, toServer, toClient, reset>>

EchoNext ==
    \/ Connect \/ ConnectFails \/ NextAddress \/ Send \/ print_uptime \/ Close
    \/ FindAddress \/ Accept \/ serve \/ ServeNothing \/ RecvFails
    \/ Answer \/ ChildFails \/ WaitChild

------------------------------------------------------------------------------
(* Properties *)

\* Both programs' variables have their types.
EchoTypeOK ==
    /\ client \in {"connect", "prompt", "recv", "gone"}
    /\ server \in {"bind", "accept", "recv", "waitpid", "gone"}
    /\ child \in {"none", "getline", "loop"}
    /\ address \in 1..(Addresses + 1) /\ bound \in 0..Addresses
    /\ sockets \in 0..1 /\ {sent, shown} \subseteq 0..MaxRequests

\* connect_retry gives an address up after MAXSLEEP - 1 seconds of sleep, all of
\* them before its last attempt, and no failed attempt leaves a socket behind.
RetriesBounded ==
    /\ slept < MAXSLEEP
    /\ client = "connect" /\ numsec > MAXSLEEP => slept = MAXSLEEP - 1
    /\ sockets = IF client \in {"prompt", "recv"} THEN 1 ELSE 0

\* Although a recv may take several requests and answer one, and the client stops
\* reading after one recv per request, a waiting client always has something to
\* come: data, a request the server will read, or an answer being typed.
SomethingComes ==
    client = "recv" =>
        \/ toClient # <<>> \/ child # "none"
        \/ toServer # <<>> /\ server \in {"accept", "recv", "waitpid"}

\* While the client may still send or has left requests to read, no request is
\* shown to the operator twice or after a later one.
ShownOnce ==
    [][server = "recv" /\ server' = "waitpid" =>
        shown' > shown \/ (client = "gone" /\ toServer = <<>>)]_echoVars
==============================================================================
