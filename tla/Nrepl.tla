------------------------------- MODULE Nrepl -------------------------------
(***************************************************************************)
(* The nREPL: ReplServer inside the serve loop of the Carbon host, and     *)
(* ReplClient, which RemoteRuntime uses to call functions of the host.     *)
(*                                                                         *)
(* A connection is two streams of cells, pieces of a message that may      *)
(* arrive apart.  A request is HeaderLen header cells and, unless it is a  *)
(* PING or claims a negative length, BodyLen body cells; an answer is made *)
(* the same way; the greeting and the answer to a PING are text without a  *)
(* header.  Request numbers stand for the forms and their printed results. *)
(* Sockets are numbers because client_sockets is a std::set<int>, which    *)
(* get_msg goes through in order.                                          *)
(***************************************************************************)
EXTENDS Integers, SequencesExt, FiniteSetsExt

CONSTANTS
  NumClients,  \* connections that are made, with sockets 1 .. NumClients
  MaxClients,  \* ReplServer::max_clients
  MaxReq,      \* requests of the first client; each later one sends one less
  MaxSent,     \* requests of all clients together
  HeaderLen,   \* cells of sizeof(ReplServerHeader)
  BodyLen,     \* cells of a form, and of a printed result
  WelcomeLen,  \* cells of the greeting
  Room,        \* cells that the socket buffers hold for a client that does not read
  Resets       \* whether a peer may be gone when a greeting is written

ASSUME NreplAssumption ==
  /\ {NumClients, MaxClients, HeaderLen, BodyLen, WelcomeLen} \subseteq Nat \ {0}
  /\ MaxReq \in Nat /\ MaxSent \in Nat /\ Resets \in BOOLEAN
  /\ Room \in Nat /\ Room >= 2 * WelcomeLen /\ Room >= 2 * HeaderLen + BodyLen

Socks  == 1 .. NumClients
NoSock == 0

VARIABLES
  conn,     \* the client's end: off, pending, open or shut
  flight,   \* cells written by the client that have not arrived
  up,       \* cells that have arrived at the server
  down,     \* cells for the client to read
  asked,    \* requests the client has sent
  eval,     \* the request ReplClient::eval waits for, or 0
  fd,       \* the server's end: none, open or closed
  tracked,  \* ReplServer::client_sockets
  pc,       \* where the serve loop is
  todo,     \* sockets of read_sockets still to look at
  msg,      \* the message that get_msg reads or has read
  due,      \* the time of the next tick has come
  answered  \* history: requests of each client that were answered

client == <<conn, flight, asked, eval>>
server == <<fd, tracked, pc, todo, msg, answered>>
vars   == <<client, up, down, server, due>>

NoMsg == [sock |-> NoSock, n |-> 0, got |-> 0]
Header(kind, n) == [i \in 1 .. HeaderLen |-> [kind |-> kind, n |-> n, i |-> i]]
Body(n)    == [i \in 1 .. BodyLen |-> [kind |-> "body", n |-> n, i |-> i]]
Welcome    == [i \in 1 .. WelcomeLen |-> [kind |-> "text", n |-> 0, i |-> 1]]
Request(n) == Header("eval", n) \o Body(n)
Answer(n)  == Header("result", n) \o Body(n)

Init ==
  /\ conn = [c \in Socks |-> "off"]
  /\ flight = [c \in Socks |-> <<>>] /\ up = flight /\ down = flight
  /\ asked = [c \in Socks |-> 0] /\ eval = asked /\ answered = asked
  /\ fd = [c \in Socks |-> "none"]
  /\ tracked = {} /\ pc = "select" /\ todo = {} /\ msg = NoMsg
  /\ due = FALSE

(***************************************************************************)
(* Clients and the network                                                 *)
(***************************************************************************)
\* XSocketClient::connect
Connect(c) ==
  /\ conn[c] = "off"
  /\ conn' = [conn EXCEPT ![c] = "pending"]
  /\ UNCHANGED <<flight, up, down, asked, eval, server, due>>

Send(c, cells) ==
  /\ conn[c] \in {"pending", "open"} /\ eval[c] = 0 /\ asked[c] + c <= MaxReq
  /\ MapThenSumSet(LAMBDA d : asked[d], Socks) < MaxSent
  /\ asked' = [asked EXCEPT ![c] = @ + 1]
  /\ flight' = [flight EXCEPT ![c] = @ \o cells]
  /\ UNCHANGED <<conn, up, down, server, due>>

\* ReplClient::eval up to its wait for the answer.
EvalSend(c) ==
  /\ Send(c, Request(asked[c] + 1))
  /\ eval' = [eval EXCEPT ![c] = asked[c] + 1]

EvalNoResponse(c) ==
  /\ Send(c, Request(asked[c] + 1))
  /\ UNCHANGED eval

\* A PING that another client sends: a header alone, answered with text.
SendPing(c) ==
  /\ Send(c, Header("ping", asked[c] + 1))
  /\ UNCHANGED eval

\* A header whose length is negative as an int, from another client.
SendBad(c) ==
  /\ Send(c, Header("bad", asked[c] + 1))
  /\ UNCHANGED eval

Return(c, cells) ==
  /\ eval' = [eval EXCEPT ![c] = 0]
  /\ down' = [down EXCEPT ![c] = SubSeq(@, cells + 1, Len(@))]
  /\ UNCHANGED <<flight, up, asked, server, due>>

IsHeader(cells) == cells = Header("result", Head(cells).n)

\* eval reads an EVAL_RESULT header and its payload.
EvalReturns(c) ==
  /\ eval[c] # 0 /\ Len(down[c]) >= HeaderLen + BodyLen
  /\ IsHeader(SubSeq(down[c], 1, HeaderLen))
  /\ Return(c, HeaderLen + BodyLen)
  /\ UNCHANGED conn

\* eval reads something else as a header and gives up; the rest stays unread.
EvalRefuses(c) ==
  /\ eval[c] # 0 /\ Len(down[c]) >= HeaderLen
  /\ ~IsHeader(SubSeq(down[c], 1, HeaderLen))
  /\ Return(c, HeaderLen)
  /\ UNCHANGED conn

\* The server has closed and there is no complete answer left to read.
EvalDisconnects(c) ==
  /\ eval[c] # 0 /\ fd[c] = "closed" /\ Len(down[c]) < HeaderLen
  /\ Return(c, Len(down[c]))
  /\ conn' = [conn EXCEPT ![c] = "shut"]

\* disconnect, or the client process ends; what it has sent is still delivered.
Close(c) ==
  /\ conn[c] \in {"pending", "open"} /\ eval[c] = 0
  /\ conn' = [conn EXCEPT ![c] = "shut"]
  /\ down' = [down EXCEPT ![c] = <<>>]
  /\ UNCHANGED <<flight, up, asked, eval, server, due>>

\* TCP delivers the next cell; what comes to a closed end is discarded.
Arrive(c) ==
  /\ flight[c] # <<>>
  /\ up' = [up EXCEPT ![c] = IF fd[c] = "closed" THEN <<>> ELSE Append(@, Head(flight[c]))]
  /\ flight' = [flight EXCEPT ![c] = Tail(@)]
  /\ UNCHANGED <<conn, down, asked, eval, server, due>>

TimePasses == ~due /\ due' = TRUE /\ UNCHANGED <<client, up, down, server>>

(***************************************************************************)
(* ReplServer::get_msg                                                     *)
(***************************************************************************)
\* write_to_socket; what is written to an end that is closed is discarded.
Write(c, cells) ==
  down' = [down EXCEPT ![c] = IF conn[c] = "shut" THEN <<>> ELSE @ \o cells]

\* send() blocks while the buffers of an open connection are full: only reads have a
\* timeout.  A new connection has room for its greeting.
Fits(c, cells) == conn[c] = "shut" \/ Len(down[c]) + Len(cells) <= Room

Eof(c) == conn[c] = "shut" /\ flight[c] = <<>> /\ up[c] = <<>>
Readable == {c \in tracked : up[c] # <<>> \/ Eof(c)}
Backlog == {c \in Socks : conn[c] # "off" /\ fd[c] = "none"}

\* select: it waits for activity or for the next tick, and fails at once when
\* client_sockets holds a socket that is closed.
Select ==
  /\ pc = "select"
  /\ IF \E c \in tracked : fd[c] = "closed"
     THEN pc' = "tick" /\ UNCHANGED todo
     ELSE /\ Readable \cup Backlog # {} \/ due
          /\ pc' = IF Backlog # {} THEN "accept" ELSE "scan"
          /\ todo' = Readable
  /\ UNCHANGED <<client, up, down, fd, tracked, msg, answered, due>>

\* Mutant of Accept: one client too many is let in.
AcceptMore(c) ==
  /\ pc = "accept" /\ c \in Backlog
  /\ conn' = [conn EXCEPT ![c] = IF @ = "pending" THEN "open" ELSE @]
  /\ Write(c, Welcome)
  /\ fd' = [fd EXCEPT ![c] = "open"]
  /\ tracked' = tracked \cup {c}
  /\ pc' = "scan"
  /\ UNCHANGED <<flight, up, asked, eval, todo, msg, answered, due>>

\* A new connection is greeted, then tracked or, over the limit, told so and
\* closed.  When the greeting cannot be written the socket is closed first.
Accept(c) ==
  /\ pc = "accept" /\ c \in Backlog
  /\ conn' = [conn EXCEPT ![c] = IF @ = "pending" THEN "open" ELSE @]
  /\ LET full == Cardinality(tracked) >= MaxClients
     IN  /\ \/ fd' = [fd EXCEPT ![c] = IF full THEN "closed" ELSE "open"]
            \/ Resets /\ conn[c] = "shut" /\ fd' = [fd EXCEPT ![c] = "closed"]
         /\ Write(c, IF full THEN Welcome \o Welcome ELSE Welcome)
         /\ tracked' = IF full THEN tracked ELSE tracked \cup {c}
  /\ pc' = "scan"
  /\ UNCHANGED <<flight, up, asked, eval, todo, msg, answered, due>>

\* Mutant of Drop: the socket is shut down but not closed.
DropShut(c) ==
  /\ fd' = [fd EXCEPT ![c] = "shut"]
  /\ tracked' = tracked \ {c}

\* close_socket, and the client is forgotten.
Drop(c) ==
  /\ fd' = [fd EXCEPT ![c] = "closed"]
  /\ tracked' = tracked \ {c}

\* The next socket of read_sockets, in the order of the set.
Scanned == Min(todo)

\* Mutant of HeaderCell: the header is complete one cell too early.
HeaderCellShort(c, got) ==
  /\ up' = [up EXCEPT ![c] = Tail(@)]
  /\ LET cell == Head(up[c])
     IN  \/ /\ got < HeaderLen - 1
            /\ pc' = "header" /\ msg' = [sock |-> c, n |-> 0, got |-> got]
            /\ UNCHANGED <<fd, tracked>>
         \/ /\ got >= HeaderLen - 1 /\ cell.kind = "ping"
            /\ pc' = "ping" /\ msg' = [sock |-> c, n |-> cell.n, got |-> 0]
            /\ UNCHANGED <<fd, tracked>>
         \/ /\ got >= HeaderLen - 1 /\ cell.kind = "bad"
            /\ Drop(c) /\ pc' = "scan" /\ msg' = NoMsg
         \/ /\ got >= HeaderLen - 1 /\ cell.kind \notin {"ping", "bad"}
            /\ pc' = "body" /\ msg' = [sock |-> c, n |-> 0, got |-> 0]
            /\ UNCHANGED <<fd, tracked>>
  /\ UNCHANGED <<client, down, answered, due>>

\* One read of the header loop; got cells are there with it.  A complete header is a
\* PING to answer, has a negative length, which drops the client, or has a body.
HeaderCell(c, got) ==
  /\ up' = [up EXCEPT ![c] = Tail(@)]
  /\ LET cell == Head(up[c])
     IN  \/ /\ got < HeaderLen
            /\ pc' = "header" /\ msg' = [sock |-> c, n |-> 0, got |-> got]
            /\ UNCHANGED <<fd, tracked>>
         \/ /\ got = HeaderLen /\ cell.kind = "ping"
            /\ pc' = "ping" /\ msg' = [sock |-> c, n |-> cell.n, got |-> 0]
            /\ UNCHANGED <<fd, tracked>>
         \/ /\ got = HeaderLen /\ cell.kind = "bad"
            /\ Drop(c) /\ pc' = "scan" /\ msg' = NoMsg
         \/ /\ got = HeaderLen /\ cell.kind \notin {"ping", "bad"}
            /\ pc' = "body" /\ msg' = [sock |-> c, n |-> 0, got |-> 0]
            /\ UNCHANGED <<fd, tracked>>
  /\ UNCHANGED <<client, down, answered, due>>

\* The next socket that select found readable, and its first read.
ScanHeader ==
  /\ pc = "scan" /\ todo # {} /\ up[Scanned] # <<>>
  /\ HeaderCell(Scanned, 1)
  /\ todo' = todo \ {Scanned}

\* End of file where a header should begin.
ScanEof ==
  /\ pc = "scan" /\ todo # {} /\ Eof(Scanned)
  /\ Drop(Scanned)
  /\ todo' = todo \ {Scanned}
  /\ UNCHANGED <<client, up, down, pc, msg, answered, due>>

ScanDone ==
  /\ pc = "scan" /\ todo = {}
  /\ pc' = "tick"
  /\ UNCHANGED <<client, up, down, fd, tracked, todo, msg, answered, due>>

ReadHeader ==
  /\ pc = "header" /\ up[msg.sock] # <<>>
  /\ HeaderCell(msg.sock, msg.got + 1)
  /\ UNCHANGED todo

\* ping_response.  A peer that is gone may fail the write: the client is dropped and
\* the iterator of the scan with it, so that any of the other sockets may be skipped.
Ping ==
  /\ pc = "ping"
  /\ \/ /\ Fits(msg.sock, Welcome) /\ Write(msg.sock, Welcome)
        /\ UNCHANGED <<fd, tracked, todo>>
     \/ /\ Resets /\ conn[msg.sock] = "shut"
        /\ Drop(msg.sock) /\ todo' \in SUBSET todo
        /\ UNCHANGED down
  /\ answered' = [answered EXCEPT ![msg.sock] = msg.n]
  /\ msg' = NoMsg /\ pc' = "scan"
  /\ UNCHANGED <<client, up, due>>

\* Mutant of ReadBody: one read is taken for the whole body.
ReadBodyOnce ==
  /\ pc = "body" /\ up[msg.sock] # <<>>
  /\ up' = [up EXCEPT ![msg.sock] = Tail(@)]
  /\ msg' = [msg EXCEPT !.n = Head(up[msg.sock]).n, !.got = 0]
  /\ pc' = "serve" /\ todo' = {}
  /\ UNCHANGED <<client, down, fd, tracked, answered, due>>

\* Mutant of ReadBody: the loop asks for one cell more than the header says.
ReadBodyMore ==
  /\ pc = "body" /\ up[msg.sock] # <<>>
  /\ up' = [up EXCEPT ![msg.sock] = Tail(@)]
  /\ IF msg.got + 1 <= BodyLen
     THEN msg' = [msg EXCEPT !.got = @ + 1] /\ UNCHANGED <<pc, todo>>
     ELSE /\ msg' = [msg EXCEPT !.n = Head(up[msg.sock]).n, !.got = 0]
          /\ pc' = "serve" /\ todo' = {}
  /\ UNCHANGED <<client, down, fd, tracked, answered, due>>

\* One read of the body loop; when the body is complete get_msg returns.
ReadBody ==
  /\ pc = "body" /\ up[msg.sock] # <<>>
  /\ up' = [up EXCEPT ![msg.sock] = Tail(@)]
  /\ IF msg.got + 1 < BodyLen
     THEN msg' = [msg EXCEPT !.got = @ + 1] /\ UNCHANGED <<pc, todo>>
     ELSE /\ msg' = [msg EXCEPT !.n = Head(up[msg.sock]).n, !.got = 0]
          /\ pc' = "serve" /\ todo' = {}
  /\ UNCHANGED <<client, down, fd, tracked, answered, due>>

\* Mutant of Missing: a client that stalls is waited for.
MissingWait ==
  /\ pc \in {"header", "body"} /\ Eof(msg.sock)
  /\ Drop(msg.sock)
  /\ msg' = NoMsg /\ pc' = "scan"
  /\ UNCHANGED <<client, up, down, todo, answered, due>>

\* Inside a header or a body the client is gone, or read times out (accepted sockets
\* have the timeout of the listening one): it is dropped and the scan goes on.
Missing ==
  /\ pc \in {"header", "body"} /\ up[msg.sock] = <<>>
  /\ Drop(msg.sock)
  /\ msg' = NoMsg /\ pc' = "scan"
  /\ UNCHANGED <<client, up, down, todo, answered, due>>

(***************************************************************************)
(* serve_loop                                                              *)
(***************************************************************************)
\* Mutant of Serve: a failed write is ignored but the socket is closed.
ServeKeep ==
  /\ pc = "serve"
  /\ answered' = [answered EXCEPT ![msg.sock] = msg.n]
  /\ \/ /\ Fits(msg.sock, Answer(msg.n)) /\ Write(msg.sock, Answer(msg.n))
        /\ UNCHANGED <<fd, tracked>>
     \/ /\ conn[msg.sock] = "shut"
        /\ fd' = [fd EXCEPT ![msg.sock] = "closed"]
        /\ UNCHANGED <<down, tracked>>
  /\ msg' = NoMsg /\ pc' = "tick"
  /\ UNCHANGED <<client, up, todo, due>>

\* handle_eval and send_result; a write to a client that is gone may fail.
Serve ==
  /\ pc = "serve"
  /\ answered' = [answered EXCEPT ![msg.sock] = msg.n]
  /\ \/ /\ Fits(msg.sock, Answer(msg.n)) /\ Write(msg.sock, Answer(msg.n))
        /\ UNCHANGED <<fd, tracked>>
     \/ /\ conn[msg.sock] = "shut"
        /\ Drop(msg.sock)
        /\ UNCHANGED down
  /\ msg' = NoMsg /\ pc' = "tick"
  /\ UNCHANGED <<client, up, todo, due>>

\* The end of a round: tick when it is time.
Tick ==
  /\ pc = "tick"
  /\ due' = FALSE
  /\ pc' = "select"
  /\ UNCHANGED <<client, up, down, fd, tracked, todo, msg, answered>>

ServerStep ==
  \/ Select \/ (\E c \in Socks : Accept(c))
  \/ ScanHeader \/ ScanEof \/ ScanDone \/ ReadHeader \/ Ping
  \/ ReadBody \/ Missing \/ Serve \/ Tick

ClientStep(c) ==
  \/ Connect(c) \/ EvalSend(c) \/ EvalNoResponse(c) \/ SendPing(c) \/ SendBad(c) \/ Close(c)
  \/ EvalReturns(c) \/ EvalRefuses(c) \/ EvalDisconnects(c) \/ Arrive(c)

Next == ServerStep \/ TimePasses \/ \E c \in Socks : ClientStep(c)

\* The host keeps its loop going; clients and the network owe nothing.
Spec == Init /\ [][Next]_vars /\ WF_vars(ServerStep)

(***************************************************************************)
(* Properties                                                              *)
(***************************************************************************)
Cells == [kind : {"eval", "ping", "bad", "body", "text", "result"}, n : 0 .. MaxReq, i : Nat \ {0}]

\* The types of both ends' state.
TypeOK ==
  /\ conn \in [Socks -> {"off", "pending", "open", "shut"}]
  /\ \A c \in Socks : Range(flight[c]) \cup Range(up[c]) \cup Range(down[c]) \subseteq Cells
  /\ asked \in [Socks -> 0 .. MaxReq] /\ answered \in [Socks -> 0 .. MaxReq]
  /\ eval \in [Socks -> 0 .. MaxReq]
  /\ fd \in [Socks -> {"none", "open", "closed"}] /\ tracked \subseteq Socks
  /\ pc \in {"select", "accept", "scan", "header", "ping", "body", "serve", "tick"}
  /\ todo \subseteq Socks /\ msg \in [sock : Socks \cup {NoSock}, n : 0 .. MaxReq, got : Nat]
  /\ due \in BOOLEAN

\* Every socket that select is given is open ("the client is dropped and the
\* connection closed; this matches the behaviour of error_response and
\* ping_response", ReplServer.h:62).
TrackedIsOpen == \A c \in tracked : fd[c] = "open"

\* A socket that is open is looked after: nothing leaks, and never more than
\* max_clients are held.
OpenIsTracked ==
  /\ \A c \in Socks : fd[c] = "open" => c \in tracked
  /\ Cardinality(tracked) <= MaxClients

\* client_sockets is exactly the open connections, at most max_clients of them
\* (ReplServer.cpp: get_msg, ping_response, error_response).
TracksExactly == TypeOK /\ TrackedIsOpen /\ OpenIsTracked

\* The message that get_msg hands to the host is the next request of the client it
\* names, and the stream is left where the one after it begins: none is lost, repeated
\* or taken for another's, however the bytes arrive and whoever is dropped meanwhile
\* ("TCP may deliver the header in fragments", ReplServer.cpp:112).
RequestsInOrder ==
  pc = "serve" =>
    /\ msg.n = answered[msg.sock] + 1
    /\ up[msg.sock] # <<>> =>
         /\ Head(up[msg.sock]).kind \in {"eval", "ping", "bad"}
         /\ Head(up[msg.sock]).i = 1 /\ Head(up[msg.sock]).n = msg.n + 1

\* A client is dropped only when it has closed its end, when it sent a header with a
\* negative length, or when bytes of a message it has sent are late.  One whose bytes
\* have all arrived is never waited for and so never runs into the read timeout.
DroppedForCause ==
  [][\A c \in Socks : fd[c] = "open" /\ fd'[c] = "closed" =>
       \/ conn[c] = "shut"
       \/ up[c] = <<>> /\ flight[c] # <<>>
       \/ up[c] # <<>> /\ Head(up[c]).kind = "bad"]_vars

\* The loop is inside a send to a client that does not read what it was sent.
Stuck ==
  \/ pc = "ping" /\ ~Fits(msg.sock, Welcome)
  \/ pc = "serve" /\ ~Fits(msg.sock, Answer(msg.n))

\* The tick comes, whatever the clients send, withhold or close, unless the loop stays
\* inside a send to a client that never reads (serve_loop, Main.cpp:213).
TickComes == due ~> (~due \/ []Stuck)

\* The same without exception: "incoming traffic cannot starve the tick loop"
\* (Main.cpp:208).
TickAlwaysComes == due ~> ~due

\* An eval on a connection that stays open returns the result of its own form
\* ("clients that need the result of an EVAL (e.g. soot's RemoteRuntime) must wait
\* for it", ReplServer.h:20).
EvalGetsItsResult ==
  [][\A c \in Socks : eval[c] # 0 /\ eval'[c] = 0 /\ conn'[c] = "open" =>
       IsPrefix(Answer(eval[c]), down[c])]_vars
=============================================================================
