--------------------------- MODULE StreamAdmission ---------------------------
(***************************************************************************)
(* How a node admits connections and streams and hands them to the         *)
(* applications that listen (weaver-net: WeaverEndpoint::bind,             *)
(* accept_connections, handle_datagram_connection, LiveConfigAuthorizer).  *)
(*                                                                         *)
(* One loop accepts connections one after the other, handshake included.   *)
(* A reliable-stream connection then has a loop of its own that takes its  *)
(* streams and gives each a handler, as long as it has a permit for one; a *)
(* datagram connection has a handler for its first stream only.  A handler *)
(* answers the opener before it puts the stream into the bounded channel   *)
(* of the listener, and keeps its permit while the channel is full.        *)
(*                                                                         *)
(* The peers are any: they stall in the handshake, never complete a        *)
(* request, open more streams than there are permits, or hang up at any    *)
(* moment (WeaverDialer::connect does when the answer is late).            *)
(***************************************************************************)
EXTENDS Naturals, FiniteSets, Sequences

CONSTANTS
    Conn,         \* the connections peers may have to this node, again and again
    Stream,       \* the streams they may open
    On,           \* [Stream -> Conn]
    Endpoint,     \* the peers
    Remote,       \* [Conn -> Endpoint]
    Route,        \* the servers bound here, each for one of the two protocols
    To,           \* [Conn -> Route], by the ALPN
    Datagram,     \* the routes of the datagram protocol
    Addr,         \* the client addresses
    Source,       \* [Stream -> Addr], the source its request claims
    Complete,     \* the streams whose request arrives whole, names this network
                  \* and the server the connection is for
    Newest,       \* the last revision of the configuration
    Clients,      \* [0..Newest -> SUBSET (Endpoint \X Addr)], the client bindings
    Hosts,        \* [0..Newest -> SUBSET Route], the server bindings of this node
    MaxHandlers,  \* MAX_STREAM_HANDLERS_PER_CONNECTION
    Capacity,     \* of a listener's channel
    Attentive,    \* the routes whose application keeps accepting
    NoConn        \* no connection

ASSUME AdmissionAssumption ==
    /\ NoConn \notin Conn
    /\ On \in [Stream -> Conn] /\ To \in [Conn -> Route]
    /\ Newest \in Nat /\ MaxHandlers \in Nat \ {0} /\ Capacity \in Nat \ {0}
    /\ Datagram \subseteq Route /\ Attentive \subseteq Route

VARIABLES
    up,         \* whether the node is bound
    live,       \* the revision LiveConfigAuthorizer holds
    backlog,    \* the connections endpoint.accept() has still to hand out
    accepting,  \* the connection the accept loop is at
    conn,       \* what has become of each connection
    admitted,   \* the revision that authorized_addrs of a connection is from
    stream,     \* what has become of each stream
    opened,     \* history variable: live when the peer opened the stream
    queue,      \* the channel of each listener
    listening   \* the listeners that have not been dropped

vars == <<up, live, backlog, accepting, conn, admitted, stream, opened, queue, listening>>
node == <<up, live>>
loop == <<backlog, accepting, admitted>>
listeners == <<queue, listening>>

Handled == {"reading", "accepted"}
Busy == {"open", "queued"} \cup Handled

StreamsOf(c) == {s \in Stream : On[s] = c}
HandlersOf(c) == {s \in StreamsOf(c) : stream[s] \in Handled}

TypeOK ==
    /\ up \in BOOLEAN
    /\ live \in 0..Newest
    /\ backlog \in Seq(Conn)
    /\ accepting \in Conn \cup {NoConn}
    /\ conn \in [Conn -> {"closed", "waiting", "handshake", "open"}]
    /\ admitted \in [Conn -> 0..Newest]
    /\ stream \in [Stream -> Busy \cup {"new", "delivered", "refused", "reset", "lost"}]
    /\ opened \in [Stream -> 0..Newest]
    /\ queue \in [Route -> Seq(Stream)] /\ \A v \in Route : Len(queue[v]) <= Capacity
    /\ listening \subseteq Route
    /\ \A c \in Conn : Cardinality(HandlersOf(c)) <= MaxHandlers

Init ==
    /\ up = TRUE
    /\ live = 0
    /\ backlog = << >>
    /\ accepting = NoConn
    /\ conn = [c \in Conn |-> "closed"]
    /\ admitted = [c \in Conn |-> 0]
    /\ stream = [s \in Stream |-> "new"]
    /\ opened = [s \in Stream |-> 0]
    /\ queue = [v \in Route |-> << >>]
    /\ listening = Route

-----------------------------------------------------------------------------
\* LiveConfigAuthorizer::update
Update ==
    /\ live < Newest
    /\ live' = live + 1
    /\ UNCHANGED <<up, loop, conn, stream, opened, listeners>>

\* LiveConfigAuthorizer::authorized_client_addrs: the client addresses of the
\* peer, if this node may serve the destination at all.
AuthorizedClientAddrs(r, e, v) ==
    IF v \in Hosts[r] THEN {x \in Addr : <<e, x>> \in Clients[r]} ELSE {}

\* A peer connects, or connects again once the handlers of its last connection
\* are done (while they are not, its new connection is another member of Conn).
Connect(c) ==
    /\ up
    /\ conn[c] = "closed"
    /\ \A s \in StreamsOf(c) : stream[s] \notin Busy
    /\ conn' = [conn EXCEPT ![c] = "waiting"]
    /\ backlog' = Append(backlog, c)
    /\ stream' = [s \in Stream |-> IF s \in StreamsOf(c) THEN "new" ELSE stream[s]]
    /\ UNCHANGED <<node, accepting, admitted, opened, listeners>>

\* accept_connections: the next connection, whose handshake is awaited here ...
AcceptNext ==
    /\ up
    /\ accepting = NoConn /\ backlog # << >>
    /\ accepting' = Head(backlog)
    /\ backlog' = Tail(backlog)
    /\ conn' = [conn EXCEPT ![Head(backlog)] = "handshake"]
    /\ UNCHANGED <<node, admitted, stream, opened, listeners>>

\* ... and completes: a peer with no client address here is turned away, the
\* others get a task of their own ...
Handshake ==
    /\ accepting # NoConn
    /\ conn' = [conn EXCEPT ![accepting] =
                   IF AuthorizedClientAddrs(live, Remote[accepting], To[accepting]) = {}
                   THEN "closed" ELSE "open"]
    /\ admitted' = [admitted EXCEPT ![accepting] = live]
    /\ accepting' = NoConn
    /\ UNCHANGED <<node, backlog, stream, opened, listeners>>

\* ... or is given up.
Discard ==
    /\ accepting # NoConn
    /\ conn' = [conn EXCEPT ![accepting] = "closed"]
    /\ accepting' = NoConn
    /\ UNCHANGED <<node, backlog, admitted, stream, opened, listeners>>

HandshakeFails == Discard

\* Mutant: a handshake is awaited for as long as it takes.
HandshakeNeverTimesOut == FALSE

\* HANDSHAKE_TIMEOUT has passed: a peer may stall, but not the loop.
HandshakeTimesOut == Discard

-----------------------------------------------------------------------------
\* The peer opens a stream: its first bytes are on their way.
OpenStream(s) ==
    /\ conn[On[s]] = "open"
    /\ stream[s] = "new"
    /\ stream' = [stream EXCEPT ![s] = "open"]
    /\ opened' = [opened EXCEPT ![s] = live]
    /\ UNCHANGED <<node, loop, conn, listeners>>

\* Mutant: a handler for every stream.
HasPermitAlways(c) == TRUE

HasPermit(c) == Cardinality(HandlersOf(c)) < MaxHandlers

\* accept_bi in the loop of a reliable-stream connection, or at the beginning
\* of handle_datagram_connection.
TakeStream(s) ==
    LET c == On[s]
    IN  /\ conn[c] = "open" /\ stream[s] = "open"
        /\ \/ /\ To[c] \notin Datagram
              /\ stream' = [stream EXCEPT ![s] = IF HasPermit(c) THEN "reading" ELSE "reset"]
           \/ /\ To[c] \in Datagram
              /\ \A t \in StreamsOf(c) : stream[t] \in {"new", "open"}
              /\ stream' = [stream EXCEPT ![s] = "reading"]
        /\ UNCHANGED <<node, loop, conn, opened, listeners>>

\* When the handler of a datagram association returns without handing it over,
\* the connection goes with it.
Finish(s, outcome) ==
    /\ stream' = [t \in Stream |->
                    CASE t = s -> outcome
                      [] t # s /\ On[t] = On[s] /\ To[On[s]] \in Datagram /\ stream[t] = "open" -> "lost"
                      [] OTHER -> stream[t]]
    /\ conn' = [conn EXCEPT ![On[s]] = IF To[On[s]] \in Datagram THEN "closed" ELSE @]

\* Mutant: the addresses looked up for the connection are used for its streams.
AdmitsStale(s) ==
    Source[s] \in AuthorizedClientAddrs(admitted[On[s]], Remote[On[s]], To[On[s]])

\* The handler looks the addresses up again, under the configuration of now.
Admits(s) == Source[s] \in AuthorizedClientAddrs(live, Remote[On[s]], To[On[s]])

\* The request was read and is answered; a request that is not complete after
\* PREFACE_TIMEOUT, or is for somewhere else, is a refusal, too.
Accept(s) ==
    /\ stream[s] = "reading" /\ s \in Complete
    /\ Admits(s)
    /\ stream' = [stream EXCEPT ![s] = "accepted"]
    /\ UNCHANGED <<node, loop, conn, opened, listeners>>

Refuse(s) ==
    /\ stream[s] = "reading"
    /\ s \in Complete => ~Admits(s)
    /\ Finish(s, "refused")
    /\ UNCHANGED <<node, loop, opened, listeners>>

\* The answer cannot be written: the peer has hung up.
AnswerFails(s) ==
    /\ stream[s] = "reading" /\ conn[On[s]] = "closed"
    /\ Finish(s, "lost")
    /\ UNCHANGED <<node, loop, opened, listeners>>

\* Mutant: one channel for all the servers of the node.
HasRoomShared(v) == \A w \in Route : Len(queue[w]) < Capacity

HasRoom(v) == Len(queue[v]) < Capacity

\* tx.send: the stream goes into the channel once there is room, or is dropped
\* if nobody listens any more.
Send(s) ==
    LET v == To[On[s]]
    IN  /\ stream[s] = "accepted"
        /\ \/ /\ v \in listening /\ HasRoom(v)
              /\ queue' = [queue EXCEPT ![v] = Append(@, s)]
              /\ stream' = [stream EXCEPT ![s] = "queued"]
              /\ UNCHANGED conn
           \/ /\ v \notin listening
              /\ Finish(s, "lost")
              /\ UNCHANGED queue
        /\ UNCHANGED <<node, loop, opened, listening>>

\* VirtualTcpListener::accept, VirtualUdpListener::accept
ListenerAccept(v) ==
    /\ queue[v] # << >>
    /\ stream' = [stream EXCEPT ![Head(queue[v])] = "delivered"]
    /\ queue' = [queue EXCEPT ![v] = Tail(@)]
    /\ UNCHANGED <<node, loop, conn, opened, listening>>

\* The application drops its listener, and with it what is in the channel.
DropListener(v) ==
    /\ v \in listening
    /\ listening' = listening \ {v}
    /\ stream' = [s \in Stream |->
                    IF stream[s] = "queued" /\ To[On[s]] = v THEN "lost" ELSE stream[s]]
    /\ queue' = [queue EXCEPT ![v] = << >>]
    /\ UNCHANGED <<node, loop, conn, opened>>

-----------------------------------------------------------------------------
\* The peer hangs up, or the application a stream was delivered to closes its
\* connection: streams nobody has taken are gone, handlers go on.
HangUp(c) ==
    /\ conn[c] = "open"
    /\ conn' = [conn EXCEPT ![c] = "closed"]
    /\ stream' = [s \in Stream |->
                    IF On[s] = c /\ stream[s] = "open" THEN "lost" ELSE stream[s]]
    /\ UNCHANGED <<node, loop, opened, listeners>>

\* WeaverEndpoint::close: the accept loop is aborted, every connection closed.
Close ==
    /\ up
    /\ up' = FALSE
    /\ accepting' = NoConn /\ backlog' = << >>
    /\ conn' = [c \in Conn |-> "closed"]
    /\ stream' = [s \in Stream |-> IF stream[s] = "open" THEN "lost" ELSE stream[s]]
    /\ UNCHANGED <<live, admitted, opened, listeners>>

\* WeaverEndpoint::bind, when the node is opened again with the configuration
\* it has come to: new channels, new listeners.
Bind ==
    /\ ~up
    /\ \A s \in Stream : stream[s] \notin Handled
    /\ up' = TRUE
    /\ listening' = Route
    /\ queue' = [v \in Route |-> << >>]
    /\ stream' = [s \in Stream |-> IF stream[s] = "queued" THEN "lost" ELSE stream[s]]
    /\ UNCHANGED <<live, loop, conn, opened>>

Next ==
    \/ Update \/ AcceptNext \/ Handshake \/ HandshakeFails \/ HandshakeTimesOut \/ Close \/ Bind
    \/ \E c \in Conn : Connect(c) \/ HangUp(c)
    \/ \E s \in Stream :
          OpenStream(s) \/ TakeStream(s) \/ Accept(s) \/ Refuse(s) \/ AnswerFails(s) \/ Send(s)
    \/ \E v \in Route : ListenerAccept(v) \/ DropListener(v)

\* The tasks of the node run, its timers fire, and senders wait for a channel
\* in line; nobody is obliged to connect, to hang up or to close, and only the
\* attentive applications keep accepting.
Fairness ==
    /\ WF_vars(AcceptNext) /\ WF_vars(HandshakeTimesOut)
    /\ \A s \in Stream :
          /\ WF_vars(TakeStream(s) \/ Accept(s) \/ Refuse(s))
          /\ SF_vars(Send(s))
    /\ \A v \in Attentive : WF_vars(ListenerAccept(v))

Spec == Init /\ [][Next]_vars /\ Fairness

-----------------------------------------------------------------------------
\* "Applying a signed config update changes admission for subsequent
\* connections/streams": no stream is accepted for a client address that no
\* configuration has granted to the peer since the stream was opened, however
\* long its connection has been up.
NoStaleAdmission ==
    [][\A s \in Stream : stream[s] # "accepted" /\ stream'[s] = "accepted" =>
          \E r \in opened[s]..live :
              Source[s] \in AuthorizedClientAddrs(r, Remote[On[s]], To[On[s]])]_vars

\* No peer holds up the others: every connection gets its turn in the accept
\* loop, although the loop waits for each handshake.
EveryConnectionServed ==
    \A c \in Conn : conn[c] \in {"waiting", "handshake"} ~> conn[c] \notin {"waiting", "handshake"}

\* A server that keeps accepting gets its streams, and their permits return,
\* although another server of the node never accepts one.  (Of a datagram
\* connection only the first stream is ever looked at.)
EveryStreamServed ==
    \A s \in Stream : To[On[s]] \in Attentive \ Datagram =>
        (stream[s] \in Busy ~> stream[s] \notin Busy)

=============================================================================
