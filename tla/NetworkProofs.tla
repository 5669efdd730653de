---------------------------- MODULE NetworkProofs ----------------------------
(***************************************************************************)
(* What the services of a network handle keep, whatever meets whatever.    *)
(*                                                                         *)
(* Stream admission: no connection has more handlers than permits, no      *)
(* channel more streams than its capacity, and no stream is admitted under *)
(* a configuration older than it, for any connections, streams and         *)
(* servers.                                                                *)
(*                                                                         *)
(* Config anti-entropy: no device holds or serves a revision that does not *)
(* list it, in whatever order rounds, applications by hand, failures of    *)
(* the store and restarts meet, for any peers, revisions and bounds.  That *)
(* the targets of a round are a sequence of peers at all rests on every    *)
(* finite set of peers having an enumeration in the order of their ids.    *)
(***************************************************************************)
EXTENDS StreamAdmission, ConfigSync, FiniteSetTheorems, TLAPS

-----------------------------------------------------------------------------
\* The permits that are out, for a given state of the streams.
Permits(st, c) == {s \in StreamsOf(c) : st[s] \in Handled}

Bounded(st) ==
    \A c \in Conn : IsFiniteSet(Permits(st, c)) /\ Cardinality(Permits(st, c)) <= MaxHandlers

Inv ==
    /\ TypeOK
    /\ Bounded(stream)
    /\ \A s \in Stream : opened[s] <= live

\* A step that starts no handler takes no permit.
LEMMA NoNewHandler ==
    ASSUME NEW st, NEW tt, Bounded(st),
           \A s \in Stream : tt[s] \in Handled => st[s] \in Handled
    PROVE  Bounded(tt)
<1> SUFFICES ASSUME NEW c \in Conn
             PROVE  IsFiniteSet(Permits(tt, c)) /\ Cardinality(Permits(tt, c)) <= MaxHandlers
  BY Zenon DEF Bounded
<1>1. Permits(tt, c) \subseteq Permits(st, c)
  BY Zenon DEF Permits, StreamsOf
<1>2. IsFiniteSet(Permits(st, c)) /\ Cardinality(Permits(st, c)) <= MaxHandlers
  BY Zenon DEF Bounded
<1>3. /\ IsFiniteSet(Permits(tt, c)) /\ Cardinality(Permits(tt, c)) <= Cardinality(Permits(st, c))
  BY <1>1, <1>2, FS_Subset, Zenon
<1>4. Cardinality(Permits(tt, c)) \in Nat /\ Cardinality(Permits(st, c)) \in Nat
  BY <1>2, <1>3, FS_CardinalityType, Zenon
<1> QED
  BY <1>2, <1>3, <1>4, AdmissionAssumption

\* One that starts one, with a permit left.
LEMMA NewHandler ==
    ASSUME NEW st, NEW tt, Bounded(st), NEW s \in Stream,
           \A t \in Stream : t # s => tt[t] = st[t],
           Cardinality(Permits(st, On[s])) < MaxHandlers
    PROVE  Bounded(tt)
<1> SUFFICES ASSUME NEW c \in Conn
             PROVE  IsFiniteSet(Permits(tt, c)) /\ Cardinality(Permits(tt, c)) <= MaxHandlers
  BY Zenon DEF Bounded
<1>1. IsFiniteSet(Permits(st, c)) /\ Cardinality(Permits(st, c)) <= MaxHandlers
      /\ Cardinality(Permits(st, c)) \in Nat
  BY FS_CardinalityType, Zenon DEF Bounded
<1>2. CASE c # On[s]
  <2>1. Permits(tt, c) = Permits(st, c)
    BY <1>2, Zenon DEF Permits, StreamsOf
  <2> QED
    BY <1>1, <2>1, Zenon
<1>3. CASE c = On[s]
  <2> DEFINE A == Permits(st, c) \cup {s}
  <2>1. Permits(tt, c) \subseteq A
    BY Zenon DEF Permits, StreamsOf
  <2>2. IsFiniteSet(A) /\ Cardinality(A) <= Cardinality(Permits(st, c)) + 1 /\ Cardinality(A) \in Nat
    <3>1. /\ IsFiniteSet(A)
          /\ Cardinality(A) = Cardinality(Permits(st, c))
             \/ Cardinality(A) = Cardinality(Permits(st, c)) + 1
      BY <1>1, FS_AddElement, Zenon
    <3> QED
      BY <1>1, <3>1
  <2> HIDE DEF A
  <2>3. IsFiniteSet(Permits(tt, c)) /\ Cardinality(Permits(tt, c)) <= Cardinality(A)
    BY <2>1, <2>2, FS_Subset, Zenon
  <2>4. Cardinality(Permits(tt, c)) \in Nat
    BY <2>3, FS_CardinalityType, Zenon
  <2> QED
    BY <1>1, <1>3, <2>2, <2>3, <2>4, AdmissionAssumption
<1> QED
  BY <1>2, <1>3, Zenon

LEMMA PermitsAreHandlers == \A c \in Conn : HandlersOf(c) = Permits(stream, c)
BY Zenon DEF HandlersOf, Permits

\* What is left to show of a step that leaves the revisions alone.
Fits(bl, ac, cn, st, qu, li) ==
    /\ bl \in Seq(Conn)
    /\ ac \in Conn \cup {NoConn}
    /\ cn \in [Conn -> {"closed", "waiting", "handshake", "open"}]
    /\ st \in [Stream -> Busy \cup {"new", "delivered", "refused", "reset", "lost"}]
    /\ qu \in [Route -> Seq(Stream)] /\ \A v \in Route : Len(qu[v]) <= Capacity
    /\ li \subseteq Route

LEMMA InvFits == ASSUME Inv PROVE Fits(backlog, accepting, conn, stream, queue, listening)
BY Zenon DEF Inv, TypeOK, Fits

LEMMA FitsInv ==
    ASSUME Inv, Fits(backlog', accepting', conn', stream', queue', listening'), Bounded(stream'),
           up' \in BOOLEAN, live' \in 0..Newest, live <= live',
           admitted' \in [Conn -> 0..Newest],
           \/ opened' = opened
           \/ \E s \in Stream : opened' = [opened EXCEPT ![s] = live]
    PROVE  Inv'
<1> USE DEF Inv
<1>0. live \in 0..Newest /\ opened \in [Stream -> 0..Newest] /\ Newest \in Nat
  BY AdmissionAssumption, Zenon DEF TypeOK
<1>1. opened' \in [Stream -> 0..Newest]
  BY <1>0, Zenon
<1>2. \A s \in Stream : opened'[s] <= live'
  <2>1. \A s \in Stream : opened'[s] \in {opened[s], live}
    BY <1>0, Zenon
  <2>2. \A s \in Stream : opened[s] <= live /\ opened[s] \in Nat
    BY <1>0
  <2>3. live \in Nat /\ live' \in Nat
    BY <1>0
  <2> QED
    BY <2>1, <2>2, <2>3
<1>3. \A c \in Conn : HandlersOf(c)' = Permits(stream', c)
  BY Zenon DEF HandlersOf, Permits
<1>4. ASSUME NEW c \in Conn PROVE Cardinality(HandlersOf(c)') <= MaxHandlers
  <2>1. HandlersOf(c)' = Permits(stream', c) /\ Cardinality(Permits(stream', c)) <= MaxHandlers
    BY <1>3, Zenon DEF Bounded
  <2> QED
    BY <2>1, Zenon
<1>5. TypeOK'
  BY <1>1, <1>4, Zenon DEF TypeOK, Fits
<1> QED
  BY <1>2, <1>5, Zenon

-----------------------------------------------------------------------------
\* The accept loop, and the configuration.
LEMMA LoopStep ==
    ASSUME Inv,
           \/ Update \/ AcceptNext \/ Handshake \/ HandshakeFails \/ HandshakeTimesOut
           \/ \E c \in Conn : Connect(c)
    PROVE  Inv'
<1> USE DEF node, loop, listeners
<1>1. Fits(backlog, accepting, conn, stream, queue, listening) /\ Bounded(stream)
      /\ up \in BOOLEAN /\ live \in 0..Newest /\ admitted \in [Conn -> 0..Newest] /\ Newest \in Nat
  BY InvFits, AdmissionAssumption, Zenon DEF Inv, TypeOK
<1>2. CASE Update
  <2>1. live' \in 0..Newest /\ live <= live'
    BY <1>1, <1>2 DEF Update
  <2> QED
    BY <1>1, <1>2, <2>1, FitsInv, Zenon DEF Update
<1>3. CASE AcceptNext
  <2>1. Head(backlog) \in Conn /\ Tail(backlog) \in Seq(Conn)
    BY <1>1, <1>3 DEF AcceptNext, Fits
  <2>2. Fits(backlog', accepting', conn', stream', queue', listening')
    BY <1>1, <1>3, <2>1, Zenon DEF AcceptNext, Fits
  <2> QED
    BY <1>1, <1>3, <2>2, FitsInv DEF AcceptNext
<1>4. CASE Handshake
  <2>1. Fits(backlog', accepting', conn', stream', queue', listening')
    BY <1>1, <1>4, Zenon DEF Handshake, Fits
  <2>2. admitted' \in [Conn -> 0..Newest]
    BY <1>1, <1>4, Zenon DEF Handshake
  <2> QED
    BY <1>1, <1>4, <2>1, <2>2, FitsInv DEF Handshake
<1>5. CASE HandshakeFails \/ HandshakeTimesOut
  <2>1. Discard
    BY <1>5, Zenon DEF HandshakeFails, HandshakeTimesOut
  <2>2. Fits(backlog', accepting', conn', stream', queue', listening')
    BY <1>1, <2>1, Zenon DEF Discard, Fits
  <2> QED
    BY <1>1, <2>1, <2>2, FitsInv DEF Discard
<1>6. ASSUME NEW c \in Conn, Connect(c) PROVE Inv'
  <2>1. backlog' \in Seq(Conn)
    BY <1>1, <1>6 DEF Connect, Fits
  <2>2. Fits(backlog', accepting', conn', stream', queue', listening')
    BY <1>1, <1>6, <2>1, Zenon DEF Connect, Fits
  <2>3. \A s \in Stream : stream'[s] \in Handled => stream[s] \in Handled
    BY <1>6, Zenon DEF Connect, Handled
  <2>4. Bounded(stream')
    BY <1>1, <2>3, NoNewHandler, Zenon
  <2> QED
    BY <1>1, <1>6, <2>2, <2>4, FitsInv DEF Connect
<1> QED
  BY <1>2, <1>3, <1>4, <1>5, <1>6, Zenon

\* What finishing a stream makes of the streams.
LEMMA FinishFits ==
    ASSUME Inv, NEW s \in Stream, NEW o \in {"refused", "lost"}, Finish(s, o)
    PROVE  /\ stream' \in [Stream -> Busy \cup {"new", "delivered", "refused", "reset", "lost"}]
           /\ conn' \in [Conn -> {"closed", "waiting", "handshake", "open"}]
           /\ \A t \in Stream : stream'[t] \in Handled => stream[t] \in Handled
           /\ \A t \in Stream : stream'[t] = "accepted" => stream[t] = "accepted"
<1>1. /\ stream \in [Stream -> Busy \cup {"new", "delivered", "refused", "reset", "lost"}]
      /\ conn \in [Conn -> {"closed", "waiting", "handshake", "open"}]
      /\ On[s] \in Conn
  BY AdmissionAssumption, Zenon DEF Inv, TypeOK
<1>2. \A t \in Stream : stream'[t] \in {o, "lost", stream[t]}
  BY Zenon DEF Finish
<1>3. DOMAIN stream' = Stream /\ stream' = [t \in Stream |-> stream'[t]]
  BY Zenon DEF Finish
<1>4. conn' \in [Conn -> {"closed", "waiting", "handshake", "open"}]
  BY <1>1, Zenon DEF Finish
<1> QED
  BY <1>1, <1>2, <1>3, <1>4, Zenon DEF Handled, Busy

\* The streams.
LEMMA StreamStep ==
    ASSUME Inv, NEW s \in Stream,
           \/ OpenStream(s) \/ TakeStream(s) \/ Accept(s) \/ Refuse(s) \/ AnswerFails(s) \/ Send(s)
    PROVE  Inv'
<1> USE DEF node, loop, listeners
<1>1. Fits(backlog, accepting, conn, stream, queue, listening) /\ Bounded(stream)
      /\ up \in BOOLEAN /\ live \in 0..Newest /\ admitted \in [Conn -> 0..Newest] /\ live <= live
      /\ On[s] \in Conn /\ To[On[s]] \in Route
  BY InvFits, AdmissionAssumption DEF Inv, TypeOK
<1>2. CASE OpenStream(s)
  <2>1. Fits(backlog', accepting', conn', stream', queue', listening')
    BY <1>1, <1>2, Zenon DEF OpenStream, Fits, Busy
  <2>2. \A t \in Stream : stream'[t] \in Handled => stream[t] \in Handled
    BY <1>1, <1>2, Zenon DEF OpenStream, Handled, Fits
  <2>3. Bounded(stream')
    BY <1>1, <2>2, NoNewHandler, Zenon
  <2> QED
    BY <1>1, <1>2, <2>1, <2>3, FitsInv, Zenon DEF OpenStream
<1>3. CASE TakeStream(s)
  <2>1. PICK x \in {"reading", "reset"} : stream' = [stream EXCEPT ![s] = x]
    BY <1>3, Zenon DEF TakeStream
  <2>2. Fits(backlog', accepting', conn', stream', queue', listening')
    BY <1>1, <1>3, <2>1, Zenon DEF TakeStream, Fits, Busy, Handled
  <2>3. \A t \in Stream : t # s => stream'[t] = stream[t]
    BY <1>1, <2>1, Zenon DEF Fits
  <2>4. CASE stream'[s] = "reset"
    <3>1. \A t \in Stream : stream'[t] \in Handled => stream[t] \in Handled
      BY <2>3, <2>4, Zenon DEF Handled
    <3>2. Bounded(stream')
      BY <1>1, <3>1, NoNewHandler, Zenon
    <3> QED
      BY <1>1, <1>3, <2>2, <3>2, FitsInv, Zenon DEF TakeStream
  <2>5. CASE stream'[s] # "reset"
    <3>1. Cardinality(Permits(stream, On[s])) < MaxHandlers
      <4>1. CASE HasPermit(On[s])
        BY <1>1, <4>1, PermitsAreHandlers, Zenon DEF HasPermit
      <4>2. CASE \A t \in StreamsOf(On[s]) : stream[t] \in {"new", "open"}
        <5>1. Permits(stream, On[s]) = {}
          BY <4>2, Zenon DEF Permits, Handled
        <5> QED
          BY <5>1, FS_EmptySet, AdmissionAssumption
      <4> QED
        BY <1>1, <1>3, <2>5, <4>1, <4>2, Zenon DEF TakeStream, Fits
    <3>2. Bounded(stream')
      BY <1>1, <2>3, <3>1, NewHandler, Zenon
    <3> QED
      BY <1>1, <1>3, <2>2, <3>2, FitsInv, Zenon DEF TakeStream
  <2> QED
    BY <2>4, <2>5, Zenon
<1>4. CASE Accept(s)
  <2>1. Fits(backlog', accepting', conn', stream', queue', listening')
    BY <1>1, <1>4, Zenon DEF Accept, Fits, Busy, Handled
  <2>2. \A t \in Stream : stream'[t] \in Handled => stream[t] \in Handled
    BY <1>1, <1>4, Zenon DEF Accept, Handled, Fits
  <2>3. Bounded(stream')
    BY <1>1, <2>2, NoNewHandler, Zenon
  <2> QED
    BY <1>1, <1>4, <2>1, <2>3, FitsInv, Zenon DEF Accept
<1>5. ASSUME NEW o \in {"refused", "lost"}, Finish(s, o),
             UNCHANGED <<node, loop, opened, listeners>>
      PROVE  Inv'
  <2>1. /\ stream' \in [Stream -> Busy \cup {"new", "delivered", "refused", "reset", "lost"}]
        /\ conn' \in [Conn -> {"closed", "waiting", "handshake", "open"}]
        /\ \A t \in Stream : stream'[t] \in Handled => stream[t] \in Handled
    BY <1>5, FinishFits, Zenon
  <2>2. Fits(backlog', accepting', conn', stream', queue', listening')
    BY <1>1, <1>5, <2>1, Zenon DEF Fits
  <2>3. Bounded(stream')
    BY <1>1, <2>1, NoNewHandler, Zenon
  <2> QED
    BY <1>1, <1>5, <2>2, <2>3, FitsInv, Zenon
<1>6. CASE Refuse(s) \/ AnswerFails(s)
  BY <1>5, <1>6, Zenon DEF Refuse, AnswerFails
<1>7. CASE Send(s)
  <2> DEFINE v == To[On[s]]
  <2>1. CASE v \in listening
    <3>1. /\ queue' = [queue EXCEPT ![v] = Append(@, s)] /\ HasRoom(v)
          /\ stream' = [stream EXCEPT ![s] = "queued"] /\ UNCHANGED <<conn, node, loop, opened, listening>>
      BY <1>7, <2>1, Zenon DEF Send
    <3>2. queue[v] \in Seq(Stream) /\ Len(queue[v]) < Capacity /\ queue \in [Route -> Seq(Stream)]
      BY <1>1, <3>1, Zenon DEF Fits, HasRoom
    <3>3. Append(queue[v], s) \in Seq(Stream) /\ Len(Append(queue[v], s)) <= Capacity
      BY <3>2, AdmissionAssumption
    <3>4. queue' \in [Route -> Seq(Stream)] /\ \A w \in Route : Len(queue'[w]) <= Capacity
      BY <1>1, <3>1, <3>2, <3>3, Zenon DEF Fits
    <3>5. Fits(backlog', accepting', conn', stream', queue', listening')
      BY <1>1, <3>1, <3>4, Zenon DEF Fits, Busy
    <3>6. \A t \in Stream : stream'[t] \in Handled => stream[t] \in Handled
      BY <1>1, <3>1, SMTT(30) DEF Handled, Fits
    <3>7. Bounded(stream')
      BY <1>1, <3>6, NoNewHandler, Zenon
    <3> QED
      BY <1>1, <3>1, <3>5, <3>7, FitsInv, SMTT(30)
  <2>2. CASE v \notin listening
    BY <1>5, <1>7, <2>2, Zenon DEF Send
  <2> QED
    BY <2>1, <2>2, Zenon
<1> QED
  BY <1>2, <1>3, <1>4, <1>6, <1>7, Zenon

\* The applications, and the ends of connections and of the node.
LEMMA ListenerStep ==
    ASSUME Inv,
           \/ \E v \in Route : ListenerAccept(v) \/ DropListener(v)
           \/ (\E c \in Conn : HangUp(c)) \/ Close \/ Bind
    PROVE  Inv'
<1> USE DEF node, loop, listeners
<1>1. Fits(backlog, accepting, conn, stream, queue, listening) /\ Bounded(stream)
      /\ up \in BOOLEAN /\ live \in 0..Newest /\ admitted \in [Conn -> 0..Newest] /\ live <= live
  BY InvFits, AdmissionAssumption DEF Inv, TypeOK
<1>2. /\ << >> \in Seq(Conn) /\ << >> \in Seq(Stream) /\ Len(<< >>) <= Capacity
  BY AdmissionAssumption
<1>3. /\ live' = live /\ up' \in BOOLEAN /\ UNCHANGED <<admitted, opened>>
  BY <1>1, Zenon DEF ListenerAccept, DropListener, HangUp, Close, Bind
<1>4. ASSUME NEW v \in Route, ListenerAccept(v)
      PROVE  /\ Fits(backlog', accepting', conn', stream', queue', listening')
             /\ \A t \in Stream : stream'[t] \in Handled => stream[t] \in Handled
  <2>1. /\ queue[v] \in Seq(Stream) /\ queue[v] # << >> /\ Len(queue[v]) <= Capacity
        /\ queue \in [Route -> Seq(Stream)]
    BY <1>1, <1>4, Zenon DEF Fits, ListenerAccept
  <2>2. Head(queue[v]) \in Stream /\ Tail(queue[v]) \in Seq(Stream)
        /\ Len(Tail(queue[v])) <= Capacity
    BY <2>1, AdmissionAssumption
  <2>3. queue' \in [Route -> Seq(Stream)] /\ \A w \in Route : Len(queue'[w]) <= Capacity
    BY <1>1, <1>4, <2>1, <2>2, Zenon DEF Fits, ListenerAccept
  <2> QED
    BY <1>1, <1>4, <2>2, <2>3, Zenon DEF Fits, ListenerAccept, Handled
<1>5. ASSUME NEW v \in Route, DropListener(v)
      PROVE  /\ Fits(backlog', accepting', conn', stream', queue', listening')
             /\ \A t \in Stream : stream'[t] \in Handled => stream[t] \in Handled
  BY <1>1, <1>2, <1>5, Zenon DEF Fits, DropListener, Handled
<1>6. ASSUME NEW c \in Conn, HangUp(c)
      PROVE  /\ Fits(backlog', accepting', conn', stream', queue', listening')
             /\ \A t \in Stream : stream'[t] \in Handled => stream[t] \in Handled
  BY <1>1, <1>6, Zenon DEF Fits, HangUp, Handled
<1>7. ASSUME Close \/ Bind
      PROVE  /\ Fits(backlog', accepting', conn', stream', queue', listening')
             /\ \A t \in Stream : stream'[t] \in Handled => stream[t] \in Handled
  BY <1>1, <1>2, <1>7, Zenon DEF Fits, Close, Bind, Handled
<1>8. ASSUME Fits(backlog', accepting', conn', stream', queue', listening'),
             \A t \in Stream : stream'[t] \in Handled => stream[t] \in Handled
      PROVE  Inv'
  <2>1. Bounded(stream')
    BY <1>1, <1>8, NoNewHandler, Zenon
  <2> QED
    BY <1>1, <1>3, <1>8, <2>1, FitsInv, Zenon
<1> QED
  BY <1>4, <1>5, <1>6, <1>7, <1>8, Zenon

LEMMA AdmissionInit == ASSUME Init PROVE Inv
<1>1. \A c \in Conn : Permits(stream, c) = {}
  BY Zenon DEF Init, Permits, StreamsOf, Handled
<1>2. Bounded(stream)
  BY <1>1, FS_EmptySet, AdmissionAssumption DEF Bounded
<1>3. \A c \in Conn : Cardinality(HandlersOf(c)) <= MaxHandlers
  BY <1>2, PermitsAreHandlers, Zenon DEF Bounded
<1>4. << >> \in Seq(Conn) /\ << >> \in Seq(Stream) /\ Len(<< >>) = 0
  OBVIOUS
<1>5. TypeOK
  BY <1>3, <1>4, AdmissionAssumption DEF Init, TypeOK
<1> QED
  BY <1>2, <1>5 DEF Init, Inv

LEMMA AdmissionStep == ASSUME Inv, [Next]_vars PROVE Inv'
<1>1. CASE \/ Update \/ AcceptNext \/ Handshake \/ HandshakeFails \/ HandshakeTimesOut
           \/ \E c \in Conn : Connect(c)
  BY <1>1, LoopStep, Zenon
<1>2. CASE \E s \in Stream :
              OpenStream(s) \/ TakeStream(s) \/ Accept(s) \/ Refuse(s) \/ AnswerFails(s) \/ Send(s)
  BY <1>2, StreamStep, Zenon
<1>3. CASE \/ \E v \in Route : ListenerAccept(v) \/ DropListener(v)
           \/ (\E c \in Conn : HangUp(c)) \/ Close \/ Bind
  BY <1>3, ListenerStep, Zenon
<1>4. CASE UNCHANGED vars
  BY <1>4, Zenon DEF Inv, TypeOK, HandlersOf, vars
<1> QED
  BY <1>1, <1>2, <1>3, <1>4, Zenon DEF Next

LEMMA AdmissionAlways == Spec => []Inv
BY AdmissionInit, AdmissionStep, PTL DEF Spec

-----------------------------------------------------------------------------
\* No connection ever has more handlers than MAX_STREAM_HANDLERS_PER_CONNECTION
\* and no channel more streams than its capacity, with everything else of its
\* type (accept_connections, handle_datagram_connection).
THEOREM AdmissionTypeAlways == Spec => []TypeOK
<1>1. Inv => TypeOK
  BY Zenon DEF Inv
<1> QED
  BY <1>1, AdmissionAlways, PTL

\* No stream is admitted for an address that no configuration since it was
\* opened has granted its peer (LiveConfigAuthorizer::update against the
\* handlers of accept_connections).
THEOREM NoStaleAdmissionAlways == Spec => NoStaleAdmission
<1> DEFINE A == \A s \in Stream : stream[s] # "accepted" /\ stream'[s] = "accepted" =>
                   \E r \in opened[s]..live :
                       Source[s] \in AuthorizedClientAddrs(r, Remote[On[s]], To[On[s]])
<1>1. ASSUME Inv, [Next]_vars PROVE A
  <2> SUFFICES ASSUME NEW s \in Stream, stream[s] # "accepted", stream'[s] = "accepted"
               PROVE  \E r \in opened[s]..live :
                          Source[s] \in AuthorizedClientAddrs(r, Remote[On[s]], To[On[s]])
    BY Zenon
  <2> USE DEF node, loop, listeners
  <2>1. live \in opened[s]..live
    BY <1>1, AdmissionAssumption DEF Inv, TypeOK
  <2>2. stream \in [Stream -> Busy \cup {"new", "delivered", "refused", "reset", "lost"}]
    BY <1>1, Zenon DEF Inv, TypeOK
  <2>3. ASSUME NEW t \in Stream, NEW x, stream' = [stream EXCEPT ![t] = x], x # "accepted"
        PROVE  FALSE
    BY <2>2, <2>3, Zenon
  <2>4. ASSUME NEW t \in Stream, Accept(t)
        PROVE  Source[s] \in AuthorizedClientAddrs(live, Remote[On[s]], To[On[s]])
    <3>1. t = s
      BY <2>2, <2>4, Zenon DEF Accept
    <3> QED
      BY <2>4, <3>1, Zenon DEF Accept, Admits
  <2>5. ASSUME NEW t \in Stream, NEW o \in {"refused", "lost"}, Finish(t, o) PROVE FALSE
    BY <1>1, <2>5, FinishFits, Zenon
  <2>6. ASSUME NEW t \in Stream,
               \/ OpenStream(t) \/ TakeStream(t) \/ Refuse(t) \/ AnswerFails(t) \/ Send(t)
        PROVE  FALSE
    <3>1. CASE OpenStream(t) \/ TakeStream(t)
      <4>1. \E x \in {"open", "reading", "reset"} : stream' = [stream EXCEPT ![t] = x]
        BY <3>1, Zenon DEF OpenStream, TakeStream
      <4> QED
        BY <2>3, <4>1, Zenon
    <3>2. CASE Refuse(t) \/ AnswerFails(t)
      BY <2>5, <3>2, Zenon DEF Refuse, AnswerFails
    <3>3. CASE Send(t)
      BY <2>3, <2>5, <3>3, Zenon DEF Send
    <3> QED
      BY <2>6, <3>1, <3>2, <3>3, Zenon
  <2>7. ASSUME NEW v \in Route, ListenerAccept(v) \/ DropListener(v) PROVE FALSE
    BY <2>2, <2>7, Zenon DEF ListenerAccept, DropListener
  <2>8. ASSUME NEW c \in Conn, Connect(c) \/ HangUp(c) PROVE FALSE
    BY <2>2, <2>8, Zenon DEF Connect, HangUp
  <2>9. CASE Update \/ AcceptNext \/ Handshake \/ HandshakeFails \/ HandshakeTimesOut \/ Close
             \/ Bind \/ UNCHANGED vars
    BY <2>2, <2>9, Zenon DEF Update, AcceptNext, Handshake, HandshakeFails, HandshakeTimesOut, Discard,
                      Close, Bind, vars
  <2> QED
    BY <1>1, <2>1, <2>4, <2>6, <2>7, <2>8, <2>9, Zenon DEF Next
<1>2. Inv /\ [Next]_vars => [A]_vars
  BY <1>1, Zenon
<1>3. NoStaleAdmission <=> [][A]_vars
  BY Zenon DEF NoStaleAdmission
<1> HIDE DEF A
<1> QED
  BY <1>2, <1>3, AdmissionAlways, PTL DEF Spec

-----------------------------------------------------------------------------
\* The order of the numbers is well founded.
LEMMA LessWellFounded ==
    \E R : IsWellFoundedOn(R, Nat) /\ \A m, n \in Nat : m < n => <<m, n>> \in R
<1>1. \A m, n \in Nat : m < n => <<m, n>> \in OpToRel(<, Nat)
  BY Zenon DEF OpToRel
<1> QED
  BY <1>1, NatLessThanWellFounded, Zenon

\* A set of numbers that is not empty has a least one.
LEMMA LeastOf ==
    ASSUME NEW T \in SUBSET Nat, T # {}
    PROVE  \E n \in T : \A m \in T : n <= m
<1>1. PICK R : IsWellFoundedOn(R, Nat) /\ \A m, n \in Nat : m < n => <<m, n>> \in R
  BY LessWellFounded, Zenon
<1>2. T \subseteq Nat
  BY Zenon
<1>3. \E n \in T : \A m \in T : ~(<<m, n>> \in R)
  <2>1. IsWellFoundedOn(R, Nat) /\ T \subseteq Nat /\ T # {}
    BY <1>1, <1>2, Zenon
  <2> QED
    BY ONLY <2>1, WFMin, Zenon
<1>4. PICK n \in T : \A m \in T : ~(<<m, n>> \in R)
  BY <1>3, Zenon
<1>5. ASSUME NEW m \in T PROVE n <= m
  <2>1. ~(m < n)
    BY <1>1, <1>2, <1>4, Zenon
  <2> QED
    BY <1>2, <2>1
<1> QED
  BY <1>5, Zenon

\* The enumerations of a set of peers in the order of their ids.
Sorted(S) == {s \in [1..Cardinality(S) -> S] :
                 \A i, j \in 1..Cardinality(S) : i < j => Rank[s[i]] < Rank[s[j]]}

\* One more peer, below all of them, is put in front.
LEMMA SortedCons ==
    ASSUME NEW S \in SUBSET Peer, IsFiniteSet(S), NEW x \in S,
           \A y \in S : Rank[x] <= Rank[y], Sorted(S \ {x}) # {}
    PROVE  Sorted(S) # {}
<1> DEFINE n == Cardinality(S \ {x})
<1>1. n \in Nat /\ Cardinality(S) = n + 1
  <2>1. IsFiniteSet(S \ {x}) /\ Cardinality(S \ {x}) = Cardinality(S) - 1
    BY FS_RemoveElement, Zenon
  <2>2. Cardinality(S) \in Nat /\ Cardinality(S \ {x}) \in Nat
    BY <2>1, FS_CardinalityType, Zenon
  <2> QED
    BY <2>1, <2>2
<1>2. PICK t \in [1..n -> S \ {x}] : \A i, j \in 1..n : i < j => Rank[t[i]] < Rank[t[j]]
  BY Zenon DEF Sorted
<1> HIDE DEF n
<1> DEFINE s == [i \in 1..n + 1 |-> IF i = 1 THEN x ELSE t[i - 1]]
<1>3. \A i \in 2..n + 1 : i - 1 \in 1..n /\ s[i] = t[i - 1] /\ s[i] \in S \ {x}
  BY <1>1, <1>2
<1>4. s[1] = x
  BY <1>1
<1>5. s \in [1..n + 1 -> S]
  BY <1>1, <1>2
<1>6. ASSUME NEW i \in 1..n + 1, NEW j \in 1..n + 1, i < j PROVE Rank[s[i]] < Rank[s[j]]
  <2>1. j \in 2..n + 1
    BY <1>1, <1>6
  <2>2. CASE i = 1
    <3>1. s[j] \in Peer /\ s[j] # x /\ x \in Peer /\ Rank[x] <= Rank[s[j]]
      BY <1>3, <2>1, Zenon
    <3>2. Rank[x] \in Nat /\ Rank[s[j]] \in Nat /\ Rank[x] # Rank[s[j]]
      BY <3>1, SyncAssumption, Zenon
    <3> QED
      BY <1>4, <2>2, <3>1, <3>2
  <2>3. CASE i # 1
    <3>1. i \in 2..n + 1 /\ i - 1 < j - 1
      BY <1>1, <1>6, <2>3
    <3> QED
      BY <1>2, <1>3, <2>1, <3>1, Zenon
  <2> QED
    BY <2>2, <2>3, Zenon
<1>7. s \in Sorted(S)
  BY <1>1, <1>5, <1>6, Zenon DEF Sorted
<1> QED
  BY <1>7, Zenon

\* Every finite set of peers can be put in order.
LEMMA SortedExists ==
    ASSUME NEW S \in SUBSET Peer, IsFiniteSet(S)
    PROVE  Sorted(S) # {}
<1> DEFINE Bad == {n \in Nat : \E X \in SUBSET Peer :
                       IsFiniteSet(X) /\ Cardinality(X) = n /\ Sorted(X) = {}}
<1>1. SUFFICES ASSUME Bad # {} PROVE FALSE
  <2>1. Cardinality(S) \in Nat
    BY FS_CardinalityType, Zenon
  <2>2. Cardinality(S) \notin Bad
    BY <1>1, Zenon
  <2> QED
    BY <2>1, <2>2, Zenon
<1>2. PICK n \in Bad : \A m \in Bad : n <= m
  BY <1>1, LeastOf, Zenon
<1>3. PICK X \in SUBSET Peer : IsFiniteSet(X) /\ Cardinality(X) = n /\ Sorted(X) = {}
  BY <1>2, Zenon
<1>4. CASE X = {}
  <2>1. Cardinality(X) = 0
    BY <1>4, FS_EmptySet, Zenon
  <2>2. << >> \in Sorted(X)
    BY <2>1 DEF Sorted
  <2> QED
    BY <1>3, <2>2, Zenon
<1>5. CASE X # {}
  <2> DEFINE Ids == {Rank[q] : q \in X}
  <2>1. Ids \in SUBSET Nat /\ Ids # {}
    BY <1>5, SyncAssumption
  <2>2. PICK x \in X : \A y \in X : Rank[x] <= Rank[y]
    <3>1. PICK k \in Ids : \A m \in Ids : k <= m
      BY <2>1, LeastOf, Zenon
    <3>2. PICK x \in X : k = Rank[x]
      BY <3>1, Zenon
    <3> QED
      BY <3>1, <3>2, Zenon
  <2>3. /\ IsFiniteSet(X \ {x}) /\ Cardinality(X \ {x}) = n - 1
        /\ Cardinality(X \ {x}) \in Nat /\ n \in Nat
    <3>1. IsFiniteSet(X \ {x}) /\ Cardinality(X \ {x}) = Cardinality(X) - 1
      BY <1>3, FS_RemoveElement, Zenon
    <3> QED
      BY <1>2, <1>3, <3>1, FS_CardinalityType, Zenon
  <2>4. Cardinality(X \ {x}) \notin Bad
    <3>1. ~(n <= n - 1)
      BY <2>3
    <3> QED
      BY <1>2, <2>3, <3>1, Zenon
  <2>5. Sorted(X \ {x}) # {}
    BY <2>3, <2>4, Zenon
  <2> QED
    BY <1>3, <2>2, <2>5, SortedCons, Zenon
<1> QED
  BY <1>4, <1>5, Zenon

\* An enumeration is a sequence.
LEMMA EnumerationIsSeq ==
    ASSUME NEW n \in Nat, NEW A, NEW B, A \subseteq B, NEW t \in [1..n -> A]
    PROVE  t \in Seq(B) /\ Len(t) = n /\ (n # 0 => t # << >>)
<1>1. t \in [1..n -> B]
  BY Zenon
<1> QED
  BY <1>1

\* What config_peer_descriptors returns: other peers, and the authority among
\* them unless it is the authority that asks.
LEMMA PeersOfType ==
    ASSUME NEW p \in Peer, NEW r \in Revision
    PROVE  /\ PeersOf(p, r) \in Seq(Peer \ {p}) /\ PeersOf(p, r) \in Seq(Peer)
           /\ p # Authority => PeersOf(p, r) # << >> /\ Len(PeersOf(p, r)) \in Nat \ {0}
<1> DEFINE S == Lists[r] \ {p}
           n == Cardinality(S)
<1>1. S \in SUBSET Peer /\ IsFiniteSet(S) /\ n \in Nat
  <2>1. S \in SUBSET Peer /\ IsFiniteSet(Peer)
    BY SyncAssumption, Zenon DEF Revision
  <2> QED
    BY <2>1, FS_Subset, FS_CardinalityType, Zenon
<1>2. InOrder(S) \in [1..n -> S]
  <2>1. PICK s \in [1..n -> S] : \A i, j \in 1..n : i < j => Rank[s[i]] < Rank[s[j]]
    BY <1>1, SortedExists, Zenon DEF Sorted
  <2>2. DOMAIN s = 1..n
    BY <2>1, Zenon
  <2> QED
    BY <2>1, <2>2, Zenon DEF InOrder
<1>3. p # Authority => n # 0
  <2>1. p # Authority => S # {}
    BY SyncAssumption, Zenon DEF Revision
  <2> QED
    BY <1>1, <2>1, FS_EmptySet, Zenon
<1> HIDE DEF n
<1>4. /\ InOrder(S) \in Seq(Peer \ {p}) /\ InOrder(S) \in Seq(Peer)
      /\ Len(InOrder(S)) = n /\ (n # 0 => InOrder(S) # << >>)
  <2> HIDE DEF S
  <2>1. S \subseteq Peer \ {p} /\ S \subseteq Peer
    BY <1>1, Zenon DEF S
  <2> QED
    BY <1>1, <1>2, <2>1, EnumerationIsSeq, Zenon
<1> QED
  BY <1>1, <1>3, <1>4, Zenon DEF PeersOf

\* A ticket is of a revision that lists its holder.
LEMMA JoinsListed ==
    ASSUME NEW p \in Peer, NEW q \in Revision, \E r \in 0..q : p \in Lists[r]
    PROVE  Joins(p) \in Revision /\ p \in Lists[Joins(p)]
<1> DEFINE T == {r \in Revision : p \in Lists[r]}
<1>1. T \in SUBSET Nat /\ T # {}
  BY SyncAssumption DEF Revision
<1>2. PICK r \in T : \A m \in T : r <= m
  BY <1>1, LeastOf, Zenon
<1>3. r \in Revision /\ p \in Lists[r] /\ \A s \in 0..r - 1 : p \notin Lists[s]
  BY <1>2, SyncAssumption DEF Revision
<1> QED
  BY <1>3, Zenon DEF Joins

-----------------------------------------------------------------------------
\* Only a member that has joined runs, only one that runs is in a round, and
\* what is in its store then is a revision; the authority is never in one, and
\* stores what it published.
InStep ==
    /\ \A p \in running : head[p] # Unjoined
    /\ \A p \in Peer : head[p] # Unjoined => stored[p] \in Revision /\ oldest[p] \in Revision
    /\ \A p \in Peer : round[p] # Waiting => p \in running \ {Authority}
    /\ head[Authority] # Unjoined /\ stored[Authority] = published

\* The inductive invariant.
SyncInv == SyncTypeOK /\ InStep /\ OnlyWhatListsIt

\* It holds of the first device of a network.
LEMMA SyncInitInv == ASSUME SyncInit PROVE SyncInv
<1>1. SyncTypeOK
  BY SyncAssumption DEF SyncInit, SyncTypeOK, Revision, Round
<1>2. InStep
  BY SyncAssumption DEF SyncInit, InStep, Revision
<1>3. OnlyWhatListsIt
  BY SyncAssumption DEF SyncInit, OnlyWhatListsIt, Revision
<1> QED
  BY <1>1, <1>2, <1>3, Zenon DEF SyncInv

\* The phases of a round.
LEMMA Phases ==
    ASSUME NEW x \in Round
    PROVE  /\ x.phase = "fetch" => x \in [phase : {"fetch"}, previous : Revision, offset : Nat]
           /\ x.phase = "apply" => x \in [phase : {"apply"}, previous : Revision, offset : Nat, upto : Revision]
           /\ x.phase \in {"fetch", "apply"} => x # Waiting
           /\ x # Waiting => x.offset \in Nat /\ x.previous \in Revision
BY DEF Round, Waiting

\* A step of one peer leaves what the others have.
LEMMA ListsKept ==
    ASSUME OnlyWhatListsIt, NEW p \in Peer,
           \A q \in Peer \ {p} :
               head'[q] = head[q] /\ stored'[q] = stored[q] /\ oldest'[q] = oldest[q],
           \A r \in oldest'[p]..stored'[p] : p \in Lists[r]
    PROVE  OnlyWhatListsIt'
<1> SUFFICES ASSUME NEW q \in Peer, head'[q] # Unjoined, NEW r \in oldest'[q]..stored'[q]
             PROVE  q \in Lists[r]
  BY Zenon DEF OnlyWhatListsIt
<1> QED
  BY Zenon DEF OnlyWhatListsIt

\* The authority publishes a revision it stores at once.
LEMMA PublishInv == ASSUME SyncInv, Publish PROVE SyncInv'
<1> USE DEF SyncInv, Publish
<1>1. published + 1 \in Revision
  BY SyncAssumption DEF SyncTypeOK, Revision
<1>2. SyncTypeOK'
  BY <1>1, Zenon DEF SyncTypeOK
<1>3. InStep'
  BY <1>1, SyncAssumption, SMTT(30) DEF SyncTypeOK, InStep, Revision
<1>4. OnlyWhatListsIt'
  <2>1. \A r \in oldest[Authority]..published + 1 : Authority \in Lists[r]
    BY <1>1, SyncAssumption DEF InStep, Revision
  <2>2. stored'[Authority] = published + 1 /\ oldest'[Authority] = oldest[Authority]
    BY SyncAssumption, Zenon DEF SyncTypeOK
  <2> QED
    BY <2>1, <2>2, SyncAssumption, ListsKept, Zenon DEF SyncTypeOK
<1> QED
  BY <1>2, <1>3, <1>4, Zenon

\* Time passes.
LEMMA TickInv == ASSUME SyncInv, Tick PROVE SyncInv'
<1>1. SyncTypeOK'
  BY SyncAssumption, SMTT(30) DEF SyncInv, Tick, SyncTypeOK, state
<1>2. InStep' /\ OnlyWhatListsIt'
  BY Zenon DEF SyncInv, Tick, InStep, OnlyWhatListsIt, state
<1> QED
  BY <1>1, <1>2, Zenon DEF SyncInv

\* A device joins at the revision of its ticket.
LEMMA JoinInv == ASSUME SyncInv, NEW p \in Peer, Join(p) PROVE SyncInv'
<1> USE DEF SyncInv, Join
<1>1. Joins(p) \in Revision /\ p \in Lists[Joins(p)]
  BY JoinsListed, Zenon DEF SyncTypeOK
<1>2. PeersOf(p, Joins(p)) \in Seq(Peer \ {p}) /\ PeersOf(p, Joins(p)) \in Seq(Peer)
  BY <1>1, PeersOfType, Zenon
<1>3. round[p] = Waiting /\ p # Authority
  BY Zenon DEF InStep
<1>4. SyncTypeOK'
  BY <1>1, <1>2, <1>3, SMTT(30) DEF SyncTypeOK
<1>5. InStep'
  BY <1>1, <1>3, SyncAssumption, Zenon DEF SyncTypeOK, InStep, Revision
<1>6. OnlyWhatListsIt'
  <2>1. stored'[p] = Joins(p) /\ oldest'[p] = Joins(p)
    BY Zenon DEF SyncTypeOK
  <2>2. \A r \in Joins(p)..Joins(p) : p \in Lists[r]
    BY <1>1 DEF Revision
  <2> QED
    BY <2>1, <2>2, ListsKept, Zenon DEF SyncTypeOK
<1> QED
  BY <1>4, <1>5, <1>6, Zenon

\* What went wrong so far.
Faults == [lost : 0..MaxLost, store : 0..MaxFaults, stops : 0..MaxStops]

\* It is counted up to its bound.
LEMMA FaultsCounted ==
    ASSUME faults \in Faults
    PROVE  /\ faults.lost < MaxLost => [faults EXCEPT !.lost = @ + 1] \in Faults
           /\ faults.store < MaxFaults => [faults EXCEPT !.store = @ + 1] \in Faults
           /\ faults.stops < MaxStops => [faults EXCEPT !.stops = @ + 1] \in Faults
<1>1. /\ faults.lost < MaxLost => faults.lost + 1 \in 0..MaxLost
      /\ faults.store < MaxFaults => faults.store + 1 \in 0..MaxFaults
      /\ faults.stops < MaxStops => faults.stops + 1 \in 0..MaxStops
  BY SyncAssumption DEF Faults
<1> QED
  BY <1>1, Zenon DEF Faults

\* A batch that a handle commits lists its peer throughout.
LEMMA BatchListed ==
    ASSUME SyncInv, NEW p \in Peer, head[p] # Unjoined, stored[p] = head[p],
           NEW u \in Revision, Opens(p, head[p], u)
    PROVE  \A r \in oldest[p]..u : p \in Lists[r]
<1>1. oldest[p] \in Nat /\ stored[p] \in Nat /\ head[p] \in Nat /\ u \in Nat
  BY SyncAssumption DEF SyncInv, InStep, Revision
<1> SUFFICES ASSUME NEW r \in oldest[p]..u PROVE p \in Lists[r]
  BY Zenon
<1>2. CASE r <= stored[p]
  BY <1>1, <1>2 DEF SyncInv, OnlyWhatListsIt
<1>3. CASE r > stored[p]
  BY <1>1, <1>3 DEF Opens
<1> QED
  BY <1>1, <1>2, <1>3

\* So does the one a round has fetched.
LEMMA CommitsListed ==
    ASSUME SyncInv, NEW p \in Peer, Commits(p)
    PROVE  /\ round[p].upto \in Revision /\ head[p] # Unjoined /\ p \in running
           /\ \A r \in oldest[p]..round[p].upto : p \in Lists[r]
<1>1. round[p].phase = "apply" /\ stored[p] = head[p] /\ Opens(p, head[p], round[p].upto)
  BY Zenon DEF Commits, Accepts
<1>2. round[p].upto \in Revision /\ round[p] # Waiting
  BY <1>1, Phases DEF SyncInv, SyncTypeOK
<1>3. head[p] # Unjoined /\ p \in running
  BY <1>2, Zenon DEF SyncInv, InStep
<1> QED
  BY <1>1, <1>2, <1>3, BatchListed, Zenon

\* A device stops, with its batch stored or not.
LEMMA StopInv == ASSUME SyncInv, NEW p \in Peer, Stop(p) PROVE SyncInv'
<1>1. stored' = stored \/ (Commits(p) /\ stored' = [stored EXCEPT ![p] = round[p].upto])
  BY Zenon DEF Stop
<1>2. /\ stored' \in [Peer -> Revision \cup {Unjoined}] /\ \A q \in Peer \ {p} : stored'[q] = stored[q]
      /\ head[p] # Unjoined => stored'[p] \in Revision
      /\ p = Authority => stored' = stored
  <2>1. CASE stored' = stored
    BY <2>1, Zenon DEF SyncInv, SyncTypeOK, InStep
  <2>2. CASE Commits(p) /\ stored' = [stored EXCEPT ![p] = round[p].upto]
    <3>1. p # Authority
      BY <2>2, Phases DEF SyncInv, SyncTypeOK, InStep, Commits, Accepts
    <3> QED
      BY <2>2, <3>1, CommitsListed, Zenon DEF SyncInv, SyncTypeOK
  <2> QED
    BY <1>1, <2>1, <2>2, Zenon
<1>3. SyncTypeOK'
  <2>1. faults' \in [lost : 0..MaxLost, store : 0..MaxFaults, stops : 0..MaxStops]
    BY FaultsCounted, Zenon DEF SyncInv, Stop, SyncTypeOK, Faults
  <2>2. round' \in [Peer -> Round] /\ \A q \in Peer : round'[q] # Waiting => round'[q] = round[q]
    BY Zenon DEF SyncInv, Stop, SyncTypeOK, Round
  <2> QED
    BY <1>2, <2>1, <2>2, Zenon DEF SyncInv, Stop, SyncTypeOK
<1>4. InStep'
  <2>1. /\ head' = head /\ oldest' = oldest /\ published' = published /\ running' = running \ {p}
        /\ \A q \in Peer : round'[q] # Waiting => q # p /\ round'[q] = round[q]
    BY Zenon DEF SyncInv, Stop, SyncTypeOK
  <2>2. \A q \in Peer : head[q] # Unjoined => stored'[q] \in Revision
    BY <1>2, Zenon DEF SyncInv, InStep
  <2>3. stored'[Authority] = stored[Authority]
    BY <1>2, SyncAssumption, Zenon
  <2> QED
    BY <2>1, <2>2, <2>3, Zenon DEF SyncInv, InStep
<1>5. OnlyWhatListsIt'
  <2>1. CASE stored' = stored
    BY <2>1, Zenon DEF SyncInv, Stop, OnlyWhatListsIt
  <2>2. CASE Commits(p) /\ stored' = [stored EXCEPT ![p] = round[p].upto]
    <3>1. stored'[p] = round[p].upto /\ oldest'[p] = oldest[p]
      BY <2>2, Zenon DEF SyncInv, SyncTypeOK, Stop
    <3> QED
      BY <1>2, <2>2, <3>1, CommitsListed, ListsKept, Zenon DEF SyncInv, Stop
  <2> QED
    BY <1>1, <2>1, <2>2, Zenon
<1> QED
  BY <1>3, <1>4, <1>5, Zenon DEF SyncInv

\* A device starts again from what it stored.
LEMMA RestartInv == ASSUME SyncInv, NEW p \in Peer, Restart(p) PROVE SyncInv'
<1> USE DEF SyncInv, Restart
<1>1. stored[p] \in Revision /\ round[p] = Waiting
  BY Zenon DEF InStep
<1>2. PeersOf(p, stored[p]) \in Seq(Peer \ {p}) /\ PeersOf(p, stored[p]) \in Seq(Peer)
  BY <1>1, PeersOfType, Zenon
<1>3. /\ targets' \in [Peer -> Seq(Peer)] /\ targets'[p] \in Seq(Peer \ {p})
      /\ \A q \in Peer \ {p} : targets'[q] = targets[q] /\ start'[q] = start[q]
  BY <1>2, Zenon DEF SyncTypeOK
<1>4. SyncTypeOK'
  BY <1>1, <1>3, Zenon DEF SyncTypeOK
<1>5. InStep'
  BY <1>1, SyncAssumption, Zenon DEF SyncTypeOK, InStep, Revision
<1>6. OnlyWhatListsIt'
  BY Zenon DEF SyncTypeOK, OnlyWhatListsIt
<1> QED
  BY <1>4, <1>5, <1>6, Zenon

\* A round starts at the targets of the revision its device has.
LEMMA StartRoundInv == ASSUME SyncInv, NEW p \in Peer, StartRound(p) PROVE SyncInv'
<1> DEFINE current == PeersOf(p, head[p])
<1>1. head[p] \in Revision /\ p # Authority /\ p \in running
  BY Zenon DEF SyncInv, SyncTypeOK, InStep, StartRound
<1>2. /\ current \in Seq(Peer \ {p}) /\ current \in Seq(Peer)
      /\ current # << >> /\ Len(current) \in Nat \ {0}
  BY <1>1, PeersOfType, Zenon
<1>3. /\ targets' = [targets EXCEPT ![p] = current]
      /\ start' = [start EXCEPT ![p] = start[p] % Len(current)]
      /\ round' = [round EXCEPT ![p] = [phase |-> "fetch", previous |-> head[p], offset |-> 0]]
      /\ UNCHANGED <<published, now, running, head, stored, oldest, faults>>
  BY <1>2, Zenon DEF StartRound, state
<1> HIDE DEF current
<1>4. start[p] % Len(current) \in Nat /\ start[p] % Len(current) < Len(current)
  BY <1>2 DEF SyncInv, SyncTypeOK
<1>5. SyncTypeOK'
  <2>1. round' \in [Peer -> Round] /\ round'[p].offset = 0
    BY <1>1, <1>3, Zenon DEF SyncInv, SyncTypeOK, Round
  <2>2. targets' \in [Peer -> Seq(Peer)] /\ start' \in [Peer -> Nat]
    BY <1>2, <1>3, <1>4, Zenon DEF SyncInv, SyncTypeOK
  <2>3. ASSUME NEW q \in Peer
        PROVE  /\ targets'[q] \in Seq(Peer \ {q})
               /\ round'[q] # Waiting =>
                      start'[q] < Len(targets'[q]) /\ round'[q].offset < Len(targets'[q])
    <3>1. CASE q = p
      BY <1>2, <1>3, <1>4, <2>1, <3>1 DEF SyncInv, SyncTypeOK
    <3>2. CASE q # p
      BY <1>3, <3>2, Zenon DEF SyncInv, SyncTypeOK
    <3> QED
      BY <3>1, <3>2, Zenon
  <2> QED
    BY <1>3, <2>1, <2>2, <2>3, Zenon DEF SyncInv, SyncTypeOK
<1>6. InStep' /\ OnlyWhatListsIt'
  BY <1>1, <1>3, Zenon DEF SyncInv, SyncTypeOK, InStep, OnlyWhatListsIt
<1> QED
  BY <1>5, <1>6, Zenon DEF SyncInv

\* Failover leaves the round at a target, or ends it.
LEMMA NextTargetRound ==
    ASSUME SyncInv, NEW p \in Peer, round[p] # Waiting, NextTarget(p)
    PROVE  \E x \in Round : /\ round' = [round EXCEPT ![p] = x]
                            /\ x # Waiting => x.offset < Len(targets[p])
<1>1. round[p].offset + 1 \in Nat /\ round[p].previous \in Revision
  BY Phases DEF SyncInv, SyncTypeOK
<1> DEFINE f == [phase |-> "fetch", previous |-> round[p].previous, offset |-> round[p].offset + 1]
<1>2. f \in Round /\ f.offset = round[p].offset + 1 /\ Waiting \in Round
  BY <1>1, Zenon DEF Round
<1> HIDE DEF f
<1>3. round' = [round EXCEPT ![p] = IF round[p].offset + 1 < Len(targets[p]) THEN f ELSE Waiting]
  BY Zenon DEF NextTarget, f
<1> QED
  BY <1>2, <1>3, Zenon

\* A step of a round that asks the same targets.
LEMMA RoundKept ==
    ASSUME SyncInv, NEW p \in Peer, round[p] # Waiting,
           NEW x \in Round, round' = [round EXCEPT ![p] = x],
           x # Waiting => x.offset < Len(targets[p]) /\ start' = start,
           start' \in [Peer -> Nat], \A q \in Peer \ {p} : start'[q] = start[q],
           head' \in [Peer -> Revision \cup {Unjoined}], \A q \in Peer \ {p} : head'[q] = head[q],
           stored' \in [Peer -> Revision \cup {Unjoined}], \A q \in Peer \ {p} : stored'[q] = stored[q],
           head'[p] \in Revision, stored'[p] \in Revision,
           faults' \in Faults, UNCHANGED <<published, now, running, oldest, targets>>
    PROVE  SyncTypeOK' /\ InStep'
<1>1. p \in running /\ p # Authority /\ oldest[p] \in Revision
  BY Zenon DEF SyncInv, InStep
<1>2. round' \in [Peer -> Round] /\ round'[p] = x /\ \A q \in Peer \ {p} : round'[q] = round[q]
  BY Zenon DEF SyncInv, SyncTypeOK
<1>3. ASSUME NEW q \in Peer, round'[q] # Waiting
      PROVE  /\ start'[q] < Len(targets[q]) /\ round'[q].offset < Len(targets[q])
             /\ q \in running \ {Authority}
  <2>1. CASE q = p
    BY <1>1, <1>2, <1>3, <2>1, Zenon DEF SyncInv, SyncTypeOK
  <2>2. CASE q # p
    BY <1>2, <1>3, <2>2, Zenon DEF SyncInv, SyncTypeOK, InStep
  <2> QED
    BY <2>1, <2>2, Zenon
<1>4. SyncTypeOK'
  BY <1>2, <1>3, SMTT(30) DEF SyncInv, SyncTypeOK, Faults
<1>5. InStep'
  <2>1. \A q \in running : head'[q] # Unjoined
    BY SyncAssumption, ZenonT(30) DEF SyncInv, SyncTypeOK, InStep, Revision
  <2>2. \A q \in Peer : head'[q] # Unjoined => stored'[q] \in Revision /\ oldest[q] \in Revision
    BY <1>1, Zenon DEF SyncInv, InStep
  <2>3. head'[Authority] # Unjoined /\ stored'[Authority] = published
    BY <1>1, SyncAssumption, Zenon DEF SyncInv, InStep
  <2> QED
    BY <1>3, <2>1, <2>2, <2>3, Zenon DEF InStep
<1> QED
  BY <1>4, <1>5, Zenon

\* A target answers, with the bundles it has, or does not.
LEMMA FetchInv == ASSUME SyncInv, NEW p \in Peer, Fetch(p) PROVE SyncInv'
<1> DEFINE q == Target(p)
<1>1. /\ round[p] # Waiting /\ p \in running /\ head[p] \in Revision /\ stored[p] \in Revision
      /\ round[p].offset \in Nat /\ round[p].previous \in Revision /\ round[p].offset < Len(targets[p])
  BY Phases, Zenon DEF SyncInv, SyncTypeOK, InStep, Fetch
<1>2. /\ UNCHANGED <<published, now, running, head, stored, oldest, targets, start>>
      /\ faults' \in Faults
      /\ \/ NextTarget(p)
         \/ /\ q \in running
            /\ round' = [round EXCEPT ![p] = [phase |-> "apply", previous |-> round[p].previous,
                                              offset |-> round[p].offset, upto |-> head[q]]]
  <2>1. faults \in Faults
    BY Zenon DEF SyncInv, SyncTypeOK, Faults
  <2> QED
    BY <2>1, FaultsCounted, Zenon DEF Fetch, state, Answers
<1> HIDE DEF q
<1>3. PICK x \in Round : round' = [round EXCEPT ![p] = x] /\ (x # Waiting => x.offset < Len(targets[p]))
  <2>1. CASE NextTarget(p)
    BY <1>1, <2>1, NextTargetRound, Zenon
  <2>2. CASE /\ q \in running
             /\ round' = [round EXCEPT ![p] = [phase |-> "apply", previous |-> round[p].previous,
                                               offset |-> round[p].offset, upto |-> head[q]]]
    <3>1. head[q] \in Revision
      BY <2>2, Zenon DEF SyncInv, SyncTypeOK, InStep
    <3>2. [phase |-> "apply", previous |-> round[p].previous,
           offset |-> round[p].offset, upto |-> head[q]] \in Round
      BY <1>1, <3>1, Zenon DEF Round
    <3> QED
      BY <1>1, <2>2, <3>2, Zenon
  <2> QED
    BY <1>2, <2>1, <2>2, Zenon
<1>4. SyncTypeOK' /\ InStep'
  <2>1. /\ head' = head /\ stored' = stored /\ start' = start
        /\ start \in [Peer -> Nat] /\ head \in [Peer -> Revision \cup {Unjoined}]
        /\ stored \in [Peer -> Revision \cup {Unjoined}]
    BY <1>2, Zenon DEF SyncInv, SyncTypeOK
  <2> QED
    BY <1>1, <1>2, <1>3, <2>1, RoundKept, Zenon
<1>5. OnlyWhatListsIt'
  BY <1>2, Zenon DEF SyncInv, OnlyWhatListsIt
<1> QED
  BY <1>4, <1>5, Zenon DEF SyncInv

\* The end of a round leaves its loop at a target.
LEMMA RoundDoneStart ==
    ASSUME SyncInv, NEW p \in Peer, round[p] # Waiting, RoundDone(p)
    PROVE  /\ start' \in [Peer -> Nat] /\ \A q \in Peer \ {p} : start'[q] = start[q]
           /\ Waiting \in Round /\ round' = [round EXCEPT ![p] = Waiting]
<1>1. /\ Len(targets[p]) \in Nat /\ start[p] \in Nat /\ round[p].offset \in Nat
      /\ start[p] < Len(targets[p])
  BY Phases, SMTT(30) DEF SyncInv, SyncTypeOK
<1>2. Index(p) \in Nat
  BY <1>1 DEF Index
<1>3. (Index(p) + 1) % Len(targets[p]) \in Nat
  BY <1>1, <1>2
<1> QED
  BY <1>3, Zenon DEF RoundDone, SyncInv, SyncTypeOK, Round

\* The bundles that were fetched are applied, or refused.
LEMMA ApplyUpdatesInv == ASSUME SyncInv, NEW p \in Peer, ApplyUpdates(p) PROVE SyncInv'
<1>1. /\ round[p] # Waiting /\ p \in running /\ head[p] \in Revision /\ stored[p] \in Revision
      /\ faults \in Faults /\ start \in [Peer -> Nat]
      /\ head \in [Peer -> Revision \cup {Unjoined}] /\ stored \in [Peer -> Revision \cup {Unjoined}]
      /\ UNCHANGED <<published, now, running, oldest, targets>>
  BY Phases, Zenon DEF SyncInv, SyncTypeOK, InStep, ApplyUpdates, Faults
<1>2. CASE RoundDone(p) /\ UNCHANGED <<head, stored, faults>>
  <2>1. SyncTypeOK' /\ InStep'
    BY <1>1, <1>2, RoundDoneStart, RoundKept, Zenon
  <2>2. OnlyWhatListsIt'
    BY <1>1, <1>2, Zenon DEF SyncInv, OnlyWhatListsIt
  <2> QED
    BY <2>1, <2>2, Zenon DEF SyncInv
<1>3. CASE NextTarget(p) /\ UNCHANGED <<head, stored, start, faults>>
  <2>1. PICK x \in Round : round' = [round EXCEPT ![p] = x] /\ (x # Waiting => x.offset < Len(targets[p]))
    BY <1>1, <1>3, NextTargetRound, Zenon
  <2>2. SyncTypeOK' /\ InStep'
    BY <1>1, <1>3, <2>1, RoundKept, Zenon
  <2>3. OnlyWhatListsIt'
    BY <1>1, <1>3, Zenon DEF SyncInv, OnlyWhatListsIt
  <2> QED
    BY <2>2, <2>3, Zenon DEF SyncInv
<1>4. ASSUME Commits(p), stored' = [stored EXCEPT ![p] = round[p].upto],
             head' = head \/ head' = [head EXCEPT ![p] = round[p].upto]
      PROVE  /\ head' \in [Peer -> Revision \cup {Unjoined}] /\ \A q \in Peer \ {p} : head'[q] = head[q]
             /\ stored' \in [Peer -> Revision \cup {Unjoined}]
             /\ \A q \in Peer \ {p} : stored'[q] = stored[q]
             /\ head'[p] \in Revision /\ stored'[p] \in Revision
             /\ OnlyWhatListsIt'
  <2>1. /\ round[p].upto \in Revision /\ \A r \in oldest[p]..round[p].upto : p \in Lists[r]
    BY <1>4, CommitsListed, Zenon
  <2>2. /\ head' \in [Peer -> Revision \cup {Unjoined}] /\ \A q \in Peer \ {p} : head'[q] = head[q]
        /\ stored' \in [Peer -> Revision \cup {Unjoined}]
        /\ \A q \in Peer \ {p} : stored'[q] = stored[q]
        /\ head'[p] \in Revision /\ stored'[p] = round[p].upto /\ oldest'[p] = oldest[p]
    BY <1>1, <1>4, <2>1, Zenon
  <2> QED
    BY <1>1, <2>1, <2>2, ListsKept, Zenon DEF SyncInv
<1>5. CASE /\ Commits(p)
           /\ head' = [head EXCEPT ![p] = round[p].upto]
           /\ stored' = [stored EXCEPT ![p] = round[p].upto]
           /\ RoundDone(p) /\ UNCHANGED faults
  <2>1. SyncTypeOK' /\ InStep'
    BY <1>1, <1>4, <1>5, RoundDoneStart, RoundKept, SMTT(30)
  <2> QED
    BY <1>4, <1>5, <2>1, Zenon DEF SyncInv
<1>6. CASE /\ Commits(p)
           /\ faults.store < MaxFaults /\ faults' = [faults EXCEPT !.store = @ + 1]
           /\ stored' = [stored EXCEPT ![p] = round[p].upto]
           /\ NextTarget(p) /\ UNCHANGED <<head, start>>
  <2>1. PICK x \in Round : round' = [round EXCEPT ![p] = x] /\ (x # Waiting => x.offset < Len(targets[p]))
    BY <1>1, <1>6, NextTargetRound, Zenon
  <2>2. faults' \in Faults
    BY <1>1, <1>6, FaultsCounted, Zenon
  <2>3. SyncTypeOK' /\ InStep'
    BY <1>1, <1>4, <1>6, <2>1, <2>2, RoundKept, Zenon
  <2> QED
    BY <1>4, <1>6, <2>3, Zenon DEF SyncInv
<1> QED
  BY <1>2, <1>3, <1>5, <1>6, Zenon DEF ApplyUpdates

\* A configuration is applied outside of a round.
LEMMA ApplyByHandInv ==
    ASSUME SyncInv, NEW p \in Peer, NEW u \in Revision, ApplyByHand(p, u) PROVE SyncInv'
<1>1. /\ p \in running /\ p # Authority /\ stored[p] = head[p] /\ head[p] # Unjoined
      /\ Opens(p, head[p], u)
      /\ head' = [head EXCEPT ![p] = u] /\ stored' = [stored EXCEPT ![p] = u]
      /\ UNCHANGED <<published, now, running, oldest, targets, start, round, faults>>
  BY Zenon DEF ApplyByHand, SyncInv, InStep
<1>2. \A r \in oldest[p]..u : p \in Lists[r]
  BY <1>1, BatchListed, Zenon
<1>3. SyncTypeOK'
  BY <1>1, Zenon DEF SyncInv, SyncTypeOK
<1>4. InStep'
  BY <1>1, SyncAssumption, Zenon DEF SyncInv, SyncTypeOK, InStep, Revision
<1>5. OnlyWhatListsIt'
  BY <1>1, <1>2, ListsKept, Zenon DEF SyncInv, SyncTypeOK
<1> QED
  BY <1>3, <1>4, <1>5, Zenon DEF SyncInv

\* Every step keeps it.
LEMMA SyncStep == ASSUME SyncInv, [SyncNext]_syncVars PROVE SyncInv'
<1>1. CASE UNCHANGED syncVars
  BY <1>1, Zenon DEF syncVars, SyncInv, SyncTypeOK, InStep, OnlyWhatListsIt
<1>2. CASE SyncNext
  BY <1>2, PublishInv, TickInv, JoinInv, StopInv, RestartInv, StartRoundInv, FetchInv,
     ApplyUpdatesInv, ApplyByHandInv, Zenon DEF SyncNext, Loop
<1> QED
  BY <1>1, <1>2, Zenon

\* So it holds of every behaviour.
LEMMA SyncAlways == SyncSpec => []SyncInv
BY SyncInitInv, SyncStep, PTL DEF SyncSpec

\* Heads, stores and rounds stay well typed: the failover of a round never runs
\* past its last target, and no loop starts behind it
\* (spawn_config_anti_entropy, config_peer_descriptors).
THEOREM SyncTypeAlways == SyncSpec => []SyncTypeOK
<1>1. SyncInv => SyncTypeOK
  BY Zenon DEF SyncInv
<1> QED
  BY <1>1, SyncAlways, PTL

\* Every revision a member keeps lists it, whoever it had it from and whatever
\* was lost, refused or restarted on the way (apply_updates).
THEOREM OnlyWhatListsItAlways == SyncSpec => []OnlyWhatListsIt
<1>1. SyncInv => OnlyWhatListsIt
  BY Zenon DEF SyncInv
<1> QED
  BY <1>1, SyncAlways, PTL

-----------------------------------------------------------------------------
\* What a device holds is no newer than what it stores, and that was published.
Held ==
    \A p \in Peer : head[p] # Unjoined =>
        oldest[p] <= head[p] /\ head[p] <= stored[p] /\ stored[p] <= published

\* A batch goes forward, to a revision that was published.
Brought ==
    \A p \in Peer : round[p].phase = "apply" =>
        round[p].previous <= round[p].upto /\ round[p].upto <= published

\* No device goes back, in memory or in its store.
Forward ==
    \A p \in Peer : head[p] # Unjoined =>
        head'[p] # Unjoined /\ head[p] <= head'[p] /\ stored[p] <= stored'[p]

\* What a device has joined with is a number.
LEMMA HeadTypes ==
    ASSUME SyncInv
    PROVE  /\ published \in Nat
           /\ \A p \in Peer : head[p] # Unjoined =>
                 head[p] \in Nat /\ stored[p] \in Nat /\ oldest[p] \in Nat
<1>1. Revision \subseteq Nat
  BY SyncAssumption DEF Revision
<1> QED
  BY <1>1, Zenon DEF SyncInv, SyncTypeOK, InStep

\* A step that moves one device forward.
LEMMA OneForward ==
    ASSUME SyncInv, Held, published' \in Nat, published <= published', NEW p \in Peer,
           \A q \in Peer \ {p} :
               head'[q] = head[q] /\ stored'[q] = stored[q] /\ oldest'[q] = oldest[q],
           head[p] # Unjoined =>
               head'[p] # Unjoined /\ head[p] <= head'[p] /\ stored[p] <= stored'[p],
           head'[p] # Unjoined =>
               oldest'[p] <= head'[p] /\ head'[p] <= stored'[p] /\ stored'[p] <= published'
    PROVE  Held' /\ Forward
<1>1. ASSUME NEW q \in Peer, q # p, head[q] # Unjoined
      PROVE  /\ oldest'[q] <= head'[q] /\ head'[q] <= stored'[q] /\ stored'[q] <= published'
             /\ head'[q] # Unjoined /\ head[q] <= head'[q] /\ stored[q] <= stored'[q]
  <2>1. /\ head[q] \in Nat /\ stored[q] \in Nat /\ published \in Nat
        /\ oldest[q] <= head[q] /\ head[q] <= stored[q] /\ stored[q] <= published
        /\ head'[q] = head[q] /\ stored'[q] = stored[q] /\ oldest'[q] = oldest[q]
    BY <1>1, HeadTypes, Zenon DEF Held
  <2> QED
    BY <1>1, <2>1
<1> QED
  BY <1>1, Zenon DEF Held, Forward

\* A step that leaves the devices where they are.
LEMMA NoneForward ==
    ASSUME SyncInv, Held, published' = published, UNCHANGED <<head, stored, oldest>>
    PROVE  Held' /\ Forward
<1>1. Held'
  BY Zenon DEF Held
<1>2. Forward
  BY HeadTypes DEF Forward
<1> QED
  BY <1>1, <1>2, Zenon

\* The rounds go on with what they had fetched, or without.
LEMMA SameBatches ==
    ASSUME SyncInv, Brought, published' \in Nat, published <= published',
           \A p \in Peer : round'[p].phase = "apply" => round'[p] = round[p]
    PROVE  Brought'
<1> SUFFICES ASSUME NEW p \in Peer, round'[p].phase = "apply"
             PROVE  round'[p].previous <= round'[p].upto /\ round'[p].upto <= published'
  BY Zenon DEF Brought
<1>1. /\ round'[p] = round[p] /\ round[p].previous <= round[p].upto /\ round[p].upto <= published
      /\ published \in Nat /\ round[p].upto \in Revision
  <2>1. round'[p] = round[p] /\ round[p].phase = "apply"
    BY Zenon
  <2>2. round[p].upto \in Revision
    BY <2>1, Phases DEF SyncInv, SyncTypeOK
  <2> QED
    BY <2>1, <2>2, HeadTypes, Zenon DEF Brought
<1> QED
  BY <1>1, SyncAssumption DEF Revision

\* The authority, and the clock.
LEMMA PublishForward ==
    ASSUME SyncInv, Held, Brought, Publish PROVE Held' /\ Brought' /\ Forward
<1>1. /\ published \in Nat /\ head[Authority] \in Nat /\ oldest[Authority] \in Nat
      /\ head[Authority] # Unjoined /\ stored[Authority] = published
      /\ oldest[Authority] <= head[Authority] /\ head[Authority] <= published
  BY HeadTypes, SyncAssumption, Zenon DEF SyncInv, InStep, Held
<1>2. /\ published' = published + 1 /\ head'[Authority] = published + 1
      /\ stored'[Authority] = published + 1 /\ oldest' = oldest /\ round' = round
      /\ \A q \in Peer \ {Authority} : head'[q] = head[q] /\ stored'[q] = stored[q]
  BY SyncAssumption, Zenon DEF Publish, SyncInv, SyncTypeOK
<1>3. published + 1 # Unjoined
  BY SyncAssumption DEF Publish, SyncInv, SyncTypeOK, Revision
<1>4. /\ published' \in Nat /\ published <= published'
      /\ head[Authority] <= head'[Authority] /\ stored[Authority] <= stored'[Authority]
      /\ oldest'[Authority] <= head'[Authority] /\ head'[Authority] <= stored'[Authority]
      /\ stored'[Authority] <= published'
  BY <1>1, <1>2
<1>5. Held' /\ Forward
  BY <1>2, <1>3, <1>4, OneForward, SyncAssumption, Zenon
<1>6. Brought'
  BY <1>2, <1>4, SameBatches, Zenon
<1> QED
  BY <1>5, <1>6, Zenon

\* A ticket is of a revision that was published.
LEMMA JoinForward ==
    ASSUME SyncInv, Held, Brought, NEW p \in Peer, Join(p)
    PROVE  Held' /\ Brought' /\ Forward
<1>1. PICK r \in 0..published : p \in Lists[r]
  BY Zenon DEF Join
<1>2. published \in Revision /\ Joins(p) \in Revision
  BY <1>1, JoinsListed, Zenon DEF SyncInv, SyncTypeOK
<1>3. Joins(p) <= r
  <2>1. \E m \in Revision : p \in Lists[m] /\ \A s \in 0..m - 1 : p \notin Lists[s]
    <3> DEFINE T == {m \in Revision : p \in Lists[m]}
    <3>1. T \in SUBSET Nat /\ T # {}
      BY <1>1, <1>2, SyncAssumption DEF Revision
    <3>2. PICK m \in T : \A k \in T : m <= k
      BY <3>1, LeastOf, Zenon
    <3> QED
      BY <3>2, SyncAssumption DEF Revision
  <2>2. \A s \in 0..Joins(p) - 1 : p \notin Lists[s]
    BY <2>1, Zenon DEF Joins
  <2> QED
    BY <1>1, <1>2, <2>2, SyncAssumption DEF Revision
<1>4. /\ published' = published /\ published \in Nat /\ round' = round
      /\ head[p] = Unjoined /\ head'[p] = Joins(p) /\ stored'[p] = Joins(p) /\ oldest'[p] = Joins(p)
      /\ \A q \in Peer \ {p} : head'[q] = head[q] /\ stored'[q] = stored[q] /\ oldest'[q] = oldest[q]
  BY HeadTypes, Zenon DEF Join, SyncInv, SyncTypeOK
<1>5. Joins(p) \in Nat /\ Joins(p) <= published /\ published <= published /\ Joins(p) <= Joins(p)
  BY <1>1, <1>2, <1>3, SyncAssumption DEF Revision
<1>6. Held' /\ Forward
  BY <1>4, <1>5, OneForward, Zenon
<1>7. Brought'
  BY <1>4, <1>5, SameBatches, Zenon
<1> QED
  BY <1>6, <1>7, Zenon

\* A batch that a handle commits takes it forward.
LEMMA CommitsForward ==
    ASSUME SyncInv, Held, Brought, NEW p \in Peer, Commits(p)
    PROVE  /\ head[p] # Unjoined /\ head[p] <= round[p].upto /\ stored[p] <= round[p].upto
           /\ oldest[p] <= head[p] /\ oldest[p] <= round[p].upto /\ round[p].upto <= published
           /\ round[p].upto \in Nat /\ round[p].upto # Unjoined
<1>1. /\ head[p] # Unjoined /\ round[p].upto \in Revision
      /\ stored[p] = head[p] /\ round[p].previous = head[p]
      /\ round[p].previous <= round[p].upto /\ round[p].upto <= published
      /\ oldest[p] <= head[p] /\ oldest[p] \in Nat /\ head[p] \in Nat
  BY CommitsListed, HeadTypes, Zenon DEF Commits, Accepts, Held, Brought
<1>2. round[p].upto \in Nat /\ round[p].upto # Unjoined
  BY <1>1, SyncAssumption DEF Revision
<1>3. oldest[p] <= round[p].upto
  BY <1>1, <1>2
<1> QED
  BY <1>1, <1>2, <1>3, Zenon

\* A device stops, with its batch stored or not.
LEMMA StopForward ==
    ASSUME SyncInv, Held, Brought, NEW p \in Peer, Stop(p)
    PROVE  Held' /\ Brought' /\ Forward
<1>1. /\ published' = published /\ published \in Nat /\ published <= published
      /\ head' = head /\ oldest' = oldest
      /\ \A q \in Peer : round'[q].phase = "apply" => round'[q] = round[q]
  <2>1. /\ round' = [round EXCEPT ![p] = Waiting] /\ Waiting.phase # "apply"
    BY DEF Stop, Waiting
  <2>2. published <= published
    BY HeadTypes
  <2> QED
    BY <2>1, <2>2, HeadTypes, Zenon DEF Stop, SyncInv, SyncTypeOK
<1>2. Brought'
  BY <1>1, SameBatches, Zenon
<1>3. CASE stored' = stored
  BY <1>1, <1>2, <1>3, NoneForward, Zenon
<1>4. CASE Commits(p) /\ stored' = [stored EXCEPT ![p] = round[p].upto]
  <2>1. stored'[p] = round[p].upto /\ \A q \in Peer \ {p} : stored'[q] = stored[q]
    BY <1>4, Zenon DEF SyncInv, SyncTypeOK
  <2>2. head[p] <= head[p]
    BY <1>4, CommitsForward, HeadTypes
  <2> QED
    BY <1>1, <1>2, <1>4, <2>1, <2>2, CommitsForward, OneForward, Zenon
<1> QED
  BY <1>3, <1>4, Zenon DEF Stop

\* A device starts again from what it stored, which may be ahead of what it had.
LEMMA RestartForward ==
    ASSUME SyncInv, Held, Brought, NEW p \in Peer, Restart(p)
    PROVE  Held' /\ Brought' /\ Forward
<1>1. /\ published' = published /\ published \in Nat /\ round' = round
      /\ stored' = stored /\ oldest' = oldest /\ head'[p] = stored[p]
      /\ \A q \in Peer \ {p} : head'[q] = head[q]
      /\ head[p] # Unjoined /\ head[p] \in Nat /\ stored[p] \in Revision /\ oldest[p] \in Nat
      /\ oldest[p] <= head[p] /\ head[p] <= stored[p] /\ stored[p] <= published
  BY HeadTypes, Zenon DEF Restart, SyncInv, SyncTypeOK, InStep, Held
<1>2. /\ stored[p] # Unjoined /\ published <= published /\ stored[p] <= stored[p]
      /\ oldest[p] <= stored[p]
  BY <1>1, SyncAssumption DEF Revision
<1>3. Held' /\ Forward
  BY <1>1, <1>2, OneForward, Zenon
<1>4. Brought'
  BY <1>1, <1>2, SameBatches, Zenon
<1> QED
  BY <1>3, <1>4, Zenon

\* Failover does not make a batch.
LEMMA NextTargetFetches ==
    ASSUME SyncInv, NEW p \in Peer, NextTarget(p)
    PROVE  \A q \in Peer : round'[q].phase = "apply" => round'[q] = round[q]
<1>1. round'[p].phase # "apply" /\ \A q \in Peer \ {p} : round'[q] = round[q]
  BY DEF NextTarget, Waiting, SyncInv, SyncTypeOK
<1> QED
  BY <1>1, Zenon

\* A target that answers is not behind the one that asks.
LEMMA FetchForward ==
    ASSUME SyncInv, Held, Brought, NEW p \in Peer, Fetch(p)
    PROVE  Held' /\ Brought' /\ Forward
<1> DEFINE x == [phase |-> "apply", previous |-> round[p].previous,
                 offset |-> round[p].offset, upto |-> head[Target(p)]]
<1>1. /\ published' = published /\ UNCHANGED <<head, stored, oldest>>
      /\ NextTarget(p) \/ (Answers(Target(p), p, round[p].previous) /\ round' = [round EXCEPT ![p] = x])
  BY Zenon DEF Fetch, state
<1>2. published \in Nat /\ published <= published
  BY HeadTypes
<1>3. Held' /\ Forward
  BY <1>1, NoneForward, Zenon
<1>4. CASE NextTarget(p)
  BY <1>1, <1>2, <1>3, <1>4, NextTargetFetches, SameBatches, Zenon
<1>5. CASE Answers(Target(p), p, round[p].previous) /\ round' = [round EXCEPT ![p] = x]
  <2> DEFINE q == Target(p)
  <2>1. q \in running /\ round[p].previous <= head[q]
    BY <1>5, Zenon DEF Answers
  <2>2. q \in Peer /\ head[q] # Unjoined
    BY <2>1, Zenon DEF SyncInv, SyncTypeOK, InStep
  <2>3. head[q] <= published
    <3>1. head[q] \in Nat /\ stored[q] \in Nat /\ head[q] <= stored[q] /\ stored[q] <= published
      BY <2>2, HeadTypes, Zenon DEF Held
    <3> QED
      BY <1>2, <3>1
  <2> HIDE DEF q
  <2>4. /\ round'[p].previous = round[p].previous /\ round'[p].upto = head[q]
        /\ \A o \in Peer \ {p} : round'[o] = round[o]
    BY <1>5 DEF SyncInv, SyncTypeOK, q
  <2>5. Brought'
    BY <1>1, <2>1, <2>3, <2>4, Zenon DEF Brought
  <2> QED
    BY <1>3, <2>5, Zenon
<1> QED
  BY <1>1, <1>4, <1>5, Zenon

\* What was fetched is applied, or refused.
LEMMA ApplyUpdatesForward ==
    ASSUME SyncInv, Held, Brought, NEW p \in Peer, ApplyUpdates(p)
    PROVE  Held' /\ Brought' /\ Forward
<1>1. /\ published' = published /\ oldest' = oldest
      /\ \/ UNCHANGED <<head, stored>>
         \/ /\ Commits(p) /\ stored' = [stored EXCEPT ![p] = round[p].upto]
            /\ head' = head \/ head' = [head EXCEPT ![p] = round[p].upto]
      /\ NextTarget(p) \/ RoundDone(p)
  BY Zenon DEF ApplyUpdates
<1>2. published \in Nat /\ published <= published
  BY HeadTypes
<1>3. \A q \in Peer : round'[q].phase = "apply" => round'[q] = round[q]
  <2>1. CASE NextTarget(p)
    BY <2>1, NextTargetFetches, Zenon
  <2>2. CASE RoundDone(p)
    BY <2>2 DEF RoundDone, Waiting, SyncInv, SyncTypeOK
  <2> QED
    BY <1>1, <2>1, <2>2, Zenon
<1>4. Brought'
  BY <1>1, <1>2, <1>3, SameBatches, Zenon
<1>5. CASE UNCHANGED <<head, stored>>
  BY <1>1, <1>4, <1>5, NoneForward, Zenon
<1>6. CASE /\ Commits(p) /\ stored' = [stored EXCEPT ![p] = round[p].upto]
           /\ head' = head \/ head' = [head EXCEPT ![p] = round[p].upto]
  <2>1. /\ stored'[p] = round[p].upto /\ (head'[p] = head[p] \/ head'[p] = round[p].upto)
        /\ \A q \in Peer \ {p} : stored'[q] = stored[q] /\ head'[q] = head[q]
    BY <1>6, Zenon DEF SyncInv, SyncTypeOK
  <2>2. head[p] <= head[p] /\ round[p].upto <= round[p].upto
    BY <1>6, CommitsForward, HeadTypes
  <2> QED
    BY <1>1, <1>2, <1>4, <1>6, <2>1, <2>2, CommitsForward, OneForward, Zenon
<1> QED
  BY <1>1, <1>5, <1>6, Zenon

\* A batch that is delivered by hand takes its device forward.
LEMMA ApplyByHandForward ==
    ASSUME SyncInv, Held, Brought, NEW p \in Peer, NEW u \in Revision, ApplyByHand(p, u)
    PROVE  Held' /\ Brought' /\ Forward
<1>1. /\ published' = published /\ oldest' = oldest /\ round' = round
      /\ head[p] # Unjoined /\ stored[p] = head[p] /\ head[p] < u /\ u <= published
      /\ head'[p] = u /\ stored'[p] = u
      /\ \A q \in Peer \ {p} : head'[q] = head[q] /\ stored'[q] = stored[q]
  BY Zenon DEF ApplyByHand, SyncInv, SyncTypeOK, InStep
<1>2. /\ published \in Nat /\ head[p] \in Nat /\ oldest[p] \in Nat /\ oldest[p] <= head[p]
  BY <1>1, HeadTypes, Zenon DEF Held
<1>3. /\ published <= published /\ u # Unjoined /\ u <= u /\ head[p] <= u /\ oldest[p] <= u
  BY <1>1, <1>2, SyncAssumption DEF Revision
<1>4. Held' /\ Forward
  BY <1>1, <1>2, <1>3, OneForward, Zenon
<1>5. Brought'
  BY <1>1, <1>2, <1>3, SameBatches, Zenon
<1> QED
  BY <1>4, <1>5, Zenon

\* Every step goes forward.
LEMMA ForwardStep ==
    ASSUME SyncInv, Held, Brought, [SyncNext]_syncVars PROVE Held' /\ Brought' /\ Forward
<1>1. published \in Nat /\ published <= published
  BY HeadTypes
<1>2. CASE /\ published' = published /\ UNCHANGED <<head, stored, oldest>>
           /\ \A p \in Peer : round'[p].phase = "apply" => round'[p] = round[p]
  BY <1>1, <1>2, NoneForward, SameBatches, Zenon
<1>3. CASE UNCHANGED syncVars \/ Tick
  BY <1>2, <1>3, Zenon DEF syncVars, Tick, state
<1>4. ASSUME NEW p \in Peer, StartRound(p) PROVE Held' /\ Brought' /\ Forward
  <2>1. round'[p].phase # "apply" /\ \A q \in Peer \ {p} : round'[q] = round[q]
    BY <1>4 DEF StartRound, SyncInv, SyncTypeOK
  <2> QED
    BY <1>2, <1>4, <2>1, Zenon DEF StartRound, state
<1> QED
  BY <1>3, <1>4, PublishForward, JoinForward, StopForward, RestartForward, FetchForward,
     ApplyUpdatesForward, ApplyByHandForward, Zenon DEF SyncNext, Loop

LEMMA ForwardAlways == SyncSpec => [](SyncInv /\ Held /\ Brought)
<1>1. SyncInit => Held
  BY SyncAssumption DEF SyncInit, Held
<1>2. SyncInit => Brought
  BY DEF SyncInit, Brought, Waiting
<1> QED
  BY <1>1, <1>2, SyncInitInv, SyncStep, ForwardStep, PTL DEF SyncSpec

\* What a device holds was published: neither a peer that serves it, nor a batch
\* that was delivered by hand, nor a commit that outlived its process takes it
\* past the authority (apply_updates, fetch_config_updates).
THEOREM OnlyWhatWasPublished == SyncSpec => []Held
BY ForwardAlways, PTL

\* No device goes back to an earlier revision, in memory or in its store, through
\* stale peers, failed read-backs, stops and restarts (apply_updates, open).
THEOREM HeadsOnlyAdvance == SyncSpec => [][Forward]_syncVars
<1>1. ASSUME SyncInv, Held, Brought, [SyncNext]_syncVars PROVE [Forward]_syncVars
  BY <1>1, ForwardStep, Zenon
<1> QED
  BY <1>1, ForwardAlways, PTL DEF SyncSpec

=============================================================================
