------------------------- MODULE LanDiscoveryProofs -------------------------
(***************************************************************************)
(* That members recognise each other on the local network, and that their  *)
(* candidates are accounted for, for any clocks, slots and queue.          *)
(***************************************************************************)
EXTENDS LanDiscovery, TLAPS

\* Two numbers that are at most s apart are at most one slot of length s apart.
LEMMA SlotsApart ==
    ASSUME NEW s \in Nat \ {0}, NEW a \in Nat, NEW b \in Nat, a <= b + s
    PROVE  a \div s <= (b \div s) + 1 /\ a \div s \in Nat
<1> DEFINE q == a \div s
           p == b \div s
<1>1. q \in Nat /\ p \in Nat /\ q * s <= a /\ b < p * s + s
  OBVIOUS
<1>2. SUFFICES ASSUME q >= p + 2 PROVE FALSE
  BY <1>1
<1>3. q * s >= (p + 2) * s
  BY <1>1, <1>2
<1> QED
  BY <1>1, <1>3

\* The slot of a clock is a number.
LEMMA SlotOfType ==
    ASSUME LanTypeOK, NEW n \in Node
    PROVE  SlotOf(n) \in Nat
<1>1. now + Skew[n] \in Nat /\ SlotTicks \in Nat \ {0}
  BY LanAssumption DEF LanTypeOK
<1>2. now + Skew[n] <= (now + Skew[n]) + SlotTicks
  BY <1>1
<1> QED
  BY <1>1, <1>2, SlotsApart, Zenon DEF SlotOf

\* The reader and the peers are nodes, and nothing else is.
LEMMA Nodes ==
    Reader \in Node /\ Peer \subseteq Node /\ Mobile \subseteq Node /\ Synced \subseteq Node
BY LanAssumption, Zenon DEF Node

\* What a node announces, what the reader's discoverer has heard and the faults.
AnnouncedTypeOK ==
    /\ protected \in [Node -> Epoch]
    /\ slot \in [Node -> Nat] /\ failed \in [Node -> Nat]
    /\ addresses \in [Node -> Address \cup {Nothing}]
    /\ heard \subseteq Announcement
    /\ missed \subseteq Peer
    /\ faults \in 0..MaxFaults

\* An observation is of a peer.
LEMMA InboxPeers ==
    ASSUME LanTypeOK
    PROVE  \A i \in DOMAIN inbox : i \in Nat /\ inbox[i].peer \in Peer
<1>1. \A i \in DOMAIN inbox : i \in Nat /\ inbox[i] \in Observation
  BY DEF LanTypeOK
<1> QED
  BY <1>1, Zenon DEF Observation

\* Only peers have candidates.
LEMMA KnownPeers == ASSUME LanTypeOK PROVE Known \subseteq Peer
BY InboxPeers, Zenon DEF Known

\* A fault counts.
LEMMA FaultType ==
    ASSUME LanTypeOK, Fault
    PROVE  faults' \in 0..MaxFaults
BY LanAssumption DEF LanTypeOK, Fault

\* A discoverer that is replaced, or could not be, is of the right type.
LEMMA RespawnType ==
    ASSUME LanTypeOK, NEW n \in Node, NEW e \in Epoch, NEW x \in Address \cup {Nothing},
           Respawn(n, e, x), UNCHANGED faults
    PROVE  AnnouncedTypeOK'
<1>1. SlotOf(n) \in Nat
  BY SlotOfType, Zenon
<1> QED
  BY <1>1, KnownPeers, Zenon DEF LanTypeOK, AnnouncedTypeOK, Respawn

LEMMA RebuildType ==
    ASSUME LanTypeOK, NEW n \in Node, NEW e \in Epoch, NEW x \in Address \cup {Nothing},
           Rebuild(n, e, x)
    PROVE  AnnouncedTypeOK'
BY RespawnType, FaultType, Zenon DEF Rebuild, LanTypeOK, AnnouncedTypeOK, announced

\* An observation is queued or dropped.
LEMMA OfferType ==
    ASSUME LanTypeOK, NEW p \in Peer, NEW x \in Address \cup {Nothing}, Offer(p, x)
    PROVE  inbox' \in Seq(Observation) /\ Len(inbox') <= QueueLen
<1>1. [peer |-> p, address |-> x] \in Observation
  BY Zenon DEF Observation
<1> QED
  BY <1>1, LanAssumption DEF LanTypeOK, Offer

CommandsTypeOK ==
    /\ commands \in [Node -> Seq({NetworkChange} \cup Epoch)]
    /\ \A n \in Node : Len(commands[n]) <= ChannelLen + 1

\* A channel that is given other contents keeps its type.
LEMMA CommandsKept ==
    ASSUME commands \in [Node -> Seq({NetworkChange} \cup Epoch)],
           \A n \in Node : Len(commands[n]) <= ChannelLen + 1,
           NEW n \in Node, NEW s \in Seq({NetworkChange} \cup Epoch), Len(s) <= ChannelLen + 1,
           commands' = [commands EXCEPT ![n] = s]
    PROVE  CommandsTypeOK'
BY Zenon DEF CommandsTypeOK

\* Every step keeps the types.
LEMMA TypeStep ==
    ASSUME LanTypeOK, [Next]_vars
    PROVE  LanTypeOK'
<1> USE LanAssumption DEF pipeline, observed
<1>1. ASSUME NEW n \in Node, Open(n) PROVE LanTypeOK'
  <2>1. AnnouncedTypeOK'
    BY <1>1, RespawnType, Zenon DEF Open, LanTypeOK
  <2> QED
    BY <1>1, <2>1, Zenon DEF Open, LanTypeOK, AnnouncedTypeOK
<1>2. ASSUME NEW n \in Synced, ApplyUpdates(n) PROVE LanTypeOK'
  <2>1. n \in Node /\ config[n] \in Epoch
    BY Nodes, Zenon DEF LanTypeOK
  <2>2. config[n] < LastEpoch => config[n] + 1 \in Epoch
    BY <2>1, SMTT(30) DEF Epoch
  <2> QED
    BY <1>2, <2>1, <2>2, Zenon DEF ApplyUpdates, announced, LanTypeOK
<1>3. ASSUME NEW n \in Node, FollowStep(n) PROVE LanTypeOK'
  <2>1. CASE FirstPoll(n)
    BY <2>1, Zenon DEF FirstPoll, announced, LanTypeOK
  <2>2. CASE Notice(n)
    <3>1. commands' = [commands EXCEPT ![n] = Append(commands[n], config[n])]
      BY <2>2, Zenon DEF Notice
    <3>2. /\ Append(commands[n], config[n]) \in Seq({NetworkChange} \cup Epoch)
          /\ Len(Append(commands[n], config[n])) <= ChannelLen + 1
      BY <2>2 DEF Notice, LanTypeOK, ChannelLen
    <3>3. CommandsTypeOK'
      BY <3>1, <3>2, CommandsKept, Zenon DEF LanTypeOK
    <3> QED
      BY <2>2, <3>3, Zenon DEF Notice, announced, LanTypeOK, CommandsTypeOK
  <2> QED
    BY <1>3, <2>1, <2>2, Zenon DEF FollowStep
<1>4. ASSUME NEW n \in Node, RuntimeStep(n) PROVE LanTypeOK'
  <2>1. AnnouncedTypeOK'
    <3>1. CASE ReplaceProtection(n)
      <4>1. Head(commands[n]) \in Epoch
        BY <3>1 DEF ReplaceProtection, LanTypeOK
      <4> QED
        BY <3>1, <4>1, RebuildType, Zenon DEF ReplaceProtection, LanTypeOK
    <3>2. CASE RebindOnSignal(n) \/ RebindOnPublication(n)
      BY <3>2, RebuildType, Zenon DEF RebindOnSignal, RebindOnPublication, LanTypeOK
    <3>3. CASE Rotate(n)
      <4>1. CASE Respawn(n, protected[n], addresses[n]) /\ UNCHANGED faults
        BY <4>1, RespawnType, Zenon DEF LanTypeOK
      <4>2. CASE UNCHANGED <<announced, heard, missed, faults>>
        BY <4>2, Zenon DEF announced, LanTypeOK, AnnouncedTypeOK
      <4>3. CASE /\ Fault /\ failed' = [failed EXCEPT ![n] = @ + 1]
                 /\ UNCHANGED <<protected, slot, addresses, heard, missed>>
        <5>1. failed[n] + 1 \in Nat
          BY DEF LanTypeOK
        <5> QED
          BY <4>3, <5>1, FaultType, Zenon DEF LanTypeOK, AnnouncedTypeOK
      <4> QED
        BY <3>3, <4>1, <4>2, <4>3, Zenon DEF Rotate
    <3> QED
      BY <1>4, <3>1, <3>2, <3>3, Zenon DEF RuntimeStep
  <2>2. CommandsTypeOK'
    <3>1. CASE UNCHANGED commands
      BY <3>1, Zenon DEF LanTypeOK, CommandsTypeOK
    <3>2. CASE commands[n] # <<>> /\ commands' = [commands EXCEPT ![n] = Tail(commands[n])]
      <4>1. /\ Tail(commands[n]) \in Seq({NetworkChange} \cup Epoch)
            /\ Len(Tail(commands[n])) <= ChannelLen + 1
        BY <3>2 DEF LanTypeOK, ChannelLen
      <4> QED
        BY <3>2, <4>1, CommandsKept, Zenon DEF LanTypeOK
    <3> QED
      BY <1>4, <3>1, <3>2, Zenon DEF RuntimeStep, ReplaceProtection, RebindOnSignal,
                                    RebindOnPublication, Rotate
  <2> QED
    BY <1>4, <2>1, <2>2, Zenon DEF RuntimeStep, ReplaceProtection, RebindOnSignal, RebindOnPublication,
                      Rotate, LanTypeOK, AnnouncedTypeOK, CommandsTypeOK
<1>5. ASSUME NEW n \in Mobile, Move(n) \/ SignalChange(n) PROVE LanTypeOK'
  <2>1. n \in Node /\ (interface[n] < LastAddress => interface[n] + 1 \in Address)
    BY Nodes DEF LanTypeOK, Address
  <2>2. CASE Move(n)
    BY <2>1, <2>2, Zenon DEF Move, announced, LanTypeOK
  <2>3. CASE SignalChange(n)
    <3>1. commands' = [commands EXCEPT ![n] = Append(commands[n], NetworkChange)]
      BY <2>3, Zenon DEF SignalChange
    <3>2. /\ Append(commands[n], NetworkChange) \in Seq({NetworkChange} \cup Epoch)
          /\ Len(Append(commands[n], NetworkChange)) <= ChannelLen + 1
      BY <2>1, <2>3 DEF SignalChange, LanTypeOK, ChannelLen
    <3>3. CommandsTypeOK'
      BY <2>1, <3>1, <3>2, CommandsKept, Zenon DEF LanTypeOK
    <3> QED
      BY <2>3, <3>3, Zenon DEF SignalChange, announced, LanTypeOK, CommandsTypeOK
  <2> QED
    BY <1>5, <2>2, <2>3, Zenon
<1>6. ASSUME NEW p \in Peer, Close(p) PROVE LanTypeOK'
  <2>1. faults' \in 0..MaxFaults
    BY <1>6, FaultType, Zenon DEF Close
  <2>2. <<>> \in Seq({NetworkChange} \cup Epoch) /\ Len(<<>>) <= ChannelLen + 1
    BY DEF ChannelLen
  <2>3. CommandsTypeOK'
    BY <1>6, <2>2, Nodes, CommandsKept, Zenon DEF Close, LanTypeOK
  <2> QED
    BY <1>6, <2>1, <2>3, Nodes, Zenon DEF Close, announced, LanTypeOK, CommandsTypeOK
<1>7. ASSUME NEW p \in Peer, Report(p) PROVE LanTypeOK'
  <2>1. TagOf(p) \in Announcement
    BY Nodes, Zenon DEF LanTypeOK, TagOf, Announcement
  <2>2. addresses[p] \in Address \cup {Nothing}
    BY Nodes, Zenon DEF LanTypeOK
  <2>3. inbox' \in Seq(Observation) /\ Len(inbox') <= QueueLen
    BY <1>7, <2>2, OfferType, Zenon DEF Report
  <2> QED
    BY <1>7, <2>1, <2>3, Zenon DEF Report, announced, LanTypeOK
<1>8. ASSUME NEW a \in heard, Expire(a) PROVE LanTypeOK'
  <2>1. a.peer \in Peer
    BY Zenon DEF LanTypeOK, Announcement
  <2>2. Offer(a.peer, Nothing) => inbox' \in Seq(Observation) /\ Len(inbox') <= QueueLen
    BY <2>1, OfferType, Zenon
  <2>3. inbox' \in Seq(Observation) /\ Len(inbox') <= QueueLen
    BY <1>8, <2>2, Zenon DEF Expire, LanTypeOK
  <2>4. faults' \in 0..MaxFaults
    BY <1>8, FaultType, Zenon DEF Expire, LanTypeOK
  <2> QED
    BY <1>8, <2>1, <2>3, <2>4, Zenon DEF Expire, announced, LanTypeOK
<1>9. CASE Apply
  <2>1. Head(inbox) \in Observation /\ Tail(inbox) \in Seq(Observation)
        /\ Len(Tail(inbox)) <= QueueLen
    BY <1>9 DEF Apply, LanTypeOK
  <2>2. Head(inbox).peer \in Peer /\ Head(inbox).address \in Address \cup {Nothing}
    BY <2>1, Zenon DEF Observation
  <2> QED
    BY <1>9, <2>1, <2>2, Zenon DEF Apply, announced, LanTypeOK
<1>10. CASE Tick
  BY <1>10 DEF Tick, announced, LanTypeOK
<1>11. CASE UNCHANGED vars
  BY <1>11, Zenon DEF vars, announced, LanTypeOK
<1> QED
  BY <1>1, <1>2, <1>3, <1>4, <1>5, <1>6, <1>7, <1>8, <1>9, <1>10, <1>11, Zenon DEF Next

\* How many ticks the tag of a node may be behind its clock.
Late(n) == failed[n] + (IF n \in due THEN 1 ELSE 0)

\* Its tag is of the slot its clock had k ticks ago.
Behind(n, k) == k \in Nat /\ k <= now /\ slot[n] = ((now - k) + Skew[n]) \div SlotTicks

\* A running node's tag is at most that late.
SlotsKept == \A n \in Node : Running(n) => \E k \in 0..Late(n) : Behind(n, k)

\* A tag of the current slot is not late at all.
LEMMA FreshSlot ==
    ASSUME LanTypeOK, NEW n
    PROVE  0 \in Nat /\ 0 <= now /\ SlotOf(n) = ((now - 0) + Skew[n]) \div SlotTicks
<1>1. now \in Nat /\ now - 0 = now /\ 0 <= now
  BY LanAssumption DEF LanTypeOK
<1> QED
  BY <1>1, Zenon DEF SlotOf

\* What does not touch a node's tag leaves it as late as it was.
LEMMA SameSlot ==
    ASSUME NEW n, now' = now, slot'[n] = slot[n], Late(n)' = Late(n),
           \E k \in 0..Late(n) : Behind(n, k)
    PROVE  \E k \in 0..Late(n)' : Behind(n, k)'
BY Zenon DEF Behind

\* A discoverer is built for the slot of that moment.
LEMMA RespawnSlots ==
    ASSUME LanTypeOK, LanTypeOK', SlotsKept, NEW n \in Node, NEW e, NEW x, Respawn(n, e, x),
           \A m \in Node : m # n => (Running(m)' <=> Running(m)) /\ (m \in due' <=> m \in due),
           now' = now
    PROVE  SlotsKept'
<1> SUFFICES ASSUME NEW m \in Node, Running(m)' PROVE \E k \in 0..Late(m)' : Behind(m, k)'
  BY Zenon DEF SlotsKept
<1>1. CASE m = n
  <2>1. slot'[m] = SlotOf(m)
    BY <1>1, Zenon DEF Respawn, LanTypeOK
  <2>2. Behind(m, 0)'
    BY <2>1, FreshSlot, Zenon DEF Behind
  <2>3. 0 \in 0..Late(m)'
    BY SMTT(30) DEF Late, LanTypeOK
  <2> QED
    BY <2>2, <2>3, Zenon
<1>2. CASE m # n
  <2>1. slot'[m] = slot[m] /\ failed'[m] = failed[m]
    BY <1>2, Zenon DEF Respawn, LanTypeOK
  <2>2. Late(m)' = Late(m) /\ Running(m)
    BY <1>2, <2>1, Zenon DEF Late
  <2> QED
    BY <2>1, <2>2, SameSlot, Zenon DEF SlotsKept
<1> QED
  BY <1>1, <1>2, Zenon

\* Every step keeps it so: the clock waits for the tick to be handled.
LEMMA SlotsStep ==
    ASSUME LanTypeOK, LanTypeOK', SlotsKept, [Next]_vars
    PROVE  SlotsKept'
<1>1. ASSUME UNCHANGED <<now, due, announced>>, \A m \in Node : Running(m)' => Running(m)
      PROVE  SlotsKept'
  BY <1>1, Zenon DEF SlotsKept, Behind, Late, announced
<1>2. ASSUME NEW n \in Node, Open(n) PROVE SlotsKept'
  <2>1. \A m \in Node : m # n => (Running(m)' <=> Running(m))
    BY <1>2, Zenon DEF Open, Running, LanTypeOK
  <2> QED
    BY <1>2, <2>1, RespawnSlots, Zenon DEF Open
<1>3. CASE \/ \E n \in Synced : ApplyUpdates(n)
           \/ \E n \in Mobile : Move(n) \/ SignalChange(n)
           \/ \E p \in Peer : Report(p)
           \/ \E a \in heard : Expire(a)
           \/ Apply \/ UNCHANGED vars
  BY <1>1, <1>3, Zenon DEF ApplyUpdates, Move, SignalChange, Report, Expire, Apply, vars, pipeline, Running
<1>4. ASSUME NEW n \in Node, FollowStep(n) PROVE SlotsKept'
  <2>1. \A m \in Node : Running(m)' => Running(m)
    BY <1>4, SMTT(30) DEF FollowStep, FirstPoll, Notice, Running, LanTypeOK
  <2> QED
    BY <1>1, <1>4, <2>1, Zenon DEF FollowStep, FirstPoll, Notice
<1>5. ASSUME NEW n \in Node, ReplaceProtection(n) \/ RebindOnSignal(n) \/ RebindOnPublication(n)
      PROVE  SlotsKept'
  <2>1. PICK e, x : Rebuild(n, e, x) /\ UNCHANGED <<now, due, task>>
    BY <1>5, Zenon DEF ReplaceProtection, RebindOnSignal, RebindOnPublication, pipeline
  <2> QED
    BY <1>1, <2>1, RespawnSlots, Zenon DEF Rebuild, Running
<1>6. ASSUME NEW n \in Node, Rotate(n) PROVE SlotsKept'
  <2>1. /\ now' = now /\ task' = task /\ due' = due \ {n} /\ n \in due
        /\ \A m \in Node : Running(m)' <=> Running(m)
    BY <1>6, Zenon DEF Rotate, pipeline, Running
  <2>2. CASE Respawn(n, protected[n], addresses[n])
    BY <2>1, <2>2, RespawnSlots, Zenon
  <2>3. ASSUME slot' = slot, \A m \in Node : m # n => failed'[m] = failed[m],
               \E k \in 0..Late(n)' : Behind(n, k)'
        PROVE  SlotsKept'
    <3>1. \A m \in Node : m # n => Late(m)' = Late(m)
      BY <2>1, <2>3, Zenon DEF Late
    <3> QED
      BY <2>1, <2>3, <3>1, Zenon DEF SlotsKept, Behind
  <2>4. CASE slot[n] = SlotOf(n) /\ UNCHANGED announced
    <3>1. Behind(n, 0)'
      BY <2>1, <2>4, FreshSlot, Zenon DEF Behind, announced
    <3>2. 0 \in 0..Late(n)'
      BY SMTT(30) DEF Late, LanTypeOK
    <3> QED
      BY <2>3, <2>4, <3>1, <3>2, Zenon DEF announced
  <2>5. CASE failed' = [failed EXCEPT ![n] = @ + 1] /\ UNCHANGED slot
    <3>1. Late(n)' = Late(n) /\ \A m \in Node : m # n => failed'[m] = failed[m]
      BY <2>1, <2>5 DEF Late, LanTypeOK
    <3>2. CASE Running(n)
      BY <2>1, <2>3, <2>5, <3>1, <3>2, SameSlot, Zenon DEF SlotsKept
    <3>3. CASE ~Running(n)
      <4>1. \A m \in Node : m # n => Late(m)' = Late(m)
        BY <2>1, <3>1, Zenon DEF Late
      <4> QED
        BY <2>1, <2>5, <3>3, <4>1, Zenon DEF SlotsKept, Behind
    <3> QED
      BY <3>2, <3>3, Zenon
  <2> QED
    BY <1>6, <2>2, <2>4, <2>5, Zenon DEF Rotate
<1>7. ASSUME NEW p \in Peer, Close(p) PROVE SlotsKept'
  <2>1. /\ UNCHANGED <<now, announced>> /\ due' = due \ {p} /\ ~Running(p)'
        /\ \A m \in Node : m # p => (Running(m)' <=> Running(m))
    BY <1>7, Nodes, Zenon DEF Close, Running, LanTypeOK
  <2> QED
    BY <2>1, Zenon DEF SlotsKept, Behind, Late, announced
<1>8. CASE Tick
  <2> SUFFICES ASSUME NEW n \in Node, Running(n)' PROVE \E k \in 0..Late(n)' : Behind(n, k)'
    BY Zenon DEF SlotsKept
  <2>1. /\ now' = now + 1 /\ slot'[n] = slot[n] /\ Running(n) /\ now \in Nat
        /\ Late(n) = failed[n] /\ Late(n)' = failed[n] + 1 /\ failed[n] \in Nat
    BY <1>8 DEF Tick, Late, announced, pipeline, Running, LanTypeOK
  <2>2. PICK k \in 0..Late(n) : Behind(n, k)
    BY <2>1, Zenon DEF SlotsKept
  <2>3. /\ k + 1 \in 0..Late(n)' /\ k + 1 \in Nat /\ k + 1 <= now'
        /\ now' - (k + 1) = now - k
    BY <2>1, <2>2 DEF Behind
  <2> QED
    BY <2>1, <2>2, <2>3, Zenon DEF Behind
<1> QED
  BY <1>2, <1>3, <1>4, <1>5, <1>6, <1>7, <1>8, Zenon DEF Next, RuntimeStep

\* A peer whose expiry the reader's discoverer will report, or whose it may miss.
Accounted(p) == (\E a \in heard : a.peer = p) \/ p \in missed

Expiring(p, i) == i \in DOMAIN inbox /\ inbox[i].peer = p /\ inbox[i].address = Nothing

\* Candidates in the lookup, and those on their way to it, are accounted for or
\* about to be removed.
Backed ==
    /\ \A p \in Peer : lan[p] # Nothing => Accounted(p) \/ \E i \in Nat : Expiring(p, i)
    /\ \A i \in DOMAIN inbox, p \in Peer : inbox[i].peer = p /\ inbox[i].address # Nothing =>
          Accounted(p) \/ \E j \in Nat : j > i /\ Expiring(p, j)

\* A discoverer that is replaced leaves everybody the lookup knows accounted for.
LEMMA RebuildBacked ==
    ASSUME LanTypeOK, Backed, NEW n, NEW e, NEW x,
           Rebuild(n, e, x) \/ Respawn(n, e, x) \/ UNCHANGED <<heard, missed>>,
           UNCHANGED observed
    PROVE  Backed'
<1>1. (heard' = heard /\ missed' = missed) \/ Known \subseteq missed'
  BY Zenon DEF Rebuild, Respawn
<1>2. CASE heard' = heard /\ missed' = missed
  BY <1>2 DEF Backed, Accounted, Expiring, observed
<1>3. CASE Known \subseteq missed'
  BY <1>3, Zenon DEF Backed, Accounted, Known, observed
<1> QED
  BY <1>1, <1>2, <1>3, Zenon

\* What an observation leaves in the queue: what was there, and at most itself
\* behind it.
LEMMA OfferBehind ==
    ASSUME LanTypeOK, NEW p \in Peer, NEW x \in Address \cup {Nothing}, Offer(p, x)
    PROVE  /\ \A i \in DOMAIN inbox : i \in DOMAIN inbox' /\ inbox'[i] = inbox[i]
           /\ \A i \in DOMAIN inbox' : i \in DOMAIN inbox \/ inbox'[i].peer = p
           /\ inbox' # inbox =>
                 /\ Len(inbox) + 1 \in DOMAIN inbox'
                 /\ inbox'[Len(inbox) + 1] = [peer |-> p, address |-> x]
                 /\ \A i \in DOMAIN inbox' : i \in DOMAIN inbox \/ i = Len(inbox) + 1
<1> DEFINE o == [peer |-> p, address |-> x]
<1>1. o \in Observation
  BY Zenon DEF Observation
<1>2. CASE inbox' = inbox
  BY <1>2, Zenon
<1>3. CASE inbox' = Append(inbox, o)
  <2>1. DOMAIN inbox = 1..Len(inbox) /\ DOMAIN inbox' = 1..(Len(inbox) + 1)
        /\ Len(inbox) \in Nat
    BY <1>1, <1>3 DEF LanTypeOK
  <2>2. /\ \A i \in 1..Len(inbox) : inbox'[i] = inbox[i]
        /\ inbox'[Len(inbox) + 1] = o
    BY <1>1, <1>3 DEF LanTypeOK
  <2> QED
    BY <2>1, <2>2
<1> QED
  BY <1>2, <1>3, Zenon DEF Offer

\* Every step keeps it so.
LEMMA BackedStep ==
    ASSUME LanTypeOK, Backed, [Next]_vars
    PROVE  Backed'
<1>1. CASE \E n \in Node : Open(n) \/ RuntimeStep(n)
  <2>1. PICK n \in Node : Open(n) \/ RuntimeStep(n)
    BY <1>1, Zenon
  <2>2. PICK e, x : /\ Rebuild(n, e, x) \/ Respawn(n, e, x) \/ UNCHANGED <<heard, missed>>
                    /\ UNCHANGED observed
    BY <2>1, SMTT(30) DEF Open, RuntimeStep, ReplaceProtection, RebindOnSignal, RebindOnPublication,
                          Rotate
  <2> QED
    BY <2>2, RebuildBacked, Zenon
<1>2. CASE \/ \E n \in Synced : ApplyUpdates(n)
           \/ \E n \in Node : FollowStep(n)
           \/ \E n \in Mobile : Move(n) \/ SignalChange(n)
           \/ \E p \in Peer : Close(p)
           \/ Tick
           \/ UNCHANGED vars
  BY <1>2 DEF ApplyUpdates, FollowStep, FirstPoll, Notice, Move, SignalChange,
              Close, Tick, vars, observed, Backed, Accounted, Expiring
<1>3. ASSUME NEW p \in Peer, Report(p) PROVE Backed'
  <2>1. TagOf(p).peer = p
    BY Zenon DEF TagOf
  <2>2. Accounted(p)' /\ \A q \in Peer : Accounted(q) => Accounted(q)'
    BY <1>3, <2>1, Zenon DEF Report, Accounted
  <2>3. addresses[p] \in Address \cup {Nothing}
    BY Nodes, Zenon DEF LanTypeOK
  <2>4. /\ \A i \in DOMAIN inbox : i \in DOMAIN inbox' /\ inbox'[i] = inbox[i]
        /\ \A i \in DOMAIN inbox' : i \in DOMAIN inbox \/ inbox'[i].peer = p
    BY <1>3, <2>3, OfferBehind, Zenon DEF Report
  <2>5. \A q, i : Expiring(q, i) => Expiring(q, i)'
    BY <2>4, Zenon DEF Expiring
  <2>6. lan' = lan
    BY <1>3, Zenon DEF Report
  <2> QED
    BY <2>2, <2>4, <2>5, <2>6, Zenon DEF Backed
<1>4. ASSUME NEW a \in heard, Expire(a) PROVE Backed'
  <2>1. a.peer \in Peer /\ Nothing \in Address \cup {Nothing}
    BY Zenon DEF LanTypeOK, Announcement
  <2>2. lan' = lan
    BY <1>4, Zenon DEF Expire
  <2>3. \A q : q # a.peer /\ Accounted(q) => Accounted(q)'
    BY <1>4, Zenon DEF Expire, Accounted
  <2>4. CASE inbox' = inbox
    <3>1. \A q : Accounted(q) => Accounted(q)'
      BY <1>4, <2>3, <2>4, Zenon DEF Expire, Accounted
    <3> QED
      BY <2>2, <2>4, <3>1 DEF Backed, Expiring
  <2>5. CASE inbox' # inbox
    <3>1. Offer(a.peer, Nothing)
      BY <1>4, <2>5, Zenon DEF Expire
    <3>2. PICK k \in Nat :
             /\ k \in DOMAIN inbox' /\ inbox'[k] = [peer |-> a.peer, address |-> Nothing]
             /\ \A i \in DOMAIN inbox : i \in DOMAIN inbox' /\ inbox'[i] = inbox[i] /\ i < k
             /\ \A i \in DOMAIN inbox' : i \in DOMAIN inbox \/ i = k
      <4>1. Len(inbox) + 1 \in Nat /\ \A i \in DOMAIN inbox : i < Len(inbox) + 1
        BY DEF LanTypeOK
      <4> QED
        BY <2>1, <2>5, <3>1, <4>1, OfferBehind, Zenon
    <3>3. Expiring(a.peer, k)' /\ \A q, i : Expiring(q, i) => Expiring(q, i)'
      BY <3>2 DEF Expiring
    <3> QED
      BY <2>2, <2>3, <3>2, <3>3 DEF Backed
  <2> QED
    BY <2>4, <2>5, Zenon
<1>5. CASE Apply
  <2> DEFINE o == inbox[1]
  <2>1. /\ o = Head(inbox) /\ 1 \in DOMAIN inbox
        /\ \A i \in DOMAIN inbox' : i \in Nat /\ i + 1 \in DOMAIN inbox /\ inbox'[i] = inbox[i + 1]
        /\ \A i \in DOMAIN inbox : i # 1 =>
              i - 1 \in DOMAIN inbox' /\ i - 1 \in Nat /\ inbox'[i - 1] = inbox[i]
    BY <1>5 DEF Apply, LanTypeOK
  <2>2. lan' = [lan EXCEPT ![o.peer] = o.address] /\ lan \in [Peer -> Address \cup {Nothing}]
    BY <1>5, <2>1, Zenon DEF Apply, LanTypeOK
  <2>3. \A q : Accounted(q)' <=> Accounted(q)
    BY <1>5, Zenon DEF Apply, Accounted
  <2>4. \A q : \A i \in Nat : Expiring(q, i) /\ i # 1 => i - 1 \in Nat /\ Expiring(q, i - 1)'
    BY <2>1, Zenon DEF Expiring
  <2>5. \A q \in Peer : lan'[q] # Nothing => Accounted(q) \/ \E i \in Nat : i > 1 /\ Expiring(q, i)
    <3> SUFFICES ASSUME NEW q \in Peer, lan'[q] # Nothing, ~Accounted(q)
                 PROVE  \E i \in Nat : i > 1 /\ Expiring(q, i)
      BY Zenon
    <3>1. CASE q = o.peer
      BY <2>1, <2>2, <3>1, Zenon DEF Backed
    <3>2. CASE q # o.peer
      BY <2>1, <2>2, <3>2 DEF Backed, Expiring
    <3> QED
      BY <3>1, <3>2, Zenon
  <2>6. \A q \in Peer : lan'[q] # Nothing => Accounted(q)' \/ \E i \in Nat : Expiring(q, i)'
    BY <2>3, <2>4, <2>5
  <2>7. \A i \in DOMAIN inbox', q \in Peer : inbox'[i].peer = q /\ inbox'[i].address # Nothing =>
            Accounted(q)' \/ \E j \in Nat : j > i /\ Expiring(q, j)'
    <3> SUFFICES ASSUME NEW i \in DOMAIN inbox', NEW q \in Peer, inbox'[i].peer = q,
                        inbox'[i].address # Nothing, ~Accounted(q)
                 PROVE  \E j \in Nat : j > i /\ Expiring(q, j)'
      BY <2>3, Zenon
    <3>1. PICK j \in Nat : j > i + 1 /\ Expiring(q, j)
      BY <2>1, Zenon DEF Backed
    <3>2. i \in Nat /\ j - 1 \in Nat /\ j - 1 > i /\ Expiring(q, j - 1)'
      BY <2>1, <2>4, <3>1
    <3> QED
      BY <3>2, Zenon
  <2> QED
    BY <2>6, <2>7, Zenon DEF Backed
<1> QED
  BY <1>1, <1>2, <1>3, <1>4, <1>5, Zenon DEF Next

\* At the start nobody announces anything and nothing is known.
LEMMA LanInit == Init => LanTypeOK /\ SlotsKept /\ Backed
<1> SUFFICES ASSUME Init PROVE LanTypeOK /\ SlotsKept /\ Backed
  BY Zenon
<1>1. LanTypeOK
  <2>1. commands \in [Node -> Seq({NetworkChange} \cup Epoch)]
        /\ \A n \in Node : Len(commands[n]) <= ChannelLen + 1
    BY DEF Init, ChannelLen
  <2>2. /\ now \in 0..LastTick /\ slot \in [Node -> Nat] /\ interface \in [Node -> Address]
        /\ inbox \in Seq(Observation) /\ Len(inbox) <= QueueLen /\ faults \in 0..MaxFaults
    BY LanAssumption DEF Init, Address
  <2> QED
    BY <2>1, <2>2, LanAssumption, Zenon DEF Init, LanTypeOK
<1>2. SlotsKept
  BY Zenon DEF Init, SlotsKept, Running
<1>3. Backed
  BY DEF Init, Backed
<1> QED
  BY <1>1, <1>2, <1>3, Zenon

\* The invariants hold of every execution.
LEMMA LanAlways == Spec => [](LanTypeOK /\ SlotsKept /\ Backed)
<1>1. LanTypeOK /\ SlotsKept /\ Backed /\ [Next]_vars => (LanTypeOK /\ SlotsKept /\ Backed)'
  BY TypeStep, SlotsStep, BackedStep, Zenon
<1> QED
  BY LanInit, <1>1, PTL DEF Spec

\* The tag of a running peer is at most one interval older than the rotations
\* that failed, so that it is of the reader's slot or of one next to it when
\* their clocks agree (match_tag).
LEMMA KeptRecognized ==
    ASSUME LanTypeOK, SlotsKept
    PROVE  Recognized
<1> SUFFICES ASSUME NEW p \in Peer, ClocksAgree(p, failed[p]), Running(p),
                    protected[p] = protected[Reader], p \in Lists[protected[p]]
             PROVE  MatchTag(TagOf(p))
  BY Zenon DEF Recognized
<1> DEFINE r == now + Skew[Reader]
<1>1. PICK t \in Nat : slot[p] = t \div SlotTicks /\ t <= r + SlotTicks /\ r <= t + SlotTicks
  <2>1. /\ Skew[p] \in Nat /\ Skew[Reader] \in Nat /\ now \in Nat /\ SlotTicks \in Nat
        /\ failed[p] \in Nat
    BY Nodes, LanAssumption DEF LanTypeOK
  <2>2. PICK k \in 0..Late(p) : Behind(p, k)
    BY Nodes, Zenon DEF SlotsKept
  <2>3. k \in Nat /\ k <= now /\ k <= failed[p] + 1 /\ slot[p] = ((now - k) + Skew[p]) \div SlotTicks
    BY <2>1, <2>2 DEF Late, Behind
  <2>4. /\ (now - k) + Skew[p] \in Nat
        /\ (now - k) + Skew[p] <= r + SlotTicks /\ r <= ((now - k) + Skew[p]) + SlotTicks
    BY <2>1, <2>3 DEF ClocksAgree
  <2> QED
    BY <2>3, <2>4, Zenon
<1>2. r \in Nat /\ SlotTicks \in Nat \ {0} /\ SlotOf(Reader) = r \div SlotTicks
  BY Nodes, LanAssumption DEF LanTypeOK, SlotOf
<1>3. /\ slot[p] <= SlotOf(Reader) + 1 /\ SlotOf(Reader) <= slot[p] + 1
      /\ slot[p] \in Nat /\ SlotOf(Reader) \in Nat
  BY <1>1, <1>2, SlotsApart, Zenon
<1> QED
  BY <1>3 DEF MatchTag, TagOf

\* Types: every variable of the discovery runtime and of the lookup stays in its
\* domain, for any number of peers, epochs and faults.
THEOREM LanTypeAlways == Spec => []LanTypeOK
BY LanAlways, PTL

\* Whenever a running member of the reader's epoch announces a tag, and its clock
\* with the rotations in a row that failed is within a slot of the reader's,
\* match_tag recognises it.
THEOREM RecognizedAlways == Spec => []Recognized
BY LanAlways, KeptRecognized, PTL

\* Every LAN candidate of the lookup will be expired by the discoverer, is about to
\* be, or belongs to a peer whose expiry was dropped or forgotten.
THEOREM WillExpireAlways == Spec => []WillExpire
<1>1. LanTypeOK /\ Backed => WillExpire
  BY Zenon DEF Backed, Accounted, Expiring, WillExpire
<1> QED
  BY LanAlways, <1>1, PTL

=============================================================================
