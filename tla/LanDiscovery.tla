---------------------------- MODULE LanDiscovery ----------------------------
(***************************************************************************)
(* Discovery on the local network: what a node announces over mDNS, and    *)
(* how a reader's address lookup follows what others announce              *)
(* (weaver-discovery/src/lib.rs), from the configuration a handle opens    *)
(* with through the updates it applies (weaver-net/src/network_handle.rs). *)
(*                                                                         *)
(* A node announces its addresses under a tag that only members of the     *)
(* epoch can compute, and that changes with the epoch and with every slot  *)
(* of time.  Announcing and browsing are one mDNS discoverer, which every  *)
(* change replaces by a new one; the new one knows nothing of what the old *)
(* one has heard.  What a discoverer hears, and when it gives up on an     *)
(* instance that it no longer hears, is up to the library (swarm_discovery)*)
(* and the network.                                                        *)
(*                                                                         *)
(* A tag is taken to be its inputs: the hash is injective, and without the *)
(* epoch's seed no tag of it can be made.                                  *)
(***************************************************************************)
EXTENDS Naturals, Sequences, FiniteSets

CONSTANTS
    Reader,       \* the node whose lookup is followed
    Peer,         \* the nodes it may find
    Mobile,       \* the nodes whose address changes and whose platform says so
    Synced,       \* the nodes some peer answers, so that they follow the configuration
    Stored,       \* [Node -> 0..LastEpoch], the epoch of the configuration a node begins with
    Nothing,      \* no address
    NetworkChange, \* the command to rebind
    Skew,         \* [Node -> Nat], how far the clock of a node is ahead
    Lists,        \* [0..LastEpoch -> SUBSET Node], the members of each epoch
    LastEpoch,    \* the newest epoch
    SlotTicks,    \* LAN_SLOT_MS in ticks of the rotation interval
    LastTick,     \* bound: ticks
    LastAddress,  \* bound: a node's addresses, numbered in the order it has them
    QueueLen,     \* capacity of the channel of observations
    MaxFaults     \* bound: failed starts, departures, lost announcements

Node == Peer \cup {Reader}
ChannelLen == 1  \* of the channel of commands
Epoch == 0..LastEpoch
Address == 0..LastAddress
Announcement == [peer : Peer, epoch : Epoch, slot : Nat]
Observation == [peer : Peer, address : Address \cup {Nothing}]

ASSUME LanAssumption ==
    /\ Reader \notin Peer
    /\ Mobile \subseteq Node /\ Synced \subseteq Node
    /\ Nothing \notin Address /\ NetworkChange \notin Epoch
    /\ Skew \in [Node -> Nat]
    /\ LastEpoch \in Nat /\ Lists \in [Epoch -> SUBSET Node] /\ Stored \in [Node -> Epoch]
    /\ SlotTicks \in Nat \ {0} /\ LastTick \in Nat /\ LastAddress \in Nat
    /\ QueueLen \in Nat /\ MaxFaults \in Nat

VARIABLES
    now,        \* ticks of the rotation interval since the start
    config,     \* the epoch of the configuration a node holds
    task,       \* the task that follows it: closed, unpolled, started
    changed,    \* the nodes whose task has not seen the last configuration sent to it
    commands,   \* the channel to the discovery runtime, and who waits to send into it
    protected,  \* the epoch of the protection the discoverer uses
    slot,       \* the slot its tag was made for
    due,        \* the nodes whose loop has a tick of the rotation interval to handle
    interface,  \* the address a node really has
    published,  \* the nodes with a publication the runtime has not taken
    addresses,  \* the address a node announces
    heard,      \* the announcements the reader's discoverer has reported
    inbox,      \* the observations on their way to the lookup
    lan,        \* the LAN candidates in the lookup
    missed,     \* history variable: the peers whose expiry the reader may miss
    failed,     \* history variable: the rotations in a row that failed
    faults      \* faults so far

pipeline == <<task, changed, commands>>
announced == <<protected, slot, addresses, failed>>
observed == <<inbox, lan>>
vars == <<now, due, config, pipeline, announced, interface, published, heard, observed, missed,
          faults>>

LanTypeOK ==
    /\ now \in 0..LastTick
    /\ config \in [Node -> Epoch]
    /\ task \in [Node -> {"closed", "unpolled", "started"}] /\ changed \subseteq Node
    /\ commands \in [Node -> Seq({NetworkChange} \cup Epoch)]
    /\ \A n \in Node : Len(commands[n]) <= ChannelLen + 1
    /\ protected \in [Node -> Epoch]
    /\ slot \in [Node -> Nat] /\ failed \in [Node -> Nat] /\ due \subseteq Node
    /\ interface \in [Node -> Address] /\ published \subseteq Node
    /\ addresses \in [Node -> Address \cup {Nothing}]
    /\ heard \subseteq Announcement
    /\ inbox \in Seq(Observation) /\ Len(inbox) <= QueueLen
    /\ lan \in [Peer -> Address \cup {Nothing}]
    /\ missed \subseteq Peer
    /\ faults \in 0..MaxFaults

\* The slot of a node's own clock.
SlotOf(n) == (now + Skew[n]) \div SlotTicks

Init ==
    /\ now = 0
    /\ config = Stored
    /\ task = [n \in Node |-> "closed"]
    /\ changed = {}
    /\ commands = [n \in Node |-> <<>>]
    /\ protected = config
    /\ slot = [n \in Node |-> 0]
    /\ failed = slot
    /\ due = {}
    /\ interface = [n \in Node |-> 0]
    /\ published = {}
    /\ addresses = [n \in Node |-> Nothing]
    /\ heard = {}
    /\ inbox = <<>>
    /\ lan = [p \in Peer |-> Nothing]
    /\ missed = {}
    /\ faults = 0

Running(n) == task[n] # "closed"

\* The tag a node announces itself under.
TagOf(p) == [peer |-> p, epoch |-> protected[p], slot |-> slot[p]]

Expired(a) == ~Running(a.peer) \/ TagOf(a.peer) # a

\* The peers that have candidates, or are about to.
Known == {p \in Peer : lan[p] # Nothing} \cup {inbox[i].peer : i \in DOMAIN inbox}

-----------------------------------------------------------------------------
\* A new discoverer for a protection and an address, now.  The reader's has
\* heard nothing yet, and will not miss whom the old one had heard.
Respawn(n, epoch, address) ==
    /\ protected' = [protected EXCEPT ![n] = epoch]
    /\ slot' = [slot EXCEPT ![n] = SlotOf(n)]
    /\ addresses' = [addresses EXCEPT ![n] = address]
    /\ failed' = [failed EXCEPT ![n] = 0]
    /\ heard' = IF n = Reader THEN {} ELSE heard
    /\ missed' = IF n = Reader THEN missed \cup Known ELSE missed

Fault == faults < MaxFaults /\ faults' = faults + 1

\* spawn_mdns_guard, and what its caller does: nothing when it fails.
Rebuild(n, epoch, address) ==
    \/ Respawn(n, epoch, address) /\ UNCHANGED faults
    \/ Fault /\ UNCHANGED <<announced, heard, missed>>

\* NetworkHandle::open: the discoverer is given the configuration that was read
\* when the task that follows it was subscribed, and no address until iroh
\* publishes one.
Open(n) ==
    /\ task[n] = "closed"
    /\ n \in Lists[config[n]]
    /\ Respawn(n, config[n], Nothing)
    /\ published' = published \cup {n}
    /\ task' = [task EXCEPT ![n] = "unpolled"]
    /\ UNCHANGED <<now, due, config, changed, commands, interface, observed, faults>>

\* Its first poll marks whatever is current as seen.
FirstPoll(n) ==
    /\ task[n] = "unpolled"
    /\ task' = [task EXCEPT ![n] = "started"]
    /\ changed' = changed \ {n}
    /\ UNCHANGED <<now, due, config, commands, announced, interface, published, heard, observed, missed, faults>>

\* A peer's process ends.
Close(p) ==
    /\ Running(p) /\ Fault
    /\ task' = [task EXCEPT ![p] = "closed"]
    /\ commands' = [commands EXCEPT ![p] = <<>>]
    /\ published' = published \ {p}
    /\ changed' = changed \ {p}
    /\ due' = due \ {p}
    /\ UNCHANGED <<now, config, announced, interface, heard, observed, missed>>

\* Mutant: a batch that is empty is not worth a word to the task.
ApplyUpdatesQuietly(n) ==
    /\ Running(n)
    /\ config[n] < LastEpoch /\ n \in Lists[config[n] + 1]
    /\ config' = [config EXCEPT ![n] = @ + 1]
    /\ changed' = changed \cup {n}
    /\ UNCHANGED <<now, due, task, commands, announced, interface, published, heard, observed, missed,
                   faults>>

\* LiveConfigState::apply_updates, for each round of anti-entropy that a peer
\* answers, or by hand: an update only a member can open, or a batch that is
\* empty.  Either way the configuration is sent to the task (send_replace).
ApplyUpdates(n) ==
    /\ Running(n)
    /\ \/ UNCHANGED config
       \/ /\ config[n] < LastEpoch /\ n \in Lists[config[n] + 1]
          /\ config' = [config EXCEPT ![n] = @ + 1]
    /\ changed' = changed \cup {n}
    /\ UNCHANGED <<now, due, task, commands, announced, interface, published, heard, observed,
                   missed, faults>>

\* The task sees the newest configuration and sends its protection, or waits to
\* (update_protection): a receiver that takes a command out of the full channel
\* gives the place to who waits.  It goes on when its command is in the channel,
\* and tells iroh of a change of the network, which publishes what has changed.
Notice(n) ==
    /\ task[n] = "started"
    /\ n \in changed
    /\ Len(commands[n]) <= ChannelLen
    /\ changed' = changed \ {n}
    /\ commands' = [commands EXCEPT ![n] = Append(@, config[n])]
    /\ UNCHANGED <<now, due, config, task, announced, interface, published, heard, observed, missed,
                   faults>>

\* The address of a node changes, and iroh publishes it.
Move(n) ==
    /\ interface[n] < LastAddress
    /\ interface' = [interface EXCEPT ![n] = @ + 1]
    /\ published' = IF Running(n) THEN published \cup {n} ELSE published
    /\ UNCHANGED <<now, due, config, pipeline, announced, heard, observed, missed, faults>>

\* The platform says so (LanDiscoveryTrigger::network_change): dropped when the
\* channel is full.
SignalChange(n) ==
    /\ Running(n)
    /\ addresses[n] # interface[n]
    /\ Len(commands[n]) < ChannelLen
    /\ commands' = [commands EXCEPT ![n] = Append(@, NetworkChange)]
    /\ UNCHANGED <<now, due, config, task, changed, announced, interface, published, heard, observed,
                   missed, faults>>

-----------------------------------------------------------------------------
\* The loop of spawn_lan_discovery_runtime: a command; iroh's own publication
\* of new addresses (update_mdns_addresses); a tick of the rotation interval.

ReplaceProtection(n) ==
    /\ commands[n] # <<>> /\ Head(commands[n]) # NetworkChange
    /\ Rebuild(n, Head(commands[n]), addresses[n])
    /\ commands' = [commands EXCEPT ![n] = Tail(@)]
    /\ UNCHANGED <<now, due, config, task, changed, interface, published, observed>>

\* The port stays the one announced: before the first publication there is
\* none, and the addresses are of no use to anybody.
RebindOnSignal(n) ==
    /\ commands[n] # <<>> /\ Head(commands[n]) = NetworkChange
    /\ Rebuild(n, protected[n], IF addresses[n] = Nothing THEN Nothing ELSE interface[n])
    /\ commands' = [commands EXCEPT ![n] = Tail(@)]
    /\ UNCHANGED <<now, due, config, task, changed, interface, published, observed>>

RebindOnPublication(n) ==
    /\ n \in published
    /\ Rebuild(n, protected[n], interface[n])
    /\ published' = published \ {n}
    /\ UNCHANGED <<now, due, config, pipeline, interface, observed>>

\* refresh_tag: nothing within a slot.  One that fails is not tried again
\* before the next tick.
Rotate(n) ==
    /\ n \in due
    /\ due' = due \ {n}
    /\ \/ slot[n] = SlotOf(n) /\ UNCHANGED <<announced, heard, missed, faults>>
       \/ /\ slot[n] # SlotOf(n)
          /\ Respawn(n, protected[n], addresses[n])
          /\ UNCHANGED faults
       \/ /\ slot[n] # SlotOf(n)
          /\ Fault /\ failed' = [failed EXCEPT ![n] = @ + 1]
          /\ UNCHANGED <<protected, slot, addresses, heard, missed>>
    /\ UNCHANGED <<now, config, pipeline, interface, published, observed>>

\* An interval passes.  No running node is later with its tick than that.
Tick ==
    /\ now < LastTick
    /\ due = {}
    /\ now' = now + 1
    /\ due' = {n \in Node : Running(n)}
    /\ UNCHANGED <<config, pipeline, announced, interface, published, heard, observed, missed, faults>>

-----------------------------------------------------------------------------
\* Mutant: a tag of the next slot, by the reader's clock, does not match.
MatchesPast(a) ==
    /\ a.epoch = protected[Reader]
    /\ a.peer \in Lists[protected[Reader]]
    /\ a.slot \in {SlotOf(Reader) - 1, SlotOf(Reader)}

\* match_tag: a known endpoint's tag of the current slot or one next to it.
MatchTag(a) ==
    /\ a.epoch = protected[Reader]
    /\ a.peer \in Lists[protected[Reader]]
    /\ a.slot \in {IF SlotOf(Reader) = 0 THEN 0 ELSE SlotOf(Reader) - 1,
                   SlotOf(Reader), SlotOf(Reader) + 1}

\* try_send: an observation is dropped when the channel is full.
Offer(p, address) ==
    inbox' = IF Len(inbox) < QueueLen
             THEN Append(inbox, [peer |-> p, address |-> address])
             ELSE inbox

\* The discoverer calls back for an announcement it hears, the first time or
\* again (protected_observation); one that matches nobody is nothing to it.
Report(p) ==
    /\ Running(Reader) /\ Running(p)
    /\ MatchTag(TagOf(p))
    /\ heard' = heard \cup {TagOf(p)}
    /\ Offer(p, addresses[p])
    /\ missed' = missed \ {p}
    /\ UNCHANGED <<now, due, config, pipeline, announced, interface, published, lan, faults>>

\* It calls back for one it no longer hears: of a tag or a peer that is gone, or
\* that the network lost too often.
Expire(a) ==
    /\ Running(Reader)
    /\ \/ Expired(a) /\ UNCHANGED faults
       \/ ~Expired(a) /\ Fault
    /\ heard' = heard \ {a}
    /\ IF MatchTag(a) THEN Offer(a.peer, Nothing) ELSE UNCHANGED inbox
    /\ missed' = IF inbox' = inbox THEN missed \cup {a.peer} ELSE missed
    /\ UNCHANGED <<now, due, config, pipeline, announced, interface, published, lan>>

\* Mutant: an expiry that comes with addresses is taken for an observation.
ApplyIgnoringExpiry ==
    /\ inbox # <<>>
    /\ lan' = [lan EXCEPT ![Head(inbox).peer] =
                 IF Head(inbox).address = Nothing THEN @ ELSE Head(inbox).address]
    /\ inbox' = Tail(inbox)
    /\ UNCHANGED <<now, due, config, pipeline, announced, interface, published, heard, missed, faults>>

\* apply_lan_observation
Apply ==
    /\ inbox # <<>>
    /\ lan' = [lan EXCEPT ![Head(inbox).peer] = Head(inbox).address]
    /\ inbox' = Tail(inbox)
    /\ UNCHANGED <<now, due, config, pipeline, announced, interface, published, heard, missed, faults>>

\* The task that follows the configuration, and the runtime's loop.
FollowStep(n) == FirstPoll(n) \/ Notice(n)
RuntimeStep(n) ==
    ReplaceProtection(n) \/ RebindOnSignal(n) \/ RebindOnPublication(n) \/ Rotate(n)

Next ==
    \/ \E n \in Node : Open(n) \/ FollowStep(n) \/ RuntimeStep(n)
    \/ \E n \in Synced : ApplyUpdates(n)
    \/ \E n \in Mobile : Move(n) \/ SignalChange(n)
    \/ \E p \in Peer : Close(p) \/ Report(p)
    \/ \E a \in heard : Expire(a)
    \/ Apply \/ Tick

\* The tasks of a node run when they are woken, and the loop picks at random
\* from what is ready (tokio::select!).  A round of anti-entropy is answered now
\* and then.  The discoverer calls back again and again for what it hears, and
\* not only when the queue is full.
Fairness ==
    /\ \A n \in Node :
          /\ WF_vars(FollowStep(n))
          /\ WF_vars(ReplaceProtection(n) \/ RebindOnSignal(n))
          /\ WF_vars(RebindOnPublication(n)) /\ WF_vars(Rotate(n))
    /\ \A n \in Synced : WF_vars(ApplyUpdates(n))
    /\ \A p \in Peer : SF_vars(Report(p))
    /\ WF_vars(Apply)

Spec == Init /\ [][Next]_vars /\ Fairness

-----------------------------------------------------------------------------
\* With this many rotations in a row that failed, a peer's clock is at most one
\* slot ahead of the reader's, and less than one behind it.
ClocksAgree(p, late) ==
    /\ Skew[p] <= Skew[Reader] + SlotTicks
    /\ Skew[Reader] + late < Skew[p] + SlotTicks

\* A member of the same epoch whose clock is within that is recognised at any
\* moment, although either of the two may be about to change its slot, and
\* although rotations of the peer's tag have failed, as many as the difference
\* of the clocks leaves room for in a slot.
Recognized ==
    \A p \in Peer :
        /\ ClocksAgree(p, failed[p])
        /\ Running(p) /\ protected[p] = protected[Reader]
        /\ p \in Lists[protected[p]]
        => MatchTag(TagOf(p))

\* Whoever has candidates is one the reader's discoverer will report when it is
\* gone, or has reported, unless that report was dropped, or the discoverer was
\* replaced and has not heard the peer since.
WillExpire ==
    \A p \in Peer :
        lan[p] # Nothing =>
            \/ \E a \in heard : a.peer = p
            \/ \E i \in DOMAIN inbox : inbox[i].peer = p /\ inbox[i].address = Nothing
            \/ p \in missed

\* The address announced is out of date and nothing on its way will replace it.
Stuck(n) == addresses[n] # interface[n] /\ n \notin published
            /\ NetworkChange \notin {commands[n][i] : i \in DOMAIN commands[n]}

\* A peer that stays, and whose clock agrees, is found at the address it has,
\* whatever was replaced, rotated, missed or dropped before, unless the address
\* it announces is stuck: a protection never is, as every answered round sends
\* it again, nor is it anything to a peer when the reader's own address is.
FindsUnlessStuck ==
    \A p \in {q \in Peer : ClocksAgree(q, 0)} :
        <>[](/\ Running(Reader) /\ Running(p) /\ ~Stuck(p)
             /\ config[p] = config[Reader] /\ p \in Lists[config[Reader]])
        => <>[](lan[p] = interface[p])

=============================================================================
