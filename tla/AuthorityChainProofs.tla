------------------------- MODULE AuthorityChainProofs -------------------------
(***************************************************************************)
(* What every operation of an authority makes of a configuration, what a   *)
(* batch that commits makes of the chain of configurations, and what keeps *)
(* every member revocable, for any members, requests, applications and     *)
(* bounds.                                                                 *)
(***************************************************************************)
EXTENDS Authority, TLAPS

-----------------------------------------------------------------------------
\* The serials next_serial looks at.
Seen(c) == c.revoked \cup {AdminSerial} \cup Serials(c)

HasMax(S) == \E s \in S : \A t \in S : t <= s

\* A configuration whose serials are unique and whose relays are backed.
Sound(c) ==
    /\ c \in Config
    /\ HasMax(Seen(c))
    /\ \A x, y \in c.members : x.serial = y.serial => x = y
    /\ AdminSerial \notin Serials(c)
    /\ \A x \in c.relays : \E m \in c.members :
          m.member = x.member /\ "relay" \in m.roles /\ x.expires <= m.expires

\* What a revision keeps of the one before it.
Follows(c, d) ==
    /\ d.revision = c.revision + 1
    /\ c.epoch <= d.epoch
    /\ c.epoch = d.epoch => c.members = d.members
    /\ c.revoked \subseteq d.revoked
    /\ c.apps \subseteq d.apps
    /\ Seen(c) \subseteq Seen(d)
    /\ \A x \in d.members : x \in c.members \/ \A t \in Seen(c) : t < x.serial

\* The serials in sight are numbers.
LEMMA SeenNat == ASSUME NEW c \in Config PROVE Seen(c) \subseteq Nat
BY DEF Seen, Serials, Config, Certificate, AdminSerial

\* next_serial is larger than all of them.
LEMMA NextSerialFresh ==
    ASSUME NEW c, Sound(c)
    PROVE  NextSerial(c) \in Nat /\ \A t \in Seen(c) : t < NextSerial(c)
<1>1. Seen(c) \subseteq Nat
  BY SeenNat, Zenon DEF Sound
<1> DEFINE top == CHOOSE s \in Seen(c) : \A t \in Seen(c) : t <= s
<1>2. top \in Seen(c) /\ \A t \in Seen(c) : t <= top
  BY Zenon DEF Sound, HasMax
<1>3. NextSerial(c) = top + 1
  BY Zenon DEF NextSerial, Seen
<1> HIDE DEF top
<1> QED
  BY <1>1, <1>2, <1>3

\* A revision that leaves the members and their serials alone.
LEMMA SameMembers ==
    ASSUME NEW c, NEW d, Sound(c), d \in Config,
           d.revision = c.revision + 1, d.epoch = c.epoch,
           d.members = c.members, d.revoked = c.revoked, c.apps \subseteq d.apps,
           \A x \in d.relays : \E m \in d.members :
              m.member = x.member /\ "relay" \in m.roles /\ x.expires <= m.expires
    PROVE  Sound(d) /\ Follows(c, d)
<1>1. Seen(d) = Seen(c) /\ Serials(d) = Serials(c)
  BY Zenon DEF Seen, Serials
<1>2. c.epoch \in Nat
  BY Zenon DEF Sound, Config
<1> QED
  BY <1>1, <1>2 DEF Sound, Follows

\* The next revision, and the next epoch, of a configuration.
LEMMA NextTypes ==
    ASSUME NEW c \in Config, NEW t \in Time
    PROVE  NextRevision(c, t) \in Config /\ NextEpoch(c, t) \in Config
<1> DEFINE r == c.revision + 1
           e == c.epoch + 1
<1>1. r \in Nat /\ e \in Nat
  BY DEF Config
<1> HIDE DEF r, e
<1>2. [c EXCEPT !.revision = r, !.issued = t] \in Config
  BY <1>1, Zenon DEF Config
<1>3. NextRevision(c, t) \in Config
  BY <1>2, Zenon DEF NextRevision, r
<1>4. \A d \in Config : [d EXCEPT !.epoch = e] \in Config
  BY <1>1, Zenon DEF Config
<1> QED
  BY <1>3, <1>4, Zenon DEF NextEpoch, e

\* A new member, with a binding or not.
LEMMA NewMember ==
    ASSUME NEW c, Sound(c), NEW m \in Device, NEW roles \in SUBSET MemberRole, NEW until \in Expiry,
           NEW t \in Time, NEW b \in SUBSET Binding,
           NEW d, d = [WithMember(c, m, roles, until, t) EXCEPT !.bindings = b]
    PROVE  Sound(d) /\ Follows(c, d) /\ m \in Listed(d)
<1> DEFINE new == [member |-> m, serial |-> NextSerial(c), roles |-> roles, expires |-> until]
<1>1. c \in Config /\ NextSerial(c) \in Nat /\ \A s \in Seen(c) : s < NextSerial(c)
  BY NextSerialFresh, Zenon DEF Sound
<1>2. new \in Certificate
  BY <1>1, Zenon DEF Certificate
<1>3. /\ d.revision = c.revision + 1 /\ d.epoch = c.epoch + 1 /\ d.issued = t
      /\ d.members = c.members \cup {new} /\ d.revoked = c.revoked /\ d.apps = c.apps
      /\ d.relays = c.relays /\ d.bindings = b
  BY <1>1, Zenon DEF WithMember, NextEpoch, NextRevision, Config
<1>4. d \in Config
  <2> DEFINE e == NextEpoch(c, t)
         f == WithMember(c, m, roles, until, t)
  <2>1. e \in Config
    BY <1>1, NextTypes, Zenon
  <2>2. f = [e EXCEPT !.members = @ \cup {new}]
    BY Zenon DEF WithMember
  <2>3. f \in Config
    <3> HIDE DEF e, new
    <3> QED
      BY <1>2, <2>1, <2>2, Zenon DEF Config
  <2>4. \A g \in Config : [g EXCEPT !.bindings = b] \in Config
    BY Zenon DEF Config
  <2> QED
    BY <2>3, <2>4, Zenon
<1>5. /\ Serials(d) = Serials(c) \cup {NextSerial(c)}
      /\ Seen(d) = Seen(c) \cup {NextSerial(c)}
  <2>1. new.serial = NextSerial(c)
    BY Zenon
  <2> HIDE DEF new
  <2> QED
    BY <1>3, <2>1 DEF Seen, Serials
<1>6. HasMax(Seen(d))
  <2>1. Seen(c) \subseteq Nat
    BY <1>1, SeenNat, Zenon
  <2> QED
    BY <1>1, <1>5, <2>1 DEF HasMax
<1>7. AdminSerial \in Seen(c) /\ \A x \in c.members : x.serial \in Seen(c)
  BY Zenon DEF Seen, Serials
<1>8. \A s \in Seen(c) : s # NextSerial(c)
  BY <1>1, SeenNat
<1>9. Sound(d)
  BY <1>3, <1>4, <1>5, <1>6, <1>7, <1>8 DEF Sound
<1>10. Follows(c, d)
  <2>1. c.epoch \in Nat
    BY <1>1, Zenon DEF Config
  <2> QED
    BY <1>1, <1>3, <1>5, <2>1 DEF Follows
<1>11. new.member = m
  BY Zenon
<1> HIDE DEF new
<1> QED
  BY <1>3, <1>9, <1>10, <1>11, Zenon DEF Listed

\* A member that is revoked.
LEMMA MemberGone ==
    ASSUME NEW c, Sound(c), NEW m \in Device, NEW t \in Time, NEW d, d = WithoutMember(c, m, t)
    PROVE  Sound(d) /\ Follows(c, d)
<1> DEFINE gone == {x.serial : x \in {y \in c.members : y.member = m}}
<1>1. c \in Config
  BY Zenon DEF Sound
<1>2. /\ d.revision = c.revision + 1 /\ d.epoch = c.epoch + 1 /\ d.apps = c.apps
      /\ d.members = {x \in c.members : x.member # m} /\ d.revoked = c.revoked \cup gone
      /\ d.relays = {r \in c.relays : r.member # m}
  BY <1>1, Zenon DEF WithoutMember, NextEpoch, NextRevision, Config
<1>3. gone \subseteq Nat
  BY <1>1, Zenon DEF Config, Certificate
<1>4. d \in Config
  <2> DEFINE e == NextEpoch(c, t)
  <2>1. e \in Config
    BY <1>1, NextTypes, Zenon
  <2>2. d = [e EXCEPT !.members = {x \in @ : x.member # m},
                      !.bindings = {b \in @ : b.member # m},
                      !.relays = {r \in @ : r.member # m},
                      !.revoked = @ \cup gone]
    BY Zenon DEF WithoutMember
  <2> HIDE DEF e, gone
  <2> QED
    BY <1>3, <2>1, <2>2, ZenonT(30) DEF Config
<1>5. Seen(d) = Seen(c) /\ Serials(d) \subseteq Serials(c)
  BY <1>2 DEF Seen, Serials
<1>6. Sound(d)
  BY <1>2, <1>4, <1>5, Zenon DEF Sound
<1>7. Follows(c, d)
  <2>1. c.epoch \in Nat
    BY <1>1, Zenon DEF Config
  <2> QED
    BY <1>2, <1>5, <2>1 DEF Follows
<1> QED
  BY <1>6, <1>7, Zenon

\* An application, a binding or a name that is added or removed, and a relay
\* that is removed.
LEMMA OtherEntry ==
    ASSUME NEW c, Sound(c), NEW t \in Time, NEW d,
           \/ \E a \in App : d = WithApp(c, a, t)
           \/ \E b \in Binding : d = WithBinding(c, b, t)
           \/ \E n \in DnsRecord : d = WithName(c, n, t)
           \/ \E n \in Name : d = WithoutName(c, n, t)
           \/ \E m \in Device : d = WithoutRelay(c, m, t)
    PROVE  Sound(d) /\ Follows(c, d)
<1> DEFINE e == NextRevision(c, t)
<1>1. /\ c \in Config /\ e \in Config
      /\ e.revision = c.revision + 1 /\ e.epoch = c.epoch /\ e.members = c.members
      /\ e.revoked = c.revoked /\ e.apps = c.apps /\ e.relays = c.relays
  <2>1. c \in Config
    BY Zenon DEF Sound
  <2> QED
    BY <2>1, NextTypes, Zenon DEF NextRevision, Config
<1>2. /\ d \in Config /\ d.revision = e.revision /\ d.epoch = e.epoch /\ d.members = e.members
      /\ d.revoked = e.revoked /\ e.apps \subseteq d.apps /\ d.relays \subseteq e.relays
  <2>1. \/ \E a \in App : d = [e EXCEPT !.apps = @ \cup {a}]
        \/ \E b \in Binding : d = [e EXCEPT !.bindings = @ \cup {b}]
        \/ \E n \in DnsRecord : d = [e EXCEPT !.dns = {x \in @ : x.name # n.name} \cup {n}]
        \/ \E n \in Name : d = [e EXCEPT !.dns = {x \in @ : x.name # n}]
        \/ \E m \in Device : d = [e EXCEPT !.relays = {x \in @ : x.member # m}]
    BY Zenon DEF WithApp, WithBinding, WithName, WithoutName, WithoutRelay
  <2> HIDE DEF e
  <2> QED
    BY <1>1, <2>1 DEF Config
<1> HIDE DEF e
<1> QED
  BY <1>1, <1>2, SameMembers DEF Sound

\* A relay whose member may be one for as long (register_relay).
LEMMA NewRelay ==
    ASSUME NEW c, Sound(c), NEW t \in Time, NEW r \in Relay, NEW d, d = WithRelay(c, r, t),
           \E m \in c.members : m.member = r.member /\ "relay" \in m.roles /\ r.expires <= m.expires
    PROVE  Sound(d) /\ Follows(c, d)
<1> DEFINE e == NextRevision(c, t)
<1>1. /\ c \in Config /\ e \in Config
      /\ e.revision = c.revision + 1 /\ e.epoch = c.epoch /\ e.members = c.members
      /\ e.revoked = c.revoked /\ e.apps = c.apps /\ e.relays = c.relays
  <2>1. c \in Config
    BY Zenon DEF Sound
  <2> QED
    BY <2>1, NextTypes, Zenon DEF NextRevision, Config
<1>2. /\ d \in Config /\ d.revision = e.revision /\ d.epoch = e.epoch /\ d.members = e.members
      /\ d.revoked = e.revoked /\ e.apps = d.apps /\ d.relays \subseteq e.relays \cup {r}
  <2>1. d = [e EXCEPT !.relays = {x \in @ : x.member # r.member} \cup {r}]
    BY Zenon DEF WithRelay
  <2> HIDE DEF e
  <2> QED
    BY <1>1, <2>1 DEF Config
<1> HIDE DEF e
<1> QED
  BY <1>1, <1>2, SameMembers, ZenonT(30) DEF Sound

\* The network as it is founded.
LEMMA GenesisSound == Sound(Genesis(0))
<1> DEFINE g == Genesis(0)
           admin == [member |-> Founder, serial |-> 1, roles |-> MemberRole, expires |-> Lifetime]
           relay == [member |-> Founder, roles |-> RelayRole, expires |-> Lifetime]
<1>1. admin \in Certificate /\ relay \in Relay /\ Lifetime \in Nat
  BY SnapshotAssumption, Zenon DEF Certificate, Relay, Device
<1>2. g.members = {admin} /\ g.relays = {relay} /\ g.revoked = {}
  BY Zenon DEF Genesis
<1>3. g \in Config
  BY <1>1 DEF Genesis, Config, Time
<1>4. Serials(g) = {1} /\ Seen(g) = {1, 2}
  <2>1. admin.serial = 1
    BY Zenon
  <2> HIDE DEF g, admin, relay
  <2> QED
    BY <1>2, <2>1, Zenon DEF Serials, Seen, AdminSerial
<1>5. HasMax(Seen(g)) /\ AdminSerial \notin Serials(g)
  BY <1>4 DEF HasMax, AdminSerial
<1>6. admin.member = relay.member /\ "relay" \in admin.roles /\ relay.expires <= admin.expires
  BY <1>1 DEF MemberRole
<1> HIDE DEF g, admin, relay
<1> QED
  BY <1>2, <1>3, <1>5, <1>6, Zenon DEF Sound, g

-----------------------------------------------------------------------------
\* The inductive invariant.  The handle: what it awaits was prepared from what it
\* knows, and what it does not know yet is stored.
Handle ==
    /\ memory = Closed => op = Idle /\ orphans = {}
    /\ memory # Closed =>
          /\ memory.version <= stored.version
          /\ stored.config.revision \in DOMAIN history
          /\ Sound(memory.config)
    /\ \A b \in orphans : b.base <= memory.version
    /\ op.phase = "commit" => op.batch.base = memory.version
    /\ op.phase = "back" => memory.version < stored.version /\ stored.config = op.batch.config

\* A batch that could still commit follows what is stored.
Prepared(b) ==
    /\ Sound(b.config)
    /\ b.base = stored.version => Follows(stored.config, b.config)
    /\ b.request # Nobody => Applicant[b.request] \in Listed(b.config)
    /\ b.invitation # Nobody => b.request # Nobody

Batches ==
    /\ \A b \in orphans : Prepared(b)
    /\ op.phase = "commit" => Prepared(op.batch)

\* What is retained is behind what is stored.
Behind(c, d) ==
    /\ Sound(c)
    /\ c.epoch <= d.epoch
    /\ c.epoch = d.epoch => c.members = d.members
    /\ Seen(c) \subseteq Seen(d)
    /\ \A x \in c.members, y \in d.members : x.serial = y.serial => x = y

Chain ==
    /\ Sound(stored.config)
    /\ \A r \in DOMAIN history : Behind(history[r], stored.config)
    /\ HistoryChains /\ EpochNamesMembers /\ SerialsUnique

\* A ticket that can be followed, and the tickets there are.
CanFollow(t) ==
    /\ \A r \in t.revision..stored.config.revision : r \in DOMAIN history
    /\ t.revision \in DOMAIN history
    /\ Applicant[t.request] \in Listed(history[t.revision])

Records ==
    /\ \A i \in Invitation : bundles[i] = Nobody => invitations[i] = Nobody
    /\ \A i \in Invitation, t \in Ticket : invitations[i] = t => t.invitation = i /\ CanFollow(t)
    /\ \A t \in tickets : CanFollow(t)
    /\ InvitationSpentOnce

\* An answer is about to name what was stored.
Answering ==
    \A b \in Batch : op.phase = "back" /\ op.batch = b =>
        /\ b.request # Nobody => TicketOf(b) \in Ticket /\ CanFollow(TicketOf(b))
        /\ b.invitation # Nobody =>
              b.request # Nobody /\ invitations[b.invitation] = TicketOf(b)

\* A batch that commits: what becomes of the chain.
LEMMA StoreChain ==
    ASSUME TypeOK, Chain, NEW b \in Batch, Prepared(b), Commits(b), Store(b),
           stored.config.revision \in DOMAIN history
    PROVE  Chain'
<1> DEFINE c == stored.config
           d == b.config
           n == b.config.revision
<1>1. /\ Sound(c) /\ Sound(d) /\ Follows(c, d) /\ stored'.config = d
      /\ c \in Config /\ d \in Config
  BY Zenon DEF Prepared, Commits, Store, Chain, Sound
<1>2. /\ n = c.revision + 1 /\ n \notin DOMAIN history
      /\ n \in Nat /\ c.revision \in Nat /\ c.epoch \in Nat /\ d.epoch \in Nat
  BY <1>1, Zenon DEF Commits, Follows, Config
<1>3. /\ DOMAIN history' = DOMAIN history \cup {n} /\ history'[n] = d
      /\ \A r \in DOMAIN history : history'[r] = history[r]
  BY <1>2, Zenon DEF Store
<1>4. history[c.revision] = c
  BY Zenon DEF Chain, HistoryChains
<1> HIDE DEF c, d, n
<1>5. ASSUME NEW e, Behind(e, c) PROVE Behind(e, d)
  <2>1. e.epoch \in Nat /\ Seen(e) \subseteq Nat
    BY <1>5, SeenNat, Zenon DEF Behind, Sound, Config
  <2>2. e.epoch <= d.epoch /\ (e.epoch = d.epoch => e.members = d.members)
    BY <1>1, <1>2, <1>5, <2>1 DEF Behind, Follows
  <2>3. Seen(e) \subseteq Seen(d)
    BY <1>1, <1>5, Zenon DEF Behind, Follows
  <2>4. \A x \in e.members, y \in d.members : x.serial = y.serial => x = y
    <3>1. \A x \in e.members : x.serial \in Seen(c) /\ x.serial \in Nat
      BY <1>5, <2>1, Zenon DEF Behind, Seen, Serials
    <3> QED
      BY <1>1, <1>5, <3>1 DEF Behind, Follows
  <2> QED
    BY <1>5, <2>2, <2>3, <2>4, Zenon DEF Behind
<1>6. Behind(d, d)
  BY <1>1, <1>2 DEF Behind, Sound
<1>7. \A r \in DOMAIN history' : Behind(history'[r], d)
  <2>1. \A r \in DOMAIN history : Behind(history[r], c)
    BY Zenon DEF Chain, c
  <2> QED
    BY <1>3, <1>5, <1>6, <2>1, Zenon
<1>8. HistoryChains'
  <2>1. \A r \in DOMAIN history : r \in Nat /\ r <= c.revision
    BY Zenon DEF Chain, HistoryChains, TypeOK, c
  <2>2. \A r \in DOMAIN history :
           /\ history'[r].revision = r /\ r < n
           /\ r + 1 \in DOMAIN history'
           /\ history'[r].epoch <= history'[r + 1].epoch
           /\ history'[r].revoked \subseteq history'[r + 1].revoked
           /\ history'[r].apps \subseteq history'[r + 1].apps
    <3> SUFFICES ASSUME NEW r \in DOMAIN history
                 PROVE  /\ history'[r].revision = r /\ r < n
                        /\ r + 1 \in DOMAIN history'
                        /\ history'[r].epoch <= history'[r + 1].epoch
                        /\ history'[r].revoked \subseteq history'[r + 1].revoked
                        /\ history'[r].apps \subseteq history'[r + 1].apps
      BY Zenon
    <3>1. CASE r = c.revision
      BY <1>1, <1>2, <1>3, <1>4, <3>1 DEF Follows
    <3>2. CASE r # c.revision
      BY <1>2, <1>3, <2>1, <3>2 DEF Chain, HistoryChains, c
    <3> QED
      BY <3>1, <3>2, Zenon
  <2> QED
    BY <1>1, <1>2, <1>3, <2>1, <2>2 DEF HistoryChains, n, d
<1>9. EpochNamesMembers'
  <2>1. \A r \in DOMAIN history : history[r].epoch = d.epoch => history[r].members = d.members
    BY <1>1, <1>3, <1>7, Zenon DEF Behind
  <2> QED
    BY <1>3, <2>1 DEF Chain, EpochNamesMembers
<1>10. SerialsUnique'
  <2>1. \A r \in DOMAIN history : \A x \in history[r].members, y \in d.members :
            x.serial = y.serial => x = y
    BY <1>1, <1>3, <1>7, Zenon DEF Behind
  <2>2. \A x \in d.members : x.serial # AdminSerial
    BY <1>1, Zenon DEF Sound, Serials
  <2>3. \A x, y \in d.members : x.serial = y.serial => x = y
    BY <1>1, Zenon DEF Sound
  <2> QED
    BY <1>3, <2>1, <2>2, <2>3 DEF Chain, SerialsUnique
<1> QED
  BY <1>1, <1>7, <1>8, <1>9, <1>10, Zenon DEF Chain

\* An invitation that is used is not an issued one.
LEMMA TicketNotBundle == ASSUME NEW t \in Ticket PROVE t \notin Bundle /\ t # Nobody
<1>1. \A x \in Bundle : DOMAIN x = {"app", "expires"}
  BY Zenon DEF Bundle
<1>2. "request" \in DOMAIN t
  BY Zenon DEF Ticket
<1> QED
  BY <1>1, <1>2, AbsenceAssumption

\* ... and of the types ...
LEMMA StoreType ==
    ASSUME TypeOK, NEW b \in Batch, Prepared(b), Store(b)
    PROVE  /\ stored' \in [version : Nat, config : Config]
           /\ DOMAIN history' \subseteq Nat /\ \A r \in DOMAIN history' : history'[r] \in Config
           /\ bundles' \in [Invitation -> {Nobody} \cup Bundle]
           /\ invitations' \in [Invitation -> {Nobody} \cup Bundle \cup Ticket]
           /\ b.request # Nobody => TicketOf(b) \in Ticket
<1>1. b.config \in Config /\ b.config.revision \in Nat /\ b.request \in Request \cup {Nobody}
      /\ b.invitation \in Invitation \cup {Nobody}
  BY Zenon DEF Batch, Config
<1>2. b.request # Nobody => TicketOf(b) \in Ticket
  BY <1>1, Zenon DEF TicketOf, Ticket
<1>3. b.invitation \in Invitation => TicketOf(b) \in Ticket
  BY <1>2, AuthorityAssumption, Zenon DEF Prepared
<1>4. invitations' \in [Invitation -> {Nobody} \cup Bundle \cup Ticket]
  BY <1>3, Zenon DEF Store, TypeOK
<1>5. DOMAIN history' \subseteq Nat /\ \A r \in DOMAIN history' : history'[r] \in Config
  BY <1>1, Zenon DEF Store, TypeOK
<1>6. stored' \in [version : Nat, config : Config]
  BY <1>1 DEF Store, TypeOK
<1> QED
  BY <1>2, <1>4, <1>5, <1>6, Zenon DEF Store, TypeOK

\* ... and of the invitations and their tickets.
LEMMA StoreRecords ==
    ASSUME TypeOK, Chain, Records, NEW b \in Batch, Prepared(b), Commits(b), Store(b),
           UNCHANGED tickets, stored.config.revision \in DOMAIN history
    PROVE  /\ Records'
           /\ b.request # Nobody => CanFollow(TicketOf(b))'
           /\ b.invitation # Nobody =>
                 b.request # Nobody /\ invitations'[b.invitation] = TicketOf(b)
<1> DEFINE n == b.config.revision
           ticket == TicketOf(b)
<1>1. /\ n = stored.config.revision + 1 /\ n \in Nat /\ n \notin DOMAIN history
      /\ stored'.config = b.config /\ stored.config.revision \in Nat
      /\ DOMAIN history' = DOMAIN history \cup {n} /\ history'[n] = b.config
      /\ \A r \in DOMAIN history : history'[r] = history[r]
  BY Zenon DEF Prepared, Commits, Follows, Store, Batch, Config, Chain, Sound
<1>2. \A t \in Ticket : CanFollow(t) => CanFollow(t)'
  <2> SUFFICES ASSUME NEW t \in Ticket, CanFollow(t) PROVE CanFollow(t)'
    BY Zenon
  <2>1. t.revision \in Nat
    BY Zenon DEF Ticket
  <2>2. \A r \in t.revision..n : r \in DOMAIN history'
    BY <1>1, <2>1 DEF CanFollow
  <2> QED
    BY <1>1, <2>2, Zenon DEF CanFollow
<1>3. ticket.request = b.request /\ ticket.revision = n /\ ticket.invitation = b.invitation
      /\ (b.request # Nobody => ticket \in Ticket)
  BY StoreType, Zenon DEF TicketOf
<1>4. b.request # Nobody => CanFollow(ticket)'
  <2>1. \A r \in n..n : r = n
    BY <1>1
  <2> HIDE DEF ticket, n
  <2> QED
    BY <1>1, <1>3, <2>1, Zenon DEF CanFollow, Prepared, n
<1>5. b.invitation \in Invitation \cup {Nobody}
  BY Zenon DEF Batch
<1>6. b.invitation # Nobody => b.request # Nobody /\ invitations'[b.invitation] = ticket
  BY <1>5, Zenon DEF Prepared, Store
<1> HIDE DEF ticket, n
<1>7. \A i \in Invitation : invitations'[i] = IF i = b.invitation THEN ticket ELSE invitations[i]
  BY SMTT(30) DEF Store, ticket
<1>8. \A i \in Invitation, t \in Ticket : invitations'[i] = t => t.invitation = i /\ CanFollow(t)'
  BY <1>2, <1>3, <1>4, <1>6, <1>7, AuthorityAssumption DEF Records
<1>9. \A i \in Invitation : bundles'[i] = Nobody => invitations'[i] = Nobody
  <2>1. \A i \in Invitation : i = b.invitation => bundles[i] # Nobody
    BY AbsenceAssumption, AuthorityAssumption DEF Commits, Records
  <2> QED
    BY <1>7, <2>1, Zenon DEF Records, Store
<1>10. \A t \in tickets' : CanFollow(t)'
  BY <1>2, Zenon DEF Records, TypeOK
<1>11. InvitationSpentOnce'
  <2> SUFFICES ASSUME NEW t \in tickets, t.invitation # Nobody
               PROVE  invitations'[t.invitation] = t
    BY Zenon DEF InvitationSpentOnce
  <2>1. t \in Ticket /\ t.invitation \in Invitation /\ invitations[t.invitation] = t
    BY Zenon DEF TypeOK, Ticket, Records, InvitationSpentOnce
  <2>2. t.invitation # b.invitation
    BY <2>1, TicketNotBundle, Zenon DEF Commits
  <2> QED
    BY <1>7, <2>1, <2>2, Zenon
<1> QED
  BY <1>4, <1>6, <1>8, <1>9, <1>10, <1>11, SMTT(30) DEF Records, ticket

-----------------------------------------------------------------------------
AInv == TypeOK /\ Handle /\ MemoryTrue /\ Batches /\ Chain /\ Records /\ Answering

\* An operation that is about to commit what follows what its handle knows.
LEMMA SealStep ==
    ASSUME AInv, Ready, NEW d, NEW q \in Request \cup {Nobody}, NEW i \in Invitation \cup {Nobody},
           Seal(d, q, i), Sound(d), Follows(memory.config, d),
           q # Nobody => Applicant[q] \in Listed(d), i # Nobody => q # Nobody
    PROVE  AInv'
<1> USE DEF AInv
<1> DEFINE b == [base |-> memory.version, config |-> d, request |-> q, invitation |-> i]
<1>1. op' = [phase |-> "commit", batch |-> b] /\ UNCHANGED <<durable, now, memory, orphans, tickets>>
  BY Zenon DEF Seal
<1>2. memory \in [version : Nat, config : Config] /\ memory # Closed
  BY Zenon DEF Ready, TypeOK
<1>3. b \in Batch
  BY <1>2, Zenon DEF Batch, Sound
<1>4. b.base = memory.version /\ b.config = d /\ b.request = q /\ b.invitation = i
  BY Zenon
<1> HIDE DEF b
<1>5. op'.phase = "commit" /\ op'.batch = b
  BY <1>1, Zenon
<1> USE DEF durable
<1>6. TypeOK'
  BY <1>1, <1>3, Zenon DEF TypeOK
<1>7. Handle'
  BY <1>1, <1>2, <1>4, <1>5, SMTT(30) DEF Handle, Idle
<1>8. MemoryTrue'
  BY <1>1, Zenon DEF MemoryTrue
<1>9. Batches'
  <2>1. \A x : Prepared(x)' <=> Prepared(x)
    BY <1>1, Zenon DEF Prepared
  <2>2. Prepared(b)
    BY <1>2, <1>4, SMTT(30) DEF Prepared, MemoryTrue
  <2> QED
    BY <1>1, <1>5, <2>1, <2>2, Zenon DEF Batches
<1>10. Chain'
  BY <1>1, SMTT(30) DEF Chain, HistoryChains, EpochNamesMembers, SerialsUnique
<1>11. Records'
  BY <1>1, Zenon DEF Records, CanFollow, InvitationSpentOnce
<1>12. Answering'
  BY <1>5, Zenon DEF Answering
<1> QED
  BY <1>6, <1>7, <1>8, <1>9, <1>10, <1>11, <1>12, Zenon

\* The operations that change the configuration.
Sealing ==
    \/ \E q \in Request, roles \in Grants, t \in Expiry : InviteMember(q, roles, t)
    \/ \E m \in Member : RevokeMember(m)
    \/ \E a \in App : RegisterApp(a)
    \/ \E b \in Bindings : AuthorizeAppBinding(b)
    \/ \E d \in DnsRecord : SetVirtualDns(d)
    \/ \E n \in Name : RemoveVirtualDns(n)
    \/ \E r \in Relays : RegisterRelay(r)
    \/ \E m \in Device : RemoveRelay(m)
    \/ \E i \in Invitation, q \in Request : RedeemInvitation(i, q)

LEMMA SealingStep ==
    ASSUME AInv, Sealing
    PROVE  AInv'
<1> DEFINE c == memory.config
<1>0. Ready /\ Sound(c) /\ now \in Time
  BY Zenon DEF AInv, Sealing, Ready, InviteMember, RevokeMember, RegisterApp, AuthorizeAppBinding,
         SetVirtualDns, RemoveVirtualDns, RegisterRelay, RemoveRelay, RedeemInvitation,
         Redeemable, Handle, TypeOK
<1>1. ASSUME NEW q \in Request, NEW roles \in Grants, NEW t \in Expiry, InviteMember(q, roles, t)
      PROVE  AInv'
  <2> DEFINE until == Earlier(t, GoodUntil[q])
             d == WithMember(c, Applicant[q], roles, until, now)
  <2>1. until \in Expiry /\ Applicant[q] \in Device /\ roles \in SUBSET MemberRole /\ q # Nobody
    BY AuthorityAssumption, Zenon DEF Earlier, Device
  <2>2. d = [d EXCEPT !.bindings = d.bindings] /\ d.bindings \in SUBSET Binding
    BY <1>0, Zenon DEF Sound, WithMember, NextEpoch, NextRevision, Config
  <2>3. Sound(d) /\ Follows(c, d) /\ Applicant[q] \in Listed(d)
    BY <1>0, <2>1, <2>2, NewMember, ZenonT(30)
  <2>4. Seal(d, q, Nobody)
    BY <1>1, Zenon DEF InviteMember
  <2> HIDE DEF d
  <2> QED
    BY <1>0, <2>1, <2>3, <2>4, SealStep, Zenon
<1>2. ASSUME NEW m \in Member, RevokeMember(m) PROVE AInv'
  <2> DEFINE d == WithoutMember(c, m, now)
  <2>1. Seal(d, Nobody, Nobody) /\ Sound(d) /\ Follows(c, d)
    BY <1>0, <1>2, MemberGone, Zenon DEF RevokeMember, Device
  <2> HIDE DEF d
  <2> QED
    BY <1>0, <2>1, SealStep, Zenon
<1>3. CASE \/ \E a \in App : RegisterApp(a)
           \/ \E b \in Bindings : AuthorizeAppBinding(b)
           \/ \E n \in DnsRecord : SetVirtualDns(n)
           \/ \E n \in Name : RemoveVirtualDns(n)
           \/ \E m \in Device : RemoveRelay(m)
  <2>1. PICK d : /\ Seal(d, Nobody, Nobody)
                 /\ \/ \E a \in App : d = WithApp(c, a, now)
                    \/ \E b \in Binding : d = WithBinding(c, b, now)
                    \/ \E n \in DnsRecord : d = WithName(c, n, now)
                    \/ \E n \in Name : d = WithoutName(c, n, now)
                    \/ \E m \in Device : d = WithoutRelay(c, m, now)
    BY <1>3, AuthorityAssumption, Zenon DEF RegisterApp, AuthorizeAppBinding, SetVirtualDns,
                                     RemoveVirtualDns, RemoveRelay
  <2>2. Sound(d) /\ Follows(c, d)
    BY <1>0, <2>1, OtherEntry, Zenon
  <2> QED
    BY <1>0, <2>1, <2>2, SealStep, SMTT(30)
<1>4. ASSUME NEW r \in Relays, RegisterRelay(r) PROVE AInv'
  <2> DEFINE d == WithRelay(c, r, now)
  <2>1. Seal(d, Nobody, Nobody) /\ Sound(d) /\ Follows(c, d)
    BY <1>0, <1>4, NewRelay, AuthorityAssumption, SMTT(30) DEF RegisterRelay
  <2> HIDE DEF d
  <2> QED
    BY <1>0, <2>1, SealStep, Zenon
<1>5. ASSUME NEW i \in Invitation, NEW q \in Request, RedeemInvitation(i, q) PROVE AInv'
  <2> DEFINE until == Earlier(bundles[i].expires, GoodUntil[q])
             joined == WithMember(c, Applicant[q], {"member"}, until, now)
             client == [app |-> bundles[i].app, member |-> Applicant[q],
                        role |-> "client", expires |-> until]
             d == [joined EXCEPT !.bindings = @ \cup {client}]
  <2>1. bundles[i] \in Bundle
    <3>1. invitations[i] # Nobody
      BY <1>5, Zenon DEF RedeemInvitation, Redeemable
    <3> QED
      BY <3>1, Zenon DEF AInv, Records, TypeOK
  <2>2. until \in Expiry /\ Applicant[q] \in Device /\ {"member"} \in SUBSET MemberRole /\ q # Nobody
    BY <2>1, AuthorityAssumption, Zenon DEF Earlier, Device, Bundle, MemberRole
  <2>3. client \in Binding
    BY <2>1, <2>2, Zenon DEF Binding, Bundle, AppRole
  <2>4. joined.bindings \in SUBSET Binding
    BY <1>0, Zenon DEF Sound, WithMember, NextEpoch, NextRevision, Config
  <2>5. d = [joined EXCEPT !.bindings = joined.bindings \cup {client}]
    BY <1>0, Zenon DEF Sound, WithMember, NextEpoch, NextRevision, Config
  <2>6. Sound(d) /\ Follows(c, d) /\ Applicant[q] \in Listed(d)
    <3>1. joined.bindings \cup {client} \in SUBSET Binding
      BY <2>3, <2>4, Zenon
    <3> QED
      BY <1>0, <2>2, <2>5, <3>1, NewMember, Zenon
  <2>7. Seal(d, q, i)
    BY <1>5, Zenon DEF RedeemInvitation
  <2> HIDE DEF d
  <2> QED
    BY <1>0, <2>2, <2>6, <2>7, SealStep, Zenon
<1> QED
  BY <1>1, <1>2, <1>3, <1>4, <1>5, Zenon DEF Sealing

\* A step that leaves the chain and the handle alone.
LEMMA SameChain ==
    ASSUME AInv, UNCHANGED <<stored, history, memory, op, orphans>>
    PROVE  /\ Handle' /\ MemoryTrue' /\ Batches' /\ Chain'
           /\ \A t : CanFollow(t)' <=> CanFollow(t)
<1> USE DEF AInv
<1>1. \A x : Prepared(x)' <=> Prepared(x)
  BY Zenon DEF Prepared
<1>2. Handle' /\ MemoryTrue'
  BY Zenon DEF Handle, MemoryTrue
<1>3. Batches'
  BY <1>1, Zenon DEF Batches
<1>4. Chain'
  BY DEF Chain, HistoryChains, EpochNamesMembers, SerialsUnique
<1>5. \A t : CanFollow(t)' <=> CanFollow(t)
  BY Zenon DEF CanFollow
<1> QED
  BY <1>2, <1>3, <1>4, <1>5, Zenon

\* The operations that put or delete one record, and the clock.
LEMMA RecordStep ==
    ASSUME AInv,
           \/ Tick
           \/ \E a \in App : InstallEnrollmentAppRoot(a)
           \/ \E i \in Invitation, a \in App, t \in Expiry : CreateInvitation(i, a, t)
           \/ \E i \in Invitation : RevokeInvitation(i)
           \/ \E i \in Invitation, q \in Request : RedeemAgain(i, q)
    PROVE  AInv'
<1> USE DEF AInv, durable
<1>0. UNCHANGED <<stored, history, memory, op, orphans>>
  BY Zenon DEF Tick, InstallEnrollmentAppRoot, CreateInvitation, RevokeInvitation, RedeemAgain
<1>1. /\ Handle' /\ MemoryTrue' /\ Batches' /\ Chain'
      /\ \A t : CanFollow(t)' <=> CanFollow(t)
  BY <1>0, SameChain, Zenon
<1>2. CASE Tick
  <2>1. TypeOK'
    BY <1>2, SnapshotAssumption, SMTT(30) DEF Tick, TypeOK, Time
  <2>2. Records' /\ Answering'
    BY <1>1, <1>2, Zenon DEF Tick, Records, InvitationSpentOnce, Answering
  <2> QED
    BY <1>1, <2>1, <2>2, Zenon
<1>3. ASSUME NEW a \in App, InstallEnrollmentAppRoot(a) PROVE AInv'
  <2>1. TypeOK'
    BY <1>3, SMTT(30) DEF InstallEnrollmentAppRoot, TypeOK
  <2>2. Records' /\ Answering'
    BY <1>1, <1>3, Zenon DEF InstallEnrollmentAppRoot, Records, InvitationSpentOnce, Answering
  <2> QED
    BY <1>1, <2>1, <2>2, SMTT(30)
<1>4. ASSUME NEW i \in Invitation, NEW a \in App, NEW t \in Expiry, CreateInvitation(i, a, t)
      PROVE  AInv'
  <2> DEFINE new == [app |-> a, expires |-> t]
  <2>1. new \in Bundle /\ new # Nobody
    BY AbsenceAssumption, SMTT(30) DEF Bundle
  <2>2. bundles' = [bundles EXCEPT ![i] = new] /\ invitations' = [invitations EXCEPT ![i] = new]
        /\ tickets' = tickets /\ bundles[i] = Nobody /\ enrolled' = enrolled /\ now' = now
        /\ op' = op /\ op = Idle
    BY <1>4, Zenon DEF CreateInvitation, TypeOK, Ready
  <2> HIDE DEF new
  <2>3. TypeOK'
    BY <1>0, <2>1, <2>2, Zenon DEF TypeOK
  <2>4. invitations[i] = Nobody /\ \A x \in Ticket : x # new /\ x # Nobody
    BY <2>1, <2>2, TicketNotBundle, Zenon DEF Records
  <2>5. InvitationSpentOnce'
    <3> SUFFICES ASSUME NEW x \in tickets, x.invitation # Nobody
                 PROVE  invitations'[x.invitation] = x
      BY <2>2, Zenon DEF InvitationSpentOnce
    <3>1. x \in Ticket /\ x.invitation \in Invitation /\ invitations[x.invitation] = x
      BY Zenon DEF TypeOK, Ticket, Records, InvitationSpentOnce
    <3> QED
      BY <2>2, <2>4, <3>1, Zenon DEF TypeOK
  <2>6. Records'
    BY <1>1, <2>1, <2>2, <2>4, <2>5, SMTT(30) DEF Records, TypeOK
  <2>7. Answering'
    BY <2>2, Zenon DEF Answering, Idle
  <2> QED
    BY <1>1, <2>3, <2>6, <2>7, Zenon
<1>5. ASSUME NEW i \in Invitation, RevokeInvitation(i) PROVE AInv'
  <2>1. invitations' = [invitations EXCEPT ![i] = Nobody] /\ tickets' = tickets
        /\ bundles' = bundles /\ enrolled' = enrolled /\ now' = now /\ op' = op
        /\ invitations[i] \in Bundle
    BY <1>5, Zenon DEF RevokeInvitation
  <2>2. TypeOK'
    BY <1>0, <2>1, Zenon DEF TypeOK
  <2>3. \A x \in Ticket : x # Nobody /\ x # invitations[i]
    BY <2>1, TicketNotBundle, Zenon
  <2>4. InvitationSpentOnce'
    <3> SUFFICES ASSUME NEW x \in tickets, x.invitation # Nobody
                 PROVE  invitations'[x.invitation] = x
      BY <2>1, Zenon DEF InvitationSpentOnce
    <3>1. x \in Ticket /\ x.invitation \in Invitation /\ invitations[x.invitation] = x
      BY Zenon DEF TypeOK, Ticket, Records, InvitationSpentOnce
    <3> QED
      BY <2>1, <2>3, <3>1, Zenon DEF TypeOK
  <2>5. Records'
    BY <1>1, <2>1, <2>3, <2>4, SMTT(30) DEF Records, TypeOK
  <2>6. Answering'
    <3> SUFFICES ASSUME NEW b \in Batch, op.phase = "back", op.batch = b
                 PROVE  /\ b.request # Nobody => TicketOf(b) \in Ticket /\ CanFollow(TicketOf(b))
                        /\ b.invitation # Nobody =>
                              b.request # Nobody /\ invitations'[b.invitation] = TicketOf(b)
      BY <1>1, <2>1, SMTT(30) DEF Answering
    <3>1. /\ b.request # Nobody => TicketOf(b) \in Ticket /\ CanFollow(TicketOf(b))
          /\ b.invitation # Nobody =>
                b.request # Nobody /\ invitations[b.invitation] = TicketOf(b)
      BY Zenon DEF Answering
    <3>2. b.invitation # Nobody => b.invitation \in Invitation
      BY Zenon DEF Batch
    <3> QED
      BY <2>1, <2>3, <3>1, <3>2, SMTT(30) DEF TypeOK
  <2> QED
    BY <1>1, <2>2, <2>5, <2>6, Zenon
<1>6. ASSUME NEW i \in Invitation, NEW q \in Request, RedeemAgain(i, q) PROVE AInv'
  <2> DEFINE t == invitations[i]
  <2>1. t \in Ticket /\ t.invitation = i /\ CanFollow(t)
    BY <1>6, Zenon DEF RedeemAgain, Records
  <2>2. tickets' = tickets \cup {t} /\ UNCHANGED <<bundles, invitations, enrolled, now, op>>
    BY <1>6, Zenon DEF RedeemAgain
  <2>3. TypeOK'
    BY <1>0, <2>1, <2>2, SMTT(30) DEF TypeOK
  <2>4. InvitationSpentOnce'
    BY <2>1, <2>2, SMTT(30) DEF InvitationSpentOnce, Records
  <2>5. Records'
    BY <1>1, <2>1, <2>2, <2>4, SMTT(30) DEF Records
  <2>6. Answering'
    BY <1>1, <2>2, Zenon DEF Answering
  <2> QED
    BY <1>1, <2>3, <2>5, <2>6, SMTT(30)
<1> QED
  BY <1>2, <1>3, <1>4, <1>5, <1>6, Zenon

-----------------------------------------------------------------------------
(***************************************************************************)
(* What is used of finite sets below; the theorems prove it of them.       *)
(***************************************************************************)
FiniteFacts ==
    /\ \A S : IsFiniteSet(S) => Cardinality(S) \in Nat
    /\ \A S, T : IsFiniteSet(S) /\ T \subseteq S => IsFiniteSet(T) /\ Cardinality(T) <= Cardinality(S)
    /\ \A S, x : IsFiniteSet(S) /\ x \notin S =>
           IsFiniteSet(S \cup {x}) /\ Cardinality(S \cup {x}) = Cardinality(S) + 1

\* A part of a list that is within its limit is within it too.
LEMMA Fewer ==
    ASSUME FiniteFacts, NEW most \in Nat, NEW S, Within(S, most), NEW T \in SUBSET S
    PROVE  Within(T, most)
<1>1. /\ IsFiniteSet(S) /\ Cardinality(S) <= most /\ Cardinality(S) \in Nat
      /\ IsFiniteSet(T) /\ Cardinality(T) <= Cardinality(S)
  BY Zenon DEF FiniteFacts, Within
<1>2. Cardinality(T) \in Nat
  BY <1>1, Zenon DEF FiniteFacts
<1> QED
  BY <1>1, <1>2 DEF Within

\* One more entry fits into a list exactly when the list is below its limit.
LEMMA OneMore ==
    ASSUME FiniteFacts, NEW most \in Nat, NEW S, IsFiniteSet(S), NEW x, x \notin S
    PROVE  Within(S \cup {x}, most) <=> Cardinality(S) < most
<1>1. /\ Cardinality(S) \in Nat /\ IsFiniteSet(S \cup {x})
      /\ Cardinality(S \cup {x}) = Cardinality(S) + 1
  BY Zenon DEF FiniteFacts
<1> QED
  BY <1>1 DEF Within

\* What validate finds of a configuration that time does not change.
Vetted(c) ==
    /\ ValidShape(c)
    /\ Within(c.members, MaxMembers)
    /\ AdminSerial \notin c.revoked
    /\ \A m \in c.members : m.serial \notin c.revoked
    /\ NoTwo(c.members, LAMBDA m : m.member)
    /\ \A b \in c.bindings : b.app \in c.apps /\ b.member \in Listed(c)
    /\ NoTwo(c.bindings, LAMBDA b : <<b.app, b.member, b.role>>)
    /\ \A d \in c.dns : d.app \in c.apps /\ d.expires <= Lifetime
    /\ NoTwo(c.dns, LAMBDA d : d.name)
    /\ NoTwo(c.relays, LAMBDA r : r.member)

\* Whatever a handle knows, or is about to commit, was validated once.
Vets ==
    /\ memory # Closed => Vetted(memory.config)
    /\ \A b \in orphans : Vetted(b.config)
    /\ op # Idle => Vetted(op.batch.config)

\* Whatever validates is of this kind.
LEMMA ValidatesVetted ==
    ASSUME NEW c, NEW t, Validates(c, t) PROVE Vetted(c)
  BY Zenon DEF Validates, Vetted

\* A member that is listed has one certificate, whose serial is not revoked.
LEMMA OneSerial ==
    ASSUME NEW c, Vetted(c), NEW m \in Listed(c)
    PROVE  \E s : /\ s \notin c.revoked
                  /\ {x.serial : x \in {y \in c.members : y.member = m}} = {s}
<1>1. PICK y \in c.members : y.member = m
  BY Zenon DEF Listed
<1>2. \A x \in c.members : x.member = m => x = y
  BY <1>1, Zenon DEF Vetted, NoTwo
<1>3. y.serial \notin c.revoked
  BY <1>1, Zenon DEF Vetted
<1>4. {x.serial : x \in {z \in c.members : z.member = m}} = {y.serial}
  BY <1>1, <1>2, Zenon
<1> QED
  BY <1>3, <1>4, Zenon

\* What revoke_member leaves behind validates, exactly when there is room for
\* one more revoked serial.
LEMMA WithoutMemberValidates ==
    ASSUME FiniteFacts, NEW c, Sound(c), Vetted(c), NEW m \in Listed(c), now \in Time,
           Unexpired(c, m)
    PROVE  Validates(WithoutMember(c, m, now), now) <=> Cardinality(c.revoked) < Limit.revoked
<1> DEFINE d == WithoutMember(c, m, now)
           gone == {x.serial : x \in {y \in c.members : y.member = m}}
<1>1. /\ d.issued = now /\ d.apps = c.apps /\ d.dns = c.dns
      /\ d.members = {x \in c.members : x.member # m} /\ d.revoked = c.revoked \cup gone
      /\ d.bindings = {b \in c.bindings : b.member # m}
      /\ d.relays = {r \in c.relays : r.member # m}
  BY Zenon DEF WithoutMember, NextEpoch, NextRevision, Config, Sound
<1> HIDE DEF d
<1>2. now <= now /\ now < Lifetime
  BY SnapshotAssumption DEF Unexpired, Time
<1>3. AdminSerial \notin d.revoked
  BY <1>1, Zenon DEF Vetted, Sound, Serials
<1>4. \A x \in d.members : now < x.expires /\ x.serial \notin d.revoked
  BY <1>1, Zenon DEF Vetted, Sound, Unexpired
<1>5. /\ Within(d.members, MaxMembers) /\ Within(d.apps, Limit.apps)
      /\ Within(d.bindings, Limit.bindings) /\ Within(d.dns, Limit.dns)
      /\ Within(d.relays, Limit.relays)
  <2>1. /\ MaxMembers \in Nat /\ Limit.apps \in Nat /\ Limit.bindings \in Nat
        /\ Limit.dns \in Nat /\ Limit.relays \in Nat
    BY SnapshotAssumption
  <2>2. /\ Within(c.members, MaxMembers) /\ Within(c.apps, Limit.apps)
        /\ Within(c.bindings, Limit.bindings) /\ Within(c.dns, Limit.dns)
        /\ Within(c.relays, Limit.relays)
    BY Zenon DEF Vetted, ValidShape
  <2>3. /\ d.members \in SUBSET c.members /\ d.bindings \in SUBSET c.bindings
        /\ d.relays \in SUBSET c.relays
    BY <1>1, Zenon
  <2> QED
    BY <1>1, <2>1, <2>2, <2>3, Fewer, Zenon
<1>6. \A b \in d.bindings : b.app \in d.apps /\ b.member \in Listed(d) /\ now < b.expires
  BY <1>1, Zenon DEF Vetted, Unexpired, Listed
<1>7. \A n \in d.dns : n.app \in d.apps /\ d.issued < n.expires /\ n.expires <= Lifetime
  BY <1>1, Zenon DEF Vetted, Unexpired
<1>8. \A r \in d.relays : now < r.expires
  BY <1>1, SMTT(30) DEF Unexpired
<1>9. /\ NoTwo(d.members, LAMBDA x : x.member)
      /\ NoTwo(d.bindings, LAMBDA b : <<b.app, b.member, b.role>>)
      /\ NoTwo(d.dns, LAMBDA n : n.name) /\ NoTwo(d.relays, LAMBDA r : r.member)
  BY <1>1, Zenon DEF Vetted, NoTwo
<1>10. Within(d.revoked, Limit.revoked) <=> Cardinality(c.revoked) < Limit.revoked
  <2>1. PICK s : s \notin c.revoked /\ gone = {s}
    BY OneSerial, Zenon
  <2>2. IsFiniteSet(c.revoked) /\ d.revoked = c.revoked \cup {s}
    BY <1>1, <2>1, Zenon DEF Vetted, ValidShape, Within
  <2>3. Limit.revoked \in Nat
    BY SnapshotAssumption
  <2>4. Within(c.revoked \cup {s}, Limit.revoked) <=> Cardinality(c.revoked) < Limit.revoked
    BY <2>1, <2>2, <2>3, OneMore, SMTT(30)
  <2> QED
    BY <2>2, <2>4, Zenon
<1>11. ValidShape(d) <=> Within(d.revoked, Limit.revoked)
  BY <1>5, Zenon DEF ValidShape
<1>12. Validates(d, now) <=> ValidShape(d)
  BY <1>1, <1>2, <1>3, <1>4, <1>5, <1>6, <1>7, <1>8, <1>9, Zenon DEF Validates
<1> QED
  BY <1>10, <1>11, <1>12, Zenon DEF d

\* What an operation is about to commit has validated.
LEMMA SealVets == ASSUME Vets, Sealing PROVE Vets'
<1>1. PICK d, q, i : Seal(d, q, i)
  BY Zenon DEF Sealing, InviteMember, RevokeMember, RegisterApp, AuthorizeAppBinding,
         SetVirtualDns, RemoveVirtualDns, RegisterRelay, RemoveRelay, RedeemInvitation
<1>2. Vetted(d)
  BY <1>1, ValidatesVetted, Zenon DEF Seal
<1>3. /\ UNCHANGED <<memory, orphans>>
      /\ op' = [phase |-> "commit", batch |-> [base |-> memory.version, config |-> d,
                                               request |-> q, invitation |-> i]]
  BY <1>1, Zenon DEF Seal
<1>4. op'.batch.config = d
  BY <1>3, Zenon
<1> QED
  BY <1>2, <1>3, <1>4, Zenon DEF Vets

\* The other steps move what was validated, or drop it.
LEMMA VetsStep ==
    ASSUME AInv, Vets, [Next]_vars
    PROVE  Vets'
<1>1. CASE Sealing
  BY <1>1, SealVets, Zenon
<1>2. CASE Open
  <2>1. memory' = stored /\ UNCHANGED <<orphans, op>> /\ Vetted(stored.config)
    BY <1>2, ValidatesVetted, Zenon DEF Open
  <2> QED
    BY <2>1, Zenon DEF Vets
<1>3. CASE Stop
  BY <1>3, Zenon DEF Stop, Vets, durable
<1>4. CASE Commit
  <2>1. op # Idle /\ UNCHANGED <<memory, orphans>>
    BY <1>4 DEF Commit, Idle
  <2>2. CASE op' = [op EXCEPT !.phase = "back"]
    <3>1. op'.batch = op.batch
      BY <2>1, <2>2, Zenon DEF AInv, TypeOK
    <3> QED
      BY <2>1, <3>1, Zenon DEF Vets
  <2>3. CASE op' = Idle
    BY <2>1, <2>3, SMTT(30) DEF Vets
  <2> QED
    BY <1>4, <2>2, <2>3, Zenon DEF Commit
<1>5. CASE ReadBack
  <2>1. /\ op # Idle /\ op' = Idle /\ UNCHANGED orphans
        /\ memory' = [version |-> stored.version, config |-> op.batch.config]
    BY <1>5, SMTT(30) DEF ReadBack, Idle, durable
  <2> QED
    BY <2>1, Zenon DEF Vets
<1>6. CASE Abandon
  BY <1>6, Zenon DEF Abandon, Vets, durable
<1>7. ASSUME NEW b \in orphans, LateCommit(b) PROVE Vets'
  <2>1. orphans' = orphans \ {b} /\ UNCHANGED <<memory, op>>
    BY <1>7, Zenon DEF LateCommit
  <2> QED
    BY <2>1, Zenon DEF Vets
<1>8. CASE UNCHANGED <<memory, op, orphans>>
  BY <1>8, SMTT(30) DEF Vets
<1>9. CASE \/ Tick \/ UNCHANGED vars
           \/ \E a \in App : InstallEnrollmentAppRoot(a)
           \/ \E i \in Invitation, a \in App, t \in Expiry : CreateInvitation(i, a, t)
           \/ \E i \in Invitation : RevokeInvitation(i)
           \/ \E i \in Invitation, q \in Request : RedeemAgain(i, q)
  BY <1>8, <1>9, Zenon DEF Tick, vars, InstallEnrollmentAppRoot, CreateInvitation, RevokeInvitation,
                     RedeemAgain, durable
<1> QED
  BY <1>1, <1>2, <1>3, <1>4, <1>5, <1>6, <1>7, <1>9, Zenon DEF Next, Sealing

LEMMA VetsInit == ASSUME Init PROVE Vets
  BY Zenon DEF Init, Vets

\* Whoever is listed can be revoked while nothing else has expired and there is
\* room for the serial.
LEMMA Revocable ==
    ASSUME FiniteFacts, AInv, Vets PROVE RevocationPossible
<1> SUFFICES ASSUME memory # Closed, NEW m \in Listed(memory.config) \ {Founder},
                    Unexpired(memory.config, m)
             PROVE  Validates(WithoutMember(memory.config, m, now), now)
                        <=> Cardinality(memory.config.revoked) < Limit.revoked
  BY Zenon DEF RevocationPossible
<1>1. Sound(memory.config) /\ Vetted(memory.config) /\ now \in Time
  BY Zenon DEF AInv, Handle, Vets, TypeOK
<1> QED
  BY <1>1, WithoutMemberValidates, Zenon

=============================================================================
