------------------------------ MODULE Snapshot ------------------------------
(***************************************************************************)
(* The network configuration a revision carries (NetworkConfigV1,          *)
(* weaver-config/src/snapshot.rs) and the checks every holder of it makes. *)
(*                                                                         *)
(* A member stands for one device: its identity, its keys and its          *)
(* endpoint, which certificate and endpoint binding tie together and which *)
(* the authority always adds and removes together.  The network has one    *)
(* online admin, certified when the network is founded and for as long as  *)
(* the configuration itself (initialize_staging), so that Lifetime is the  *)
(* expiry of both.  A presence service is listed exactly for the relays    *)
(* with the presence role, by every operation that lists relays, and the   *)
(* limits of the two lists are the same.                                   *)
(***************************************************************************)
EXTENDS Naturals, FiniteSets

CONSTANTS
    Member,      \* the devices that may ever ask to join
    Founder,     \* the member that holds the authority's own keys
    App,         \* the applications
    Name,        \* the virtual names
    Lifetime,    \* expires_at_ms of the configuration and the admin certificate
    Expiry,      \* the expiry instants the operations are given
    MaxMembers,  \* policies.max_members, at most MAX_MEMBERS
    Limit        \* MAX_REVOKED_SERIALS, MAX_APPS, MAX_BINDINGS, ...: a limit for each list

ASSUME SnapshotAssumption ==
    /\ Founder \notin Member
    /\ Lifetime \in Expiry /\ Expiry \subseteq Nat
    /\ \A t \in Expiry : 0 < t /\ t <= Lifetime
    /\ MaxMembers \in Nat
    /\ Limit \in [revoked : Nat, apps : Nat, bindings : Nat, dns : Nat, relays : Nat]

Device == Member \cup {Founder}
AdminSerial == 2
MemberRole == {"member", "service", "relay", "bootstrap", "authority"}
RelayRole == {"data", "bootstrap", "presence"}
Time == 0..Lifetime

Certificate == [member : Device, serial : Nat, roles : SUBSET MemberRole, expires : Expiry]
AppRole == {"server", "client"}
Binding == [app : App, member : Device, role : AppRole, expires : Expiry]
DnsRecord == [name : Name, app : App, expires : Expiry]
Relay == [member : Device, roles : SUBSET RelayRole, expires : Expiry]

Config == [epoch : Nat, revision : Nat, issued : Time,
           members : SUBSET Certificate, revoked : SUBSET Nat,
           apps : SUBSET App, bindings : SUBSET Binding, dns : SUBSET DnsRecord,
           relays : SUBSET Relay]

\* What initialize_staging founds the network with.
Genesis(now) ==
    [epoch |-> 0, revision |-> 0, issued |-> now,
     members |-> {[member |-> Founder, serial |-> 1, roles |-> MemberRole, expires |-> Lifetime]},
     revoked |-> {}, apps |-> {}, bindings |-> {}, dns |-> {},
     relays |-> {[member |-> Founder, roles |-> RelayRole, expires |-> Lifetime]}]

Listed(c) == {m.member : m \in c.members}

Serials(c) == {m.serial : m \in c.members}

\* No two entries of a list share a key (a DuplicateEntry).
NoTwo(entries, key(_)) == \A x, y \in entries : key(x) = key(y) => x = y

\* check_len
Within(entries, most) == IsFiniteSet(entries) /\ Cardinality(entries) <= most

\* NetworkConfigV1::validate_shape: no list is longer than its limit.
ValidShape(c) ==
    /\ Within(c.revoked, Limit.revoked)
    /\ Within(c.apps, Limit.apps)
    /\ Within(c.bindings, Limit.bindings)
    /\ Within(c.dns, Limit.dns)
    /\ Within(c.relays, Limit.relays)

\* NetworkConfigV1::validate: one entry that does not hold up, one that has
\* expired included, fails the whole configuration.
Validates(c, now) ==
    /\ ValidShape(c)
    /\ c.issued <= now /\ now < Lifetime
    /\ AdminSerial \notin c.revoked
    /\ \A m \in c.members : now < m.expires /\ m.serial \notin c.revoked
    /\ NoTwo(c.members, LAMBDA m : m.member)
    /\ Within(c.members, MaxMembers)
    /\ \A b \in c.bindings : b.app \in c.apps /\ b.member \in Listed(c) /\ now < b.expires
    /\ NoTwo(c.bindings, LAMBDA b : <<b.app, b.member, b.role>>)
    /\ \A d \in c.dns : d.app \in c.apps /\ c.issued < d.expires /\ d.expires <= Lifetime
    /\ NoTwo(c.dns, LAMBDA d : d.name)
    /\ \A r \in c.relays : now < r.expires
    /\ NoTwo(c.relays, LAMBDA r : r.member)

-----------------------------------------------------------------------------
\* prepare_next_revision, and the same lines of the other operations.
NextRevision(c, now) == [c EXCEPT !.revision = c.revision + 1, !.issued = now]

\* New epoch secrets, for a changed set of members.
NextEpoch(c, now) == [NextRevision(c, now) EXCEPT !.epoch = c.epoch + 1]

\* next_serial: one more than the largest serial in sight.
NextSerial(c) ==
    LET seen == c.revoked \cup {AdminSerial} \cup Serials(c)
    IN  (CHOOSE s \in seen : \A t \in seen : t <= s) + 1

\* invite_member and redeem_invitation: the certificate and its binding.
WithMember(c, m, roles, expires, now) ==
    [NextEpoch(c, now) EXCEPT
        !.members = @ \cup {[member |-> m, serial |-> NextSerial(c),
                             roles |-> roles, expires |-> expires]}]

\* Mutant: the application bindings of a revoked member stay behind.
WithoutMemberButBindings(c, m, now) ==
    [NextEpoch(c, now) EXCEPT
        !.members = {x \in @ : x.member # m},
        !.relays = {r \in @ : r.member # m},
        !.revoked = @ \cup {x.serial : x \in {y \in c.members : y.member = m}}]

\* Mutant: the epoch and its secrets survive a revocation.
WithoutMemberSameEpoch(c, m, now) ==
    [NextRevision(c, now) EXCEPT
        !.members = {x \in @ : x.member # m},
        !.bindings = {b \in @ : b.member # m},
        !.relays = {r \in @ : r.member # m},
        !.revoked = @ \cup {x.serial : x \in {y \in c.members : y.member = m}}]

\* Mutant: the serial of the removed certificate is not kept.
WithoutMemberUnrecorded(c, m, now) ==
    [NextEpoch(c, now) EXCEPT
        !.members = {x \in @ : x.member # m},
        !.bindings = {b \in @ : b.member # m},
        !.relays = {r \in @ : r.member # m}]

\* revoke_member: everything of the member goes, its serial is revoked.
WithoutMember(c, m, now) ==
    [NextEpoch(c, now) EXCEPT
        !.members = {x \in @ : x.member # m},
        !.bindings = {b \in @ : b.member # m},
        !.relays = {r \in @ : r.member # m},
        !.revoked = @ \cup {x.serial : x \in {y \in c.members : y.member = m}}]

WithApp(c, a, now) == [NextRevision(c, now) EXCEPT !.apps = @ \cup {a}]

WithBinding(c, b, now) == [NextRevision(c, now) EXCEPT !.bindings = @ \cup {b}]

WithoutName(c, name, now) ==
    [NextRevision(c, now) EXCEPT !.dns = {d \in @ : d.name # name}]

WithName(c, d, now) ==
    [NextRevision(c, now) EXCEPT !.dns = {x \in @ : x.name # d.name} \cup {d}]

WithoutRelay(c, m, now) ==
    [NextRevision(c, now) EXCEPT !.relays = {r \in @ : r.member # m}]

WithRelay(c, r, now) ==
    [NextRevision(c, now) EXCEPT !.relays = {x \in @ : x.member # r.member} \cup {r}]

=============================================================================
