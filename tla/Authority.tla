------------------------------ MODULE Authority ------------------------------
(***************************************************************************)
(* The authority of a network (weaver-relay-core): the durable chain of    *)
(* configurations, the invitations, and the one process that may have them *)
(* open.  The redb database is locked for as long as any handle to it      *)
(* lives, so there is never a second process; but an operation is a        *)
(* future, and its commit runs on a blocking thread (run_blocking): a      *)
(* future that is dropped leaves behind a commit that may still land, and  *)
(* an operation that fails between its commit and its read-back leaves     *)
(* behind a handle that does not know of it.                               *)
(*                                                                         *)
(* The records under KEY_ENVELOPE and KEY_HEAD are put by the same batches *)
(* with versions of their own, so one record stands for both; its version  *)
(* counts the commits to it, which tells apart the same states as the      *)
(* store's global stamp.                                                   *)
(***************************************************************************)
EXTENDS Snapshot

CONSTANTS
    Request,      \* the prepared join requests
    Applicant,    \* [Request -> Member]
    Wants,        \* [Request -> SUBSET MemberRole], requested_roles
    GoodUntil,    \* [Request -> Expiry], expires_at_ms of the request
    Grants,       \* the sets of roles an operator grants
    Bindings,     \* the application bindings an operator signs
    Relays,       \* the relay entries an operator registers
    Invitation,   \* the invitation ids, each drawn at random once
    Nobody,       \* no request, no invitation
    Closed,       \* no Authority value is alive
    MaxRevision,  \* bound: revisions the authority may reach
    MaxOrphans    \* bound: dropped commits still running

ASSUME AuthorityAssumption ==
    /\ Applicant \in [Request -> Member]
    /\ Wants \in [Request -> SUBSET MemberRole]
    /\ GoodUntil \in [Request -> Expiry]
    /\ Grants \subseteq SUBSET MemberRole
    /\ Bindings \subseteq Binding /\ Relays \subseteq Relay
    /\ Nobody \notin Request \cup Invitation
    /\ MaxRevision \in Nat /\ MaxOrphans \in Nat

VARIABLES
    stored,       \* the current envelope and head
    history,      \* the retained configurations, by revision
    bundles,      \* the signed invitations, which outlive their records
    invitations,  \* their records: the bundle, the ticket it was used for, or nothing
    enrolled,     \* the applications whose root key is installed
    now,          \* the clock
    memory,       \* the fields of the Authority value, or Closed
    op,           \* the operation it is awaiting
    orphans,      \* the commits of dropped futures
    tickets       \* history variable: the tickets that were handed out

vars == <<stored, history, bundles, invitations, enrolled, now, memory, op, orphans, tickets>>
durable == <<stored, history, bundles, invitations, enrolled>>

Idle == [phase |-> "idle"]

Ticket == [request : Request, revision : Nat, invitation : Invitation \cup {Nobody}]
Bundle == [app : App, expires : Expiry]
Batch == [base : Nat, config : Config, request : Request \cup {Nobody},
          invitation : Invitation \cup {Nobody}]

\* A handle, and an invitation's record, are told apart from none.
ASSUME AbsenceAssumption ==
    /\ Closed \notin [version : Nat, config : Config]
    /\ Nobody \notin Bundle \cup Ticket

TypeOK ==
    /\ stored \in [version : Nat, config : Config]
    /\ DOMAIN history \subseteq Nat /\ \A r \in DOMAIN history : history[r] \in Config
    /\ bundles \in [Invitation -> {Nobody} \cup Bundle]
    /\ invitations \in [Invitation -> {Nobody} \cup Bundle \cup Ticket]
    /\ enrolled \subseteq App
    /\ now \in Time
    /\ memory \in {Closed} \cup [version : Nat, config : Config]
    /\ op \in {Idle} \cup [phase : {"commit", "back"}, batch : Batch]
    /\ orphans \subseteq Batch
    /\ tickets \subseteq Ticket

\* A fresh network, or one written before history was retained.
Init ==
    /\ stored = [version |-> 1, config |-> Genesis(0)]
    /\ history \in {[r \in {0} |-> Genesis(0)], [r \in {} |-> Genesis(0)]}
    /\ bundles = [i \in Invitation |-> Nobody]
    /\ invitations = bundles
    /\ enrolled = {}
    /\ now = 0
    /\ memory = Closed
    /\ op = Idle
    /\ orphans = {}
    /\ tickets = {}

-----------------------------------------------------------------------------
\* Authority::open: no commit of an earlier handle is running any more (it
\* holds the database), the stored configuration validates now, and its
\* history record agrees; a missing one is seeded.
Open ==
    /\ memory = Closed /\ orphans = {}
    /\ Validates(stored.config, now)
    /\ LET r == stored.config.revision
       IN  \/ /\ r \in DOMAIN history /\ history[r] = stored.config
              /\ UNCHANGED history
           \/ /\ r \notin DOMAIN history
              /\ history' = [s \in DOMAIN history \cup {r} |->
                                IF s = r THEN stored.config ELSE history[s]]
    /\ memory' = stored
    /\ UNCHANGED <<stored, bundles, invitations, enrolled, now, op, orphans, tickets>>

\* The process ends or is killed; what has not landed never will.
Stop ==
    /\ memory # Closed
    /\ memory' = Closed /\ op' = Idle /\ orphans' = {}
    /\ UNCHANGED <<durable, now, tickets>>

Tick ==
    /\ now < Lifetime
    /\ now' = now + 1
    /\ UNCHANGED <<durable, memory, op, orphans, tickets>>

-----------------------------------------------------------------------------
Ready == memory # Closed /\ op = Idle

\* seal_next_config and open_next_config: the admin is still certified, the
\* new configuration validates, and the authority can open it itself.  An
\* operation whose configuration does not changes nothing.
Seal(config, request, invitation) ==
    /\ config.revision <= MaxRevision
    /\ Validates(config, now)
    /\ Founder \in Listed(config)
    /\ op' = [phase |-> "commit",
              batch |-> [base |-> memory.version, config |-> config,
                         request |-> request, invitation |-> invitation]]
    /\ UNCHANGED <<durable, now, memory, orphans, tickets>>

Earlier(s, t) == IF s <= t THEN s ELSE t

\* ensure_join_is_unique
IsNew(m) == m \notin Listed(memory.config)

\* The certificate ends with the request at the latest.
InviteMember(q, roles, until) ==
    /\ Ready
    /\ now < GoodUntil[q]
    /\ roles \subseteq Wants[q] /\ roles # {}
    /\ now < until
    /\ IsNew(Applicant[q])
    /\ Seal(WithMember(memory.config, Applicant[q], roles, Earlier(until, GoodUntil[q]), now),
            q, Nobody)

RevokeMember(m) ==
    /\ Ready
    /\ m \in Listed(memory.config) \ {Founder}
    /\ Seal(WithoutMember(memory.config, m, now), Nobody, Nobody)

RegisterApp(a) ==
    /\ Ready
    /\ a \notin memory.config.apps
    /\ Seal(WithApp(memory.config, a, now), Nobody, Nobody)

\* A second copy of an entry does not validate.
AuthorizeAppBinding(b) ==
    /\ Ready
    /\ b \notin memory.config.bindings
    /\ Seal(WithBinding(memory.config, b, now), Nobody, Nobody)

SetVirtualDns(d) ==
    /\ Ready
    /\ d.app \in memory.config.apps
    /\ now < d.expires
    /\ Seal(WithName(memory.config, d, now), Nobody, Nobody)

RemoveVirtualDns(name) ==
    /\ Ready
    /\ \E d \in memory.config.dns : d.name = name
    /\ Seal(WithoutName(memory.config, name, now), Nobody, Nobody)

\* Mutant: the relay may outlive its member's certificate.
RegisterRelayOutliving(r) ==
    /\ Ready
    /\ r.roles # {} /\ now < r.expires
    /\ \E m \in memory.config.members :
          /\ m.member = r.member
          /\ "relay" \in m.roles
          /\ "bootstrap" \in r.roles => "bootstrap" \in m.roles
    /\ Seal(WithRelay(memory.config, r, now), Nobody, Nobody)

RegisterRelay(r) ==
    /\ Ready
    /\ r.roles # {} /\ now < r.expires
    /\ \E m \in memory.config.members :
          /\ m.member = r.member
          /\ "relay" \in m.roles
          /\ "bootstrap" \in r.roles => "bootstrap" \in m.roles
          /\ r.expires <= m.expires
    /\ Seal(WithRelay(memory.config, r, now), Nobody, Nobody)

RemoveRelay(m) ==
    /\ Ready
    /\ \E r \in memory.config.relays : r.member = m
    /\ Seal(WithoutRelay(memory.config, m, now), Nobody, Nobody)

-----------------------------------------------------------------------------
\* The operations that put or delete one record, or seal one secret, and keep
\* nothing of it in memory.
InstallEnrollmentAppRoot(a) ==
    /\ Ready
    /\ a \in memory.config.apps
    /\ enrolled' = enrolled \cup {a}
    /\ UNCHANGED <<stored, history, bundles, invitations, now, memory, op, orphans, tickets>>

CreateInvitation(i, a, expires) ==
    /\ Ready
    /\ bundles[i] = Nobody
    /\ a \in memory.config.apps
    /\ now < expires
    /\ bundles' = [bundles EXCEPT ![i] = [app |-> a, expires |-> expires]]
    /\ invitations' = [invitations EXCEPT ![i] = bundles'[i]]
    /\ UNCHANGED <<stored, history, enrolled, now, memory, op, orphans, tickets>>

\* The record of an issued invitation has one version only, so that the
\* deletion of a dropped call, too, takes effect while it is still issued.
RevokeInvitation(i) ==
    /\ memory # Closed
    /\ invitations[i] \in Bundle
    /\ invitations' = [invitations EXCEPT ![i] = Nobody]
    /\ UNCHANGED <<stored, history, bundles, enrolled, now, memory, op, orphans, tickets>>

\* redeem_invitation_online: the signed bundle and the request must be good
\* now and the application root installed.
Redeemable(i, q) ==
    /\ Ready
    /\ invitations[i] # Nobody
    /\ now < bundles[i].expires
    /\ bundles[i].app \in enrolled
    /\ now < GoodUntil[q]

\* An unused invitation makes the applicant a member with a client binding ...
RedeemInvitation(i, q) ==
    /\ Redeemable(i, q)
    /\ invitations[i] \in Bundle
    /\ IsNew(Applicant[q])
    /\ LET until == Earlier(bundles[i].expires, GoodUntil[q])
           joined == WithMember(memory.config, Applicant[q], {"member"}, until, now)
           client == [app |-> bundles[i].app, member |-> Applicant[q],
                      role |-> "client", expires |-> until]
       IN  Seal([joined EXCEPT !.bindings = @ \cup {client}], q, i)

\* ... and a used one answers the request that used it with the same ticket.
RedeemAgain(i, q) ==
    /\ Redeemable(i, q)
    /\ invitations[i] \in Ticket /\ invitations[i].request = q
    /\ tickets' = tickets \cup {invitations[i]}
    /\ UNCHANGED <<durable, now, memory, op, orphans>>

-----------------------------------------------------------------------------
TicketOf(b) ==
    [request |-> b.request, revision |-> b.config.revision, invitation |-> b.invitation]

\* Mutant: the batch does not require the invitation record it read.
CommitsAnyInvitation(b) ==
    /\ b.base = stored.version
    /\ b.config.revision \notin DOMAIN history

\* The preconditions of the batch.
Commits(b) ==
    /\ b.base = stored.version
    /\ b.config.revision \notin DOMAIN history
    /\ b.invitation # Nobody => invitations[b.invitation] \in Bundle

\* Mutant: the batch leaves the invitation as it is.
StoreUnspent(b) ==
    /\ stored' = [version |-> stored.version + 1, config |-> b.config]
    /\ history' = [r \in DOMAIN history \cup {b.config.revision} |->
                      IF r = b.config.revision THEN b.config ELSE history[r]]
    /\ UNCHANGED <<bundles, invitations>>

\* Mutant: the batch does not put the history record.
StoreUnretained(b) ==
    /\ stored' = [version |-> stored.version + 1, config |-> b.config]
    /\ invitations' = [i \in Invitation |->
                          IF i = b.invitation THEN TicketOf(b) ELSE invitations[i]]
    /\ UNCHANGED <<history, bundles>>

\* The three records of a revision, and the used invitation with its ticket.
Store(b) ==
    /\ stored' = [version |-> stored.version + 1, config |-> b.config]
    /\ history' = [r \in DOMAIN history \cup {b.config.revision} |->
                      IF r = b.config.revision THEN b.config ELSE history[r]]
    /\ invitations' = [i \in Invitation |->
                          IF i = b.invitation THEN TicketOf(b) ELSE invitations[i]]
    /\ UNCHANGED bundles

\* Mutant: a joining member is answered before the commit is known to succeed.
CommitAnsweringFirst ==
    /\ op.phase = "commit"
    /\ IF Commits(op.batch)
       THEN Store(op.batch) /\ op' = [op EXCEPT !.phase = "back"]
       ELSE op' = Idle /\ UNCHANGED <<stored, history, bundles, invitations>>
    /\ tickets' = IF op.batch.request = Nobody THEN tickets ELSE tickets \cup {TicketOf(op.batch)}
    /\ UNCHANGED <<enrolled, now, memory, orphans>>

\* commit_config and the tail of redeem_invitation: the commit ...
Commit ==
    /\ op.phase = "commit"
    /\ IF Commits(op.batch)
       THEN Store(op.batch) /\ op' = [op EXCEPT !.phase = "back"]
       ELSE op' = Idle /\ UNCHANGED <<stored, history, bundles, invitations>>
    /\ UNCHANGED <<enrolled, now, memory, orphans, tickets>>

\* Mutant: the handle takes the versions but not the configuration it sealed.
ReadBackVersionOnly ==
    /\ op.phase = "back"
    /\ memory' = [memory EXCEPT !.version = stored.version]
    /\ op' = Idle
    /\ UNCHANGED <<durable, now, orphans, tickets>>

\* ... the read-back, which moves the handle and answers the caller
\* (invite_member reads once more before it does, which may fail) ...
ReadBack ==
    /\ op.phase = "back"
    /\ op.batch.invitation = Nobody => stored.config = op.batch.config
    /\ memory' = [version |-> stored.version, config |-> op.batch.config]
    /\ \/ op.batch.invitation = Nobody /\ UNCHANGED tickets
       \/ op.batch.request # Nobody /\ tickets' = tickets \cup {TicketOf(op.batch)}
    /\ op' = Idle
    /\ UNCHANGED <<durable, now, orphans>>

\* ... and the ways it ends early: a store call fails, or the future is
\* dropped, with its commit still to run or already done.
Abandon ==
    /\ op # Idle
    /\ op' = Idle
    /\ \/ UNCHANGED orphans
       \/ /\ op.phase = "commit"
          /\ Cardinality(orphans) < MaxOrphans
          /\ orphans' = orphans \cup {op.batch}
    /\ UNCHANGED <<durable, now, memory, tickets>>

\* The commit of a dropped future runs.
LateCommit(b) ==
    /\ orphans' = orphans \ {b}
    /\ IF Commits(b) THEN Store(b) ELSE UNCHANGED <<stored, history, bundles, invitations>>
    /\ UNCHANGED <<enrolled, now, memory, op, tickets>>

Next ==
    \/ Open \/ Stop \/ Tick
    \/ \E q \in Request, roles \in Grants, t \in Expiry : InviteMember(q, roles, t)
    \/ \E m \in Member : RevokeMember(m)
    \/ \E a \in App : RegisterApp(a) \/ InstallEnrollmentAppRoot(a)
    \/ \E b \in Bindings : AuthorizeAppBinding(b)
    \/ \E d \in DnsRecord : SetVirtualDns(d)
    \/ \E n \in Name : RemoveVirtualDns(n)
    \/ \E r \in Relays : RegisterRelay(r)
    \/ \E m \in Device : RemoveRelay(m)
    \/ \E i \in Invitation, a \in App, t \in Expiry : CreateInvitation(i, a, t)
    \/ \E i \in Invitation : RevokeInvitation(i)
    \/ \E i \in Invitation, q \in Request : RedeemInvitation(i, q) \/ RedeemAgain(i, q)
    \/ Commit \/ ReadBack \/ Abandon
    \/ \E b \in orphans : LateCommit(b)

Spec == Init /\ [][Next]_vars

-----------------------------------------------------------------------------
\* A handle at the stored version holds the stored configuration: a lost
\* read-back or a late commit can only leave it with an older version, whose
\* commits are refused.
MemoryTrue ==
    memory # Closed /\ memory.version = stored.version => memory.config = stored.config

\* The retained revisions are one unforked chain up to the stored one: each
\* follows the one before it and keeps what only grows.
HistoryChains ==
    \A r \in DOMAIN history :
        /\ history[r].revision = r /\ r <= stored.config.revision
        /\ r < stored.config.revision =>
              /\ r + 1 \in DOMAIN history
              /\ history[r].epoch <= history[r + 1].epoch
              /\ history[r].revoked \subseteq history[r + 1].revoked
              /\ history[r].apps \subseteq history[r + 1].apps
        /\ r = stored.config.revision => history[r] = stored.config

\* A serial is one certificate's for all time, revoked ones included: serials
\* are never handed out again (next_serial).
SerialsUnique ==
    \A r, s \in DOMAIN history : \A x \in history[r].members, y \in history[s].members :
        /\ x.serial = y.serial => x = y
        /\ x.serial # AdminSerial

\* A listed relay is backed by a listed member that may be one and whose
\* certificate lasts as long: no revocation or new certificate leaves a relay
\* behind that its member could not register now.
RelaysBacked ==
    \A r \in DOMAIN history : \A x \in history[r].relays :
        \E m \in history[r].members :
            m.member = x.member /\ "relay" \in m.roles /\ x.expires <= m.expires

\* Two revisions of one epoch have the same members: whoever was removed never
\* learns the epoch secrets of a revision that does not list them.
EpochNamesMembers ==
    \A r, s \in DOMAIN history :
        history[r].epoch = history[s].epoch => history[r].members = history[s].members

\* An invitation makes one member: every ticket handed out for it is the same,
\* and none is handed out unless the invitation was spent on it.
InvitationSpentOnce ==
    \A t \in tickets : t.invitation # Nobody => invitations[t.invitation] = t

\* The record of a revoked invitation is gone for good: no redemption that was
\* under way when it was revoked brings it back as used.
RevokedInvitationStaysUnspent ==
    [][\A i \in Invitation :
          bundles[i] # Nobody /\ invitations[i] = Nobody => invitations'[i] = Nobody]_vars

\* Whoever holds a ticket is listed in the revision the ticket names, and every
\* later revision is retained for them (config_updates_after).
TicketHolderCanFollow ==
    \A t \in tickets :
        /\ \A r \in t.revision..stored.config.revision : r \in DOMAIN history
        /\ \E m \in history[t.revision].members : m.member = Applicant[t.request]

\* Nothing but entries of the member itself has expired.
Unexpired(c, m) ==
    /\ now < Lifetime
    /\ \A x \in c.members : x.member # m => now < x.expires
    /\ \A b \in c.bindings : b.member # m => now < b.expires
    /\ \A r \in c.relays : r.member # m => now < r.expires
    /\ \A d \in c.dns : now < d.expires

\* Whatever the network has been through, a member can be revoked while nothing
\* else has expired: nothing of it is left behind that fails validation, and
\* serials are revoked up to the limit of the list.  At the limit nobody can be
\* revoked any more, as the list only grows.
RevocationPossible ==
    memory # Closed =>
        LET c == memory.config
        IN  \A m \in Listed(c) \ {Founder} :
                Unexpired(c, m) =>
                    (Validates(WithoutMember(c, m, now), now)
                        <=> Cardinality(c.revoked) < Limit.revoked)

=============================================================================
