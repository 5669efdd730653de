--------------------------- MODULE AuthorityProofs ---------------------------
(***************************************************************************)
(* That the revisions of an authority are one chain, that its invitations  *)
(* are spent once, that whoever holds a ticket can follow and that a       *)
(* member can always be revoked, whatever operations are run, dropped or   *)
(* left behind; that the relay binary drives its authority as the          *)
(* authority allows, so that all of this holds of a deployment; and that   *)
(* the recovery root and the access list of the server are what they       *)
(* should be, for any runs of init, members, requests and invitations.     *)
(***************************************************************************)
EXTENDS RelayServer, AuthorityChainProofs

-----------------------------------------------------------------------------
\* An operation that is under way has a batch, and a handle.
LEMMA UnderWay ==
    ASSUME TypeOK, Handle, op.phase \in {"commit", "back"}
    PROVE  /\ op \in [phase : {"commit", "back"}, batch : Batch] /\ op.batch \in Batch
           /\ memory # Closed /\ memory.version \in Nat
<1>1. op # Idle
  BY DEF Idle
<1> QED
  BY <1>1, Zenon DEF TypeOK, Handle

\* A batch commits, for the operation under way or for a dropped one.
LEMMA StoreStep ==
    ASSUME AInv, NEW b \in Batch, Prepared(b), Commits(b), Store(b),
           memory # Closed, op.phase # "back", UNCHANGED <<enrolled, now, memory, tickets>>,
           orphans' \subseteq orphans,
           op' = op \/ op' = [phase |-> "back", batch |-> b]
    PROVE  AInv'
<1> USE DEF AInv
<1>1. /\ memory.version \in Nat /\ stored.version \in Nat /\ memory.version <= stored.version
      /\ stored.config.revision \in DOMAIN history
  BY Zenon DEF TypeOK, Handle
<1>2. stored'.version = stored.version + 1 /\ stored'.config = b.config
      /\ b.config.revision \in DOMAIN history'
  BY Zenon DEF Store
<1>3. Chain'
  BY <1>1, StoreChain, Zenon
<1>4. /\ stored' \in [version : Nat, config : Config]
      /\ DOMAIN history' \subseteq Nat /\ \A r \in DOMAIN history' : history'[r] \in Config
      /\ bundles' \in [Invitation -> {Nobody} \cup Bundle]
      /\ invitations' \in [Invitation -> {Nobody} \cup Bundle \cup Ticket]
      /\ b.request # Nobody => TicketOf(b) \in Ticket
  BY StoreType, Zenon
<1>5. /\ Records'
      /\ b.request # Nobody => CanFollow(TicketOf(b))'
      /\ b.invitation # Nobody =>
            b.request # Nobody /\ invitations'[b.invitation] = TicketOf(b)
  BY <1>1, StoreRecords, Zenon
<1>6. op'.phase = "back" => op'.batch = b
  OBVIOUS
<1>7. op'.phase = "commit" => op' = op
  OBVIOUS
<1>8. TypeOK'
  <2>1. [phase |-> "back", batch |-> b] \in [phase : {"commit", "back"}, batch : Batch]
    BY Zenon
  <2> QED
    BY <1>4, <2>1, Zenon DEF TypeOK
<1>9. Handle'
  BY <1>1, <1>2, <1>6, <1>7 DEF Handle
<1>10. MemoryTrue'
  BY <1>1, <1>2 DEF MemoryTrue
<1>11. Batches'
  <2>1. ASSUME NEW x \in Batch, Prepared(x), x.base <= memory.version PROVE Prepared(x)'
    <3>1. x.base # stored'.version
      BY <1>1, <1>2, <2>1 DEF Batch
    <3> QED
      BY <2>1, <3>1, Zenon DEF Prepared
  <2>2. \A x \in orphans' : Prepared(x)'
    BY <2>1, Zenon DEF Batches, Handle, TypeOK
  <2>3. op'.phase = "commit" => Prepared(op.batch)'
    <3> SUFFICES ASSUME op.phase = "commit", op' = op PROVE Prepared(op.batch)'
      BY <1>7, Zenon
    <3>1. PICK x \in Batch : x = op.batch
      BY UnderWay, Zenon
    <3>2. Prepared(x) /\ x.base <= memory.version
      BY <1>1, <3>1 DEF Batches, Handle
    <3> QED
      BY <2>1, <3>1, <3>2, Zenon DEF Prepared
  <2> QED
    BY <1>7, <2>2, <2>3, Zenon DEF Batches
<1>12. Answering'
  BY <1>4, <1>5, <1>6, Zenon DEF Answering
<1> QED
  BY <1>3, <1>5, <1>8, <1>9, <1>10, <1>11, <1>12, Zenon

\* The operation under way ends with its batch unstored or left behind.
LEMMA AbandonStep ==
    ASSUME AInv, op' = Idle, UNCHANGED <<durable, now, memory, tickets>>,
           orphans' \subseteq orphans \cup (IF op.phase = "commit" THEN {op.batch} ELSE {}),
           memory # Closed
    PROVE  AInv'
<1> USE DEF AInv, durable
<1>1. op'.phase = "idle"
  BY Zenon DEF Idle
<1>2. op.phase = "commit" => op.batch \in Batch
  BY UnderWay, Zenon
<1>3. TypeOK'
  BY <1>2, Zenon DEF TypeOK
<1>4. Handle'
  <2>1. op.phase = "commit" => op.batch.base <= memory.version
    BY UnderWay DEF Handle
  <2> QED
    BY <1>1, <2>1, Zenon DEF Handle
<1>5. MemoryTrue'
  BY Zenon DEF MemoryTrue
<1>6. Batches'
  <2>1. \A x : Prepared(x)' <=> Prepared(x)
    BY Zenon DEF Prepared
  <2> QED
    BY <1>1, <2>1, Zenon DEF Batches
<1>7. Chain'
  BY DEF Chain, HistoryChains, EpochNamesMembers, SerialsUnique
<1>8. Records'
  BY Zenon DEF Records, CanFollow, InvitationSpentOnce
<1>9. Answering'
  BY <1>1, Zenon DEF Answering
<1> QED
  BY <1>3, <1>4, <1>5, <1>6, <1>7, <1>8, <1>9, Zenon

\* The commits.
LEMMA CommitStep ==
    ASSUME AInv, Commit \/ \E b \in orphans : LateCommit(b)
    PROVE  AInv'
<1> USE DEF AInv
<1>1. CASE Commit
  <2>1. op.phase = "commit" /\ op.batch \in Batch /\ memory # Closed
        /\ op \in [phase : {"commit", "back"}, batch : Batch]
    BY <1>1, UnderWay, Zenon DEF Commit
  <2>2. CASE Commits(op.batch)
    <3>1. [op EXCEPT !.phase = "back"] = [phase |-> "back", batch |-> op.batch]
      BY <2>1
    <3>2. Prepared(op.batch) /\ Store(op.batch) /\ op' = [phase |-> "back", batch |-> op.batch]
          /\ UNCHANGED <<enrolled, now, memory, orphans, tickets>>
      BY <1>1, <2>1, <2>2, <3>1, Zenon DEF Commit, Batches
    <3> QED
      BY <2>1, <2>2, <3>2, StoreStep, Zenon
  <2>3. CASE ~ Commits(op.batch)
    BY <1>1, <2>1, <2>3, AbandonStep, Zenon DEF Commit, durable
  <2> QED
    BY <2>2, <2>3, Zenon
<1>2. ASSUME NEW b \in orphans, LateCommit(b) PROVE AInv'
  <2>1. b \in Batch /\ Prepared(b) /\ memory # Closed /\ memory.version <= stored.version
        /\ b.base <= memory.version /\ memory.version \in Nat /\ stored.version \in Nat
    BY Zenon DEF TypeOK, Batches, Handle
  <2>2. orphans' \subseteq orphans /\ UNCHANGED <<enrolled, now, memory, op, tickets>>
    BY <1>2, Zenon DEF LateCommit
  <2>3. CASE Commits(b)
    <3>1. Store(b)
      BY <1>2, <2>3, Zenon DEF LateCommit
    <3>2. op.phase # "back"
      BY <2>1, <2>3 DEF Commits, Handle
    <3> QED
      BY <2>1, <2>2, <2>3, <3>1, <3>2, StoreStep, Zenon
  <2>4. CASE ~ Commits(b)
    <3>1. UNCHANGED <<stored, history, bundles, invitations>>
      BY <1>2, <2>4, Zenon DEF LateCommit
    <3>2. TypeOK' /\ Handle' /\ MemoryTrue'
      BY <2>1, <2>2, <3>1, Zenon DEF TypeOK, Handle, MemoryTrue
    <3>3. \A x : Prepared(x)' <=> Prepared(x)
      BY <3>1, Zenon DEF Prepared
    <3>4. Batches'
      BY <2>2, <3>3, Zenon DEF Batches
    <3>5. Chain'
      BY <3>1 DEF Chain, HistoryChains, EpochNamesMembers, SerialsUnique
    <3>6. Records' /\ Answering'
      BY <2>2, <3>1, Zenon DEF Records, CanFollow, InvitationSpentOnce, Answering
    <3> QED
      BY <3>2, <3>4, <3>5, <3>6, Zenon
  <2> QED
    BY <2>3, <2>4, Zenon
<1> QED
  BY <1>1, <1>2, Zenon

\* A new handle seeds the history, if it must.
LEMMA OpenStep ==
    ASSUME AInv, Open
    PROVE  AInv'
<1> USE DEF AInv
<1> DEFINE c == stored.config
           n == stored.config.revision
<1>1. /\ memory = Closed /\ op = Idle /\ orphans = {} /\ memory' = stored
      /\ UNCHANGED <<stored, bundles, invitations, enrolled, now, op, orphans, tickets>>
  BY Zenon DEF Open, Handle
<1>2. stored \in [version : Nat, config : Config] /\ stored # Closed /\ n \in Nat /\ Sound(c)
      /\ c.epoch \in Nat /\ c \in Config
  BY AbsenceAssumption, Zenon DEF TypeOK, Config, Chain
<1>3. /\ DOMAIN history' = DOMAIN history \cup {n} /\ history'[n] = c
      /\ \A r \in DOMAIN history : history'[r] = history[r]
  BY Zenon DEF Open
<1>4. op.phase = "idle"
  BY <1>1, Zenon DEF Idle
<1>5. TypeOK'
  BY <1>1, <1>2, <1>3, SMTT(30) DEF TypeOK
<1>6. Handle' /\ MemoryTrue' /\ Batches' /\ Answering'
  BY <1>1, <1>2, <1>3, <1>4, SMTT(30) DEF Handle, MemoryTrue, Batches, Answering
<1>7. Chain'
  <2>1. Behind(c, c)
    BY <1>2 DEF Behind, Sound
  <2>2. \A r \in DOMAIN history' : Behind(history'[r], c)
    BY <1>3, <2>1, Zenon DEF Chain
  <2>3. HistoryChains'
    <3> SUFFICES ASSUME NEW r \in DOMAIN history'
                 PROVE  /\ history'[r].revision = r /\ r <= n
                        /\ r < n =>
                              /\ r + 1 \in DOMAIN history'
                              /\ history'[r].epoch <= history'[r + 1].epoch
                              /\ history'[r].revoked \subseteq history'[r + 1].revoked
                              /\ history'[r].apps \subseteq history'[r + 1].apps
                        /\ r = n => history'[r] = c
      BY <1>1, Zenon DEF HistoryChains
    <3>1. CASE r \in DOMAIN history
      BY <1>3, <3>1, Zenon DEF Chain, HistoryChains
    <3>2. CASE r = n
      BY <1>2, <1>3, <3>2
    <3> QED
      BY <1>3, <3>1, <3>2, Zenon
  <2>4. EpochNamesMembers'
    <3> SUFFICES ASSUME NEW r \in DOMAIN history', NEW s \in DOMAIN history',
                        history'[r].epoch = history'[s].epoch
                 PROVE  history'[r].members = history'[s].members
      BY Zenon DEF EpochNamesMembers
    <3> QED
      BY <1>3, <2>2 DEF Chain, EpochNamesMembers, Behind
  <2>5. SerialsUnique'
    <3> SUFFICES ASSUME NEW r \in DOMAIN history', NEW s \in DOMAIN history',
                        NEW x \in history'[r].members, NEW y \in history'[s].members
                 PROVE  (x.serial = y.serial => x = y) /\ x.serial # AdminSerial
      BY Zenon DEF SerialsUnique
    <3>1. x.serial # AdminSerial
      BY <2>2 DEF Behind, Sound, Serials
    <3>2. CASE r \in DOMAIN history /\ s \in DOMAIN history
      BY <1>3, <3>2 DEF Chain, SerialsUnique
    <3>3. CASE s = n
      BY <1>3, <2>2, <3>1, <3>3, Zenon DEF Behind
    <3>4. CASE r = n
      BY <1>3, <2>2, <3>1, <3>4, Zenon DEF Behind
    <3> QED
      BY <1>3, <3>1, <3>2, <3>3, <3>4, Zenon
  <2> QED
    BY <1>1, <1>2, <2>2, <2>3, <2>4, <2>5, Zenon DEF Chain
<1>8. Records'
  <2>1. \A t : CanFollow(t) => CanFollow(t)'
    BY <1>1, <1>3, Zenon DEF CanFollow
  <2> QED
    BY <1>1, <2>1, Zenon DEF Records, InvitationSpentOnce
<1> QED
  BY <1>5, <1>6, <1>7, <1>8, Zenon

\* The process ends.
LEMMA StopStep ==
    ASSUME AInv, Stop
    PROVE  AInv'
<1> USE DEF AInv, Stop, durable
<1>1. op'.phase = "idle"
  BY Zenon DEF Idle
<1>2. TypeOK' /\ Handle' /\ MemoryTrue' /\ Batches' /\ Answering'
  BY <1>1, SMTT(30) DEF TypeOK, Handle, MemoryTrue, Batches, Answering
<1>3. Chain'
  BY SMTT(30) DEF Chain, HistoryChains, EpochNamesMembers, SerialsUnique
<1>4. Records'
  BY Zenon DEF Records, CanFollow, InvitationSpentOnce
<1> QED
  BY <1>2, <1>3, <1>4, Zenon

\* The read-back answers with what was stored.
LEMMA ReadBackStep ==
    ASSUME AInv, ReadBack
    PROVE  AInv'
<1> USE DEF AInv, durable
<1>1. PICK b \in Batch : op.batch = b
  BY UnderWay, Zenon DEF ReadBack
<1> DEFINE t == TicketOf(b)
<1>2. /\ op.phase = "back" /\ op' = Idle /\ stored.config = b.config
      /\ memory.version < stored.version /\ memory # Closed /\ memory.version \in Nat
      /\ UNCHANGED <<durable, now, orphans>>
      /\ memory' = [version |-> stored.version, config |-> stored.config]
      /\ tickets' = tickets \/ (b.request # Nobody /\ tickets' = tickets \cup {t})
  BY <1>1, UnderWay, SMTT(30) DEF ReadBack, Handle
<1>3. stored \in [version : Nat, config : Config] /\ memory' = stored /\ stored # Closed
      /\ Sound(stored.config)
  BY <1>2, AbsenceAssumption, SMTT(30) DEF TypeOK, Chain
<1>4. /\ b.request # Nobody => t \in Ticket /\ CanFollow(t)
      /\ b.invitation # Nobody => b.request # Nobody /\ invitations[b.invitation] = t
  BY <1>1, <1>2, Zenon DEF Answering
<1>5. op'.phase = "idle"
  BY <1>2, Zenon DEF Idle
<1>6. TypeOK'
  BY <1>2, <1>3, <1>4, Zenon DEF TypeOK
<1>7. Handle'
  BY <1>2, <1>3, <1>5 DEF Handle, TypeOK, Batch
<1>8. MemoryTrue' /\ Answering'
  BY <1>2, <1>3, <1>5, Zenon DEF MemoryTrue, Answering
<1>9. Batches'
  <2>1. \A x : Prepared(x)' <=> Prepared(x)
    BY <1>2, Zenon DEF Prepared
  <2> QED
    BY <1>2, <1>5, <2>1, Zenon DEF Batches
<1>10. Chain'
  BY <1>2, SMTT(30) DEF Chain, HistoryChains, EpochNamesMembers, SerialsUnique
<1>11. Records'
  <2>1. t.invitation = b.invitation
    BY SMTT(30) DEF TicketOf
  <2>2. \A x : CanFollow(x)' <=> CanFollow(x)
    BY <1>2, Zenon DEF CanFollow
  <2> HIDE DEF t
  <2> QED
    BY <1>2, <1>4, <2>1, <2>2, Zenon DEF Records, InvitationSpentOnce
<1> QED
  BY <1>6, <1>7, <1>8, <1>9, <1>10, <1>11, Zenon

LEMMA AuthorityInit == ASSUME Init PROVE AInv
<1> DEFINE g == Genesis(0)
<1>1. Sound(g) /\ g \in Config /\ g.revision = 0 /\ g.epoch \in Nat
  BY GenesisSound, Zenon DEF Sound, Genesis
<1>2. /\ stored = [version |-> 1, config |-> g] /\ stored.version = 1 /\ stored.config = g
      /\ DOMAIN history \subseteq {0} /\ \A r \in DOMAIN history : history[r] = g
      /\ memory = Closed /\ op = Idle /\ orphans = {} /\ tickets = {}
  BY Zenon DEF Init
<1> HIDE DEF g
<1>3. op.phase = "idle"
  BY <1>2, Zenon DEF Idle
<1>4. TypeOK
  BY <1>1, <1>2, SnapshotAssumption DEF Init, TypeOK, Time
<1>5. Handle /\ MemoryTrue /\ Batches /\ Answering
  BY <1>2, <1>3, Zenon DEF Handle, MemoryTrue, Batches, Answering
<1>6. Chain
  <2>1. Behind(g, g)
    BY <1>1 DEF Behind, Sound
  <2>2. HistoryChains /\ EpochNamesMembers
    BY <1>1, <1>2 DEF HistoryChains, EpochNamesMembers
  <2>3. SerialsUnique
    BY <1>1, <1>2, Zenon DEF SerialsUnique, Sound, Serials
  <2> QED
    BY <1>1, <1>2, <2>1, <2>2, <2>3, Zenon DEF Chain
<1>7. Records
  BY <1>2, TicketNotBundle, Zenon DEF Records, InvitationSpentOnce, Init
<1> QED
  BY <1>4, <1>5, <1>6, <1>7, Zenon DEF AInv

LEMMA AuthorityStep == ASSUME AInv, [Next]_vars PROVE AInv'
<1>1. CASE Open
  BY <1>1, OpenStep, Zenon
<1>2. CASE Stop
  BY <1>2, StopStep, Zenon
<1>3. CASE \/ Tick
           \/ \E a \in App : InstallEnrollmentAppRoot(a)
           \/ \E i \in Invitation, a \in App, t \in Expiry : CreateInvitation(i, a, t)
           \/ \E i \in Invitation : RevokeInvitation(i)
           \/ \E i \in Invitation, q \in Request : RedeemAgain(i, q)
  BY <1>3, RecordStep, Zenon
<1>4. CASE Sealing
  BY <1>4, SealingStep, Zenon
<1>5. CASE Commit \/ \E b \in orphans : LateCommit(b)
  BY <1>5, CommitStep, Zenon
<1>6. CASE ReadBack
  BY <1>6, ReadBackStep, Zenon
<1>7. CASE Abandon
  <2>1. memory # Closed
    BY <1>7, Zenon DEF AInv, Handle, Abandon
  <2>2. /\ op' = Idle /\ UNCHANGED <<durable, now, memory, tickets>>
        /\ orphans' \subseteq orphans \cup (IF op.phase = "commit" THEN {op.batch} ELSE {})
    BY <1>7, Zenon DEF Abandon
  <2> QED
    BY <2>1, <2>2, AbandonStep, Zenon
<1>8. CASE UNCHANGED vars
  <2> USE <1>8 DEF vars, AInv
  <2>1. /\ Handle' /\ MemoryTrue' /\ Batches' /\ Chain'
        /\ \A t : CanFollow(t)' <=> CanFollow(t)
    BY SameChain, Zenon
  <2>2. TypeOK' /\ Records' /\ Answering'
    BY <2>1, Zenon DEF TypeOK, Records, InvitationSpentOnce, Answering
  <2> QED
    BY <2>1, <2>2, Zenon
<1> QED
  BY <1>1, <1>2, <1>3, <1>4, <1>5, <1>6, <1>7, <1>8, Zenon DEF Next, Sealing

LEMMA AuthorityAlways == Spec => []AInv
BY AuthorityInit, AuthorityStep, PTL DEF Spec

-----------------------------------------------------------------------------
\* What is stored, retained and remembered has its type (Authority::open,
\* commit_config).
THEOREM AuthorityTypeAlways == Spec => []TypeOK
<1>1. AInv => TypeOK
  BY Zenon DEF AInv
<1> QED
  BY <1>1, AuthorityAlways, PTL

\* A handle at the stored version holds the stored configuration, whatever
\* read-back was lost and whatever dropped commit landed (commit_config).
THEOREM MemoryTrueAlways == Spec => []MemoryTrue
<1>1. AInv => MemoryTrue
  BY Zenon DEF AInv
<1> QED
  BY <1>1, AuthorityAlways, PTL

\* The retained revisions are one chain without a gap or a fork (commit_config,
\* config_updates_after), however many operations were dropped on the way.
THEOREM HistoryChainsAlways == Spec => []HistoryChains
<1>1. AInv => HistoryChains
  BY Zenon DEF AInv, Chain
<1> QED
  BY <1>1, AuthorityAlways, PTL

\* Two revisions of one epoch have the same members (invite_member,
\* revoke_member, redeem_invitation).
THEOREM EpochNamesMembersAlways == Spec => []EpochNamesMembers
<1>1. AInv => EpochNamesMembers
  BY Zenon DEF AInv, Chain
<1> QED
  BY <1>1, AuthorityAlways, PTL

\* No serial is handed out twice, that of a revoked certificate included
\* (next_serial).
THEOREM SerialsUniqueAlways == Spec => []SerialsUnique
<1>1. AInv => SerialsUnique
  BY SMTT(30) DEF AInv, Chain
<1> QED
  BY <1>1, AuthorityAlways, PTL

\* No revision lists a relay that its member could not register (register_relay,
\* revoke_member).
THEOREM RelaysBackedAlways == Spec => []RelaysBacked
<1>1. AInv => RelaysBacked
  BY Zenon DEF AInv, Chain, Behind, Sound, RelaysBacked
<1> QED
  BY <1>1, AuthorityAlways, PTL

\* An invitation is spent on one ticket (redeem_invitation).
THEOREM InvitationSpentOnceAlways == Spec => []InvitationSpentOnce
<1>1. AInv => InvitationSpentOnce
  BY Zenon DEF AInv, Records
<1> QED
  BY <1>1, AuthorityAlways, PTL

\* Whoever holds a ticket is listed in the revision it names and finds every
\* later one retained (config_updates_after).
THEOREM TicketHolderCanFollowAlways == Spec => []TicketHolderCanFollow
<1>1. AInv => TicketHolderCanFollow
  BY DEF AInv, Records, CanFollow, TicketHolderCanFollow, Listed
<1> QED
  BY <1>1, AuthorityAlways, PTL

\* An invitation that was revoked stays unspent, also by a redemption that was
\* under way (revoke_invitation against redeem_invitation).
THEOREM RevokedInvitationStaysUnspentAlways == Spec => RevokedInvitationStaysUnspent
<1> DEFINE A == \A i \in Invitation :
                   bundles[i] # Nobody /\ invitations[i] = Nobody => invitations'[i] = Nobody
<1>1. ASSUME AInv, [Next]_vars PROVE A
  <2> SUFFICES ASSUME NEW i \in Invitation, bundles[i] # Nobody, invitations[i] = Nobody
               PROVE  invitations'[i] = Nobody
    BY Zenon
  <2>1. Nobody \notin Bundle /\ invitations \in [Invitation -> {Nobody} \cup Bundle \cup Ticket]
    BY <1>1, AbsenceAssumption, Zenon DEF AInv, TypeOK
  <2>2. ASSUME NEW b, Commits(b), Store(b) PROVE invitations'[i] = Nobody
    <3>1. b.invitation # i
      BY <2>1, <2>2, AuthorityAssumption, Zenon DEF Commits
    <3> QED
      BY <2>2, <3>1, Zenon DEF Store
  <2>3. CASE Commit \/ \E b \in orphans : LateCommit(b)
    BY <2>2, <2>3, Zenon DEF Commit, LateCommit
  <2>4. ASSUME NEW j \in Invitation, NEW a \in App, NEW t \in Expiry, CreateInvitation(j, a, t)
        PROVE  invitations'[i] = Nobody
    BY <2>1, <2>4, Zenon DEF CreateInvitation
  <2>5. ASSUME NEW j \in Invitation, RevokeInvitation(j) PROVE invitations'[i] = Nobody
    BY <2>1, <2>5, Zenon DEF RevokeInvitation
  <2>6. CASE UNCHANGED invitations
    BY <2>6, Zenon
  <2>7. CASE Sealing
    BY <2>6, <2>7, ZenonT(30) DEF Sealing, InviteMember, RevokeMember, RegisterApp, AuthorizeAppBinding,
          SetVirtualDns, RemoveVirtualDns, RegisterRelay, RemoveRelay, RedeemInvitation, Seal, durable
  <2>8. CASE Open \/ Stop \/ Tick \/ ReadBack \/ Abandon \/ UNCHANGED vars
             \/ (\E a \in App : InstallEnrollmentAppRoot(a))
             \/ \E j \in Invitation, q \in Request : RedeemAgain(j, q)
    BY <2>6, <2>8, Zenon DEF Open, Stop, Tick, ReadBack, Abandon, vars, InstallEnrollmentAppRoot,
                      RedeemAgain, durable
  <2> QED
    BY <1>1, <2>3, <2>4, <2>5, <2>7, <2>8, Zenon DEF Next, Sealing
<1>2. AInv /\ [Next]_vars => [A]_vars
  BY <1>1, Zenon
<1>3. RevokedInvitationStaysUnspent <=> [][A]_vars
  BY Zenon DEF RevokedInvitationStaysUnspent
<1> HIDE DEF A
<1> QED
  BY <1>2, <1>3, AuthorityAlways, PTL DEF Spec

-----------------------------------------------------------------------------
\* Every step of the binary is a step of the authority, or none.
LEMMA RelayStepIsAuthorityStep == ASSUME [RelayNext]_allVars PROVE [Next]_vars
<1>1. CASE \E f \in InitRun :
              \/ StageNetwork(f) \/ CreateRecoveryRoot(f) \/ WriteRecoveryRoot(f)
              \/ RenameStaging(f) \/ FoundingFails(f)
  BY <1>1, SMTT(30) DEF StageNetwork, CreateRecoveryRoot, WriteRecoveryRoot, RenameStaging, FoundingFails
<1>2. CASE DiscardRecovery \/ \E t \in pending : Refresh(t)
  BY <1>2, SMTT(30) DEF DiscardRecovery, Refresh
<1>3. CASE StartCommand \/ StartServing \/ Reload
  BY <1>3, Zenon DEF StartCommand, StartServing, Reload, allVars, Next
<1>4. CASE EndProcess \/ (Tick /\ UNCHANGED relayVars)
  BY <1>4, Zenon DEF EndProcess, Next
<1>5. CASE RunCommand
  BY <1>5, Zenon DEF RunCommand, MemberOperation, AppOperation, DirectoryOperation, Next
<1>6. CASE \E i \in Invitation, q \in Request : Redeem(i, q)
  BY <1>6, Zenon DEF Redeem, Next
<1>7. CASE RunCommit \/ RunReadBack
  BY <1>7, Zenon DEF RunCommit, RunReadBack, Next
<1>8. CASE RunFails
  BY <1>8, Zenon DEF RunFails, Abandon, Next
<1>9. CASE UNCHANGED allVars
  BY <1>9, Zenon DEF allVars
<1> QED
  BY <1>1, <1>2, <1>3, <1>4, <1>5, <1>6, <1>7, <1>8, <1>9, Zenon DEF RelayNext

\* The binary implements the authority: each of its processes drives the
\* Authority value through the operations the library offers and no other way.
THEOREM RelayImplementsAuthority == RelaySpec => Spec
<1>1. RelayInit => Init
  BY Zenon DEF RelayInit
<1>2. [RelayNext]_allVars => [Next]_vars
  BY RelayStepIsAuthorityStep, SMTT(30)
<1> QED
  BY <1>1, <1>2, PTL DEF RelaySpec, Spec

-----------------------------------------------------------------------------
\* What a run of init has left behind at each of its steps.
Founding ==
    /\ founding \in [InitRun -> FoundingPhase]
    /\ recovery \in {Nobody} \cup [of : InitRun, whole : BOOLEAN]
    /\ root \in {Nobody} \cup InitRun
    /\ \A f \in InitRun :
          /\ founding[f] = "writing" => recovery = [of |-> f, whole |-> FALSE]
          /\ founding[f] = "written" => recovery = [of |-> f, whole |-> TRUE]
          /\ root = f => founding[f] = "founded" /\ recovery = [of |-> f, whole |-> TRUE]

LEMMA FoundingStep == ASSUME Founding, [RelayNext]_allVars PROVE Founding'
<1> USE RelayServerAssumption DEF Founding, FoundingPhase
<1>1. ASSUME NEW f \in InitRun, StageNetwork(f) PROVE Founding'
  BY <1>1, Zenon DEF StageNetwork
<1>2. ASSUME NEW f \in InitRun, CreateRecoveryRoot(f) PROVE Founding'
  <2>1. CASE recovery = Nobody
    <3>1. \A g \in InitRun : founding[g] \notin {"writing", "written"} /\ root # g
      <4>1. \A g \in InitRun, w \in BOOLEAN : [of |-> g, whole |-> w] # Nobody
        OBVIOUS
      <4> QED
        BY <2>1, <4>1, Zenon
    <3>2. /\ recovery' = [of |-> f, whole |-> FALSE] /\ root' = root
          /\ founding' = [founding EXCEPT ![f] = "writing"]
      BY <1>2, <2>1, Zenon DEF CreateRecoveryRoot
    <3> QED
      BY <3>1, <3>2, Zenon
  <2>2. CASE recovery # Nobody
    BY <1>2, <2>2, Zenon DEF CreateRecoveryRoot
  <2> QED
    BY <2>1, <2>2, Zenon
<1>3. ASSUME NEW f \in InitRun, WriteRecoveryRoot(f) PROVE Founding'
  <2>0. recovery = [of |-> f, whole |-> FALSE] /\ recovery' = [recovery EXCEPT !.whole = TRUE]
    BY <1>3, Zenon DEF WriteRecoveryRoot
  <2>1. recovery = [of |-> f, whole |-> FALSE] /\ recovery' = [of |-> f, whole |-> TRUE]
    BY <2>0, Zenon
  <2>2. recovery.of = f /\ recovery.whole = FALSE
    BY <2>1, Zenon
  <2>3. \A g \in InitRun : g # f => founding[g] # "writing"
    BY <2>2
  <2>4. \A g \in InitRun : founding[g] # "written" /\ root # g
    BY <2>2
  <2> QED
    BY <1>3, <2>1, <2>3, <2>4, Zenon DEF WriteRecoveryRoot
<1>4. ASSUME NEW f \in InitRun, RenameStaging(f) PROVE Founding'
  BY <1>4, Zenon DEF RenameStaging
<1>5. ASSUME NEW f \in InitRun, FoundingFails(f) PROVE Founding'
  BY <1>5, Zenon DEF FoundingFails
<1>6. CASE DiscardRecovery
  <2>1. \A f \in InitRun : founding[f] \notin {"writing", "written"} /\ root # f
    BY <1>6 DEF DiscardRecovery
  <2> QED
    BY <1>6, <2>1, Zenon DEF DiscardRecovery
<1>7. CASE UNCHANGED <<founding, recovery, root>>
  BY <1>7, Zenon
<1>8. ASSUME NEW i \in Invitation, NEW q \in Request, Redeem(i, q)
      PROVE  UNCHANGED <<founding, recovery, root>>
  BY <1>8, Zenon DEF Redeem
<1>9. CASE \/ StartCommand \/ StartServing \/ Reload \/ EndProcess \/ RunCommand \/ RunCommit
           \/ RunReadBack \/ RunFails \/ (Tick /\ UNCHANGED relayVars) \/ UNCHANGED allVars
           \/ \E t \in pending : Refresh(t)
  <2>1. UNCHANGED <<founding, recovery, root>>
    BY <1>9, Zenon DEF StartCommand, StartServing, Reload, EndProcess, RunCommand, RunCommit,
                RunReadBack, RunFails, Refresh, allVars, relayVars
  <2> QED
    BY <1>7, <2>1, Zenon
<1> QED
  BY <1>1, <1>2, <1>3, <1>4, <1>5, <1>6, <1>7, <1>8, <1>9, Zenon DEF RelayNext

\* A network that exists has its recovery root on file, whole
\* (Authority::initialize, write_recovery_root), however many runs of init
\* failed or crashed, and whichever of them came first.
THEOREM RecoveryRootKeptAlways == RelaySpec => []RecoveryRootKept
<1>1. RelayInit => Founding
  BY RelayServerAssumption, Zenon DEF RelayInit, Founding, FoundingPhase
<1>2. Founding => RecoveryRootKept
  BY Zenon DEF Founding, RecoveryRootKept
<1> QED
  BY <1>1, <1>2, FoundingStep, PTL DEF RelaySpec

-----------------------------------------------------------------------------
\* The server's access list, against what its handle lists and its tasks are
\* about to answer.  A task that is under way adds one member ...
Joining ==
    op # Idle =>
        /\ op.batch.request # Nobody /\ op.batch.invitation # Nobody
        /\ Listed(op.batch.config) = Listed(memory.config) \cup {Applicant[op.batch.request]}

\* ... and its ticket is a new one.
Serving ==
    /\ process \in {"none", "command", "spent", "serve"}
    /\ process = "none" <=> memory = Closed
    /\ orphans = {}
    /\ allowed \subseteq Device
    /\ pending \subseteq tickets /\ answered \subseteq tickets
    /\ process # "serve" => pending = {}
    /\ op.phase = "back" => \A t \in tickets : t.revision < stored.config.revision
    /\ process = "serve" => Joining /\ allowed \subseteq Listed(memory.config)
    /\ AnsweredIsAllowed

LEMMA ListedDevices == ASSUME NEW c \in Config PROVE Listed(c) \subseteq Device
BY Zenon DEF Listed, Config, Certificate

\* A process starts.
LEMMA StartStep == ASSUME AInv, Serving, StartCommand \/ StartServing PROVE Serving'
<1>1. /\ Open /\ process = "none" /\ process' \in {"command", "serve"}
      /\ pending' = pending /\ answered' = answered
      /\ \/ process' = "command" /\ allowed' = allowed
         \/ process' = "serve" /\ allowed' = Listed(memory'.config)
  BY Zenon DEF StartCommand, StartServing
<1>2. /\ memory' = stored /\ memory' # Closed /\ stored.config \in Config
      /\ op = Idle /\ op.phase = "idle" /\ op' = op /\ orphans' = orphans /\ tickets' = tickets
  BY <1>1, AbsenceAssumption DEF Open, AInv, TypeOK, Handle, Idle
<1>3. Listed(memory'.config) \subseteq Device
  BY <1>2, ListedDevices, Zenon
<1>4. allowed' \subseteq Device
  BY <1>1, <1>3, Zenon DEF Serving
<1>5. process' = "serve" => Joining' /\ allowed' = Listed(memory'.config)
  BY <1>1, <1>2, Zenon DEF Joining
<1>6. AnsweredIsAllowed'
  BY <1>5, Zenon DEF AnsweredIsAllowed
<1> QED
  BY <1>1, <1>2, <1>4, <1>5, <1>6, Zenon DEF Serving

\* A command runs.
LEMMA CommandStep == ASSUME AInv, Serving, RunCommand PROVE Serving'
<1>1. /\ process = "command" /\ process' = "spent"
      /\ UNCHANGED <<allowed, pending, answered>>
  BY Zenon DEF RunCommand
<1> DEFINE Kept == /\ UNCHANGED <<stored, memory, orphans, tickets>>
                   /\ op' = op \/ op'.phase = "commit"
<1>2. ASSUME NEW c, NEW q, NEW i, Seal(c, q, i) PROVE Kept
  BY <1>2, SMTT(30) DEF Seal, durable
<1>3. ASSUME MemberOperation PROVE Kept
  BY <1>2, <1>3, Zenon DEF MemberOperation, InviteMember, CreateInvitation, RevokeInvitation, RevokeMember
<1>4. ASSUME AppOperation PROVE Kept
  BY <1>2, <1>4, SMTT(30) DEF AppOperation, RegisterApp, InstallEnrollmentAppRoot, AuthorizeAppBinding
<1>5. ASSUME DirectoryOperation PROVE Kept
  BY <1>2, <1>5, Zenon DEF DirectoryOperation, SetVirtualDns, RemoveVirtualDns, RegisterRelay, RemoveRelay
<1>6. Kept
  BY <1>3, <1>4, <1>5, Zenon DEF RunCommand
<1> QED
  BY <1>1, <1>6, Zenon DEF Serving, AnsweredIsAllowed

\* A task redeems an invitation.
LEMMA RedeemStep ==
    ASSUME AInv, Serving, NEW i \in Invitation, NEW q \in Request, Redeem(i, q)
    PROVE  Serving'
<1>1. /\ process = "serve" /\ UNCHANGED <<process, allowed, answered, memory, orphans, stored>>
      /\ op = Idle /\ memory # Closed
  BY Zenon DEF Redeem, RedeemInvitation, RedeemAgain, Redeemable, Ready, Seal, durable
<1>2. op.phase = "idle"
  BY <1>1, SMTT(30) DEF Idle
<1>3. CASE RedeemInvitation(i, q) /\ UNCHANGED pending
  <2> DEFINE c == memory.config
             until == Earlier(bundles[i].expires, GoodUntil[q])
             joined == WithMember(c, Applicant[q], {"member"}, until, now)
             client == [app |-> bundles[i].app, member |-> Applicant[q],
                        role |-> "client", expires |-> until]
             d == [joined EXCEPT !.bindings = @ \cup {client}]
             new == [member |-> Applicant[q], serial |-> NextSerial(c),
                     roles |-> {"member"}, expires |-> until]
  <2>1. /\ op' = [phase |-> "commit", batch |-> [base |-> memory.version, config |-> d,
                                                 request |-> q, invitation |-> i]]
        /\ tickets' = tickets
    BY <1>3, Zenon DEF RedeemInvitation, Seal
  <2>2. d.members = c.members \cup {new} /\ new.member = Applicant[q]
    <3>1. c \in Config
      BY <1>1, Zenon DEF AInv, TypeOK
    <3> QED
      BY <3>1, Zenon DEF WithMember, NextEpoch, NextRevision, Config
  <2> HIDE DEF d, new
  <2>3. Listed(d) = Listed(c) \cup {Applicant[q]}
    BY <2>2, Zenon DEF Listed
  <2>4. op'.phase = "commit" /\ op'.batch.config = d /\ op'.batch.request = q
        /\ op'.batch.invitation = i
    BY <2>1, Zenon
  <2>5. q # Nobody /\ i # Nobody
    BY AuthorityAssumption, Zenon
  <2>6. Joining'
    BY <1>1, <2>3, <2>4, <2>5, SMTT(30) DEF Joining
  <2> QED
    BY <1>1, <1>3, <2>1, <2>4, <2>6, Zenon DEF Serving, AnsweredIsAllowed
<1>4. CASE RedeemAgain(i, q) /\ pending' = pending \cup {invitations[i]}
  <2>1. tickets' = tickets \cup {invitations[i]} /\ op' = op
    BY <1>4, Zenon DEF RedeemAgain
  <2>2. Joining'
    BY <1>1, <2>1, Zenon DEF Joining
  <2> QED
    BY <1>1, <1>2, <1>4, <2>1, <2>2, Zenon DEF Serving, AnsweredIsAllowed
<1> QED
  BY <1>3, <1>4, Zenon DEF Redeem

\* Its commit, whose ticket names a revision no ticket names yet.
LEMMA RunCommitStep == ASSUME AInv, Serving, RunCommit PROVE Serving'
<1> USE DEF AInv
<1>1. /\ op.phase = "commit" /\ UNCHANGED <<memory, orphans, tickets>> /\ UNCHANGED relayVars
  BY Zenon DEF RunCommit, Commit
<1>2. PICK b \in Batch : op.batch = b
  BY <1>1, UnderWay, Zenon
<1>3. op \in [phase : {"commit", "back"}, batch : Batch] /\ memory # Closed /\ op # Idle
  BY <1>1, UnderWay DEF Idle
<1>4. CASE Commits(b)
  <2>1. Store(b) /\ op' = [op EXCEPT !.phase = "back"] /\ Prepared(b)
    BY <1>1, <1>2, <1>4, Zenon DEF RunCommit, Commit, Batches
  <2>2. op'.batch = b /\ op' # Idle
    BY <1>2, <1>3, <2>1, Zenon DEF Idle
  <2>3. /\ stored'.config = b.config /\ b.config.revision = stored.config.revision + 1
        /\ stored.config.revision \in Nat
    BY <1>4, <2>1, SMTT(30) DEF Store, Prepared, Commits, Follows, TypeOK, Config
  <2>4. \A t \in tickets : t.revision < stored'.config.revision
    <3> SUFFICES ASSUME NEW t \in tickets PROVE t.revision <= stored.config.revision /\ t.revision \in Nat
      BY <2>3
    <3> QED
      BY Zenon DEF Records, CanFollow, Chain, HistoryChains, TypeOK
  <2>5. Joining => Joining'
    BY <1>1, <1>2, <1>3, <2>2, SMTT(30) DEF Joining
  <2> QED
    BY <1>1, <2>4, <2>5, Zenon DEF Serving, AnsweredIsAllowed, relayVars
<1>5. CASE ~ Commits(b)
  <2>1. op' = Idle /\ op'.phase = "idle"
    BY <1>1, <1>2, <1>5, SMTT(30) DEF RunCommit, Commit, Idle
  <2> QED
    BY <1>1, <2>1, Zenon DEF Serving, AnsweredIsAllowed, relayVars, Joining
<1> QED
  BY <1>4, <1>5, Zenon

\* Its read-back.
LEMMA RunReadBackStep == ASSUME AInv, Serving, RunReadBack PROVE Serving'
<1> USE DEF AInv
<1>1. /\ op.phase = "back" /\ op' = Idle /\ op'.phase = "idle"
      /\ UNCHANGED <<stored, orphans, process, allowed, answered>>
  BY Zenon DEF RunReadBack, ReadBack, Idle, durable
<1>2. PICK b \in Batch : op.batch = b
  BY <1>1, UnderWay, SMTT(30)
<1> DEFINE t == TicketOf(b)
<1>3. /\ memory' = [version |-> stored.version, config |-> b.config] /\ memory # Closed
      /\ stored.config = b.config /\ op # Idle
      /\ \/ b.invitation = Nobody /\ tickets' = tickets
         \/ b.request # Nobody /\ tickets' = tickets \cup {t}
      /\ pending' = IF process = "serve" THEN pending \cup (tickets' \ tickets) ELSE pending
  BY <1>1, <1>2, UnderWay, SMTT(30) DEF RunReadBack, ReadBack, Handle, Idle
<1>4. memory' # Closed /\ memory'.config = b.config
  <2>1. memory' \in [version : Nat, config : Config]
    BY <1>3, SMTT(30) DEF TypeOK
  <2> QED
    BY <1>3, <2>1, AbsenceAssumption, Zenon
<1>5. t.revision = stored.config.revision /\ t.request = b.request
  BY <1>3, Zenon DEF TicketOf
<1> HIDE DEF t
<1>6. t \notin tickets
  <2>1. \A u \in tickets : u.revision < stored.config.revision /\ u.revision \in Nat
    BY <1>1, SMTT(30) DEF Serving, TypeOK, Ticket
  <2>2. stored.config.revision \in Nat
    BY Zenon DEF TypeOK, Config
  <2> QED
    BY <1>5, <2>1, <2>2
<1>7. /\ process' = "none" <=> memory' = Closed
      /\ pending' \subseteq tickets' /\ answered' \subseteq tickets'
  BY <1>1, <1>3, <1>4, Zenon DEF Serving
<1>8. ASSUME process = "serve"
      PROVE  Joining' /\ allowed \subseteq Listed(b.config) /\ AnsweredIsAllowed'
  <2>1. /\ b.invitation # Nobody
        /\ Listed(b.config) = Listed(memory.config) \cup {Applicant[b.request]}
        /\ allowed \subseteq Listed(memory.config)
    BY <1>2, <1>3, <1>8, Zenon DEF Serving, Joining
  <2>2. pending' = pending \cup {t} /\ t \notin answered
    BY <1>3, <1>6, <1>8, <2>1, SMTT(30) DEF Serving
  <2>3. AnsweredIsAllowed'
    BY <1>1, <1>4, <1>5, <1>8, <2>1, <2>2 DEF Serving, AnsweredIsAllowed
  <2> QED
    BY <1>1, <2>1, <2>3, SMTT(30) DEF Joining
<1>9. AnsweredIsAllowed'
  BY <1>1, <1>8, Zenon DEF AnsweredIsAllowed
<1> QED
  BY <1>1, <1>3, <1>4, <1>7, <1>8, <1>9, SMTT(30) DEF Serving

LEMMA ServingStep == ASSUME AInv, Serving, [RelayNext]_allVars PROVE Serving'
<1>1. ASSUME UNCHANGED <<stored, memory, op, orphans, tickets, serverVars>> PROVE Serving'
  BY <1>1, Zenon DEF Serving, Joining, AnsweredIsAllowed, serverVars
<1>2. CASE \/ \E f \in InitRun :
                 \/ StageNetwork(f) \/ CreateRecoveryRoot(f) \/ WriteRecoveryRoot(f)
                 \/ RenameStaging(f) \/ FoundingFails(f)
           \/ DiscardRecovery
  <2>1. UNCHANGED <<vars, serverVars>>
    BY <1>2, Zenon DEF StageNetwork, CreateRecoveryRoot, WriteRecoveryRoot, RenameStaging,
                FoundingFails, DiscardRecovery
  <2> QED
    BY <1>1, <2>1, Zenon DEF vars
<1>3. CASE (Tick /\ UNCHANGED relayVars) \/ UNCHANGED allVars
  BY <1>1, <1>3, Zenon DEF Tick, durable, relayVars, serverVars, allVars, vars
<1>4. CASE StartCommand \/ StartServing
  BY <1>4, StartStep, Zenon
<1>5. CASE RunCommand
  BY <1>5, CommandStep, Zenon
<1>6. CASE EndProcess
  <2>1. op'.phase = "idle"
    BY <1>6, Zenon DEF EndProcess, Stop, Idle
  <2> QED
    BY <1>6, <2>1, Zenon DEF EndProcess, Stop, Serving, AnsweredIsAllowed
<1>7. CASE \E i \in Invitation, q \in Request : Redeem(i, q)
  BY <1>7, RedeemStep, SMTT(30)
<1>8. CASE RunCommit
  BY <1>8, RunCommitStep, Zenon
<1>9. CASE RunReadBack
  BY <1>9, RunReadBackStep, Zenon
<1>10. CASE RunFails
  <2>1. op' = Idle /\ op'.phase = "idle" /\ UNCHANGED <<memory, orphans, tickets, relayVars>>
    BY <1>10, SMTT(30) DEF RunFails, Idle
  <2> QED
    BY <2>1, Zenon DEF Serving, Joining, AnsweredIsAllowed, relayVars
<1>11. ASSUME NEW t \in pending, Refresh(t) PROVE Serving'
  <2>1. /\ op = Idle /\ UNCHANGED <<vars, process>> /\ allowed' = Listed(memory.config)
        /\ pending' \subseteq tickets /\ answered' \subseteq tickets
    BY <1>11, Zenon DEF Refresh, Serving
  <2>2. memory # Closed /\ process = "serve"
    BY Zenon DEF Serving
  <2>3. Listed(memory.config) \subseteq Device
    BY <2>2, ListedDevices, Zenon DEF AInv, TypeOK
  <2> QED
    BY <2>1, <2>2, <2>3, SMTT(30) DEF Serving, Joining, AnsweredIsAllowed, vars
<1>12. CASE Reload
  <2>1. UNCHANGED allVars
    BY <1>12, Zenon DEF Reload, Serving
  <2> QED
    BY <1>1, <2>1, Zenon DEF allVars, relayVars, serverVars, vars
<1> QED
  BY <1>2, <1>3, <1>4, <1>5, <1>6, <1>7, <1>8, <1>9, <1>10, <1>11, <1>12, SMTT(30) DEF RelayNext

LEMMA ServingAlways == RelaySpec => [](AInv /\ Serving)
<1>1. RelayInit => Serving
  <2> SUFFICES ASSUME RelayInit PROVE Serving
    BY Zenon
  <2>1. op.phase = "idle"
    BY Zenon DEF RelayInit, Init, Idle
  <2> QED
    BY <2>1, Zenon DEF RelayInit, Init, Serving, AnsweredIsAllowed
<1>2. RelaySpec => []AInv
  BY RelayImplementsAuthority, AuthorityAlways, PTL
<1> QED
  BY <1>1, <1>2, ServingStep, PTL DEF RelaySpec

\* What the processes hold has its type, and a process has the database open
\* exactly as long as a handle lives (serve, the commands of main.rs).
THEOREM RelayTypeAlways == RelaySpec => []RelayTypeOK
<1>1. RelayInit => Founding
  BY RelayServerAssumption, Zenon DEF RelayInit, Founding, FoundingPhase
<1>2. RelaySpec => []Founding
  BY <1>1, FoundingStep, PTL DEF RelaySpec
<1>3. AInv /\ Serving /\ Founding => RelayTypeOK
  BY Zenon DEF AInv, Serving, Founding, RelayTypeOK
<1> QED
  BY <1>2, <1>3, ServingAlways, PTL

\* No member that was answered is kept out, in whatever order the tasks of the
\* bootstrap endpoint commit, read back and refresh the list
\* (start_bootstrap_endpoint).
THEOREM AnsweredIsAllowedAlways == RelaySpec => []AnsweredIsAllowed
<1>1. Serving => AnsweredIsAllowed
  BY Zenon DEF Serving
<1> QED
  BY <1>1, ServingAlways, PTL

\* With no task left, the access list is the membership the server's handle
\* knows (allowed_member_endpoints).
THEOREM AccessIsMembershipAlways == RelaySpec => []AccessIsMembership
<1>1. Serving => AccessIsMembership
  BY Zenon DEF Serving, AnsweredIsAllowed, AccessIsMembership
<1> QED
  BY <1>1, ServingAlways, PTL

-----------------------------------------------------------------------------
\* What is used of finite sets holds of them.
F == INSTANCE FiniteSetTheorems

\* The library's theorems are about the same sets and sizes.
LEMMA SameFiniteSets ==
    ASSUME NEW S PROVE IsFiniteSet(S) = F!IsFiniteSet(S) /\ Cardinality(S) = F!Cardinality(S)
<1>1. \A T : IsFiniteSet(T) = F!IsFiniteSet(T)
  BY Zenon DEF IsFiniteSet, F!IsFiniteSet
<1>2. Cardinality(S) = F!Cardinality(S)
  BY Zenon DEF Cardinality, F!Cardinality
<1> QED
  BY <1>1, <1>2, Zenon

\* And so they have what was used of them.
LEMMA FiniteFactsHold == FiniteFacts
<1>1. ASSUME NEW S, IsFiniteSet(S) PROVE Cardinality(S) \in Nat
  BY <1>1, SameFiniteSets, F!FS_CardinalityType, Zenon
<1>2. ASSUME NEW S, IsFiniteSet(S), NEW T \in SUBSET S
      PROVE  IsFiniteSet(T) /\ Cardinality(T) <= Cardinality(S)
  BY <1>2, SameFiniteSets, F!FS_Subset
<1>3. ASSUME NEW S, NEW x, IsFiniteSet(S), x \notin S
      PROVE  IsFiniteSet(S \cup {x}) /\ Cardinality(S \cup {x}) = Cardinality(S) + 1
  <2>1. F!IsFiniteSet(S)
    BY <1>3, SameFiniteSets, Zenon
  <2>2. F!IsFiniteSet(S \cup {x}) /\ F!Cardinality(S \cup {x}) = F!Cardinality(S) + 1
    BY <1>3, <2>1, F!FS_AddElement, SMTT(30)
  <2> QED
    BY <2>2, SameFiniteSets, Zenon
<1> QED
  BY <1>1, <1>2, <1>3, Zenon DEF FiniteFacts

\* What a handle knows, and what it is about to commit, was validated.
LEMMA VetsAlways == Spec => [](AInv /\ Vets)
<1>1. Init => Vets
  BY VetsInit, Zenon
<1>2. AInv /\ Vets /\ [Next]_vars => Vets'
  BY VetsStep, Zenon
<1> QED
  BY <1>1, <1>2, AuthorityAlways, PTL DEF Spec

\* As long as nothing else has expired, every listed member but the founder can
\* be revoked exactly while fewer serials are revoked than the list may hold
\* (MAX_REVOKED_SERIALS): what revoke_member makes of the configuration its
\* handle knows validates then, whatever operations led to it, and never at the
\* limit.
THEOREM RevocationPossibleAlways == Spec => []RevocationPossible
<1>1. ASSUME AInv, Vets PROVE RevocationPossible
  BY <1>1, Revocable, FiniteFactsHold, Zenon
<1> QED
  BY <1>1, VetsAlways, PTL

-----------------------------------------------------------------------------
\* The retained revisions stay as they are; the stored one is added to them, and
\* is replaced by one that follows it.
HistoryKept ==
    /\ \A r \in DOMAIN history : r \in DOMAIN history' /\ history'[r] = history[r]
    /\ \A r \in DOMAIN history' \ DOMAIN history :
          r = stored'.config.revision /\ history'[r] = stored'.config
    /\ stored' = stored \/ Follows(stored.config, stored'.config)

\* A batch that is under way, for a caller or for none.
InFlight(b) == b \in orphans \/ (op.phase = "commit" /\ b = op.batch)

\* A batch that is under way is one that was prepared.
LEMMA InFlightPrepared ==
    ASSUME AInv, NEW b, InFlight(b) PROVE b \in Batch /\ Prepared(b)
<1>1. CASE b \in orphans
  BY <1>1, Zenon DEF AInv, TypeOK, Batches
<1>2. CASE op.phase = "commit" /\ b = op.batch
  BY <1>2, UnderWay, Zenon DEF AInv, Batches
<1> QED
  BY <1>1, <1>2, Zenon DEF InFlight

\* Only a commit changes what is stored, and only a commit or a new handle what
\* is retained.
LEMMA WhatStores ==
    ASSUME [Next]_vars
    PROVE  \/ UNCHANGED <<stored, history>>
           \/ Open
           \/ \E b : InFlight(b) /\ Commits(b) /\ Store(b)
<1>1. CASE Commit \/ \E b \in orphans : LateCommit(b)
  BY <1>1, Zenon DEF Commit, LateCommit, InFlight
<1>2. CASE Sealing
  BY <1>2, ZenonT(30) DEF Sealing, InviteMember, RevokeMember, RegisterApp, AuthorizeAppBinding,
          SetVirtualDns, RemoveVirtualDns, RegisterRelay, RemoveRelay, RedeemInvitation, Seal, durable
<1>3. CASE \/ Stop \/ Tick \/ ReadBack \/ Abandon \/ UNCHANGED vars
           \/ \E a \in App : InstallEnrollmentAppRoot(a)
           \/ \E i \in Invitation, a \in App, t \in Expiry : CreateInvitation(i, a, t)
           \/ \E i \in Invitation : RevokeInvitation(i)
           \/ \E i \in Invitation, q \in Request : RedeemAgain(i, q)
  BY <1>3, Zenon DEF Stop, Tick, ReadBack, Abandon, vars, InstallEnrollmentAppRoot, CreateInvitation,
          RevokeInvitation, RedeemAgain, durable
<1> QED
  BY <1>1, <1>2, <1>3, Zenon DEF Next, Sealing

\* What a commit stores, and retains.
LEMMA CommitRetains ==
    ASSUME AInv, NEW b, InFlight(b), Commits(b), Store(b)
    PROVE  /\ stored'.config = b.config /\ Follows(stored.config, b.config)
           /\ b.config.revision \notin DOMAIN history
           /\ DOMAIN history' = DOMAIN history \cup {b.config.revision}
           /\ history'[b.config.revision] = b.config
           /\ \A r \in DOMAIN history : history'[r] = history[r]
<1>1. Follows(stored.config, b.config)
  BY InFlightPrepared, Zenon DEF Prepared, Commits
<1> QED
  BY <1>1, Zenon DEF Commits, Store

\* A new handle retains what is stored, if it is not yet.
LEMMA OpenRetains ==
    ASSUME AInv, Open
    PROVE  /\ stored' = stored /\ DOMAIN history' = DOMAIN history \cup {stored.config.revision}
           /\ history'[stored.config.revision] = stored.config
           /\ \A r \in DOMAIN history : history'[r] = history[r]
  BY Zenon DEF Open

\* The authority never rewrites a revision: a step of it adds at most the one
\* that it stores, which follows the one it replaces (commit_config, open).  A
\* lost answer, a late commit and a restart leave what peers were served as it
\* was.
THEOREM HistoryOnlyGrows == Spec => [][HistoryKept]_vars
<1>1. ASSUME AInv, [Next]_vars PROVE HistoryKept
  <2>1. CASE UNCHANGED <<stored, history>>
    BY <2>1, Zenon DEF HistoryKept
  <2>2. CASE Open
    BY <1>1, <2>2, OpenRetains, Zenon DEF HistoryKept
  <2>3. ASSUME NEW b, InFlight(b), Commits(b), Store(b) PROVE HistoryKept
    <3>1. /\ stored'.config = b.config /\ Follows(stored.config, b.config)
          /\ DOMAIN history' = DOMAIN history \cup {b.config.revision}
          /\ history'[b.config.revision] = b.config
          /\ \A r \in DOMAIN history : history'[r] = history[r]
      BY <1>1, <2>3, CommitRetains, Zenon
    <3>2. Follows(stored.config, stored'.config)
      BY <3>1, Zenon
    <3>3. \A r \in DOMAIN history' \ DOMAIN history :
             r = stored'.config.revision /\ history'[r] = stored'.config
      BY <3>1, Zenon
    <3> QED
      BY <3>1, <3>2, <3>3, Zenon DEF HistoryKept
  <2> QED
    BY <1>1, <2>1, <2>2, <2>3, WhatStores, Zenon
<1>2. AInv /\ [Next]_vars => [HistoryKept]_vars
  BY <1>1, Zenon
<1> QED
  BY <1>2, AuthorityAlways, PTL DEF Spec

\* A certificate that was revoked in one revision is in no later one.
RevokedForGood ==
    \A r, s \in DOMAIN history : r <= s =>
        \A x \in history[s].members : x.serial \notin history[r].revoked

\* Revocations pass on to what is stored, which keeps to them.
Retired ==
    /\ \A x \in stored.config.members : x.serial \notin stored.config.revoked
    /\ \A r \in DOMAIN history : history[r].revoked \subseteq stored.config.revoked
    /\ RevokedForGood

\* Another revision on top keeps to the revocations of all that are retained.
LEMMA RetiredKept ==
    ASSUME AInv, Retired, NEW d, NEW n, n \in Nat, stored'.config = d, stored.config.revision <= n,
           DOMAIN history' = DOMAIN history \cup {n}, history'[n] = d,
           \A r \in DOMAIN history : history'[r] = history[r],
           n \in DOMAIN history => history[n] = d,
           stored.config.revoked \subseteq d.revoked,
           \A x \in d.members : x.serial \notin d.revoked
    PROVE  Retired'
<1>1. \A r \in DOMAIN history' : history'[r].revoked \subseteq d.revoked
  BY Zenon DEF Retired
<1>2. ASSUME NEW r \in DOMAIN history', NEW s \in DOMAIN history', r <= s,
             NEW x \in history'[s].members
      PROVE  x.serial \notin history'[r].revoked
  <2>1. CASE s = n
    BY <1>1, <1>2, <2>1, Zenon
  <2>2. CASE s # n
    <3>0. s \in DOMAIN history
      BY <1>2, <2>2, Zenon
    <3>1. s \in DOMAIN history /\ s \in Nat /\ s <= stored.config.revision
      BY <3>0, Zenon DEF AInv, TypeOK, Chain, HistoryChains
    <3>2. stored.config.revision \in Nat
      BY Zenon DEF AInv, TypeOK, Config
    <3>3. r # n
      BY <1>2, <2>2, <3>1, <3>2
    <3> QED
      BY <1>2, <3>1, <3>3, Zenon DEF Retired, RevokedForGood
  <2> QED
    BY <2>1, <2>2, Zenon
<1> QED
  BY <1>1, <1>2, Zenon DEF Retired, RevokedForGood

LEMMA RetiredStep ==
    ASSUME AInv, Vets, Retired, [Next]_vars PROVE Retired'
<1>1. stored.config.revision \in Nat /\ stored.config.revision <= stored.config.revision
  BY DEF AInv, TypeOK, Config
<1>2. CASE UNCHANGED <<stored, history>>
  BY <1>2, Zenon DEF Retired, RevokedForGood
<1>3. CASE Open
  <2>1. stored.config.revision \in DOMAIN history => history[stored.config.revision] = stored.config
    BY Zenon DEF AInv, Chain, HistoryChains
  <2> QED
    BY <1>1, <1>3, <2>1, OpenRetains, RetiredKept, Zenon DEF Retired
<1>4. ASSUME NEW b, InFlight(b), Commits(b), Store(b) PROVE Retired'
  <2>1. Vetted(b.config)
    BY <1>4 DEF InFlight, Vets, Idle
  <2>2. /\ b.config.revision = stored.config.revision + 1 /\ stored'.config = b.config
        /\ stored.config.revoked \subseteq b.config.revoked
        /\ \A x \in b.config.members : x.serial \notin b.config.revoked
    BY <1>4, <2>1, CommitRetains, Zenon DEF Follows, Vetted
  <2>3. b.config.revision \in Nat /\ stored.config.revision <= b.config.revision
    BY <1>1, <2>2
  <2> QED
    BY <1>4, <2>2, <2>3, CommitRetains, RetiredKept, Zenon
<1> QED
  BY <1>2, <1>3, <1>4, WhatStores, Zenon

\* A revoked certificate is out for good: no later revision lists its serial
\* again, for whichever device and through whichever operation (revoke_member,
\* next_serial, validate).
THEOREM RevokedForGoodAlways == Spec => []RevokedForGood
<1>1. Init => Retired
  <2>1. ASSUME Init PROVE stored.config.revoked = {} /\ \A r \in DOMAIN history : history[r].revoked = {}
    BY <2>1 DEF Init, Genesis
  <2> QED
    BY <2>1, Zenon DEF Retired, RevokedForGood
<1>2. AInv /\ Vets /\ Retired /\ [Next]_vars => Retired'
  BY RetiredStep, Zenon
<1>3. Retired => RevokedForGood
  BY Zenon DEF Retired
<1> QED
  BY <1>1, <1>2, <1>3, VetsAlways, PTL DEF Spec

-----------------------------------------------------------------------------
\* No two tickets are of one revision.
TicketsApart == \A t, u \in tickets : t.revision = u.revision => t = u

\* The tickets that were handed out, can be handed out again, or are about to be.
Given ==
    {t \in Ticket : \/ t \in tickets
                    \/ \E i \in Invitation : invitations[i] = t
                    \/ op.phase = "back" /\ op.batch.request # Nobody /\ t = TicketOf(op.batch)}

Apart == \A t, u \in Given : t.revision = u.revision => t = u

\* All of them name revisions that are retained.
LEMMA GivenRetained == ASSUME AInv, NEW t \in Given PROVE t.revision \in DOMAIN history
<1>1. CASE t \in tickets \/ \E i \in Invitation : invitations[i] = t
  BY <1>1, Zenon DEF AInv, Records, CanFollow, Given
<1>2. CASE op.phase = "back" /\ op.batch.request # Nobody /\ t = TicketOf(op.batch)
  <2>1. op.batch \in Batch
    BY <1>2, UnderWay, Zenon DEF AInv
  <2> QED
    BY <1>2, <2>1, Zenon DEF AInv, Answering, CanFollow
<1> QED
  BY <1>1, <1>2, Zenon DEF Given

\* A commit makes one ticket at most, of a new revision.
LEMMA StoreGives ==
    ASSUME AInv, NEW b, InFlight(b), Commits(b), Store(b), tickets' = tickets,
           op'.phase = "back" => op' = op \/ op'.batch = b
    PROVE  Given' \subseteq Given \cup {TicketOf(b)}
<1> SUFFICES ASSUME NEW t \in Given', t # TicketOf(b) PROVE t \in Given
  BY Zenon
<1>1. \A i \in Invitation : invitations'[i] = t => invitations[i] = t
  BY Zenon DEF Store
<1> QED
  BY <1>1, Zenon DEF Given

LEMMA ApartStep == ASSUME AInv, Apart, [Next]_vars PROVE Apart'
<1>1. CASE Given' \subseteq Given
  BY <1>1, Zenon DEF Apart
<1>2. ASSUME NEW b, InFlight(b), Commits(b), Given' \subseteq Given \cup {TicketOf(b)} PROVE Apart'
  <2>1. TicketOf(b).revision = b.config.revision /\ b.config.revision \notin DOMAIN history
    BY <1>2, Zenon DEF TicketOf, Commits
  <2>2. \A t \in Given : t.revision # TicketOf(b).revision
    BY <2>1, GivenRetained, Zenon
  <2> QED
    BY <1>2, <2>2, Zenon DEF Apart
<1>3. CASE Commit
  <2>1. op.phase = "commit" /\ tickets' = tickets /\ op \in [phase : {"commit", "back"}, batch : Batch]
    BY <1>3, UnderWay, Zenon DEF Commit, AInv
  <2>2. CASE Commits(op.batch) /\ Store(op.batch) /\ op' = [op EXCEPT !.phase = "back"]
    <3>1. op'.batch = op.batch
      BY <2>1, <2>2
    <3> QED
      BY <1>2, <2>1, <2>2, <3>1, StoreGives, Zenon DEF InFlight
  <2>3. CASE op' = Idle /\ UNCHANGED invitations
    BY <1>1, <2>1, <2>3 DEF Given, Idle
  <2> QED
    BY <1>3, <2>2, <2>3, Zenon DEF Commit
<1>4. ASSUME NEW b \in orphans, LateCommit(b) PROVE Apart'
  <2>1. tickets' = tickets /\ op' = op
    BY <1>4, Zenon DEF LateCommit
  <2>2. CASE Commits(b) /\ Store(b)
    BY <1>2, <2>1, <2>2, StoreGives, Zenon DEF InFlight
  <2>3. CASE UNCHANGED invitations
    BY <1>1, <2>1, <2>3, Zenon DEF Given
  <2> QED
    BY <1>4, <2>2, <2>3, Zenon DEF LateCommit
<1>5. CASE ReadBack
  <2>1. /\ op.phase = "back" /\ op' = Idle /\ UNCHANGED invitations
        /\ tickets' = tickets \/ (op.batch.request # Nobody /\ tickets' = tickets \cup {TicketOf(op.batch)})
    BY <1>5, Zenon DEF ReadBack, durable
  <2>2. op'.phase # "back"
    BY <2>1 DEF Idle
  <2> QED
    BY <1>1, <2>1, <2>2, Zenon DEF Given
<1>6. ASSUME NEW i \in Invitation, NEW q \in Request, RedeemAgain(i, q) PROVE Apart'
  BY <1>1, <1>6, Zenon DEF RedeemAgain, durable, Given
<1>7. ASSUME NEW i \in Invitation, invitations' = [invitations EXCEPT ![i] = Nobody]
                                   \/ \E x \in Bundle : invitations' = [invitations EXCEPT ![i] = x],
             UNCHANGED <<op, tickets>>
      PROVE  Apart'
  <2>1. \A t \in Ticket, j \in Invitation : invitations'[j] = t => invitations[j] = t
    BY <1>7, TicketNotBundle, Zenon DEF AInv, TypeOK
  <2> QED
    BY <1>1, <1>7, <2>1, Zenon DEF Given
<1>8. ASSUME NEW i \in Invitation, NEW a \in App, NEW t \in Expiry, CreateInvitation(i, a, t)
      PROVE  Apart'
  <2>1. /\ invitations' = [invitations EXCEPT ![i] = [app |-> a, expires |-> t]]
        /\ UNCHANGED <<op, tickets>>
    BY <1>8, Zenon DEF CreateInvitation, AInv, TypeOK
  <2>2. [app |-> a, expires |-> t] \in Bundle
    BY Zenon DEF Bundle
  <2> QED
    BY <1>7, <2>1, <2>2, Zenon
<1>9. ASSUME NEW i \in Invitation, RevokeInvitation(i) PROVE Apart'
  BY <1>7, <1>9, Zenon DEF RevokeInvitation
<1>10. CASE UNCHANGED <<invitations, tickets>> /\ op' = op
  BY <1>1, <1>10, Zenon DEF Given
<1>11. CASE UNCHANGED <<invitations, tickets>> /\ op'.phase # "back"
  BY <1>1, <1>11, Zenon DEF Given
<1>12. CASE Sealing
  <2>1. PICK d, q, i : Seal(d, q, i)
    BY <1>12, Zenon DEF Sealing, InviteMember, RevokeMember, RegisterApp, AuthorizeAppBinding,
          SetVirtualDns, RemoveVirtualDns, RegisterRelay, RemoveRelay, RedeemInvitation
  <2>2. UNCHANGED <<invitations, tickets>> /\ op'.phase = "commit"
    BY <2>1, Zenon DEF Seal, durable
  <2> QED
    BY <1>11, <2>2
<1>13. CASE Stop \/ Abandon
  <2>1. UNCHANGED <<invitations, tickets>> /\ op' = Idle
    BY <1>13, Zenon DEF Stop, Abandon, durable
  <2> QED
    BY <1>11, <2>1 DEF Idle
<1>14. CASE Open \/ Tick \/ UNCHANGED vars \/ \E a \in App : InstallEnrollmentAppRoot(a)
  BY <1>10, <1>14, Zenon DEF Open, Tick, vars, InstallEnrollmentAppRoot, durable
<1> QED
  BY <1>3, <1>4, <1>5, <1>6, <1>8, <1>9, <1>12, <1>13, <1>14, Zenon DEF Next, Sealing

\* The authority seals a revision of its own for every ticket it gives, whatever
\* is refused, lost, repeated or late (invite_member, redeem_invitation): what a
\* member joins with, no other ticket has.
THEOREM TicketsApartAlways == Spec => []TicketsApart
<1>1. ASSUME Init PROVE Apart
  <2>1. op.phase # "back" /\ tickets = {} /\ \A i \in Invitation : invitations[i] = Nobody
    BY <1>1 DEF Init, Idle
  <2>2. Given = {}
    BY <2>1, TicketNotBundle, Zenon DEF Given
  <2> QED
    BY <2>2, Zenon DEF Apart
<1>2. AInv /\ Apart /\ [Next]_vars => Apart'
  BY ApartStep, Zenon
<1>3. AInv /\ Apart => TicketsApart
  BY Zenon DEF AInv, TypeOK, Apart, Given, TicketsApart
<1> QED
  BY <1>1, <1>2, <1>3, AuthorityAlways, PTL DEF Spec

\* What holds of the authority holds of the binary, with its commands and its
\* server taking turns at the database.
THEOREM RelayKeepsAuthority ==
    RelaySpec => [](MemoryTrue /\ HistoryChains /\ EpochNamesMembers /\ SerialsUnique /\ RelaysBacked
                    /\ InvitationSpentOnce /\ TicketHolderCanFollow /\ RevocationPossible /\ RevokedForGood
                    /\ TicketsApart)
BY RelayImplementsAuthority, MemoryTrueAlways, HistoryChainsAlways, EpochNamesMembersAlways,
   SerialsUniqueAlways, RelaysBackedAlways, InvitationSpentOnceAlways, TicketHolderCanFollowAlways,
   RevocationPossibleAlways, RevokedForGoodAlways, TicketsApartAlways, PTL

=============================================================================
