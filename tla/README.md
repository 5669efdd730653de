# A TLA+ model of weaver

weaver is a library and a set of tools for private networks: an *authority* signs revisions of a
network configuration, *members* join with a ticket, keep the newest revision in a local store, pass
it on to each other, publish where they can be reached, and open virtual TCP streams and datagram
sockets to each other under the grants of the configuration. This directory specifies the parts of it
that keep or exchange state, checks them with TLC on small instances, and proves the central ones
with TLAPS for every instance.

Paths below are relative to `src/crates/`. `PROJECT.json` names for every definition the lines it
stands for, for every property a plausible bug that violates it, and lists the hazards of the code.

## 1. The system

| Part | State | Operations | What is hard about it | What should hold |
|---|---|---|---|---|
| State store (`weaver-store`) | versioned records, one counter | `get`, `scan_prefix`, `commit` of a batch with preconditions | redb commits on a blocking thread, also for a dropped future | a batch is atomic; versions are never reused |
| Secret stores (`weaver-store`) | sealed secrets, one file each | `seal` (never overwrites), `open`, `delete` | not in one transaction with the state store; a power failure between write, link and sync | records refer to secrets that can be opened |
| Configuration chain (`weaver-config/src/lib.rs`) | – | `open_next_config`, `ConfigUpdateBatch`, `validate_chain` | admin rotation, epochs, recipients, forks, batch limit | a head is only replaced along envelopes that open |
| Snapshot (`weaver-config/src/snapshot.rs`) | the lists of a configuration | `validate` | everything listed must be valid *now* | the lists fit each other |
| Member configuration state (`weaver-net/src/config_state.rs`) | three records and a history; head and versions in memory | `open`, `seed_history`, `apply`, `updates_after` | three reads without a transaction, read-back after commit, several handles, aborted tasks, concurrent reset | checkpoint whole, forward only, history serves |
| Membership (`weaver-net/src/membership.rs`) | prepared request, membership, three secrets | `prepare_join`, `join`, `reset`, `redeem_invitation` | two stores, crashes and overlap anywhere | no dangling reference, one identity |
| Client identity (`weaver-net/src/identity.rs`) | identity record, secrets | `load_or_create_client_identity` | lost race, lost acknowledgement, crash or power failure anywhere | record has its secret, one identity |
| Authority (`weaver-relay-core/src/lib.rs`) | stored configuration, history, configuration in memory | `initialize`, `open`, invite, revoke, apps, bindings, DNS, relays | late commits, expiry, serials, epochs | unforked history, unique serials, revocation possible |
| Invitations (`weaver-relay-core/src/invitation.rs`) | invitation records, bundles | create, redeem, redeem again, revoke | retry after a lost answer, races with revocation | spent once, revoked means unspent |
| Config anti-entropy (`weaver-net/src/lib.rs`, `network_handle.rs`) | targets, start index, head | loop of rounds, fetch, serve, apply by hand | stale peers, lost requests, restarts, expiry, gaps | convergence |
| Presence (`weaver-net/src/lib.rs`, `weaver-discovery`) | service store, sequence, directory with three indexes | publish, query, refresh, purge | delayed publications, address that moves, expiry, capacity, configuration captured before awaits | indexes agree, no rollback, superseded records fade |
| Stream admission (`weaver-net/src/lib.rs`) | connections, streams, permits, channels, live configuration | bind, accept loop, handlers, listeners, close | sequential handshakes, permits held on a full channel, authorization that changes | no stale admission, everyone served |
| LAN discovery (`weaver-discovery`, `network_handle.rs`) | tag, slot, addresses and protection of the discoverer; queued observations; LAN candidates | announce, match, rotate, rebind, replace protection, apply | clocks that differ, a full queue, a discoverer that is replaced and forgets, lost announcements | members are recognised, candidates expire, peers are found |
| Relay binary (`weaver-relay`) | staging directory, recovery root file, database lock, access list | `init`, the commands, `serve` with bootstrap tasks and reload task | runs of `init` that race and crash, one handle on the database, tasks that refresh one list | recovery root kept, access list is the membership |
| Virtual sockets, CLI, simulator, demos | – | – | thin layers over QUIC and the operations above | not modelled |

How they interact: the authority commits a revision (Authority) in terms of the checks of Snapshot;
a ticket makes a member (Membership), whose checkpoint (MemberConfig) follows the chain (ConfigChain)
through anti-entropy (ConfigSync); the configuration a member holds decides which presence records it
opens (Presence), whom it recognises on the local network (LanDiscovery) and which streams it admits
(StreamAdmission). MemberConfig and Membership meet in `join` and `reset`; each models the records the
other one leaves out. RelayServer composes the authority with the processes that take its database in
turn; ClientIdentity composes the calls with the file store under them (SecretFile).

## 2. Modules

| Module | Models | Extends |
|---|---|---|
| `StateStore` | records with versions, preconditions, puts and deletes of a batch | – |
| `ConfigChain` | envelopes, what opens on what, batches | – |
| `Snapshot` | configurations as records of sets, `Validates`, `Genesis`, the edits of the operations | – |
| `MemberConfig` | `PersistedConfigState` handles on one store, with `join` and `reset` | `StateStore`, `ConfigChain` |
| `MemberCheckpoint` | what they promise: a checkpoint that is absent, founded, or advanced by a batch | `ConfigChain` |
| `MemberConfigProofs` | the proofs about `MemberConfig`: the checkpoint and the handles | `MemberConfig`, `TLAPS` |
| `MemberHistoryProofs` | the proofs about it: the history, and what is served from it | `MemberConfigProofs` |
| `Membership` | `prepare_join`, `join`, `reset` on both stores | – |
| `SecretFile` | the files of the encrypted file store, their syncs and power failures | – |
| `ClientIdentity` | `load_or_create_client_identity` on that store | `SecretFile` |
| `IdentityProofs` | the proofs about `ClientIdentity` and `Membership` | `ClientIdentity`, `Membership`, `TLAPS` |
| `Authority` | `Authority` and its invitations | `Snapshot` |
| `AuthorityChainProofs` | the proofs about it: what the edits and the commits do to the chain | `Authority`, `TLAPS` |
| `RelayServer` | `weaver-relay`: `init`, the commands, the server | `Authority` |
| `RelayReload` | an operator who wants a member revoked while it serves | `RelayServer` |
| `AuthorityProofs` | the theorems about `Authority`; that `RelayServer` implements it, and the rest about it | `RelayServer`, `AuthorityChainProofs` |
| `ConfigSync` | the anti-entropy loops of all peers | – |
| `Presence`, `PresenceProofs` | publishers, the service, one reader and its directory | – |
| `LanDiscovery`, `LanDiscoveryProofs` | the discoverers of a reader and its peers, the reader's lookup | – |
| `StreamAdmission` | one node and its peers | – |
| `NetworkProofs` | the proofs about `StreamAdmission` and `ConfigSync` | both, `TLAPS` |
| `MC...` | the instances for TLC | the module named |

State and actions. A variable is named after the field it models (`head`, `version`, `targets`,
`start`, `sequence`, `cache`, `live`, ...) and its comment says so; an action is named after the
function, or after the part of it between two awaits (`OpenEnvelope`, `OpenHead`, `OpenSigner` are the
three reads of `open`). What runs without an await, or under one store transaction, is one action.
History variables, which the code does not have, are marked as such. Where one module of proofs is about
two components, one of them has prefixed names (`SyncInit`, `SyncTypeOK`, `SyncSpec` in `ConfigSync`,
`IdentityInit`, `IdentityTypeOK`, `IdentitySpec` in `ClientIdentity`).

Abstractions, module by module:

* *StateStore*: keys and values are model values. The counter is the record version counter of the
  backends; the commit counter is not used by any caller and left out.
* *ConfigChain*: an envelope is a model value with its revision, epoch, predecessor, signer and the
  admins its configuration lists; `Recipient` is the set of envelopes that are sealed for this
  member and verify. Signatures and hashes are thus exact.
* *Snapshot*, *Authority*: a certificate is who, roles, serial, expiry; a configuration is its sets.
  The clock is a small counter shared by everyone; `Lifetime` is the lifetime of the network. `Limit`
  has the limit of each list that `validate_shape` checks.
* *MemberConfig*: a handle is an open `PersistedConfigState` or one that is being opened. Any batch may
  be handed to `apply`; any ticket (`Ticket`) may be joined with whose revision the member has not been
  at. That is what the authority's side gives: a ticket has a revision of its own
  (`TicketsApartAlways`), and one that is issued later has a higher one. `TicketAssumption` says that a
  ticket's envelope follows its predecessor and is signed by an admin of it, which is how the authority
  seals every revision (`HistoryChains`). `Abandon` is an error or a dropped future at any await, before
  or after the commit took effect.
* *Membership*: keys are numbered as they are generated. `exclusive`, chosen once, says whether the
  application keeps `reset` from overlapping the other calls; the code does not, the documentation
  does not ask for it, and the run looks at both.
* *ConfigSync*: the chain is given, `Lists[r]` and `GoodUntil[r]` abstract revision `r`. A request is
  answered, refused or lost. The state behind `head` and `stored` is what MemberConfig models.
* *Presence*: one reader; the network between a publisher and the service delays, reorders and
  loses. A record is opened iff the reader's configuration lists the sender, grants every address
  in it and has its epoch. Its candidates are abstracted to whether their relay URLs parse (`parses`),
  which the reader learns only after its cache has taken the record. All clocks agree, and none goes
  back.
* *StreamAdmission*: what passes through an admitted stream is left out.
* *SecretFile*: a file is written, whole on the disk, linked, and its link on the disk, or not. A secret
  is sealed under an id derived from it, so that a file of that name can hold nothing else. A power
  failure keeps or undoes each change of a name that was not synced, and loses contents that were not.
* *RelayServer*: a process is a command (one operation) or the server. `memory # Closed` is the lock of
  redb: whoever has the database open keeps everybody else from opening it, the same process included.
  `Redeem`, `RunCommit`, `RunReadBack` are the parts of a redemption under the write lock; `Refresh`
  holds the read lock while it writes the list, so that no redemption is between its commit and its
  read-back then (`op = Idle`). What `init` stages is `Genesis`; the data directory is whole or absent,
  as a directory is renamed at once.
* *LanDiscovery*: a tag is its inputs (endpoint, epoch, slot), that is, the hash is injective and
  nobody outside the epoch can compute it. A tick is the rotation interval; a node handles it before the
  next one, and a rotation that fails is tried again then (`failed` counts them). `commands[n]` is the
  channel of one command and, behind it, the sender that waits for room. A round of anti-entropy is
  `ApplyUpdates`: a peer's answer, be it an empty batch, sends the configuration to the task that
  follows it, and that task replaces the discoverer. Which nodes get answers is the constant `Synced`.
  The `network_change` of iroh that follows is not a step: iroh publishes addresses that have changed,
  which is `Move`. Each node has a clock of its own (`Skew`) that runs at the rate of the others.
  What the mDNS library hears, when it calls back and when it gives up on an instance is open;
  `missed` records for whom an expiry may not come any more.

## 3. What TLC checks

All bounds are constants of the cfg files.

| Run | Properties | Instance | States |
|---|---|---|---|
| `MemberConfig` | `TypeOK`, `CheckpointWhole`, `CurrentKnowsHead`, `HistoryUnbroken`, `ServedChainOpens`, `HeadOnlyAdvances`, `ImplementsCheckpoint` | 2 handles (symmetric), five envelopes: a line of three with an admin rotation and a new epoch, a fork, a lower epoch; versions up to 6, batches of 2 | 350 k |
| `AuthorityInvitations` | `MemoryTrue`, `HistoryChains`, `InvitationSpentOnce`, `TicketHolderCanFollow`, `RevokedInvitationStaysUnspent` | 2 applicants, 1 invitation, 1 late commit, revisions up to 3 | 647 k |
| `RelayServer` | `SerialsUnique`, `RelaysBacked`, `EpochNamesMembers`, `RevocationPossible`, `RecoveryRootKept`, `AnsweredIsAllowed`, `AccessIsMembership` | 2 runs of `init`, 2 applicants, 2 invitations, 1 app, 1 name, 3 relay registrations, lifetimes 1 and 2, revisions up to 3; lists of 1 revoked serial, 1 app, 2 bindings, 1 name, 2 relays | 1.2 M |
| `ConfigSync` | `SyncTypeOK`, `OnlyWhatListsIt`, `ConvergesUnlessStuck` | authority and two members, one of which is removed; 4 revisions, one of which expires, batches of 2, 1 lost request, 1 failing read-back, 2 stops | 233 k |
| `Membership` | `TypeOK`, `SecretsOfRecords`, `OneIdentity`, `MembershipStable` | 2 tasks, 6 keys, 3 requests; `reset` exclusive or not | 762 k |
| `ClientIdentity` | `RecordHasSecret`, `IdentityKept` | 3 calls, 4 keys (both symmetric) | 8.9 k |
| `PresenceDirectory` | `NeverBack`, `DirectoryAgrees` | two endpoints that may both serve one address, 2 publications in flight, 1 fault: a lost publication, a restart or a relay URL that does not parse | 2.7 M |
| `PresenceMoves` | `TypeOK`, `SupersededFades`, `AddressMoves` | an address that moves with a revocation, a service with room for one record, records that live for one tick, no fault | 234 k |
| `LanDiscovery` | `Recognized`, `WillExpire`, `FindsUnlessStuck` | a reader that follows the configuration from the first epoch, a peer at the second whose clock is one slot ahead, 2 addresses, slots of 1 tick, 1 tick, a queue of 1, 1 fault: a failed start or rotation, a departure or a lost announcement | 273 k |
| `StreamAdmission` | `TypeOK`, `NoStaleAdmission`, `EveryConnectionServed`, `EveryStreamServed` | a reliable and a datagram connection, 4 streams, 1 permit, channels of 1, a revocation, an application that never accepts | 193 k |

Why the bounds are enough. The properties speak of two parties at a time: two handles, a reset and an
open, an applicant and a rival, a member and a stale peer, an old and a new holder of an address, a
stalled peer and one behind it. The instances have those two and, where a third is needed to separate
them (the authority, the reader, the service, a third caller), the third. Limits that must be reached
(batch size, permits, channel and store capacity, the lists of a configuration) are 1, 2 or 3 instead
of the limits of the code, so that they are. In ConfigSync, where faults may leave a member behind, the
run says exactly when. One fault of any kind is what each of the properties of PresenceDirectory and
LanDiscovery has to survive; the proofs (section 5) are for any number of them. In PresenceMoves, a
publication that is lost is made good at the next interval, so that a loss shortly before the time
bound would refute `AddressMoves` for the bound alone; the run has none. The versions of the
MemberConfig run allow a join, a reset and a join again, or three applies, between two steps of another
handle.

Deadlock is checked except where the system may stop: the authority of an expired network cannot be
opened again (`AuthorityInvitations`, `RelayServer`, `RelayReload`), a member whose stored revision has
expired cannot either (`ConfigSync`), and the keys of `ClientIdentity` run out.

Fairness.

* *ConfigSync*: weak fairness of each peer's loop (a tokio task on a timer), of joining, of restarting
  a stopped process, and of publishing. Nothing obliges anyone to deliver a batch by hand, to stop or
  to lose a request; lost requests and stops are bounded.
* *Presence*: weak fairness of the clock, of the intervals, of the service, of the arrival of
  configurations; strong fairness of a query that gets through, which is the statement that
  the network loses queries now and then and not for ever.
* *StreamAdmission*: weak fairness of the tasks of the node and of its timers (a
  handshake need not complete, but times out); strong fairness of
  `Send`, since senders of a full tokio channel wait in line; weak fairness of an application that
  accepts, for the attentive ones only. Peers are not obliged to anything.
* *LanDiscovery*: weak fairness of the task that follows the configuration, of each branch of the
  runtime's loop (`tokio::select!` picks at random from what is ready) and of applying observations; of
  rounds that some peer answers, for the nodes in `Synced`, since anti-entropy asks all targets again
  every interval;
  strong fairness of `Report`, since the library calls back again for what it keeps hearing. No clock,
  no new epoch, no move and no expiry has to come.
* *RelayReload*: weak fairness of the tasks of the server, of a command that has begun, of the reload
  timer, and of an operator who starts a command whenever none runs. The server need not stop.

MemberConfig, Membership, ClientIdentity, Authority and RelayServer state safety
only and have no fairness. The type invariants of ClientIdentity, Authority, RelayServer and
LanDiscovery are not in their runs: they are proved (section 5).

## 4. Where the documentation and the code differ

Two runs that TLC finds violated:

* `RelayReload`: README.md:68–69 of the repository, "live authority/access-policy reload after
  administrative revisions" (`LiveReload`: a member that the operator wants out is off the access list
  some day, although the server never stops). The server keeps the redb database open, redb admits one
  handle, and so neither the `Authority::open` of the reload task nor that of any administrative command
  succeeds while it serves: there is never a revision to reload. Redemptions through the bootstrap
  endpoint, which go through the server's own handle, do reach the access list (`AccessIsMembership`).
* `MembershipReset`: requirement STORE-9 (committed state never refers to a missing key). `reset`
  deletes the secrets after its batch; a `prepare_join` that overlaps it commits a request whose
  keys are then deleted. With `reset` exclusive the property holds (`SecretsOfRecords`).

Six more that the models show and that passing runs delimit:

* Requirement CFG-4 (a node that comes back catches up from any member). A member that is behind by more
  than a batch holds (128 in the code) gets no answer from an up-to-date peer: the design asks for a
  snapshot then (docs/implementation-design.md:495), the code has none. Two more causes keep a member
  behind for good: a superseded revision that lists something that has expired meanwhile (every batch
  with it is refused), and a read-back that failed after its commit (the handle stays at its old
  versions until it is opened again). `ConvergesUnlessStuck` shows that there is no fourth: a member
  converges unless one of the three (`Stuck`) holds for good.
* Requirement DISC-3 and the sequence condition of the publish request in the design. The presence
  service keeps whatever arrives last. Readers are protected by their own sequence check (`NeverBack`).
* Requirement ID-6 (keys can be revoked). The list of revoked serials is only ever added to, and a
  configuration with more than `MAX_REVOKED_SERIALS` (4096) of them does not validate: from then on nobody
  can be revoked for as long as the network lives. `RevocationPossible` shows that this limit is the only
  thing that stands in the way of a revocation while nothing else has expired: one is possible if and
  only if there is room for one more serial.
* "Decrypts, authenticates, replay-checks and publishes a remote presence atomically from the caller's
  perspective" (weaver-discovery/src/lib.rs:1075–1076, of `apply_encrypted`). A record with a relay URL
  that does not parse is an error for the caller, but the cache has it by then: it resolves, its
  sequence number counts, the same record is not tried again, and the lookup keeps the candidates of the
  record before it, though that may have expired, until the new record expires or the next one comes.
  `DirectoryAgrees` says so: the candidates are those of the record in the cache, or of an older one if
  that one does not parse.
* The task that follows the configuration marks as seen what it finds at its first poll: a configuration
  that is applied between the opening of the discovery and that poll does not reach the discoverer, and
  a rebuild that failed is not tried again. Both last until the next round of anti-entropy that some
  peer answers, as the configuration is sent to the task after every such round, whether or not it has
  changed. A node nobody answers stays with the old epoch. `FindsUnlessStuck` shows that with answered
  rounds nothing keeps two members that stay, and whose clocks agree, from finding each other, except
  that the peer failed to announce the address it has (`Stuck`). The other side of it: the discoverer is
  replaced after every answered round, and a new one never reports the expiry of what the old one
  had heard. The candidates of a peer that left in between stay in the lookup (`missed` in
  `WillExpire`).
* The server's handle after a failed read-back stays behind the store: every later redemption is refused
  until the process is started again (`MemoryTrue` says that it is refused and nothing worse).

## 5. What is proved

All of it for any values of the constants that satisfy the named assumptions of the modules (the
constants have their types; the tokens for "nothing" are none of the values; in Presence also that a
revision which takes something away begins a new epoch, as the authority's revocations do; in
MemberConfig that the envelope of a ticket is sealed as any other, `TicketAssumption`). TLC evaluates
each of them on the instances.

**MemberConfigProofs.** `TypeCorrect`, `CheckpointStaysWhole`, `CurrentHandleKnowsHead` (the invariants
`TypeOK`, `CheckpointWhole`, `CurrentKnowsHead`), `StoredHeadAdvances` (`HeadOnlyAdvances`) and
`CheckpointImplemented`: `Spec` implements `MemberCheckpoint` (`ImplementsCheckpoint`). None of the
properties is inductive alone. That a compare-and-swap is decided against the right head needs that a
handle at the stored version holds the stored head; that needs that a record it read is the stored one
as long as the versions agree; and that needs that no version is handed out twice, so that the counter
is ahead of every version in the store *and* in the memory of every handle. The inductive invariant
`Inv` is therefore `TypeOK`, `StoreOK` (the checkpoint is whole, the counter is ahead of the store, a
reset's scan saw a whole checkpoint or none) and, for every handle, `HandleOK`: types, `HandleFresh`
(counter ahead), `ReadTrue` (versions agree, bytes agree), `ReadSoFar` (what the reads so far have
established), `HeldTrue` (version agrees, head agrees) and `BatchOpens` (the batch being applied opens on
the handle's head). There is one lemma per action, put together in `StepInv`; `LocalStep`, `StoreStep`
and `OthersKeep` split a step into what it does to one handle, to the store, and to all other handles.
`StepAdvances` maps each step to a step of the abstract checkpoint or a stutter. `BatchRises`, that a
batch that opens raises the revision and does not lower the epoch, is an induction over the positions
of the batch; it uses `SetInduction`, which states induction with a set in place of a predicate and is
itself proved from the existence of a least element.

**MemberHistoryProofs.** `HistoryUnbrokenAlways` (`HistoryUnbroken`) and `ServedChainOpensAlways`
(`ServedChainOpens`), on top of `Inv`. A commit and a seeding leave a history record that is already
there alone, whatever it holds, and a reset deletes by a scan that may be old: that the history is
nevertheless one chain depends on everything any handle has ever picked up. `HInv` is
* `Whole`: a history record holds an envelope of its own revision;
* `OneEach`: the envelopes that are stored, or that a handle has read, holds or has committed, are
  one to a revision and below `reached`, so a record that is there already is the right one;
* `Line`: the history runs from the envelope of the join to the stored head, or has not begun yet;
* `ScanBelow`: what a reset scanned before a membership began is older than it, so it deletes nothing
  of it;
* `Committed`: what a handle reads back is not what a membership began with;
* `Begun`: a handle at the versions of the store has seen the history begin.

That a served batch opens on the asker's head follows by `ServedOpens` from the links of the history
alone. The same invariant gives two theorems no run states: `HandlesStayOnLine`, that no two live handles
fork and one that lags is on the line the store retains, and `HandlesOnlyAdvance`, that what a live handle
holds never goes back in revision or epoch.

**AuthorityChainProofs, AuthorityProofs.** `AuthorityTypeAlways`, `MemoryTrueAlways`, `HistoryChainsAlways`,
`EpochNamesMembersAlways`, `SerialsUniqueAlways`, `RelaysBackedAlways`, `InvitationSpentOnceAlways`,
`TicketHolderCanFollowAlways`, `RevokedInvitationStaysUnspentAlways`. The inductive invariant `AInv` adds
to `TypeOK` and `MemoryTrue`: `Handle` (what the handle awaits was prepared from what it knows),
`Batches` (every batch under way, late ones included, is sound and, if it is still at the stored
version, follows the stored configuration), `Chain` (every retained revision is followed by the next one
and is an ancestor of the stored one), `Records` (bundles, invitation records and tickets that were
given name retained revisions) and `Answering` (the answer about to be given names what was stored). It is
the batch of a dropped future that makes `Batches` necessary: it may commit long after its caller is
gone, and only its base version keeps it from forking the chain.

`RevocationPossibleAlways` needs `Vets` besides: whatever a handle knows or is about to commit has passed
`validate` once, and what it then found and time does not change (`Vetted`) is what the edits of a
revocation have to preserve (`WithoutMemberValidates`). The limits of the lists are among it: a revocation
lengthens no list but that of the revoked serials, which grows by exactly one (`OneSerial`), as a listed
serial is not in it. It counts members and serials, so it rests on facts about finite sets; the lemmas take
them as the hypothesis `FiniteFacts`, which is discharged at the end from `FiniteSetTheorems`.

Three more theorems state what no run does. `HistoryOnlyGrows`: no step changes a retained revision, and a
new one follows what was stored. `RevokedForGoodAlways`: a certificate revoked in one revision is in no
later one (by `Retired`). `TicketsApartAlways`: no two tickets are of one revision, counting those that a
retry would be given again and the one about to be given (`Given`, `Apart`). The last and the first are
what MemberConfig supposes of tickets (section 2).

About the binary: `RelayImplementsAuthority`, `RelaySpec => Spec`, so that what is proved of Authority holds
of the processes of the binary together (`RelayKeepsAuthority`). `RelayTypeAlways`, and
`RecoveryRootKeptAlways` from `Founding`, which says what a run of `init` has left behind at each of its
steps. `AnsweredIsAllowedAlways` and `AccessIsMembershipAlways` from `Serving`, which relates the access
list to what the server's handle lists and its tasks have yet to answer, and `Joining`, that the
redemption under way adds one member.

**IdentityProofs.** Of ClientIdentity, `RecordHasSecretAlways` and `IdentityKeptAlways`. `IInv` adds
`KeysApart` (no two calls have one key and the record has none of theirs, so that a loser deletes nobody
else's), `NoneTorn` (whatever has a name has its contents on the disk), `Synced` (a key is on the disk
under its name before it is committed, and stays) and `ReadsRecord`. Of Membership, `MembershipTyped`
(`TypeOK`), `RecordsHaveSecrets` (`SecretsOfRecords`), `OneIdentityKept` (`OneIdentity`) and `MembershipKept`
(`MembershipStable`). `MInv` adds `KeysSoFar` (a call has the keys it got to), `Alone` (a reset that is
run alone is alone), `ScanTrue` (so its scan is still true when it commits), `Held` (the key a call holds
is the sealed one) and `ReturnedTrue` (so are the keys of every request that was returned).

**PresenceProofs.** `PresenceTypeAlways`, `DirectoryAgreesAlways`, `NeverBackAlways`,
`SupersededFadesAlways`. `PresenceInv` needs that every record anywhere has a sequence above its time of
issue and expires a lifetime after it (`Records`): purging forgets a sequence number only when every
record that would go back has expired (`Forgotten`). `DirectoryAgrees` is inductive given
the types and that; its part about the candidates of one endpoint is `Looked`.

**LanDiscoveryProofs.** `LanTypeAlways`; `RecognizedAlways` from `SlotsKept` (a tag is of the slot that its
node's clock was in at some time no longer ago than the rotations in a row that failed and, if this
tick is yet to be handled, one more); `WillExpireAlways` from `Backed` (observations that wait in
the queue are accounted for as well as the candidates).

**NetworkProofs.** Of StreamAdmission, `AdmissionTypeAlways` (handlers within permits, channels within
capacity) and `NoStaleAdmissionAlways`, from the bounds and that no stream was opened under a later
configuration than the live one. Of ConfigSync, `SyncTypeAlways` (`SyncTypeOK`) and
`OnlyWhatListsItAlways` (`OnlyWhatListsIt`), from `InStep`: only a member that has joined is in a round. The
round goes through the targets in their order, so the proof enumerates a finite set by its least
elements. `OnlyWhatWasPublished` (`Held`: memory is not ahead of the store, nor the store ahead of the
authority) needs `Brought`, that a batch on its way leads to a published revision; `HeadsOnlyAdvance`
(`Forward`) says that no answer, stale peer, failing read-back or restart takes a device back.

**How the proofs are laid out.** The last step of each theorem is temporal and combines non-temporal ones;
a lemma per action says that it preserves the inductive invariant. Induction over numbers is done with a
set in place of a predicate (`SetInduction`, or the existence of a least element), as the library's
induction theorems cannot be instantiated. Many leaves name Zenon: it finds them at once, and the
SMT translation of the large records would take longer than the proof.

Every invariant and action property of section 3 is proved. Only model-checked is liveness
(`ConvergesUnlessStuck`, `AddressMoves`, `FindsUnlessStuck`, `EveryConnectionServed`,
`EveryStreamServed`), which depends on fairness and is outside what the prover handles.

## 6. What is not modelled

* Cryptography, encodings, the sizes of single entries: who can open or verify what is exact.
* The bytes of streams and datagrams, half-close, datagram sizes (`VirtualTcpStream`,
  `VirtualUdpSocket` pass them through).
* The choice of a target by `connect_tcp` and `resolve_name`, which reads the live configuration and
  changes nothing; relays and path selection, which are iroh's.
* Clocks that are set back. In Presence the sequence starts from the wall clock (lib.rs:706), and a
  clock that is set back before a restart makes every record a rollback until it has caught up.
* The relay binary's argument parsing, its key files, and the iroh relay behind the access list.
* The member's command line, the simulator, the demos and the scripts: they call the operations that
  are modelled and have no protocol of their own.

## 7. Plan

1. Done: the store, the chain and the member's checkpoint with its abstract specification; the
   authority, invitations and the relay binary that serves them; membership; the client identity over
   the file store; anti-entropy; presence; LAN discovery; admission; proofs of every safety property of
   all of them.
2. Next: one composition of the authority, a joining device and its checkpoint, in which the tickets of
   Authority are what MemberConfig joins with; a clock per endpoint in Presence, with the properties
   conditional on it.
