---------------------------- MODULE MemberConfig ----------------------------
(***************************************************************************)
(* The member side of the configuration chain: PersistedConfigState over   *)
(* an injected state store (weaver-net/src/config_state.rs), with the two  *)
(* membership operations that create and delete the records it works on    *)
(* (NetworkMembership::join and ::reset, weaver-net/src/membership.rs).    *)
(*                                                                         *)
(* The store is shared (Arc<dyn StateStore>): any number of handles open   *)
(* it, each read, commit and read-back is an await point, and a task may   *)
(* be aborted at any of them.                                              *)
(***************************************************************************)
EXTENDS ConfigChain, StateStore

CONSTANTS
    Handle,  \* the PersistedConfigState values alive at a time
    Ticket   \* the envelopes that tickets carry

ASSUME BytesAssumption == NoBytes \notin Envelope \cup Admin

\* The authority seals what a ticket carries as it seals every revision: signed
\* by an administrator of the one before, which it follows.
ASSUME TicketAssumption ==
    /\ Ticket \subseteq Envelope
    /\ \A e \in Ticket : Previous[e] # NoEnvelope =>
          Signer[e] \in Admins[Previous[e]] /\ FollowsHead(Previous[e], e)

VARIABLES
    records,  \* the checkpoint: records under "envelope", "head" and "signer"
    history,  \* the records under config/history/v1/<revision>
    next,     \* the version the store hands out next
    pc,       \* where each handle is
    head,     \* self.head of each handle, which also stands for self.config
    version,  \* self.{envelope,head,signer}_version of each handle
    read,     \* the records an open or a read-back has read so far
    batch,    \* the update batch a handle is applying
    scan,     \* the versions a reset has scanned and is about to delete
    joined,   \* history variable: the envelope the membership began with
    reached   \* history variable: the revisions below it were current once

vars == <<records, history, next, pc, head, version, read, batch, scan, joined, reached>>
store == <<records, history, next>>

CheckpointKey == {"envelope", "head", "signer"}
Revisions == {Revision[e] : e \in Envelope}
Bytes == Envelope \cup Admin
NoScan == [on |-> FALSE,
           records |-> [k \in CheckpointKey |-> Missing],
           history |-> [r \in Revisions |-> Missing]]

Opening == {"openHead", "openSigner", "seed", "seedPut", "seedReread"}
Applying == {"commit", "backEnvelope", "backHead", "backSigner"}
Live == {"ready"} \cup Applying

TypeOK ==
    /\ records \in [CheckpointKey -> Record(Bytes)]
    /\ history \in [Revisions -> Record(Envelope)]
    /\ next \in Nat \ {Missing}
    /\ pc \in [Handle -> {"closed"} \cup Opening \cup Live]
    /\ head \in [Handle -> Envelope \cup {NoEnvelope}]
    /\ version \in [Handle -> [CheckpointKey -> Nat]]
    /\ read \in [Handle -> [CheckpointKey -> Record(Bytes)]]
    /\ batch \in [Handle -> Batch \cup {<< >>}]
    /\ scan \in [on : BOOLEAN,
                 records : [CheckpointKey -> Nat],
                 history : [Revisions -> Nat]]
    /\ joined \in Envelope \cup {NoEnvelope}
    /\ reached \in Nat

Init ==
    /\ records = [k \in CheckpointKey |-> NoRecord]
    /\ history = [r \in Revisions |-> NoRecord]
    /\ next = 1
    /\ pc = [h \in Handle |-> "closed"]
    /\ head = [h \in Handle |-> NoEnvelope]
    /\ version = [h \in Handle |-> [k \in CheckpointKey |-> Missing]]
    /\ read = [h \in Handle |-> [k \in CheckpointKey |-> NoRecord]]
    /\ batch = [h \in Handle |-> << >>]
    /\ scan = NoScan
    /\ joined = NoEnvelope
    /\ reached = 0

-----------------------------------------------------------------------------
\* What a checkpoint batch puts for the envelope it makes current.
CheckpointOf(e) == [k \in CheckpointKey |-> IF k = "signer" THEN Signer[e] ELSE e]

\* The history records of a batch of envelopes.
HistoryOf(b) ==
    [r \in {Revision[b[i]] : i \in 1..Len(b)} |->
        CHOOSE e \in {b[i] : i \in 1..Len(b)} : Revision[e] = r]

Goto(h, place) == pc' = [pc EXCEPT ![h] = place]

\* A handle leaves an operation and drops what it read.
Leave(h, place) ==
    /\ Goto(h, place)
    /\ read' = [read EXCEPT ![h] = [k \in CheckpointKey |-> NoRecord]]
    /\ batch' = [batch EXCEPT ![h] = << >>]

-----------------------------------------------------------------------------
\* Mutant: the batch puts its records whether or not they are missing.
JoinOver(e) ==
    /\ OpensCheckpoint(e, e, Signer[e])
    /\ Revision[e] >= reached
    /\ next < MaxVersion
    /\ records' = WithPuts(records, CheckpointOf(e), next)
    /\ next' = Bump(next)
    /\ joined' = e
    /\ reached' = Revision[e] + 1
    /\ UNCHANGED <<history, pc, head, version, read, batch, scan>>

\* NetworkMembership::join: the embedded configuration opens as a checkpoint
\* and is put in one batch that requires all three records to be missing.
\* The authority seals a new revision for every ticket, and a ticket answers a
\* request prepared while the member held no checkpoint: its revision is above
\* every one the member had before.
Join(e) ==
    /\ OpensCheckpoint(e, e, Signer[e])
    /\ Revision[e] >= reached
    /\ next < MaxVersion
    /\ Holds(records, [k \in CheckpointKey |-> Missing])
    /\ records' = WithPuts(records, CheckpointOf(e), next)
    /\ next' = Bump(next)
    /\ joined' = e
    /\ reached' = Revision[e] + 1
    /\ UNCHANGED <<history, pc, head, version, read, batch, scan>>

\* NetworkMembership::reset first scans every record of the member scope ...
ResetScan ==
    /\ ~scan.on
    /\ scan' = [on |-> TRUE, records |-> Versions(records), history |-> Versions(history)]
    /\ UNCHANGED <<records, history, next, pc, head, version, read, batch, joined, reached>>

\* ... and then deletes what it found in one batch, each with its version.
Scanned(versions) == {k \in DOMAIN versions : versions[k] # Missing}

Restrict(f, S) == [k \in S |-> f[k]]

ResetCommit ==
    /\ scan.on
    /\ LET rs == Scanned(scan.records)
           hs == Scanned(scan.history)
       IN  IF /\ Holds(records, Restrict(scan.records, rs))
              /\ Holds(history, Restrict(scan.history, hs))
           THEN /\ records' = WithDeletes(records, rs)
                /\ history' = WithDeletes(history, hs)
           ELSE UNCHANGED <<records, history>>
    /\ scan' = NoScan
    /\ UNCHANGED <<next, pc, head, version, read, batch, joined, reached>>

-----------------------------------------------------------------------------
\* PersistedConfigState::open: three separate reads ...
OpenEnvelope(h) ==
    /\ pc[h] = "closed"
    /\ Present(records["envelope"])
    /\ read' = [read EXCEPT ![h]["envelope"] = records["envelope"]]
    /\ Goto(h, "openHead")
    /\ UNCHANGED <<store, head, version, batch, scan, joined, reached>>

OpenHead(h) ==
    /\ pc[h] = "openHead"
    /\ IF Present(records["head"])
       THEN /\ read' = [read EXCEPT ![h]["head"] = records["head"]]
            /\ Goto(h, "openSigner")
            /\ UNCHANGED batch
       ELSE Leave(h, "closed")
    /\ UNCHANGED <<store, head, version, scan, joined, reached>>

\* ... the last one followed by the validation of the three together ...
OpenSigner(h) ==
    /\ pc[h] = "openSigner"
    /\ IF /\ Present(records["signer"])
          /\ OpensCheckpoint(read[h]["envelope"].bytes, read[h]["head"].bytes,
                             records["signer"].bytes)
       THEN /\ read' = [read EXCEPT ![h]["signer"] = records["signer"]]
            /\ Goto(h, "seed")
            /\ UNCHANGED batch
       ELSE Leave(h, "closed")
    /\ UNCHANGED <<store, head, version, scan, joined, reached>>

\* ... and the handle built from the records that were read.
Opened(h) ==
    /\ head' = [head EXCEPT ![h] = read[h]["envelope"].bytes]
    /\ version' = [version EXCEPT ![h] = Versions(read[h])]
    /\ Leave(h, "ready")

\* Mutant: open without seed_history.
SeedSkipped(h) ==
    /\ pc[h] = "seed"
    /\ Opened(h)
    /\ UNCHANGED <<store, scan, joined, reached>>

\* The history record of the envelope must be the envelope itself.
SeedCompared(h) ==
    LET e == read[h]["envelope"].bytes
    IN  IF history[Revision[e]].bytes = e
        THEN Opened(h)
        ELSE Leave(h, "closed") /\ UNCHANGED <<head, version>>

\* seed_history: a history record that is there is compared, a missing one is
\* put, and a lost race is settled by reading again.
Seed(h) ==
    /\ pc[h] = "seed"
    /\ \/ /\ Present(history[Revision[read[h]["envelope"].bytes]])
          /\ SeedCompared(h)
       \/ /\ ~Present(history[Revision[read[h]["envelope"].bytes]])
          /\ Goto(h, "seedPut")
          /\ UNCHANGED <<head, version, read, batch>>
    /\ UNCHANGED <<store, scan, joined, reached>>

SeedPut(h) ==
    /\ pc[h] = "seedPut"
    /\ LET e == read[h]["envelope"].bytes
           r == Revision[e]
       IN  IF Holds(history, [k \in {r} |-> Missing])
           THEN /\ next < MaxVersion
                /\ history' = WithPuts(history, [k \in {r} |-> e], next)
                /\ next' = Bump(next)
                /\ Opened(h)
           ELSE /\ Goto(h, "seedReread")
                /\ UNCHANGED <<history, next, head, version, read, batch>>
    /\ UNCHANGED <<records, scan, joined, reached>>

SeedReread(h) ==
    /\ pc[h] = "seedReread"
    /\ SeedCompared(h)
    /\ UNCHANGED <<store, scan, joined, reached>>

\* A handle is dropped, or the task that opens it is aborted.
Drop(h) ==
    /\ pc[h] # "closed"
    /\ Leave(h, "closed")
    /\ UNCHANGED <<store, head, version, scan, joined, reached>>

-----------------------------------------------------------------------------
\* PersistedConfigState::apply, up to the commit: a batch whose base is the
\* handle's head and which opens envelope by envelope.  Every other batch is
\* refused as a whole and changes nothing.
Apply(h, b) ==
    /\ pc[h] = "ready"
    /\ OpensBatch(head[h], b)
    /\ batch' = [batch EXCEPT ![h] = b]
    /\ Goto(h, "commit")
    /\ UNCHANGED <<store, head, version, read, scan, joined, reached>>

\* Mutant: the batch leaves the signer's certificate as it is.
ApplyCommitKeepingSigner(h) ==
    /\ pc[h] = "commit"
    /\ LET links == HistoryOf(batch[h])
           puts == CheckpointOf(Final(batch[h]))
       IN  /\ Holds(records, version[h])
           /\ Holds(history, [r \in DOMAIN links |-> Missing])
           /\ next < MaxVersion
           /\ records' = WithPuts(records, [k \in {"envelope", "head"} |-> puts[k]], next)
           /\ history' = WithPuts(history, links, next)
           /\ next' = Bump(next)
           /\ reached' = Revision[Final(batch[h])] + 1
           /\ Goto(h, "backEnvelope")
    /\ UNCHANGED <<head, version, read, batch, scan, joined>>

\* The compare-and-swap: the three records at the versions the handle holds,
\* every history record of the batch missing.
ApplyCommit(h) ==
    /\ pc[h] = "commit"
    /\ LET links == HistoryOf(batch[h])
       IN  IF /\ Holds(records, version[h])
              /\ Holds(history, [r \in DOMAIN links |-> Missing])
           THEN /\ next < MaxVersion
                /\ records' = WithPuts(records, CheckpointOf(Final(batch[h])), next)
                /\ history' = WithPuts(history, links, next)
                /\ next' = Bump(next)
                /\ reached' = Revision[Final(batch[h])] + 1
                /\ Goto(h, "backEnvelope")
                /\ UNCHANGED <<read, batch>>
           ELSE /\ Leave(h, "ready")
                /\ UNCHANGED <<store, reached>>
    /\ UNCHANGED <<head, version, scan, joined>>

\* The read-backs; a record that is gone ends the call with CommitLost.
BackEnvelope(h) ==
    /\ pc[h] = "backEnvelope"
    /\ IF Present(records["envelope"])
       THEN /\ read' = [read EXCEPT ![h]["envelope"] = records["envelope"]]
            /\ Goto(h, "backHead")
            /\ UNCHANGED batch
       ELSE Leave(h, "ready")
    /\ UNCHANGED <<store, head, version, scan, joined, reached>>

BackHead(h) ==
    /\ pc[h] = "backHead"
    /\ IF Present(records["head"])
       THEN /\ read' = [read EXCEPT ![h]["head"] = records["head"]]
            /\ Goto(h, "backSigner")
            /\ UNCHANGED batch
       ELSE Leave(h, "ready")
    /\ UNCHANGED <<store, head, version, scan, joined, reached>>

\* Mutant: the read-backs are not compared with the batch.
BackSignerUnchecked(h) ==
    /\ pc[h] = "backSigner"
    /\ Present(records["signer"])
    /\ head' = [head EXCEPT ![h] = Final(batch[h])]
    /\ version' = [version EXCEPT ![h] =
          Versions([read[h] EXCEPT !["signer"] = records["signer"]])]
    /\ Leave(h, "ready")
    /\ UNCHANGED <<store, scan, joined, reached>>

\* The last read-back and the comparison; only a match moves the handle.
BackSigner(h) ==
    /\ pc[h] = "backSigner"
    /\ LET e == Final(batch[h])
       IN  IF /\ Present(records["signer"])
              /\ read[h]["envelope"].bytes = e
              /\ read[h]["head"].bytes = e
           THEN /\ head' = [head EXCEPT ![h] = e]
                /\ version' = [version EXCEPT ![h] =
                      Versions([read[h] EXCEPT !["signer"] = records["signer"]])]
           ELSE UNCHANGED <<head, version>>
    /\ Leave(h, "ready")
    /\ UNCHANGED <<store, scan, joined, reached>>

\* The task that runs apply is aborted, or a store call fails: the handle
\* stays behind with the head it had, whatever was committed.  (A commit that
\* lands after its future was dropped is one that another handle with the same
\* versions makes before it is abandoned.)
Abandon(h) ==
    /\ pc[h] \in Applying
    /\ Leave(h, "ready")
    /\ UNCHANGED <<store, head, version, scan, joined, reached>>

-----------------------------------------------------------------------------
HandleStep(h) ==
    \/ OpenEnvelope(h) \/ OpenHead(h) \/ OpenSigner(h)
    \/ Seed(h) \/ SeedPut(h) \/ SeedReread(h)
    \/ \E b \in Batch : Apply(h, b)
    \/ ApplyCommit(h) \/ BackEnvelope(h) \/ BackHead(h) \/ BackSigner(h)
    \/ Abandon(h) \/ Drop(h)

Next ==
    \/ \E e \in Ticket : Join(e)
    \/ ResetScan \/ ResetCommit
    \/ \E h \in Handle : HandleStep(h)

Spec == Init /\ [][Next]_vars

-----------------------------------------------------------------------------
\* PersistedConfigState::updates_after: the retained envelopes after a head
\* this member knows, or no answer.
Retained(r) == r \in Revisions /\ Present(history[r])

Knows(h, base) ==
    /\ Revision[base] <= Revision[head[h]]
    /\ Epoch[base] <= Epoch[head[h]]
    /\ Retained(Revision[base])
    /\ history[Revision[base]].bytes = base

UpdatesAfter(h, base) ==
    [i \in 1..(Revision[head[h]] - Revision[base]) |->
        history[Revision[base] + i].bytes]

\* Mutant: the retained envelopes are handed out as they are found.
ServesUnlinked(h, base) ==
    /\ Knows(h, base)
    /\ \A r \in Revision[base]..Revision[head[h]] : Retained(r)

Serves(h, base) ==
    /\ Knows(h, base)
    /\ \A r \in Revision[base]..Revision[head[h]] : Retained(r)
    /\ LinkedBatch(base, UpdatesAfter(h, base))

-----------------------------------------------------------------------------
Joined == Present(records["head"])
StoredHead == records["head"].bytes

\* A live handle that holds the versions the store has.
Current(h) == pc[h] \in Live /\ version[h] = Versions(records)

\* Whatever was interleaved or aborted, the three records of the checkpoint
\* are one whole: all missing, or one envelope, its head and its signer's
\* certificate, which open() accepts.
CheckpointWhole ==
    \/ \A k \in CheckpointKey : records[k] = NoRecord
    \/ \E e \in Recipient : \A k \in CheckpointKey :
          Present(records[k]) /\ records[k].bytes = CheckpointOf(e)[k]

\* A handle whose compare-and-swap would succeed has the stored head in
\* memory: torn opens, lost read-backs and other writers only ever leave it
\* with a version that no longer matches.
CurrentKnowsHead == \A h \in Handle : Current(h) => Joined /\ head[h] = StoredHead

\* The stored head is replaced only by one that a chain of openable envelopes
\* leads to, so by a higher revision and no lower epoch; concurrent old
\* writers fail.
HeadOnlyAdvances ==
    [][Joined /\ Joined' /\ StoredHead' # StoredHead =>
          /\ Revision[StoredHead'] > Revision[StoredHead]
          /\ Epoch[StoredHead'] >= Epoch[StoredHead]]_vars

\* All of this at once: the handles, torn reads, aborted tasks and resets
\* together implement one checkpoint that moves along openable envelopes.
Checkpoint == INSTANCE MemberCheckpoint WITH checkpoint <- StoredHead

ImplementsCheckpoint == Checkpoint!Spec

\* What a live handle serves to a peer is a chain the peer can apply: it opens
\* envelope by envelope on top of the peer's head and ends in the handle's own
\* head, even when the handle is behind the store or the store was reset.
ServedChainOpens ==
    \A h \in Handle, base \in Envelope :
        pc[h] \in Live /\ Serves(h, base) /\ base # head[h] =>
            LET served == UpdatesAfter(h, base)
            IN  OpensBatch(base, served) /\ Final(served) = head[h]

\* Once a handle works on the membership (or has moved it), every revision
\* from the one it joined with to the stored head is retained and linked.
HistoryUnbroken ==
    Joined /\ (StoredHead # joined \/ \E h \in Handle : Current(h)) =>
        /\ history[Revision[joined]].bytes = joined
        /\ history[Revision[StoredHead]].bytes = StoredHead
        /\ \A r \in (Revision[joined] + 1)..Revision[StoredHead] :
              Retained(r) /\ Previous[history[r].bytes] = history[r - 1].bytes

=============================================================================
