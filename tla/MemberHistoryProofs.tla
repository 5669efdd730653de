------------------------ MODULE MemberHistoryProofs ------------------------
(***************************************************************************)
(* The history a member keeps of its configurations, proved for any set of *)
(* handles, any universe of envelopes and any batch bound.                 *)
(*                                                                         *)
(* The invariant behind it: all envelopes that are stored, or that a       *)
(* handle has read, holds or has committed, are one to a revision          *)
(* (OneEach), so that a history record that is there already is the one    *)
(* that is needed, and a reset never deletes what a later membership put   *)
(* (ScanBelow).                                                            *)
(***************************************************************************)
EXTENDS MemberConfigProofs

-----------------------------------------------------------------------------
\* A history record holds an envelope of its own revision.
Whole(H) ==
    \A r \in Revisions :
        IF Present(H[r])
        THEN H[r].bytes \in Envelope /\ Revision[H[r].bytes] = r
        ELSE H[r].bytes = NoBytes

\* The envelopes of a history.
StoredIn(H) == {H[r].bytes : r \in {q \in Revisions : Present(H[q])}}

\* The history is linked from one envelope to another.
Run(H, a, z) ==
    /\ H[Revision[a]].bytes = a
    /\ H[Revision[z]].bytes = z
    /\ \A r \in (Revision[a] + 1)..Revision[z] :
          r \in Revisions /\ Present(H[r]) /\ Previous[H[r].bytes] = H[r - 1].bytes

LEMMA RevisionType == \A e \in Envelope : Revision[e] \in Nat /\ Revision[e] \in Revisions
  BY EnvelopeAssumption, Zenon DEF Revisions

LEMMA RevisionsType == \A r \in Revisions : r \in Nat
  BY EnvelopeAssumption DEF Revisions

\* Every revision of a run is there.
LEMMA RunRetained ==
    ASSUME NEW H, Whole(H), NEW a \in Envelope, NEW z \in Envelope, Run(H, a, z),
           NEW r \in Revision[a]..Revision[z]
    PROVE  r \in Revisions /\ Present(H[r])
<1>1. CASE r = Revision[a]
  BY <1>1, RevisionType, BytesAssumption, ZenonT(30) DEF Run, Whole
<1>2. CASE r # Revision[a]
  <2>1. r \in (Revision[a] + 1)..Revision[z]
    BY <1>2, RevisionType
  <2> QED
    BY <2>1, Zenon DEF Run
<1> QED
  BY <1>1, <1>2, Zenon

\* A run is not disturbed by what happens below it.
LEMMA RunKept ==
    ASSUME NEW H, NEW G, Whole(H), NEW a \in Envelope, NEW z \in Envelope,
           Revision[a] <= Revision[z], Run(H, a, z),
           \A r \in Revisions : Revision[a] <= r => G[r] = H[r]
    PROVE  Run(G, a, z)
<1>1. \A r \in Revision[a]..Revision[z] : G[r] = H[r]
  BY RunRetained, RevisionType
<1>2. /\ Revision[a] \in Revision[a]..Revision[z] /\ Revision[z] \in Revision[a]..Revision[z]
      /\ \A r \in (Revision[a] + 1)..Revision[z] :
            r \in Revision[a]..Revision[z] /\ r - 1 \in Revision[a]..Revision[z]
  BY RevisionType
<1> QED
  BY <1>1, <1>2, Zenon DEF Run

\* Putting envelopes under their revisions.
LEMMA PutHistory ==
    ASSUME NEW H \in [Revisions -> Record(Envelope)], Whole(H), NEW v \in Nat \ {Missing},
           NEW p, \A r \in DOMAIN p : p[r] \in Envelope /\ Revision[p[r]] = r
    PROVE  /\ Whole(WithPuts(H, p, v))
           /\ StoredIn(WithPuts(H, p, v)) \subseteq StoredIn(H) \cup {p[r] : r \in DOMAIN p}
           /\ \A r \in Revisions \ DOMAIN p : WithPuts(H, p, v)[r] = H[r]
<1> DEFINE G == WithPuts(H, p, v)
<1>1. \A r \in Revisions : /\ r \in DOMAIN p => G[r] = [version |-> v, bytes |-> p[r]]
                           /\ r \notin DOMAIN p => G[r] = H[r]
  BY Zenon DEF WithPuts
<1> HIDE DEF G
<1>2. ASSUME NEW r \in Revisions
      PROVE  IF Present(G[r])
             THEN G[r].bytes \in Envelope /\ Revision[G[r].bytes] = r
             ELSE G[r].bytes = NoBytes
  <2>1. CASE r \in DOMAIN p
    <3>1. G[r] = [version |-> v, bytes |-> p[r]]
      BY <1>1, <2>1, Zenon
    <3> QED
      BY <2>1, <3>1 DEF Present
  <2>2. CASE r \notin DOMAIN p
    <3>1. G[r] = H[r]
      BY <1>1, <2>2, Zenon
    <3> QED
      BY <3>1, Zenon DEF Whole
  <2> QED
    BY <2>1, <2>2, Zenon
<1>3. ASSUME NEW r \in Revisions, Present(G[r])
      PROVE  G[r].bytes \in StoredIn(H) \cup {p[q] : q \in DOMAIN p}
  <2>1. CASE r \in DOMAIN p
    <3>1. G[r] = [version |-> v, bytes |-> p[r]]
      BY <1>1, <2>1, Zenon
    <3> QED
      BY <2>1, <3>1
  <2>2. CASE r \notin DOMAIN p
    <3>1. G[r] = H[r]
      BY <1>1, <2>2, Zenon
    <3> QED
      BY <1>3, <3>1, Zenon DEF StoredIn
  <2> QED
    BY <2>1, <2>2, Zenon
<1>4. Whole(G) /\ StoredIn(G) \subseteq StoredIn(H) \cup {p[q] : q \in DOMAIN p}
  BY <1>2, <1>3, Zenon DEF Whole, StoredIn
<1> QED
  BY <1>1, <1>4, Zenon DEF G

-----------------------------------------------------------------------------
\* The envelopes of a batch.
Links(b) == {b[i] : i \in 1..Len(b)}

\* An envelope that opened on the one before it.
Proper(e) == e \in Recipient /\ (Previous[e] # NoEnvelope => OpensNext(Previous[e], e))

\* A batch that opens goes on from its base, one envelope to a revision.
LEMMA LinksAhead ==
    ASSUME NEW e \in Envelope, NEW b \in Batch, OpensBatch(e, b)
    PROVE  /\ \A x \in Links(b) : /\ x \in Envelope /\ Proper(x)
                                  /\ Revision[e] < Revision[x] /\ Revision[x] <= Revision[Final(b)]
           /\ \A x, y \in Links(b) : Revision[x] = Revision[y] => x = y
           /\ Final(b) \in Links(b) /\ Revision[e] < Revision[Final(b)]
<1>1. Len(b) \in Nat \ {0} /\ Revision[e] \in Nat /\ \A i \in 1..Len(b) : b[i] \in Envelope
  BY BatchLen, RevisionType, Zenon
<1>2. \A i \in 1..Len(b) : Revision[b[i]] = Revision[e] + i
  BY BatchPositions, Zenon
<1>3. Revision[Final(b)] = Revision[e] + Len(b)
  BY BatchRises, Zenon
<1>4. ASSUME NEW i \in 1..Len(b) PROVE Proper(b[i])
  BY Zenon DEF OpensBatch, OpensNext, FollowsHead, Proper
<1>5. \A x \in Links(b) : /\ x \in Envelope /\ Proper(x)
                          /\ Revision[e] < Revision[x] /\ Revision[x] <= Revision[Final(b)]
  BY <1>1, <1>2, <1>3, <1>4 DEF Links
<1>6. \A x, y \in Links(b) : Revision[x] = Revision[y] => x = y
  BY <1>1, <1>2 DEF Links
<1> QED
  BY <1>1, <1>3, <1>5, <1>6 DEF Links, Final

\* Its history records are its envelopes, under the revisions after its base.
LEMMA HistoryOfAt ==
    ASSUME NEW e \in Envelope, NEW b \in Batch, OpensBatch(e, b)
    PROVE  /\ \A r \in DOMAIN HistoryOf(b) : HistoryOf(b)[r] \in Links(b) /\ Revision[HistoryOf(b)[r]] = r
           /\ \A x \in Links(b) : Revision[x] \in DOMAIN HistoryOf(b) /\ HistoryOf(b)[Revision[x]] = x
<1>1. DOMAIN HistoryOf(b) = {Revision[x] : x \in Links(b)}
  BY Zenon DEF HistoryOf, Links
<1>2. \A r \in DOMAIN HistoryOf(b) : HistoryOf(b)[r] = CHOOSE x \in Links(b) : Revision[x] = r
  BY Zenon DEF HistoryOf, Links
<1>3. \A r \in DOMAIN HistoryOf(b) : HistoryOf(b)[r] \in Links(b) /\ Revision[HistoryOf(b)[r]] = r
  BY <1>1, <1>2, ZenonT(30)
<1> QED
  BY <1>1, <1>3, LinksAhead, ZenonT(30)

\* A run goes on along a batch that opens on its end.
LEMMA RunGoesOn ==
    ASSUME NEW H \in [Revisions -> Record(Envelope)], Whole(H), NEW v \in Nat \ {Missing},
           NEW a \in Envelope, NEW z \in Envelope, Revision[a] <= Revision[z], Run(H, a, z),
           NEW b \in Batch, OpensBatch(z, b)
    PROVE  Run(WithPuts(H, HistoryOf(b), v), a, Final(b))
<1> DEFINE G == WithPuts(H, HistoryOf(b), v)
           s == Revision[z]
<1>1. /\ Revision[a] \in Nat /\ s \in Nat /\ Len(b) \in Nat \ {0} /\ Revision[Final(b)] = s + Len(b)
      /\ \A i \in 1..Len(b) : Revision[b[i]] = s + i /\ b[i] \in Links(b) /\ b[i] \in Envelope
  BY RevisionType, BatchLen, BatchRises, BatchPositions, Zenon DEF Links
<1>2. \A r \in Revision[a]..s : r \in Revisions /\ Present(H[r]) /\ G[r] = H[r]
  <2>1. \A r \in DOMAIN HistoryOf(b) : s < r
    BY HistoryOfAt, LinksAhead
  <2>2. \A r \in Revisions : r \notin DOMAIN HistoryOf(b) => G[r] = H[r]
    BY Zenon DEF WithPuts
  <2> QED
    BY <1>1, <2>1, <2>2, RunRetained
<1>3. \A x \in Links(b) : Revision[x] \in Revisions /\ G[Revision[x]] = [version |-> v, bytes |-> x]
  BY HistoryOfAt, LinksAhead, RevisionType, Zenon DEF WithPuts
<1> HIDE DEF G
<1>4. \A i \in 1..Len(b) : s + i \in Revisions /\ G[s + i].bytes = b[i] /\ Present(G[s + i])
  <2> SUFFICES ASSUME NEW i \in 1..Len(b)
               PROVE  s + i \in Revisions /\ G[s + i].bytes = b[i] /\ Present(G[s + i])
    BY Zenon
  <2>1. s + i \in Revisions /\ G[s + i] = [version |-> v, bytes |-> b[i]]
    BY <1>1, <1>3, Zenon
  <2> QED
    BY <2>1 DEF Present
<1>5. G[Revision[a]].bytes = a /\ G[s].bytes = z
  BY <1>1, <1>2, SMTT(30) DEF Run
<1>6. G[Revision[Final(b)]].bytes = Final(b)
  BY <1>1, <1>4 DEF Final
<1>7. ASSUME NEW r \in (Revision[a] + 1)..s
      PROVE  r \in Revisions /\ Present(G[r]) /\ Previous[G[r].bytes] = G[r - 1].bytes
  <2>1. r \in Revision[a]..s /\ r - 1 \in Revision[a]..s
    BY <1>1
  <2> QED
    BY <1>2, <2>1, Zenon DEF Run
<1>8. ASSUME NEW i \in 1..Len(b) PROVE Previous[G[s + i].bytes] = G[(s + i) - 1].bytes
  <2>0. OpensNext(IF i = 1 THEN z ELSE b[i - 1], b[i])
    BY Zenon DEF OpensBatch
  <2>1. Previous[b[i]] = IF i = 1 THEN z ELSE b[i - 1]
    BY <2>0, Zenon DEF OpensNext, FollowsHead
  <2>2. Len(b) \in Nat /\ s \in Nat
    BY <1>1, Zenon
  <2>3. /\ i # 1 => i - 1 \in 1..Len(b) /\ s + (i - 1) = (s + i) - 1
        /\ i = 1 => (s + i) - 1 = s
    BY ONLY <2>2, i \in 1..Len(b)
  <2> QED
    BY <1>4, <1>5, <2>1, <2>3, Zenon
<1>9. \A r \in (Revision[a] + 1)..(s + Len(b)) :
         r \in (Revision[a] + 1)..s \/ (r - s \in 1..Len(b) /\ s + (r - s) = r)
  BY <1>1
<1>10. \A r \in (Revision[a] + 1)..(s + Len(b)) :
          r \in Revisions /\ Present(G[r]) /\ Previous[G[r].bytes] = G[r - 1].bytes
  BY <1>4, <1>7, <1>8, <1>9
<1> QED
  BY <1>1, <1>5, <1>6, <1>10, Zenon DEF Run, G

-----------------------------------------------------------------------------
Backing == {"backEnvelope", "backHead", "backSigner"}

\* The envelopes a handle has read, holds or has committed, ...
SeenBy(p, hd, rd, bt) ==
    (IF p \in Opening THEN {rd["envelope"].bytes} ELSE {})
    \cup (IF p \in Live THEN {hd} ELSE {})
    \cup (IF p \in Backing THEN {Final(bt)} ELSE {})

\* ... the ones that are stored ...
SeenInStore == StoredIn(history) \cup (IF Joined THEN {StoredHead, joined} ELSE {})

\* ... and all of them together.
Seen == SeenInStore \cup UNION {SeenBy(pc[h], head[h], read[h], batch[h]) : h \in Handle}

\* They are one to a revision, and of revisions that were reached.
OneEach ==
    /\ \A e \in Seen : Proper(e) /\ Revision[e] < reached
    /\ \A d, e \in Seen : Revision[d] = Revision[e] => d = e

\* The history from the envelope the membership began with to the stored head.
Unbroken == Run(history, joined, StoredHead)

\* The history has no gap once it has begun.
Line ==
    Joined =>
        /\ joined \in Envelope /\ Revision[joined] <= Revision[StoredHead]
        /\ reached = Revision[StoredHead] + 1
        /\ Unbroken \/ (StoredHead = joined /\ ~Present(history[Revision[joined]]))

\* What a reset found before a membership began is older than it.
ScanBelow ==
    \A r \in Revisions : scan.history[r] # Missing =>
        /\ r < reached
        /\ Joined /\ scan.records["head"] = Missing => r < Revision[joined]

\* What a handle has committed is not what a membership began with.
Committed == \A h \in Handle : pc[h] \in Backing /\ Joined => Final(batch[h]) # joined

\* The history has begun before a handle is at the versions of the store.
Begun == \A h \in Handle : Current(h) => Unbroken

HInv == Whole(history) /\ OneEach /\ Line /\ ScanBelow /\ Committed /\ Begun

-----------------------------------------------------------------------------
\* What is seen are envelopes.
LEMMA SeenEnvelopes ==
    ASSUME OneEach, NEW e \in Seen PROVE e \in Envelope /\ Revision[e] \in Nat /\ e # NoBytes
  BY EnvelopeAssumption, BytesAssumption, Zenon DEF OneEach, Proper

\* New envelopes are of higher revisions than all that was seen.
LEMMA Grows ==
    ASSUME OneEach, NEW N, Seen' \subseteq Seen \cup N, reached \in Nat, reached' \in Nat,
           reached <= reached',
           \A x \in N : Proper(x) /\ reached <= Revision[x] /\ Revision[x] < reached',
           \A x, y \in N : Revision[x] = Revision[y] => x = y
    PROVE  OneEach'
<1>1. \A x \in N : Revision[x] \in Nat
  BY EnvelopeAssumption, Zenon DEF Proper
<1>2. \A x \in Seen : Revision[x] \in Nat /\ Revision[x] < reached /\ Proper(x)
  BY SeenEnvelopes, Zenon DEF OneEach
<1>3. \A e \in Seen' : Proper(e) /\ Revision[e] < reached'
  BY <1>1, <1>2
<1>4. ASSUME NEW d \in Seen', NEW e \in Seen', Revision[d] = Revision[e] PROVE d = e
  <2>1. CASE d \in Seen /\ e \in Seen
    BY <1>4, <2>1, Zenon DEF OneEach
  <2>2. CASE d \in N /\ e \in N
    BY <1>4, <2>2, Zenon
  <2>3. ~(d \in Seen /\ e \in N) /\ ~(d \in N /\ e \in Seen)
    BY <1>1, <1>2, <1>4
  <2> QED
    BY <2>1, <2>2, <2>3, Zenon
<1> QED
  BY <1>3, <1>4, Zenon DEF OneEach

\* A step of one handle.
Alone(h) ==
    \A g \in Handle \ {h} :
        /\ pc'[g] = pc[g] /\ head'[g] = head[g] /\ version'[g] = version[g]
        /\ read'[g] = read[g] /\ batch'[g] = batch[g]

LEMMA SeenAfter ==
    ASSUME NEW h \in Handle, Alone(h)
    PROVE  Seen' \subseteq SeenInStore' \cup SeenBy(pc'[h], head'[h], read'[h], batch'[h]) \cup Seen
<1> SUFFICES ASSUME NEW g \in Handle, NEW e \in SeenBy(pc'[g], head'[g], read'[g], batch'[g])
             PROVE  e \in SeenBy(pc'[h], head'[h], read'[h], batch'[h]) \cup Seen
  BY Zenon DEF Seen
<1>1. CASE g = h
  BY <1>1, Zenon
<1>2. CASE g # h
  <2>1. SeenBy(pc'[g], head'[g], read'[g], batch'[g]) = SeenBy(pc[g], head[g], read[g], batch[g])
    BY <1>2, Zenon DEF Alone
  <2> QED
    BY <2>1, Zenon DEF Seen
<1> QED
  BY <1>1, <1>2, Zenon

\* A step of no handle.
LEMMA SeenStays ==
    ASSUME UNCHANGED <<pc, head, read, batch>>
    PROVE  Seen' \subseteq SeenInStore' \cup Seen
  BY Zenon DEF Seen

\* Where a membership began, and where it is.
LEMMA JoinedAt ==
    ASSUME Inv, HInv, Joined
    PROVE  /\ joined \in Envelope /\ StoredHead \in Envelope
           /\ Revision[joined] <= Revision[StoredHead] /\ reached = Revision[StoredHead] + 1
           /\ joined \in Seen /\ StoredHead \in Seen
  BY HeadIsCheckpoint, Zenon DEF HInv, Line, Seen, SeenInStore

\* A step of one handle that leaves the checkpoint alone.
LEMMA HandleMoves ==
    ASSUME Inv, HInv, UNCHANGED <<records, scan, joined, reached>>,
           NEW h \in Handle, Alone(h),
           SeenBy(pc'[h], head'[h], read'[h], batch'[h]) \subseteq Seen,
           pc'[h] \in Backing /\ Joined => Final(batch'[h]) # joined,
           Current(h)' => Unbroken', Joined /\ Unbroken => Unbroken',
           Whole(history'), StoredIn(history') \subseteq Seen, Line'
    PROVE  HInv'
<1>1. Joined' = Joined /\ StoredHead' = StoredHead
  BY Zenon DEF Joined, StoredHead
<1>2. OneEach'
  <2>1. SeenInStore' \subseteq Seen
    BY <1>1, Zenon DEF SeenInStore, Seen
  <2>2. Seen' \subseteq Seen
    BY <2>1, SeenAfter, Zenon
  <2> QED
    BY <2>2, Zenon DEF HInv, OneEach
<1>3. ScanBelow'
  BY <1>1, Zenon DEF HInv, ScanBelow
<1>4. Committed'
  BY <1>1, Zenon DEF HInv, Committed, Alone
<1>5. ASSUME NEW g \in Handle \ {h}, Current(g)' PROVE Unbroken'
  <2>1. Current(g)
    BY <1>5, Zenon DEF Current, Alone
  <2>2. Joined
    BY <2>1, InvKnowsHead, Zenon DEF CurrentKnowsHead
  <2> QED
    BY <2>1, <2>2, Zenon DEF HInv, Begun
<1> QED
  BY <1>2, <1>3, <1>4, <1>5, Zenon DEF HInv, Begun

\* A step of one handle that leaves the store alone.
LEMMA HandleKeepsHistory ==
    ASSUME Inv, HInv, UNCHANGED <<records, history, scan, joined, reached>>,
           NEW h \in Handle, Alone(h),
           SeenBy(pc'[h], head'[h], read'[h], batch'[h]) \subseteq Seen,
           pc'[h] \in Backing /\ Joined => Final(batch'[h]) # joined,
           Current(h)' => Unbroken
    PROVE  HInv'
<1>1. Unbroken' = Unbroken /\ Line' = Line
  BY Zenon DEF Unbroken, Line, Joined, StoredHead
<1>2. Whole(history') /\ StoredIn(history') \subseteq Seen /\ Line
  BY Zenon DEF HInv, Seen, SeenInStore
<1> QED
  BY <1>1, <1>2, HandleMoves, Zenon

\* A step of a handle is a step of that handle alone.
LEMMA StepAlone ==
    ASSUME Inv, NEW h \in Handle, HandleStep(h)
    PROVE  Alone(h)
<1> USE DEF Inv, TypeOK, Alone, Goto, Leave
<1>1. CASE OpenEnvelope(h) \/ OpenHead(h) \/ OpenSigner(h)
  BY <1>1, Zenon DEF OpenEnvelope, OpenHead, OpenSigner
<1>2. CASE Seed(h) \/ SeedPut(h) \/ SeedReread(h)
  BY <1>2, Zenon DEF Seed, SeedPut, SeedReread, SeedCompared, Opened
<1>3. CASE (\E b \in Batch : Apply(h, b)) \/ ApplyCommit(h)
  BY <1>3, Zenon DEF Apply, ApplyCommit
<1>4. CASE BackEnvelope(h) \/ BackHead(h) \/ BackSigner(h) \/ Abandon(h) \/ Drop(h)
  BY <1>4, Zenon DEF BackEnvelope, BackHead, BackSigner, Abandon, Drop
<1> QED
  BY <1>1, <1>2, <1>3, <1>4, Zenon DEF HandleStep

\* The stored envelope is the stored head.
LEMMA StoredEnvelope ==
    ASSUME Inv, Present(records["envelope"])
    PROVE  Joined /\ records["envelope"].bytes = StoredHead
<1>1. PICK e \in Recipient : \A k \in CheckpointKey :
          Present(records[k]) /\ records[k].bytes = CheckpointOf(e)[k]
  BY DEF Inv, StoreOK, CheckpointWhole, Present, NoRecord, CheckpointKey
<1>2. e \in Envelope
  BY EnvelopeAssumption, Zenon
<1> QED
  BY <1>1, <1>2, CheckpointOfType, Zenon DEF Joined, StoredHead, CheckpointKey

\* What a handle has at hand was seen.
LEMMA HandleSaw ==
    ASSUME NEW h \in Handle
    PROVE  /\ pc[h] \in Opening => read[h]["envelope"].bytes \in Seen
           /\ pc[h] \in Live => head[h] \in Seen
           /\ pc[h] \in Backing => Final(batch[h]) \in Seen
<1>1. SeenBy(pc[h], head[h], read[h], batch[h]) \subseteq Seen
  BY Zenon DEF Seen
<1> QED
  BY <1>1, Zenon DEF SeenBy

\* A handle that ends an operation without having moved.
LEMMA LeaveKeeps ==
    ASSUME Inv, HInv, UNCHANGED <<store, head, version, scan, joined, reached>>,
           NEW h \in Handle, Alone(h), NEW p \in {"closed", "ready"}, Leave(h, p),
           p = "ready" => pc[h] \in Live
    PROVE  HInv'
<1>1. pc'[h] = p /\ head'[h] = head[h] /\ version'[h] = version[h] /\ records' = records
  BY Zenon DEF Leave, Goto, Inv, TypeOK, store
<1>2. p \notin Opening /\ p \notin Backing /\ (p \in Live => pc[h] \in Live)
  BY Zenon DEF Opening, Backing, Live, Applying
<1>3. SeenBy(pc'[h], head'[h], read'[h], batch'[h]) \subseteq Seen
  BY <1>1, <1>2, HandleSaw, Zenon DEF SeenBy
<1>4. Current(h)' => Unbroken
  BY <1>1, <1>2, Zenon DEF Current, HInv, Begun
<1> QED
  BY <1>1, <1>2, <1>3, <1>4, HandleKeepsHistory, Zenon DEF store

\* A handle that goes on, with the envelope it read, or with its batch.
LEMMA GoesOn ==
    ASSUME Inv, HInv, UNCHANGED <<store, head, version, scan, joined, reached>>,
           NEW h \in Handle, Alone(h), NEW p, Goto(h, p),
           \/ /\ p \in Opening /\ pc[h] \in Opening
              /\ read'[h]["envelope"].bytes = read[h]["envelope"].bytes
           \/ p \in Applying \ Backing /\ pc[h] \in Live
           \/ p \in Backing /\ pc[h] \in Backing /\ batch' = batch
    PROVE  HInv'
<1>1. pc'[h] = p /\ head'[h] = head[h] /\ version'[h] = version[h] /\ records' = records
  BY Zenon DEF Goto, Inv, TypeOK, store
<1>2. /\ p \in Opening => p \notin Live /\ p \notin Backing
      /\ p \in Live => p \notin Opening
      /\ Backing \subseteq Applying /\ Applying \subseteq Live
  BY Zenon DEF Opening, Backing, Live, Applying
<1>3. SeenBy(pc'[h], head'[h], read'[h], batch'[h]) \subseteq Seen
  BY <1>1, <1>2, HandleSaw, Zenon DEF SeenBy
<1>4. Current(h)' => Unbroken
  BY <1>1, <1>2, Zenon DEF Current, HInv, Begun
<1>5. pc'[h] \in Backing /\ Joined => Final(batch'[h]) # joined
  BY <1>1, <1>2, Zenon DEF HInv, Committed
<1> QED
  BY <1>1, <1>3, <1>4, <1>5, HandleKeepsHistory, Zenon DEF store

\* The first read of open.
LEMMA OpenEnvelopeKeeps ==
    ASSUME Inv, HInv, NEW h \in Handle, Alone(h), OpenEnvelope(h)
    PROVE  HInv'
<1>1. /\ pc'[h] = "openHead" /\ read'[h]["envelope"] = records["envelope"]
      /\ Joined /\ records["envelope"].bytes = StoredHead
  BY StoredEnvelope, Zenon DEF OpenEnvelope, Goto, Inv, TypeOK, CheckpointKey
<1>2. SeenBy(pc'[h], head'[h], read'[h], batch'[h]) \subseteq Seen
  BY <1>1, Zenon DEF SeenBy, Seen, SeenInStore, Opening, Live, Applying, Backing
<1>3. pc'[h] \notin Backing /\ ~Current(h)'
  BY <1>1, Zenon DEF Backing, Current, Live, Applying
<1> QED
  BY <1>2, <1>3, HandleKeepsHistory, Zenon DEF OpenEnvelope, store

\* The other two.
LEMMA OpenKeeps ==
    ASSUME Inv, HInv, NEW h \in Handle, Alone(h), OpenHead(h) \/ OpenSigner(h)
    PROVE  HInv'
<1>1. CASE Leave(h, "closed")
  BY <1>1, LeaveKeeps, Zenon DEF OpenHead, OpenSigner
<1>2. ASSUME NEW k \in {"head", "signer"}, NEW p \in {"openSigner", "seed"},
             read' = [read EXCEPT ![h][k] = records[k]], Goto(h, p)
      PROVE  HInv'
  <2>1. read'[h]["envelope"] = read[h]["envelope"]
    BY <1>2, Zenon DEF Inv, TypeOK, CheckpointKey
  <2> QED
    BY <1>2, <2>1, GoesOn, Zenon DEF OpenHead, OpenSigner, Opening
<1> QED
  BY <1>1, <1>2, Zenon DEF OpenHead, OpenSigner

\* A record that was read and has the version of the stored one is that one.
LEMMA ReadIsStored ==
    ASSUME Inv, NEW h \in Handle, Present(read[h]["envelope"]),
           read[h]["envelope"].version = records["envelope"].version
    PROVE  Joined /\ read[h]["envelope"].bytes = StoredHead
<1>1. ReadTrue(records, read[h])
  BY HandleInOrder, Zenon DEF HandleOK
<1>2. Present(records["envelope"]) /\ read[h]["envelope"].bytes = records["envelope"].bytes
  BY <1>1, Zenon DEF ReadTrue, Present, CheckpointKey
<1> QED
  BY <1>2, StoredEnvelope, Zenon

\* A handle that opens has the envelope it read, at the version it read.
LEMMA OpenedAt ==
    ASSUME Inv, NEW h \in Handle, pc[h] \in {"seed", "seedPut", "seedReread"}, Opened(h),
           records' = records
    PROVE  /\ pc'[h] = "ready" /\ head'[h] = read[h]["envelope"].bytes
           /\ SeenBy(pc'[h], head'[h], read'[h], batch'[h]) \subseteq Seen
           /\ Current(h)' => Joined /\ read[h]["envelope"].bytes = StoredHead
<1>1. /\ pc'[h] = "ready" /\ head'[h] = read[h]["envelope"].bytes
      /\ version'[h] = Versions(read[h])
  BY Zenon DEF Opened, Leave, Goto, Inv, TypeOK
<1>2. SeenBy(pc'[h], head'[h], read'[h], batch'[h]) \subseteq Seen
  BY <1>1, HandleSaw, Zenon DEF SeenBy, Opening, Live, Applying, Backing
<1>3. Present(read[h]["envelope"])
  BY HandleInOrder, Zenon DEF HandleOK, ReadSoFar, Opening
<1>4. Current(h)' => read[h]["envelope"].version = records["envelope"].version
  <2>1. DOMAIN read[h] = CheckpointKey /\ DOMAIN records = CheckpointKey /\ "envelope" \in CheckpointKey
    BY Zenon DEF Inv, TypeOK, CheckpointKey
  <2>2. Current(h)' => Versions(read[h]) = Versions(records)
    BY <1>1, Zenon DEF Current
  <2> QED
    BY <2>1, <2>2, Zenon DEF Versions
<1> QED
  BY <1>1, <1>2, <1>3, <1>4, ReadIsStored, Zenon

\* Whoever finds the stored head in the history finds all of it.
LEMMA HeadRetained ==
    ASSUME Inv, HInv, Joined, history[Revision[StoredHead]].bytes = StoredHead
    PROVE  Unbroken
<1>1. StoredHead \in Envelope /\ StoredHead # NoBytes /\ Revision[StoredHead] \in Revisions
  BY HeadIsCheckpoint, BytesAssumption, Zenon DEF Revisions
<1>2. Present(history[Revision[StoredHead]])
  BY <1>1, Zenon DEF HInv, Whole
<1> QED
  BY <1>2, Zenon DEF HInv, Line

\* The history record is compared.
LEMMA SeedComparedKeeps ==
    ASSUME Inv, HInv, NEW h \in Handle, Alone(h), pc[h] \in {"seed", "seedReread"}, SeedCompared(h),
           UNCHANGED <<store, scan, joined, reached>>
    PROVE  HInv'
<1>1. CASE Leave(h, "closed") /\ UNCHANGED <<head, version>>
  BY <1>1, LeaveKeeps, Zenon
<1>2. CASE Opened(h) /\ history[Revision[read[h]["envelope"].bytes]].bytes = read[h]["envelope"].bytes
  <2>1. Current(h)' => Unbroken
    BY <1>2, OpenedAt, HeadRetained, Zenon DEF store
  <2>2. pc'[h] \notin Backing
    BY <1>2, OpenedAt, Zenon DEF Backing, store
  <2> QED
    BY <1>2, <2>1, <2>2, OpenedAt, HandleKeepsHistory, Zenon DEF store
<1> QED
  BY <1>1, <1>2, Zenon DEF SeedCompared

LEMMA SeedKeeps ==
    ASSUME Inv, HInv, NEW h \in Handle, Alone(h), Seed(h) \/ SeedReread(h)
    PROVE  HInv'
<1>1. CASE SeedCompared(h)
  BY <1>1, SeedComparedKeeps, Zenon DEF Seed, SeedReread
<1>2. CASE Goto(h, "seedPut") /\ UNCHANGED <<head, version, read, batch>> /\ Seed(h)
  BY <1>2, GoesOn, Zenon DEF Seed, Opening
<1> QED
  BY <1>1, <1>2, Zenon DEF Seed, SeedReread

\* apply, up to its commit, and the handles that stop.
LEMMA ApplyKeeps ==
    ASSUME Inv, HInv, NEW h \in Handle, Alone(h),
           (\E b \in Batch : Apply(h, b)) \/ Abandon(h) \/ Drop(h)
    PROVE  HInv'
<1>1. CASE \E b \in Batch : Apply(h, b)
  BY <1>1, GoesOn, Zenon DEF Apply, Applying, Backing, Live
<1>2. CASE Abandon(h) \/ Drop(h)
  BY <1>2, LeaveKeeps, Zenon DEF Abandon, Drop, Live
<1> QED
  BY <1>1, <1>2, Zenon

\* The read-backs.
LEMMA BackKeeps ==
    ASSUME Inv, HInv, NEW h \in Handle, Alone(h), BackEnvelope(h) \/ BackHead(h)
    PROVE  HInv'
<1>1. CASE Leave(h, "ready")
  BY <1>1, LeaveKeeps, Zenon DEF BackEnvelope, BackHead, Live, Applying
<1>2. ASSUME NEW p \in {"backHead", "backSigner"}, Goto(h, p), UNCHANGED batch
      PROVE  HInv'
  BY <1>2, GoesOn, Zenon DEF BackEnvelope, BackHead, Backing
<1> QED
  BY <1>1, <1>2, Zenon DEF BackEnvelope, BackHead

LEMMA BackSignerKeeps ==
    ASSUME Inv, HInv, NEW h \in Handle, Alone(h), BackSigner(h)
    PROVE  HInv'
<1> DEFINE e == Final(batch[h])
           vs == Versions([read[h] EXCEPT !["signer"] = records["signer"]])
<1>1. Leave(h, "ready") /\ UNCHANGED <<store, scan, joined, reached>> /\ pc[h] = "backSigner"
  BY Zenon DEF BackSigner
<1>2. CASE UNCHANGED <<head, version>>
  BY <1>1, <1>2, LeaveKeeps, Zenon DEF Live, Applying
<1>3. CASE /\ head' = [head EXCEPT ![h] = e] /\ version' = [version EXCEPT ![h] = vs]
           /\ read[h]["envelope"].bytes = e
  <2>1. pc'[h] = "ready" /\ head'[h] = e /\ version'[h] = vs /\ records' = records
    BY <1>1, <1>3, Zenon DEF Leave, Goto, Inv, TypeOK, store
  <2>2. SeenBy(pc'[h], head'[h], read'[h], batch'[h]) \subseteq Seen /\ pc'[h] \notin Backing
    BY <1>1, <2>1, HandleSaw, Zenon DEF SeenBy, Opening, Live, Applying, Backing
  <2>3. Present(read[h]["envelope"])
    BY <1>1, HandleInOrder, Zenon DEF HandleOK, ReadSoFar
  <2>4. Current(h)' => read[h]["envelope"].version = records["envelope"].version
    <3>1. /\ read[h] \in [CheckpointKey -> Record(Bytes)] /\ DOMAIN records = CheckpointKey
          /\ "envelope" \in CheckpointKey
      BY Zenon DEF Inv, TypeOK, CheckpointKey
    <3>2. vs["envelope"] = read[h]["envelope"].version
      BY <3>1, Zenon DEF Versions
    <3>3. Current(h)' => vs = Versions(records)
      BY <2>1, Zenon DEF Current
    <3> QED
      BY <3>1, <3>2, <3>3, Zenon DEF Versions
  <2>5. Current(h)' => Joined /\ StoredHead = e
    BY <1>3, <2>3, <2>4, ReadIsStored, Zenon
  <2>6. Current(h)' => Unbroken
    BY <1>1, <2>5, Zenon DEF HInv, Committed, Line, Backing
  <2> QED
    BY <1>1, <2>2, <2>6, HandleKeepsHistory, Zenon DEF store
<1> QED
  BY <1>2, <1>3, Zenon DEF BackSigner

-----------------------------------------------------------------------------
\* An envelope put under a revision that was free is below a run ...
LEMMA PutBelow ==
    ASSUME NEW H \in [Revisions -> Record(Envelope)], Whole(H), NEW v \in Nat \ {Missing},
           NEW a \in Envelope, NEW z \in Envelope, NEW e \in Envelope, Run(H, a, z),
           Revision[a] <= Revision[z], Revision[e] <= Revision[z], ~Present(H[Revision[e]])
    PROVE  Run(WithPuts(H, [k \in {Revision[e]} |-> e], v), a, z)
<1> DEFINE G == WithPuts(H, [k \in {Revision[e]} |-> e], v)
<1>1. Revision[e] \notin Revision[a]..Revision[z]
  BY RunRetained, Zenon
<1>2. Revision[e] < Revision[a]
  BY <1>1, RevisionType
<1>3. \A r \in Revisions : r # Revision[e] => G[r] = H[r]
  BY Zenon DEF WithPuts
<1> HIDE DEF G
<1>4. \A r \in Revisions : Revision[a] <= r => G[r] = H[r]
  BY <1>2, <1>3, RevisionType, RevisionsType
<1>5. Run(G, a, z)
  BY <1>4, RunKept, Zenon
<1> QED
  BY <1>5, Zenon DEF G

\* ... or begins one.
LEMMA PutFirst ==
    ASSUME NEW H \in [Revisions -> Record(Envelope)], NEW v \in Nat, NEW e \in Envelope
    PROVE  Run(WithPuts(H, [k \in {Revision[e]} |-> e], v), e, e)
<1>1. WithPuts(H, [k \in {Revision[e]} |-> e], v)[Revision[e]].bytes = e
  BY RevisionType, Zenon DEF WithPuts
<1>2. (Revision[e] + 1)..Revision[e] = {}
  BY RevisionType
<1> QED
  BY <1>1, <1>2, Zenon DEF Run

\* seed_history puts the envelope that was read.
LEMMA SeedPutSuccess ==
    ASSUME Inv, HInv, NEW h \in Handle, Alone(h), pc[h] = "seedPut", Opened(h),
           UNCHANGED <<records, scan, joined, reached>>,
           NEW e, e = read[h]["envelope"].bytes, Holds(history, [k \in {Revision[e]} |-> Missing]),
           history' = WithPuts(history, [k \in {Revision[e]} |-> e], next)
    PROVE  HInv'
<1>1. e \in Seen /\ e \in Envelope /\ Revision[e] < reached
  BY HandleSaw, SeenEnvelopes, Zenon DEF Opening, HInv, OneEach
<1>2. ~Present(history[Revision[e]])
  BY Zenon DEF Holds, Present
<1>3. history \in [Revisions -> Record(Envelope)] /\ next \in Nat \ {Missing} /\ Whole(history)
  BY Zenon DEF Inv, TypeOK, HInv
<1>4. /\ Whole(history') /\ StoredIn(history') \subseteq StoredIn(history) \cup {e}
      /\ \A r \in Revisions : r # Revision[e] => history'[r] = history[r]
  <2> DEFINE p == [k \in {Revision[e]} |-> e]
  <2>1. DOMAIN p = {Revision[e]} /\ \A r \in DOMAIN p : p[r] = e
    BY Zenon
  <2>2. \A r \in DOMAIN p : p[r] \in Envelope /\ Revision[p[r]] = r
    BY <1>1, <2>1, Zenon
  <2> HIDE DEF p
  <2>3. history' = WithPuts(history, p, next)
    BY Zenon DEF p
  <2>4. /\ Whole(WithPuts(history, p, next))
        /\ StoredIn(WithPuts(history, p, next)) \subseteq StoredIn(history) \cup {p[r] : r \in DOMAIN p}
        /\ \A r \in Revisions \ DOMAIN p : WithPuts(history, p, next)[r] = history[r]
    BY <1>3, <2>2, PutHistory
  <2>5. {p[r] : r \in DOMAIN p} = {e}
    BY <2>1, Zenon
  <2> QED
    BY <2>1, <2>3, <2>4, <2>5, Zenon
<1>5. Joined' = Joined /\ StoredHead' = StoredHead
  BY Zenon DEF Joined, StoredHead
<1>6. ASSUME Joined, Unbroken PROVE Unbroken'
  <2>1. Revision[e] <= Revision[StoredHead]
    BY <1>1, <1>6, JoinedAt, RevisionType
  <2> QED
    BY <1>1, <1>2, <1>3, <1>5, <1>6, <2>1, JoinedAt, PutBelow, Zenon DEF Unbroken
<1>7. ASSUME Joined, StoredHead = joined, Revision[e] = Revision[joined] PROVE Unbroken'
  <2>1. e = joined
    BY <1>1, <1>7, JoinedAt, Zenon DEF HInv, OneEach
  <2> QED
    BY <1>1, <1>3, <1>5, <1>7, <2>1, PutFirst, Zenon DEF Unbroken
<1>8. Line'
  BY <1>4, <1>5, <1>6, <1>7, JoinedAt, RevisionType, Zenon DEF HInv, Line
<1>9. ASSUME Current(h)' PROVE Unbroken'
  <2>1. Joined /\ e = StoredHead
    BY <1>9, OpenedAt, Zenon
  <2> QED
    BY <1>6, <1>7, <2>1, Zenon DEF HInv, Line
<1>10. SeenBy(pc'[h], head'[h], read'[h], batch'[h]) \subseteq Seen /\ pc'[h] \notin Backing
  BY OpenedAt, Zenon DEF Backing
<1>11. StoredIn(history') \subseteq Seen
  BY <1>1, <1>4, Zenon DEF Seen, SeenInStore
<1> QED
  BY <1>4, <1>6, <1>8, <1>9, <1>10, <1>11, HandleMoves, Zenon

LEMMA SeedPutKeeps ==
    ASSUME Inv, HInv, NEW h \in Handle, Alone(h), SeedPut(h)
    PROVE  HInv'
<1>1. pc[h] = "seedPut" /\ UNCHANGED <<records, scan, joined, reached>>
  BY Zenon DEF SeedPut
<1>2. CASE Goto(h, "seedReread") /\ UNCHANGED <<history, next, head, version, read, batch>>
  BY <1>1, <1>2, GoesOn, Zenon DEF store, Opening
<1>3. CASE ~(Goto(h, "seedReread") /\ UNCHANGED <<history, next, head, version, read, batch>>)
  BY <1>1, <1>3, SeedPutSuccess, Zenon DEF SeedPut
<1> QED
  BY <1>2, <1>3, Zenon

-----------------------------------------------------------------------------
\* The compare-and-swap of apply succeeds on a history that has begun ...
LEMMA CommitOn ==
    ASSUME Inv, HInv, NEW h \in Handle, ApplyCommit(h), next' # next
    PROVE  /\ Joined /\ Unbroken /\ head[h] = StoredHead
           /\ batch[h] \in Batch /\ OpensBatch(StoredHead, batch[h])
<1>1. Holds(records, version[h]) /\ pc[h] = "commit"
  BY Zenon DEF ApplyCommit, store
<1>2. batch[h] \in Batch /\ OpensBatch(head[h], batch[h])
  BY <1>1, HandleInOrder, Zenon DEF HandleOK, BatchOpens, Applying
<1>3. version[h] \in [CheckpointKey -> Nat] /\ records \in [CheckpointKey -> Record(Bytes)]
  BY Zenon DEF Inv, TypeOK
<1>4. Current(h)
  BY <1>1, <1>3, Zenon DEF Current, Holds, Versions, Live, Applying
<1>5. Joined /\ head[h] = StoredHead
  BY <1>4, InvKnowsHead, Zenon DEF CurrentKnowsHead
<1> QED
  BY <1>2, <1>4, <1>5, Zenon DEF HInv, Begun

\* ... and leaves this.
LEMMA CommitPuts ==
    ASSUME Inv, NEW h \in Handle, ApplyCommit(h), next' # next, batch[h] \in Batch
    PROVE  /\ history' = WithPuts(history, HistoryOf(batch[h]), next)
           /\ reached' = Revision[Final(batch[h])] + 1
           /\ Joined' /\ StoredHead' = Final(batch[h])
           /\ pc'[h] = "backEnvelope" /\ UNCHANGED <<head, batch, scan, joined>>
<1>1. /\ records' = WithPuts(records, CheckpointOf(Final(batch[h])), next)
      /\ history' = WithPuts(history, HistoryOf(batch[h]), next)
      /\ reached' = Revision[Final(batch[h])] + 1
      /\ Goto(h, "backEnvelope") /\ UNCHANGED <<head, batch, scan, joined>>
  BY Zenon DEF ApplyCommit, store
<1>2. Final(batch[h]) \in Envelope
  BY BatchLen, Zenon
<1>3. pc'[h] = "backEnvelope"
  BY <1>1, Zenon DEF Goto, Inv, TypeOK
<1>4. Joined'
  <2>1. "head" \in CheckpointKey /\ DOMAIN CheckpointOf(Final(batch[h])) = CheckpointKey
    BY <1>2, CheckpointOfType, Zenon DEF CheckpointKey
  <2>2. records \in [CheckpointKey -> Record(Bytes)] /\ next # Missing
    BY Zenon DEF Inv, TypeOK
  <2>3. records'["head"].version = next
    BY <1>1, <2>1, <2>2, Zenon DEF WithPuts
  <2> QED
    BY <2>2, <2>3, Zenon DEF Joined, Present
<1> QED
  BY <1>1, <1>2, <1>3, <1>4, HeadAfterPut, Zenon

\* What is seen after it.
LEMMA CommitSees ==
    ASSUME Inv, HInv, NEW h \in Handle, Alone(h), ApplyCommit(h), next' # next
    PROVE  Whole(history') /\ OneEach'
<1> DEFINE b == batch[h]
           f == Final(b)
<1>1. /\ Joined /\ b \in Batch /\ OpensBatch(StoredHead, b) /\ head[h] = StoredHead
      /\ StoredHead \in Envelope /\ joined \in Seen /\ StoredHead \in Seen
      /\ reached = Revision[StoredHead] + 1
  BY CommitOn, JoinedAt, Zenon
<1>2. /\ history' = WithPuts(history, HistoryOf(b), next) /\ reached' = Revision[f] + 1
      /\ Joined' /\ StoredHead' = f
      /\ pc'[h] = "backEnvelope" /\ UNCHANGED <<head, batch, scan, joined>>
  BY <1>1, CommitPuts, Zenon
<1>3. /\ \A x \in Links(b) : /\ x \in Envelope /\ Proper(x)
                             /\ Revision[StoredHead] < Revision[x] /\ Revision[x] <= Revision[f]
      /\ \A x, y \in Links(b) : Revision[x] = Revision[y] => x = y
      /\ f \in Links(b)
  BY <1>1, LinksAhead, Zenon
<1>4. /\ Whole(history')
      /\ StoredIn(history') \subseteq StoredIn(history) \cup {HistoryOf(b)[r] : r \in DOMAIN HistoryOf(b)}
  <2>1. \A r \in DOMAIN HistoryOf(b) : HistoryOf(b)[r] \in Envelope /\ Revision[HistoryOf(b)[r]] = r
    BY <1>1, <1>3, HistoryOfAt, Zenon
  <2>2. history \in [Revisions -> Record(Envelope)] /\ next \in Nat \ {Missing} /\ Whole(history)
    BY Zenon DEF Inv, TypeOK, HInv
  <2>3. /\ Whole(WithPuts(history, HistoryOf(b), next))
        /\ StoredIn(WithPuts(history, HistoryOf(b), next))
              \subseteq StoredIn(history) \cup {HistoryOf(b)[r] : r \in DOMAIN HistoryOf(b)}
    BY <2>1, <2>2, PutHistory
  <2> QED
    BY <1>2, <2>3, Zenon
<1>5. \A r \in DOMAIN HistoryOf(b) : HistoryOf(b)[r] \in Links(b)
  BY <1>1, HistoryOfAt, Zenon
<1> HIDE DEF b, f
<1>6. SeenInStore' \subseteq Seen \cup Links(b)
  BY <1>1, <1>2, <1>3, <1>4, <1>5 DEF SeenInStore, Seen
<1>7. SeenBy(pc'[h], head'[h], read'[h], batch'[h]) \subseteq Seen \cup Links(b)
  BY <1>1, <1>2, <1>3, Zenon DEF SeenBy, Opening, b, f
<1>8. Seen' \subseteq Seen \cup Links(b)
  BY <1>6, <1>7, SeenAfter, Zenon
<1>9. /\ \A x \in Links(b) : Proper(x) /\ reached <= Revision[x] /\ Revision[x] < reached'
      /\ reached \in Nat /\ reached' \in Nat /\ reached <= reached'
  BY <1>1, <1>2, <1>3, RevisionType
<1>10. OneEach'
  BY <1>3, <1>8, <1>9, Grows, Zenon DEF HInv
<1> QED
  BY <1>4, <1>10, Zenon

\* The compare-and-swap of apply appends to the history.
LEMMA CommitKeeps ==
    ASSUME Inv, HInv, NEW h \in Handle, Alone(h), ApplyCommit(h), next' # next
    PROVE  HInv'
<1> DEFINE b == batch[h]
           f == Final(b)
<1>1. /\ Joined /\ Unbroken /\ b \in Batch /\ OpensBatch(StoredHead, b)
      /\ joined \in Envelope /\ StoredHead \in Envelope
      /\ Revision[joined] <= Revision[StoredHead] /\ reached = Revision[StoredHead] + 1
  BY CommitOn, JoinedAt, Zenon
<1>2. /\ history' = WithPuts(history, HistoryOf(b), next) /\ reached' = Revision[f] + 1
      /\ Joined' /\ StoredHead' = f /\ UNCHANGED <<batch, scan, joined>>
  BY <1>1, CommitPuts, Zenon
<1>3. f \in Envelope /\ Revision[StoredHead] < Revision[f]
  BY <1>1, LinksAhead, Zenon
<1>4. Unbroken'
  <2>1. history \in [Revisions -> Record(Envelope)] /\ next \in Nat \ {Missing} /\ Whole(history)
    BY Zenon DEF Inv, TypeOK, HInv
  <2>2. Run(WithPuts(history, HistoryOf(b), next), joined, f)
    BY <1>1, <2>1, RunGoesOn, Zenon DEF Unbroken
  <2> QED
    BY <1>2, <2>2, Zenon DEF Unbroken
<1> HIDE DEF b, f
<1>5. Line' /\ Begun'
  BY <1>1, <1>2, <1>3, <1>4, RevisionType DEF Line, Begun
<1>6. ScanBelow'
  <2>1. \A r \in Revisions : r < reached => r < reached'
    BY <1>1, <1>2, <1>3, RevisionType, RevisionsType
  <2> QED
    BY <1>1, <1>2, <2>1, Zenon DEF HInv, ScanBelow
<1>7. Committed'
  <2>1. f # joined
    BY <1>1, <1>3, RevisionType
  <2> QED
    BY <1>1, <1>2, <2>1, Zenon DEF HInv, Committed, Alone, b, f
<1> QED
  BY <1>4, <1>5, <1>6, <1>7, CommitSees, Zenon DEF HInv

LEMMA ApplyCommitKeeps ==
    ASSUME Inv, HInv, NEW h \in Handle, Alone(h), ApplyCommit(h)
    PROVE  HInv'
<1>1. CASE Leave(h, "ready") /\ UNCHANGED <<store, reached>>
  BY <1>1, LeaveKeeps, Zenon DEF ApplyCommit, Live, Applying
<1>2. CASE next' = Bump(next)
  <2>1. next' # next
    BY <1>2 DEF Bump, Inv, TypeOK
  <2> QED
    BY <2>1, CommitKeeps, Zenon
<1> QED
  BY <1>1, <1>2, Zenon DEF ApplyCommit

-----------------------------------------------------------------------------
\* join: the ticket's envelope is above every revision seen before.
LEMMA JoinAt ==
    ASSUME Inv, NEW e \in Ticket, Join(e)
    PROVE  /\ e \in Envelope /\ Proper(e) /\ reached \in Nat /\ reached <= Revision[e]
           /\ reached' = Revision[e] + 1 /\ joined' = e /\ ~Joined /\ StoredHead' = e
           /\ UNCHANGED <<history, pc, head, version, read, batch, scan>>
<1>1. /\ e \in Envelope /\ reached \in Nat /\ reached <= Revision[e]
      /\ reached' = Revision[e] + 1 /\ joined' = e /\ ~Joined
      /\ UNCHANGED <<history, pc, head, version, read, batch, scan>>
  BY TicketAssumption, EnvelopeAssumption, Zenon
     DEF Join, Inv, TypeOK, Holds, Joined, Present, CheckpointKey
<1>2. Proper(e)
  BY TicketAssumption, Zenon DEF Proper, OpensNext, Join, OpensCheckpoint
<1>3. records' = WithPuts(records, CheckpointOf(e), next)
  BY Zenon DEF Join
<1> QED
  BY <1>1, <1>2, <1>3, HeadAfterPut, Zenon

\* No handle is at the versions of a new checkpoint.
LEMMA JoinOvertakes ==
    ASSUME Inv, NEW e \in Ticket, Join(e), NEW h \in Handle
    PROVE  ~Current(h)'
<1>1. e \in Envelope /\ version' = version /\ records' = WithPuts(records, CheckpointOf(e), next)
  BY JoinAt, Zenon DEF Join
<1>2. /\ records \in [CheckpointKey -> Record(Bytes)] /\ DOMAIN CheckpointOf(e) = CheckpointKey
      /\ "head" \in CheckpointKey
  BY <1>1, CheckpointOfType, Zenon DEF Inv, TypeOK, CheckpointKey
<1>3. DOMAIN records' = CheckpointKey /\ records'["head"].version = next
  BY <1>1, <1>2, Zenon DEF WithPuts
<1>4. version[h]["head"] < next /\ next \in Nat /\ version[h] \in [CheckpointKey -> Nat]
  BY HandleInOrder, Zenon DEF HandleOK, HandleFresh, Inv, TypeOK, CheckpointKey
<1>5. version'[h]["head"] # records'["head"].version
  BY <1>1, <1>2, <1>3, <1>4
<1> QED
  BY <1>2, <1>3, <1>5, Zenon DEF Current, Versions

LEMMA JoinSees ==
    ASSUME Inv, HInv, NEW e \in Ticket, Join(e)
    PROVE  OneEach' /\ \A d \in Seen : Revision[d] < Revision[e]
<1>1. /\ e \in Envelope /\ Proper(e) /\ reached \in Nat /\ reached <= Revision[e]
      /\ reached' = Revision[e] + 1 /\ joined' = e /\ StoredHead' = e
      /\ UNCHANGED <<history, pc, head, read, batch>>
  BY JoinAt, Zenon
<1>2. Seen' \subseteq Seen \cup {e}
  <2>1. SeenInStore' \subseteq SeenInStore \cup {e}
    BY <1>1, Zenon DEF SeenInStore
  <2> QED
    BY <1>1, <2>1, SeenStays, Zenon DEF Seen
<1>3. /\ \A x \in {e} : Proper(x) /\ reached <= Revision[x] /\ Revision[x] < reached'
      /\ \A x, y \in {e} : Revision[x] = Revision[y] => x = y
      /\ reached' \in Nat /\ reached <= reached'
  BY <1>1, RevisionType
<1>4. OneEach'
  BY <1>1, <1>2, <1>3, Grows, Zenon DEF HInv
<1>5. \A d \in Seen : Revision[d] < Revision[e]
  BY <1>1, SeenEnvelopes, RevisionType DEF HInv, OneEach
<1> QED
  BY <1>4, <1>5, Zenon

LEMMA JoinKeeps ==
    ASSUME Inv, HInv, NEW e \in Ticket, Join(e)
    PROVE  HInv'
<1>1. /\ e \in Envelope /\ reached \in Nat /\ reached <= Revision[e] /\ ~Joined
      /\ reached' = Revision[e] + 1 /\ joined' = e /\ StoredHead' = e
      /\ UNCHANGED <<history, pc, head, read, batch, scan>>
  BY JoinAt, Zenon
<1>2. ~Present(history[Revision[e]])
  <2>1. Present(history[Revision[e]]) =>
           /\ history[Revision[e]].bytes \in Seen
           /\ Revision[history[Revision[e]].bytes] = Revision[e]
    BY <1>1, RevisionType, Zenon DEF HInv, Whole, Seen, SeenInStore, StoredIn
  <2> QED
    BY <1>1, <2>1, JoinSees, RevisionType
<1>3. Line'
  BY <1>1, <1>2, RevisionType DEF Line
<1>4. ScanBelow'
  <2>1. \A r \in Revisions : r < reached => r < reached' /\ r < Revision[joined']
    BY <1>1, RevisionType, RevisionsType
  <2> QED
    BY <1>1, <2>1, Zenon DEF HInv, ScanBelow
<1>5. Committed'
  BY <1>1, JoinSees, HandleSaw, RevisionType DEF Committed
<1>6. Begun'
  BY JoinOvertakes, Zenon DEF Begun
<1> QED
  BY <1>1, <1>3, <1>4, <1>5, <1>6, JoinSees, Zenon DEF HInv

\* reset's scan finds what is stored, all of it below the revision reached.
LEMMA ResetScanKeeps ==
    ASSUME Inv, HInv, ResetScan
    PROVE  HInv'
<1>1. /\ UNCHANGED <<records, history, next, pc, head, version, read, batch, joined, reached>>
      /\ scan' = [on |-> TRUE, records |-> Versions(records), history |-> Versions(history)]
  BY Zenon DEF ResetScan
<1>2. ASSUME NEW r \in Revisions, Present(history[r]) PROVE r < reached
  <2>1. history[r].bytes \in Seen /\ Revision[history[r].bytes] = r
    BY <1>2, Zenon DEF HInv, Whole, Seen, SeenInStore, StoredIn
  <2> QED
    BY <2>1, Zenon DEF HInv, OneEach
<1>3. /\ \A r \in Revisions : scan'.history[r] = history[r].version
      /\ scan'.records["head"] = records["head"].version
  BY <1>1, Zenon DEF Versions, Inv, TypeOK, CheckpointKey
<1>4. ScanBelow'
  BY <1>1, <1>2, <1>3, Zenon DEF ScanBelow, Present, Joined
<1>5. Line' /\ Committed' /\ Begun'
  BY <1>1, Zenon DEF HInv, Line, Committed, Begun, Unbroken, Joined, StoredHead, Current
<1>6. OneEach'
  <2>1. Seen' = Seen
    BY <1>1, Zenon DEF Seen, SeenInStore, Joined, StoredHead
  <2> QED
    BY <1>1, <2>1, Zenon DEF HInv, OneEach
<1> QED
  BY <1>1, <1>4, <1>5, <1>6, Zenon DEF HInv

\* Deleting from a history.
LEMMA DeleteHistory ==
    ASSUME NEW H, NEW G, Whole(H), \A r \in Revisions : G[r] = H[r] \/ G[r] = NoRecord
    PROVE  Whole(G) /\ StoredIn(G) \subseteq StoredIn(H)
<1>1. ~Present(NoRecord) /\ NoRecord.bytes = NoBytes
  BY Zenon DEF Present, NoRecord
<1> QED
  BY <1>1, Zenon DEF Whole, StoredIn

\* reset's batch deletes the checkpoint, or nothing a membership needs.
LEMMA ResetDeletes ==
    ASSUME Inv, HInv, ResetCommit
    PROVE  /\ UNCHANGED <<pc, head, version, read, batch, joined, reached>>
           /\ \A r \in Revisions : history'[r] = history[r] \/ history'[r] = NoRecord
           /\ \/ records' = [k \in CheckpointKey |-> NoRecord]
              \/ /\ records' = records
                 /\ Joined => \A r \in Revisions : Revision[joined] <= r => history'[r] = history[r]
<1> DEFINE rs == Scanned(scan.records)
           hs == Scanned(scan.history)
<1>1. /\ records \in [CheckpointKey -> Record(Bytes)] /\ scan.records \in [CheckpointKey -> Nat]
      /\ history \in [Revisions -> Record(Envelope)] /\ scan.history \in [Revisions -> Nat]
  BY Zenon DEF Inv, TypeOK
<1>2. \A r \in Revisions : history'[r] = history[r] \/ (r \in hs /\ history'[r] = NoRecord)
  BY <1>1, Zenon DEF ResetCommit, WithDeletes
<1>3. rs = {} \/ rs = CheckpointKey
  BY <1>1, Zenon DEF Scanned, Inv, StoreOK, ScanWhole
<1>4. (records' = records /\ (rs = {} \/ history' = history)) \/ records' = [k \in CheckpointKey |-> NoRecord]
  BY <1>1, <1>3, Zenon DEF ResetCommit, WithDeletes
<1>5. ASSUME Joined, rs = {}, NEW r \in Revisions, Revision[joined] <= r PROVE history'[r] = history[r]
  <2>1. scan.records["head"] = Missing
    BY <1>1, <1>5, Zenon DEF Scanned, CheckpointKey
  <2>2. r \in hs => r < Revision[joined]
    BY <1>5, <2>1, Zenon DEF HInv, ScanBelow, Scanned
  <2> QED
    BY <1>2, <1>5, <2>2, JoinedAt, RevisionType, RevisionsType
<1> QED
  BY <1>2, <1>4, <1>5, Zenon DEF ResetCommit

LEMMA ResetCommitKeeps ==
    ASSUME Inv, HInv, ResetCommit
    PROVE  HInv'
<1>1. /\ UNCHANGED <<pc, head, version, read, batch, joined, reached>>
      /\ \A r \in Revisions : history'[r] = history[r] \/ history'[r] = NoRecord
  BY ResetDeletes, Zenon
<1>2. ScanBelow'
  BY Zenon DEF ScanBelow, ResetCommit, NoScan
<1>3. Whole(history') /\ StoredIn(history') \subseteq StoredIn(history)
  BY <1>1, DeleteHistory, Zenon DEF HInv
<1>4. ASSUME Joined' => Joined /\ StoredHead' = StoredHead PROVE OneEach'
  <2>1. SeenInStore' \subseteq SeenInStore
    BY <1>1, <1>3, <1>4, Zenon DEF SeenInStore
  <2>2. Seen' \subseteq Seen
    BY <1>1, <2>1, SeenStays, Zenon DEF Seen
  <2> QED
    BY <1>1, <2>2, Zenon DEF HInv, OneEach
<1>5. CASE records' = [k \in CheckpointKey |-> NoRecord]
  <2>1. ~Joined'
    BY <1>5, Zenon DEF Joined, Present, NoRecord, CheckpointKey
  <2>2. \A h \in Handle : ~Current(h)'
    BY <1>1, <1>5, HandleInOrder, Zenon DEF HandleOK, HeldTrue, Current, Versions, NoRecord, CheckpointKey
  <2> QED
    BY <1>2, <1>3, <1>4, <2>1, <2>2, Zenon DEF HInv, Line, Committed, Begun
<1>6. CASE /\ records' = records
           /\ Joined => \A r \in Revisions : Revision[joined] <= r => history'[r] = history[r]
  <2>1. Joined' = Joined /\ StoredHead' = StoredHead
    BY <1>6, Zenon DEF Joined, StoredHead
  <2>2. ASSUME Joined, Unbroken PROVE Unbroken'
    <3>1. Run(history', joined, StoredHead)
      BY <1>6, <2>2, JoinedAt, RunKept, Zenon DEF HInv, Unbroken
    <3> QED
      BY <1>1, <2>1, <3>1, Zenon DEF Unbroken
  <2>3. Joined => history'[Revision[joined]] = history[Revision[joined]]
    BY <1>6, JoinedAt, RevisionType
  <2>4. Line'
    BY <1>1, <2>1, <2>2, <2>3, Zenon DEF HInv, Line
  <2>5. Committed'
    BY <1>1, <2>1, Zenon DEF HInv, Committed
  <2>6. ASSUME NEW h \in Handle, Current(h)' PROVE Unbroken'
    <3>1. Current(h)
      BY <1>1, <1>6, <2>6, Zenon DEF Current
    <3>2. Joined
      BY <3>1, InvKnowsHead, Zenon DEF CurrentKnowsHead
    <3> QED
      BY <2>2, <3>1, <3>2, Zenon DEF HInv, Begun
  <2> QED
    BY <1>2, <1>3, <1>4, <2>1, <2>4, <2>5, <2>6, Zenon DEF HInv, Begun
<1> QED
  BY <1>5, <1>6, ResetDeletes, Zenon

-----------------------------------------------------------------------------
LEMMA InitKeeps == Init => HInv
<1> SUFFICES ASSUME Init PROVE HInv
  BY Zenon
<1>1. ~Joined /\ \A r \in Revisions : history[r] = NoRecord
  BY Zenon DEF Init, Joined, Present, NoRecord, CheckpointKey
<1>2. \A h \in Handle : pc[h] = "closed"
  BY Zenon DEF Init
<1>3. Seen = {}
  BY <1>1, <1>2 DEF Seen, SeenInStore, StoredIn, SeenBy, Opening, Live, Applying, Backing, Present, NoRecord
<1>4. Whole(history) /\ OneEach /\ Line
  BY <1>1, <1>3 DEF Whole, OneEach, Line, Present, NoRecord
<1>5. ScanBelow
  BY Zenon DEF Init, ScanBelow, NoScan
<1>6. Committed /\ Begun
  BY <1>2, Zenon DEF Committed, Begun, Current, Live, Applying, Backing
<1> QED
  BY <1>4, <1>5, <1>6, Zenon DEF HInv

\* The history invariant is preserved by every step.
LEMMA StepKeeps ==
    ASSUME Inv, HInv, [Next]_vars
    PROVE  HInv'
<1>1. ASSUME NEW h \in Handle, HandleStep(h) PROVE HInv'
  <2>0. Alone(h)
    BY <1>1, StepAlone, Zenon
  <2>1. CASE OpenEnvelope(h) \/ OpenHead(h) \/ OpenSigner(h)
    BY <2>0, <2>1, OpenEnvelopeKeeps, OpenKeeps, Zenon
  <2>2. CASE Seed(h) \/ SeedPut(h) \/ SeedReread(h)
    BY <2>0, <2>2, SeedKeeps, SeedPutKeeps, Zenon
  <2>3. CASE (\E b \in Batch : Apply(h, b)) \/ ApplyCommit(h) \/ Abandon(h) \/ Drop(h)
    BY <2>0, <2>3, ApplyKeeps, ApplyCommitKeeps, Zenon
  <2>4. CASE BackEnvelope(h) \/ BackHead(h) \/ BackSigner(h)
    BY <2>0, <2>4, BackKeeps, BackSignerKeeps, Zenon
  <2> QED
    BY <1>1, <2>1, <2>2, <2>3, <2>4, Zenon DEF HandleStep
<1>2. CASE UNCHANGED vars
  <2>1. UNCHANGED <<records, history, pc, head, version, read, batch, scan, joined, reached>>
    BY <1>2, Zenon DEF vars
  <2>2. Seen' = Seen
    BY <2>1, Zenon DEF Seen, SeenInStore, Joined, StoredHead
  <2>3. OneEach'
    BY <2>1, <2>2, Zenon DEF HInv, OneEach
  <2>4. Whole(history)' /\ Line' /\ ScanBelow' /\ Committed' /\ Begun'
    BY <2>1, Zenon DEF HInv, Line, ScanBelow, Committed, Begun, Unbroken,
                Joined, StoredHead, Current
  <2> QED
    BY <2>3, <2>4, Zenon DEF HInv
<1> QED
  BY <1>1, <1>2, JoinKeeps, ResetScanKeeps, ResetCommitKeeps, Zenon DEF Next

LEMMA HistoryInvariance == Spec => [](Inv /\ HInv)
<1>1. Inv /\ HInv /\ [Next]_vars => HInv'
  BY StepKeeps, Zenon
<1> QED
  BY <1>1, InitKeeps, Invariance, PTL DEF Spec

\* Once a handle works on a membership, or has moved it on, every revision
\* from the one it began with to the stored head is retained and linked:
\* updates_after can serve the whole of it.
THEOREM HistoryUnbrokenAlways == Spec => []HistoryUnbroken
<1>1. Inv /\ HInv => HistoryUnbroken
  BY Zenon DEF HInv, Line, Begun, Unbroken, Run, Retained, HistoryUnbroken
<1> QED
  BY <1>1, HistoryInvariance, PTL

\* What a handle serves are envelopes that opened, from the peer's head to
\* its own.
LEMMA ServedSeen ==
    ASSUME Inv, HInv, NEW h \in Handle, NEW base \in Envelope, pc[h] \in Live, Serves(h, base),
           base # head[h]
    PROVE  /\ head[h] \in Seen /\ head[h] \in Envelope /\ Revision[base] < Revision[head[h]]
           /\ \A r \in Revision[base]..Revision[head[h]] :
                 history[r].bytes \in Seen /\ Revision[history[r].bytes] = r
<1>1. head[h] \in Seen /\ head[h] \in Envelope
  BY HandleSaw, SeenEnvelopes, Zenon DEF HInv
<1>2. /\ Revision[base] <= Revision[head[h]] /\ history[Revision[base]].bytes = base
      /\ \A r \in Revision[base]..Revision[head[h]] : Retained(r)
  BY Zenon DEF Serves, Knows
<1>3. \A r \in Revision[base]..Revision[head[h]] :
         history[r].bytes \in Seen /\ Revision[history[r].bytes] = r
  BY <1>2, Zenon DEF Retained, HInv, Whole, Seen, SeenInStore, StoredIn
<1>4. Revision[base] \in Revision[base]..Revision[head[h]]
  BY <1>1, <1>2, RevisionType
<1>5. Revision[base] # Revision[head[h]]
  BY <1>1, <1>2, <1>3, <1>4, Zenon DEF HInv, OneEach
<1> QED
  BY <1>1, <1>2, <1>3, <1>5, RevisionType

\* Envelopes that opened, one linked to the next, open one after the other.
LEMMA LinkedOpens ==
    ASSUME NEW base \in Envelope, NEW u \in Seq(Envelope), LinkedBatch(base, u),
           \A i \in 1..Len(u) : Proper(u[i])
    PROVE  OpensBatch(base, u)
<1> SUFFICES ASSUME NEW i \in 1..Len(u)
             PROVE  OpensNext(IF i = 1 THEN base ELSE u[i - 1], u[i])
  BY Zenon DEF OpensBatch
<1>1. Previous[u[i]] = IF i = 1 THEN base ELSE u[i - 1]
  BY Zenon DEF LinkedBatch
<1>2. (IF i = 1 THEN base ELSE u[i - 1]) \in Envelope
  OBVIOUS
<1>3. Previous[u[i]] # NoEnvelope
  BY <1>1, <1>2, EnvelopeAssumption, Zenon
<1> QED
  BY <1>1, <1>3, Zenon DEF Proper

\* What a handle serves opens on the peer's head and ends in its own.
LEMMA ServedOpens ==
    ASSUME Inv, HInv, NEW h \in Handle, NEW base \in Envelope, pc[h] \in Live, Serves(h, base),
           base # head[h]
    PROVE  OpensBatch(base, UpdatesAfter(h, base)) /\ Final(UpdatesAfter(h, base)) = head[h]
<1> DEFINE u == UpdatesAfter(h, base)
           s == Revision[base]
           n == Revision[head[h]] - s
<1>1. /\ head[h] \in Seen /\ s \in Nat /\ Revision[head[h]] \in Nat /\ s < Revision[head[h]]
      /\ \A r \in s..Revision[head[h]] : history[r].bytes \in Seen /\ Revision[history[r].bytes] = r
  BY ServedSeen, RevisionType, Zenon
<1>2. n \in Nat \ {0} /\ s + n = Revision[head[h]] /\ \A i \in 1..n : s + i \in s..Revision[head[h]]
  BY <1>1
<1>3. u = [i \in 1..n |-> history[s + i].bytes]
  BY Zenon DEF UpdatesAfter
<1> HIDE DEF u, n
<1>4. \A i \in 1..n : u[i] \in Seen /\ u[i] \in Envelope /\ Revision[u[i]] = s + i
  BY <1>1, <1>2, <1>3, SeenEnvelopes, Zenon DEF HInv
<1>5. u \in Seq(Envelope) /\ Len(u) = n
  BY <1>2, <1>3, <1>4
<1>6. OpensBatch(base, u)
  <2>1. \A i \in 1..Len(u) : Proper(u[i])
    BY <1>4, <1>5, Zenon DEF HInv, OneEach
  <2>2. LinkedBatch(base, u)
    BY Zenon DEF Serves, u
  <2> QED
    BY <1>5, <2>1, <2>2, LinkedOpens, Zenon
<1>7. Final(u) = head[h]
  <2>1. Final(u) \in Seen /\ Revision[Final(u)] = Revision[head[h]]
    BY <1>2, <1>4, <1>5 DEF Final
  <2> QED
    BY <1>1, <2>1, Zenon DEF HInv, OneEach
<1> QED
  BY <1>6, <1>7, Zenon DEF u

\* What a live handle serves is a chain the peer can apply envelope by
\* envelope on top of its own head, even when the handle is behind the store
\* or the membership was reset under it.
THEOREM ServedChainOpensAlways == Spec => []ServedChainOpens
<1>1. Inv /\ HInv => ServedChainOpens
  BY ServedOpens, Zenon DEF ServedChainOpens
<1> QED
  BY <1>1, HistoryInvariance, PTL

-----------------------------------------------------------------------------
\* The handles of one store never part: those at one revision hold the same
\* envelope, and none of the membership is ahead of the store or beside what
\* the store retains.
OnLine ==
    /\ \A g, h \in Handle :
          pc[g] \in Live /\ pc[h] \in Live /\ Revision[head[g]] = Revision[head[h]] =>
              head[g] = head[h]
    /\ \A h \in Handle :
          /\ pc[h] \in Live /\ Joined /\ Revision[joined] <= Revision[head[h]]
          /\ StoredHead # joined \/ \E g \in Handle : Current(g)
          => /\ Revision[head[h]] <= Revision[StoredHead]
             /\ history[Revision[head[h]]].bytes = head[h]

\* Whatever is applied, aborted, dropped or reset around them, no two live
\* handles fork, and a handle that lags behind the store is on the line the
\* store retains (PersistedConfigState::apply, open, seed_history).
THEOREM HandlesStayOnLine == Spec => []OnLine
<1>1. ASSUME Inv, HInv PROVE OnLine
  <2>1. ASSUME NEW h \in Handle, pc[h] \in Live
        PROVE  head[h] \in Seen /\ head[h] \in Envelope /\ Revision[head[h]] \in Nat
    BY <1>1, <2>1, HandleSaw, SeenEnvelopes, Zenon DEF HInv
  <2>2. ASSUME NEW g \in Handle, NEW h \in Handle, pc[g] \in Live, pc[h] \in Live,
               Revision[head[g]] = Revision[head[h]]
        PROVE  head[g] = head[h]
    BY <1>1, <2>1, <2>2, Zenon DEF HInv, OneEach
  <2>3. ASSUME NEW h \in Handle, pc[h] \in Live, Joined, Revision[joined] <= Revision[head[h]],
               StoredHead # joined \/ \E g \in Handle : Current(g)
        PROVE  /\ Revision[head[h]] <= Revision[StoredHead]
               /\ history[Revision[head[h]]].bytes = head[h]
    <3> DEFINE r == Revision[head[h]]
    <3>1. /\ joined \in Envelope /\ StoredHead \in Envelope /\ reached = Revision[StoredHead] + 1
          /\ Run(history, joined, StoredHead) /\ Whole(history)
      BY <1>1, <2>3, JoinedAt, Zenon DEF HInv, Line, Begun, Unbroken
    <3>2. r < reached
      BY <1>1, <2>1, <2>3, Zenon DEF HInv, OneEach
    <3>3. r \in Revision[joined]..Revision[StoredHead]
      BY <2>1, <2>3, <3>1, <3>2, RevisionType
    <3>4. r \in Revisions /\ Present(history[r])
      BY <3>1, <3>3, RunRetained, Zenon
    <3>5. history[r].bytes \in Seen /\ Revision[history[r].bytes] = r
      BY <3>1, <3>4, Zenon DEF Whole, Seen, SeenInStore, StoredIn
    <3>6. history[r].bytes = head[h]
      BY <1>1, <2>1, <2>3, <3>5, Zenon DEF HInv, OneEach
    <3> QED
      BY <3>1, <3>3, <3>6, RevisionType
  <2> QED
    BY <2>2, <2>3, Zenon DEF OnLine
<1> QED
  BY <1>1, HistoryInvariance, PTL

\* What a handle holds only moves on.
HandleForward(h) ==
    pc[h] \in Live /\ pc'[h] \in Live /\ head'[h] # head[h] =>
        Revision[head'[h]] > Revision[head[h]] /\ Epoch[head'[h]] >= Epoch[head[h]]

\* A handle that is being opened, and one that is live.
LEMMA OpeningNotLive == \A h \in Handle :
    pc[h] \in {"seed", "seedPut", "seedReread"} => pc[h] \notin Live
  BY DEF Live, Applying

\* Only a step of the handle itself moves it.
LEMMA OthersDoNot ==
    ASSUME Inv, NEW h \in Handle, NEW g \in Handle, HandleStep(g), g # h
    PROVE  head'[h] = head[h]
<1>1. head' = head \/ (\E e : head' = [head EXCEPT ![g] = e]) => head'[h] = head[h]
  BY Zenon DEF Inv, TypeOK
<1>2. head' = head \/ \E e : head' = [head EXCEPT ![g] = e]
  BY Zenon DEF HandleStep, OpenEnvelope, OpenHead, OpenSigner, Seed, SeedCompared, SeedPut, SeedReread,
               Opened, Apply, ApplyCommit, BackEnvelope, BackHead, BackSigner, Abandon, Drop
<1> QED
  BY <1>1, <1>2, Zenon

LEMMA OwnStepForward ==
    ASSUME Inv, NEW h \in Handle, HandleStep(h)
    PROVE  HandleForward(h)
<1>1. CASE pc[h] \in {"seed", "seedPut", "seedReread"}
  BY <1>1, OpeningNotLive, Zenon DEF HandleForward
<1>2. CASE BackSigner(h)
  <2>1. pc[h] \in Applying /\ pc[h] \in Live
    BY <1>2 DEF BackSigner, Applying, Live
  <2>2. head[h] \in Envelope /\ batch[h] \in Batch /\ OpensBatch(head[h], batch[h])
    BY <2>1, HandleInOrder, Zenon DEF HandleOK, HeldTrue, BatchOpens
  <2>3. Revision[Final(batch[h])] > Revision[head[h]] /\ Epoch[Final(batch[h])] >= Epoch[head[h]]
    BY <2>2, BatchRises, BatchLen, EnvelopeAssumption
  <2>4. head'[h] = Final(batch[h]) \/ head'[h] = head[h]
    BY <1>2, Zenon DEF BackSigner, Inv, TypeOK
  <2> QED
    BY <2>3, <2>4, Zenon DEF HandleForward
<1>3. CASE head' = head
  BY <1>3, Zenon DEF HandleForward
<1> QED
  BY <1>1, <1>2, <1>3, Zenon DEF HandleStep, OpenEnvelope, OpenHead, OpenSigner, Seed, SeedPut, SeedReread,
               Apply, ApplyCommit, BackEnvelope, BackHead, Abandon, Drop

\* The configuration a live handle gives out never goes back to a lower
\* revision or epoch, whatever another handle or a reset does to the store
\* under it (apply moves the handle only to what it has read back).
THEOREM HandlesOnlyAdvance == Spec => [][\A h \in Handle : HandleForward(h)]_vars
<1>1. ASSUME Inv, [Next]_vars PROVE [\A h \in Handle : HandleForward(h)]_vars
  <2>1. CASE UNCHANGED vars
    BY <2>1, Zenon
  <2>2. CASE head' = head
    BY <2>2, Zenon DEF HandleForward
  <2>3. ASSUME NEW g \in Handle, HandleStep(g) PROVE \A h \in Handle : HandleForward(h)
    <3> SUFFICES ASSUME NEW h \in Handle PROVE HandleForward(h)
      BY Zenon
    <3>1. CASE h = g
      BY <1>1, <2>3, <3>1, OwnStepForward, Zenon
    <3>2. CASE h # g
      BY <1>1, <2>3, <3>2, OthersDoNot, Zenon DEF HandleForward
    <3> QED
      BY <3>1, <3>2, Zenon
  <2> QED
    BY <1>1, <2>1, <2>2, <2>3, Zenon DEF Next, Join, ResetScan, ResetCommit
<1> QED
  BY <1>1, Invariance, PTL DEF Spec

=============================================================================
