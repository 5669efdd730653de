------------------------- MODULE MemberConfigProofs -------------------------
(***************************************************************************)
(* The member checkpoint, proved for any set of handles, any universe of   *)
(* envelopes and any batch bound.                                          *)
(*                                                                         *)
(* The invariant behind it: the store never hands out a version twice, so  *)
(* a record read earlier that still has the version of the stored one is   *)
(* the stored one (ReadTrue), and a handle that still has the envelope     *)
(* version of the store has its head in memory (HeldTrue).                 *)
(***************************************************************************)
EXTENDS MemberConfig, TLAPS

-----------------------------------------------------------------------------

Place == {"closed"} \cup Opening \cup Live

\* One handle against a store with the checkpoint records rs and the version
\* counter n: its place p, head hd, versions vs, records read so far rd and
\* batch bt.  The types, ...
HandleType(p, hd, vs, rd, bt) ==
    /\ p \in Place
    /\ hd \in Envelope \cup {NoEnvelope}
    /\ vs \in [CheckpointKey -> Nat]
    /\ rd \in [CheckpointKey -> Record(Bytes)]
    /\ bt \in Batch \cup {<< >>}

\* ... the counter is ahead of every version the handle has seen, ...
HandleFresh(n, vs, rd) ==
    \A k \in CheckpointKey : vs[k] < n /\ rd[k].version < n

\* ... a record it read is the stored one as long as the versions agree, ...
ReadTrue(rs, rd) ==
    \A k \in CheckpointKey :
        Present(rd[k]) /\ rd[k].version = rs[k].version => rd[k].bytes = rs[k].bytes

\* ... the steps of open and of the read-backs have read what they need, ...
ReadSoFar(p, rd) ==
    /\ p \in Opening \cup {"backHead", "backSigner"} => Present(rd["envelope"])
    /\ p \in {"openHead", "openSigner"} => rd["envelope"].bytes \in Envelope
    /\ p \in {"seed", "seedPut", "seedReread"} => rd["envelope"].bytes \in Recipient

\* ... with the stored envelope's version it has the stored head in memory ...
HeldTrue(rs, p, hd, vs) ==
    p \in Live =>
        /\ hd \in Envelope
        /\ vs["envelope"] # Missing
        /\ vs["envelope"] = rs["envelope"].version => hd = rs["envelope"].bytes

\* ... and the batch it applies opens on top of its head.
BatchOpens(p, hd, bt) ==
    p \in Applying => bt \in Batch /\ OpensBatch(hd, bt)

HandleOK(rs, n, p, hd, vs, rd, bt) ==
    /\ HandleType(p, hd, vs, rd, bt)
    /\ HandleFresh(n, vs, rd)
    /\ ReadTrue(rs, rd)
    /\ ReadSoFar(p, rd)
    /\ HeldTrue(rs, p, hd, vs)
    /\ BatchOpens(p, hd, bt)

\* The versions in the store are below the counter.
StoreFresh == \A k \in CheckpointKey : records[k].version < next

\* A scan saw a whole checkpoint or none.
ScanWhole ==
    \/ \A k \in CheckpointKey : scan.records[k] = Missing
    \/ \A k \in CheckpointKey : scan.records[k] # Missing

StoreType ==
    /\ records \in [CheckpointKey -> Record(Bytes)]
    /\ history \in [Revisions -> Record(Envelope)]
    /\ next \in Nat \ {Missing}
    /\ scan \in [on : BOOLEAN,
                 records : [CheckpointKey -> Nat],
                 history : [Revisions -> Nat]]
    /\ joined \in Envelope \cup {NoEnvelope}
    /\ reached \in Nat

StoreOK == CheckpointWhole /\ StoreFresh /\ ScanWhole

HandlesOK ==
    \A h \in Handle :
        HandleOK(records, next, pc[h], head[h], version[h], read[h], batch[h])

Inv == TypeOK /\ StoreOK /\ HandlesOK

-----------------------------------------------------------------------------
\* A batch is a non-empty sequence of envelopes.
LEMMA BatchLen ==
    ASSUME NEW b \in Batch
    PROVE  Len(b) \in Nat \ {0} /\ b \in [1..Len(b) -> Envelope] /\ Final(b) \in Envelope
<1>1. PICK n \in 1..MaxBatch : b \in [1..n -> Envelope]
  BY Zenon DEF Batch
<1>2. n \in Nat \ {0}
  BY <1>1, EnvelopeAssumption
<1>3. b \in Seq(Envelope) /\ Len(b) = n
  BY <1>1, <1>2
<1> QED
  BY <1>1, <1>2, <1>3 DEF Final

\* The last envelope of a batch that opens is one this member can open.
LEMMA FinalOpens ==
    ASSUME NEW b \in Batch, NEW e \in Envelope, OpensBatch(e, b)
    PROVE  Final(b) \in Recipient
<1>1. Len(b) \in 1..Len(b)
  BY BatchLen
<1> QED
  BY <1>1, Zenon DEF OpensBatch, OpensNext, Final

\* What a checkpoint batch puts is of the store's type.
LEMMA CheckpointOfType ==
    ASSUME NEW e \in Envelope
    PROVE  /\ CheckpointOf(e) \in [CheckpointKey -> Bytes]
           /\ CheckpointOf(e)["envelope"] = e
           /\ CheckpointOf(e)["head"] = e
           /\ CheckpointOf(e)["signer"] = Signer[e]
  BY EnvelopeAssumption, Zenon DEF CheckpointOf, CheckpointKey, Bytes

\* The history records of a batch are envelopes under their own revisions.
LEMMA HistoryOfType ==
    ASSUME NEW b \in Batch
    PROVE  /\ DOMAIN HistoryOf(b) \subseteq Revisions
           /\ \A r \in DOMAIN HistoryOf(b) : HistoryOf(b)[r] \in Envelope
<1>1. \A i \in 1..Len(b) : b[i] \in Envelope
  BY BatchLen, Zenon
<1>2. DOMAIN HistoryOf(b) = {Revision[b[i]] : i \in 1..Len(b)}
  BY Zenon DEF HistoryOf
<1>3. ASSUME NEW r \in DOMAIN HistoryOf(b) PROVE HistoryOf(b)[r] \in Envelope
  <2>1. PICK i \in 1..Len(b) : r = Revision[b[i]]
    BY <1>2, Zenon
  <2>2. \E e \in {b[j] : j \in 1..Len(b)} : Revision[e] = r
    BY <2>1, Zenon
  <2>3. HistoryOf(b)[r] = CHOOSE e \in {b[j] : j \in 1..Len(b)} : Revision[e] = r
    BY <1>2, Zenon DEF HistoryOf
  <2>4. HistoryOf(b)[r] \in {b[j] : j \in 1..Len(b)}
    BY <2>2, <2>3, Zenon
  <2> QED
    BY <1>1, <2>4, Zenon
<1> QED
  BY <1>1, <1>2, <1>3, Zenon DEF Revisions

\* Putting bytes under a fresh version keeps a range of records well typed.
LEMMA PutsType ==
    ASSUME NEW K, NEW B, NEW f \in [K -> Record(B)], NEW v \in Nat,
           NEW p, DOMAIN p \subseteq K, \A k \in DOMAIN p : p[k] \in B
    PROVE  WithPuts(f, p, v) \in [K -> Record(B)]
  BY Zenon DEF WithPuts, Record

\* So does deleting records.
LEMMA DeletesType ==
    ASSUME NEW K, NEW B, NEW f \in [K -> Record(B)], NEW S
    PROVE  WithDeletes(f, S) \in [K -> Record(B)]
  BY Zenon DEF WithDeletes, Record, NoRecord, Missing

-----------------------------------------------------------------------------
\* A handle stays in order while the store changes under it: each record keeps
\* its version, disappears, or gets the next version of the counter.
LEMMA HandleKeeps ==
    ASSUME NEW rs \in [CheckpointKey -> Record(Bytes)], NEW n \in Nat,
           NEW rs2 \in [CheckpointKey -> Record(Bytes)], NEW n2 \in Nat, n <= n2,
           NEW p, NEW hd, NEW vs, NEW rd, NEW bt,
           HandleOK(rs, n, p, hd, vs, rd, bt),
           \A k \in CheckpointKey : rs2[k] = rs[k] \/ rs2[k].version \in {Missing, n}
    PROVE  HandleOK(rs2, n2, p, hd, vs, rd, bt)
<1> USE DEF HandleOK
<1>0. \A k \in CheckpointKey : vs[k] \in Nat /\ rd[k].version \in Nat
  BY Zenon DEF HandleType, Record
<1>1. HandleFresh(n2, vs, rd)
  BY <1>0 DEF HandleFresh
<1>2. ReadTrue(rs2, rd)
  <2> SUFFICES ASSUME NEW k \in CheckpointKey,
                      rd[k].version # Missing, rd[k].version = rs2[k].version
               PROVE  rs2[k] = rs[k]
    BY Zenon DEF ReadTrue, Present
  <2> QED
    BY <1>0 DEF HandleFresh
<1>3. HeldTrue(rs2, p, hd, vs)
  BY DEF HandleType, HandleFresh, HeldTrue, CheckpointKey
<1> QED
  BY <1>1, <1>2, <1>3, Zenon

\* What a step may do to the store.
StoreMoves ==
    /\ StoreType' /\ StoreOK'
    /\ next <= next'
    /\ \A k \in CheckpointKey :
          records'[k] = records[k] \/ records'[k].version \in {Missing, next}

\* A step that leaves the store alone moves it in the sense of StoreMoves.
LEMMA StoreStays ==
    ASSUME Inv, UNCHANGED <<store, scan, joined, reached>>
    PROVE  StoreMoves
<1>1. StoreType'
  BY Zenon DEF Inv, TypeOK, StoreType, store
<1>2. StoreOK'
  BY Zenon DEF Inv, StoreOK, CheckpointWhole, StoreFresh, ScanWhole, store
<1>3. next <= next' /\ records' = records
  BY DEF Inv, TypeOK, store
<1> QED
  BY <1>1, <1>2, <1>3, Zenon DEF StoreMoves

\* A handle that did nothing is in order after it.
LEMMA OthersKeep ==
    ASSUME Inv, StoreMoves, NEW h \in Handle
    PROVE  HandleOK(records', next', pc[h], head[h], version[h], read[h], batch[h])
  BY HandleKeeps, Zenon DEF Inv, TypeOK, HandlesOK, StoreMoves, StoreType

\* A step of one handle keeps the invariant if the handle is in order after it.
LEMMA LocalStep ==
    ASSUME Inv, StoreMoves,
           NEW h \in Handle, NEW p, NEW hd, NEW vs, NEW rd, NEW bt,
           pc' = [pc EXCEPT ![h] = p], head' = [head EXCEPT ![h] = hd],
           version' = [version EXCEPT ![h] = vs], read' = [read EXCEPT ![h] = rd],
           batch' = [batch EXCEPT ![h] = bt],
           HandleOK(records', next', p, hd, vs, rd, bt)
    PROVE  Inv'
<1>1. TypeOK'
  BY Zenon DEF Inv, TypeOK, StoreMoves, StoreType, HandleOK, HandleType, Place
<1>2. ASSUME NEW g \in Handle
      PROVE  HandleOK(records', next', pc'[g], head'[g], version'[g], read'[g], batch'[g])
  <2>1. CASE g = h
    BY <2>1, Zenon DEF Inv, TypeOK
  <2>2. CASE g # h
    BY <2>2, OthersKeep, Zenon DEF Inv, TypeOK
  <2> QED
    BY <2>1, <2>2, Zenon
<1> QED
  BY <1>1, <1>2, Zenon DEF Inv, HandlesOK, StoreMoves

\* So does a step of no handle.
LEMMA StoreStep ==
    ASSUME Inv, StoreMoves, UNCHANGED <<pc, head, version, read, batch>>
    PROVE  Inv'
<1>1. TypeOK'
  BY Zenon DEF Inv, TypeOK, StoreMoves, StoreType
<1>2. HandlesOK'
  BY OthersKeep, Zenon DEF HandlesOK
<1> QED
  BY <1>1, <1>2, Zenon DEF Inv, StoreMoves

\* A record without bytes is a record; nothing is read of it.
LEMMA NothingRead ==
    LET none == [k \in CheckpointKey |-> NoRecord]
    IN  /\ none \in [CheckpointKey -> Record(Bytes)]
        /\ \A k \in CheckpointKey : none[k].version = Missing /\ ~Present(none[k])
  BY Zenon DEF NoRecord, Record, Present, Missing

\* A handle that ends an operation, with the head and versions it has then.
LEMMA LeaveStep ==
    ASSUME Inv, StoreMoves,
           NEW h \in Handle, NEW p \in {"closed", "ready"},
           NEW hd \in Envelope \cup {NoEnvelope}, NEW vs \in [CheckpointKey -> Nat],
           head' = [head EXCEPT ![h] = hd], version' = [version EXCEPT ![h] = vs],
           Leave(h, p),
           \A k \in CheckpointKey : vs[k] < next',
           HeldTrue(records', p, hd, vs)
    PROVE  Inv'
<1> DEFINE none == [k \in CheckpointKey |-> NoRecord]
<1>1. none \in [CheckpointKey -> Record(Bytes)] /\ \A k \in CheckpointKey : none[k].version = Missing
  BY NothingRead, Zenon
<1>2. next' \in Nat \ {Missing}
  BY Zenon DEF StoreMoves, StoreType
<1> HIDE DEF none
<1>3. HandleType(p, hd, vs, none, << >>)
  BY <1>1, Zenon DEF HandleType, Place, Live
<1>4. HandleFresh(next', vs, none)
  BY <1>1, <1>2 DEF HandleFresh, Missing
<1>5. ReadTrue(records', none) /\ ReadSoFar(p, none) /\ BatchOpens(p, hd, << >>)
  BY <1>1, Zenon DEF ReadTrue, ReadSoFar, BatchOpens, Present, Opening, Applying
<1>6. HandleOK(records', next', p, hd, vs, none, << >>)
  BY <1>3, <1>4, <1>5, Zenon DEF HandleOK
<1>7. /\ pc' = [pc EXCEPT ![h] = p]
      /\ read' = [read EXCEPT ![h] = none]
      /\ batch' = [batch EXCEPT ![h] = << >>]
  BY Zenon DEF Leave, Goto, none
<1> QED
  BY <1>6, <1>7, LocalStep, Zenon

\* The same, when head and versions stay what they are.
LEMMA QuitStep ==
    ASSUME Inv, UNCHANGED <<store, head, version, scan, joined, reached>>,
           NEW h \in Handle, NEW p \in {"closed", "ready"}, Leave(h, p),
           p = "ready" => pc[h] \in Live
    PROVE  Inv'
<1>1. HandleOK(records, next, pc[h], head[h], version[h], read[h], batch[h])
  BY Zenon DEF Inv, HandlesOK
<1>2. /\ head[h] \in Envelope \cup {NoEnvelope}
      /\ version[h] \in [CheckpointKey -> Nat]
      /\ \A k \in CheckpointKey : version[h][k] < next
  BY <1>1, Zenon DEF HandleOK, HandleType, HandleFresh
<1>3. HeldTrue(records, p, head[h], version[h])
  BY <1>1, Zenon DEF HandleOK, HeldTrue, Live, Applying
<1>4. head' = [head EXCEPT ![h] = head[h]] /\ version' = [version EXCEPT ![h] = version[h]]
  BY Zenon DEF Inv, TypeOK
<1>5. StoreMoves /\ records' = records /\ next' = next
  BY StoreStays, Zenon DEF store
<1> QED
  BY <1>2, <1>3, <1>4, <1>5, LeaveStep, Zenon

\* A handle that reads a record of the store and goes on.
LEMMA ReadStep ==
    ASSUME Inv, UNCHANGED <<store, head, version, batch, scan, joined, reached>>,
           NEW h \in Handle, NEW k \in CheckpointKey, NEW p \in Place,
           read' = [read EXCEPT ![h][k] = records[k]], Goto(h, p),
           ReadSoFar(p, [read[h] EXCEPT ![k] = records[k]]),
           p \in Live => pc[h] \in Live,
           p \in Applying => pc[h] \in Applying
    PROVE  Inv'
<1> DEFINE rd == [read[h] EXCEPT ![k] = records[k]]
<1>1. HandleOK(records, next, pc[h], head[h], version[h], read[h], batch[h])
  BY Zenon DEF Inv, HandlesOK
<1>2. read[h] \in [CheckpointKey -> Record(Bytes)] /\ records[k] \in Record(Bytes)
  BY <1>1, Zenon DEF HandleOK, HandleType, Inv, TypeOK
<1>3. rd \in [CheckpointKey -> Record(Bytes)]
  BY <1>2, Zenon
<1>4. HandleType(p, head[h], version[h], rd, batch[h])
  BY <1>1, <1>3, Zenon DEF HandleOK, HandleType
<1>5. \A j \in CheckpointKey : rd[j] = (IF j = k THEN records[k] ELSE read[h][j])
  BY <1>2, Zenon
<1> HIDE DEF rd
<1>6. HandleFresh(next, version[h], rd)
  BY <1>1, <1>5, Zenon DEF HandleOK, HandleFresh, Inv, StoreOK, StoreFresh
<1>7. ReadTrue(records, rd)
  BY <1>1, <1>5, Zenon DEF HandleOK, ReadTrue
<1>8. HeldTrue(records, p, head[h], version[h]) /\ BatchOpens(p, head[h], batch[h])
  BY <1>1, Zenon DEF HandleOK, HeldTrue, BatchOpens
<1>9. HandleOK(records, next, p, head[h], version[h], rd, batch[h])
  BY <1>4, <1>6, <1>7, <1>8, Zenon DEF HandleOK, rd
<1>10. /\ pc' = [pc EXCEPT ![h] = p]
       /\ head' = [head EXCEPT ![h] = head[h]]
       /\ version' = [version EXCEPT ![h] = version[h]]
       /\ read' = [read EXCEPT ![h] = rd]
       /\ batch' = [batch EXCEPT ![h] = batch[h]]
  BY Zenon DEF Inv, TypeOK, Goto, rd
<1>11. StoreMoves /\ records' = records /\ next' = next
  BY StoreStays, Zenon DEF store
<1> QED
  BY ONLY Inv, h \in Handle, <1>9, <1>10, <1>11, LocalStep, Zenon

\* A handle that opens with the records it has read.
LEMMA OpenedStep ==
    ASSUME Inv, StoreMoves,
           NEW h \in Handle, pc[h] \in {"seed", "seedPut", "seedReread"}, Opened(h)
    PROVE  Inv'
<1> DEFINE hd == read[h]["envelope"].bytes
           vs == Versions(read[h])
<1>1. HandleOK(records', next', pc[h], head[h], version[h], read[h], batch[h])
  BY OthersKeep, Zenon
<1>2. read[h] \in [CheckpointKey -> Record(Bytes)]
  BY <1>1, Zenon DEF HandleOK, HandleType
<1>3. Present(read[h]["envelope"]) /\ hd \in Recipient
  BY <1>1, Zenon DEF HandleOK, ReadSoFar, Opening
<1>4. hd \in Envelope
  BY <1>3, EnvelopeAssumption, Zenon
<1>5. vs \in [CheckpointKey -> Nat] /\ \A k \in CheckpointKey : vs[k] = read[h][k].version
  BY <1>2, Zenon DEF Versions, Record
<1>6. \A k \in CheckpointKey : vs[k] < next'
  BY <1>1, <1>5, Zenon DEF HandleOK, HandleFresh
<1>7. HeldTrue(records', "ready", hd, vs)
  BY <1>1, <1>3, <1>4, <1>5, Zenon DEF HandleOK, HeldTrue, ReadTrue, Present, CheckpointKey
<1>8. Leave(h, "ready") /\ head' = [head EXCEPT ![h] = hd] /\ version' = [version EXCEPT ![h] = vs]
  BY Zenon DEF Opened
<1> HIDE DEF hd, vs
<1> QED
  BY <1>4, <1>5, <1>6, <1>7, <1>8, LeaveStep, Zenon

-----------------------------------------------------------------------------
\* A new checkpoint, put under the next version by join or apply.
LEMMA CheckpointPut ==
    ASSUME Inv, NEW e \in Recipient,
           records' = WithPuts(records, CheckpointOf(e), next), next' = Bump(next),
           history' \in [Revisions -> Record(Envelope)], scan' = scan,
           joined' \in Envelope \cup {NoEnvelope}, reached' \in Nat
    PROVE  StoreMoves /\ \A k \in CheckpointKey : records'[k].version = next
<1>1. next \in Nat \ {Missing} /\ records \in [CheckpointKey -> Record(Bytes)]
  BY Zenon DEF Inv, TypeOK
<1>2. e \in Envelope
  BY EnvelopeAssumption, Zenon
<1>3. CheckpointOf(e) \in [CheckpointKey -> Bytes]
  BY <1>2, CheckpointOfType, Zenon
<1>4. \A k \in CheckpointKey :
         records'[k].version = next /\ records'[k].bytes = CheckpointOf(e)[k]
  BY <1>1, <1>3, Zenon DEF WithPuts
<1>5. next' \in Nat \ {Missing} /\ next < next'
  BY <1>1 DEF Bump, Missing
<1>6. StoreType'
  <2>1. records' \in [CheckpointKey -> Record(Bytes)]
    BY <1>1, <1>3, PutsType, Zenon
  <2> QED
    BY <1>5, <2>1, Zenon DEF StoreType, Inv, TypeOK
<1>7. CheckpointWhole'
  BY ONLY <1>1, <1>4, e \in Recipient, Zenon DEF CheckpointWhole, Present
<1>8. StoreFresh'
  BY ONLY <1>4, <1>5, Zenon DEF StoreFresh
<1>9. ScanWhole'
  BY Zenon DEF Inv, StoreOK, ScanWhole
<1> QED
  BY ONLY <1>1, <1>4, <1>5, <1>6, <1>7, <1>8, <1>9 DEF StoreMoves, StoreOK

\* join: the batch puts a whole checkpoint where there was none.
LEMMA JoinInv ==
    ASSUME Inv, NEW e \in Envelope, Join(e)
    PROVE  Inv'
<1>1. e \in Recipient
  BY Zenon DEF Join, OpensCheckpoint
<1>2. Revision[e] + 1 \in Nat
  BY EnvelopeAssumption
<1>3. StoreMoves
  BY <1>1, <1>2, CheckpointPut, SMTT(30) DEF Join, Inv, TypeOK
<1> QED
  BY <1>3, StoreStep, Zenon DEF Join

\* reset's scan remembers versions of the records as they are.
LEMMA ResetScanInv ==
    ASSUME Inv, ResetScan
    PROVE  Inv'
<1>1. records \in [CheckpointKey -> Record(Bytes)] /\ history \in [Revisions -> Record(Envelope)]
  BY Zenon DEF Inv, TypeOK
<1>2. /\ Versions(records) \in [CheckpointKey -> Nat]
      /\ Versions(history) \in [Revisions -> Nat]
      /\ \A k \in CheckpointKey : Versions(records)[k] = records[k].version
  BY <1>1, Zenon DEF Versions, Record
<1>3. /\ scan' = [on |-> TRUE, records |-> Versions(records), history |-> Versions(history)]
      /\ UNCHANGED <<records, history, next, pc, head, version, read, batch, joined, reached>>
  BY Zenon DEF ResetScan
<1>4. StoreType'
  BY <1>2, <1>3, Zenon DEF StoreType, Inv, TypeOK
<1>5. ScanWhole'
  BY <1>2, <1>3, Zenon DEF ScanWhole, Inv, StoreOK, CheckpointWhole, Present, NoRecord
<1>6. CheckpointWhole' /\ StoreFresh' /\ next <= next' /\ records' = records
  BY <1>3 DEF Inv, TypeOK, StoreOK, CheckpointWhole, StoreFresh
<1> QED
  BY <1>3, <1>4, <1>5, <1>6, StoreStep, Zenon DEF StoreMoves, StoreOK

\* reset's batch deletes a whole checkpoint or nothing of it.
LEMMA ResetCommitInv ==
    ASSUME Inv, ResetCommit
    PROVE  Inv'
<1> DEFINE rs == Scanned(scan.records)
           hs == Scanned(scan.history)
<1>1. /\ records \in [CheckpointKey -> Record(Bytes)]
      /\ history \in [Revisions -> Record(Envelope)]
      /\ next \in Nat \ {Missing}
      /\ scan.records \in [CheckpointKey -> Nat]
  BY Zenon DEF Inv, TypeOK
<1>2. \/ records' = WithDeletes(records, rs) /\ history' = WithDeletes(history, hs)
      \/ UNCHANGED <<records, history>>
  BY Zenon DEF ResetCommit
<1>3. rs = {} \/ rs = CheckpointKey
  BY <1>1, Zenon DEF Scanned, Inv, StoreOK, ScanWhole
<1>4. records' = records \/ records' = [k \in CheckpointKey |-> NoRecord]
  BY <1>1, <1>2, <1>3, Zenon DEF WithDeletes
<1>5. /\ records' \in [CheckpointKey -> Record(Bytes)]
      /\ history' \in [Revisions -> Record(Envelope)]
  BY <1>1, <1>2, DeletesType
<1>6. UNCHANGED <<next, pc, head, version, read, batch, joined, reached>> /\ scan' = NoScan
  BY Zenon DEF ResetCommit
<1>7. StoreType'
  <2>1. NoScan \in [on : BOOLEAN, records : [CheckpointKey -> Nat], history : [Revisions -> Nat]]
    BY Zenon DEF NoScan, Missing
  <2> QED
    BY <1>5, <1>6, <2>1, Zenon DEF StoreType, Inv, TypeOK
<1>8. CheckpointWhole'
  BY <1>4, Zenon DEF Inv, StoreOK, CheckpointWhole
<1>9. StoreFresh'
  BY <1>1, <1>4, <1>6 DEF Inv, StoreOK, StoreFresh, NoRecord, Missing
<1>10. ScanWhole'
  BY <1>6, Zenon DEF ScanWhole, NoScan
<1>11. \A k \in CheckpointKey : records'[k] = records[k] \/ records'[k].version = Missing
  BY <1>4 DEF NoRecord
<1>12. StoreMoves
  BY <1>1, <1>6, <1>7, <1>8, <1>9, <1>10, <1>11 DEF StoreMoves, StoreOK
<1> QED
  BY <1>6, <1>12, StoreStep, Zenon

-----------------------------------------------------------------------------
\* open: the first of the three reads.
LEMMA OpenEnvelopeInv ==
    ASSUME Inv, NEW h \in Handle, OpenEnvelope(h)
    PROVE  Inv'
<1>1. records["envelope"].bytes \in Envelope
  BY CheckpointOfType, EnvelopeAssumption
     DEF Inv, StoreOK, CheckpointWhole, CheckpointKey, OpenEnvelope, Present, NoRecord
<1>2. [read[h] EXCEPT !["envelope"] = records["envelope"]]["envelope"] = records["envelope"]
  BY Zenon DEF Inv, TypeOK, CheckpointKey
<1>3. ReadSoFar("openHead", [read[h] EXCEPT !["envelope"] = records["envelope"]])
  BY <1>1, <1>2, Zenon DEF ReadSoFar, OpenEnvelope, Opening
<1>4. "envelope" \in CheckpointKey /\ "openHead" \in Place /\ "openHead" \notin Live \cup Applying
  BY Zenon DEF CheckpointKey, Place, Opening, Live, Applying
<1> QED
  BY <1>3, <1>4, ReadStep, Zenon DEF OpenEnvelope

\* Reading another record leaves what was read of the envelope.
LEMMA ReadKeepsEnvelope ==
    ASSUME Inv, NEW h \in Handle, NEW k \in {"head", "signer"}, NEW r
    PROVE  [read[h] EXCEPT ![k] = r]["envelope"] = read[h]["envelope"]
  BY Zenon DEF Inv, TypeOK, CheckpointKey

\* What the invariant says of one handle.
LEMMA HandleInOrder ==
    ASSUME Inv, NEW h \in Handle
    PROVE  HandleOK(records, next, pc[h], head[h], version[h], read[h], batch[h])
  BY Zenon DEF Inv, HandlesOK

\* open: the second read, or no membership any more.
LEMMA OpenHeadInv ==
    ASSUME Inv, NEW h \in Handle, OpenHead(h)
    PROVE  Inv'
<1>1. CASE Present(records["head"])
  <2>1. ReadSoFar("openSigner", [read[h] EXCEPT !["head"] = records["head"]])
    BY HandleInOrder, ReadKeepsEnvelope, Zenon DEF HandleOK, ReadSoFar, Opening, OpenHead
  <2>2. "head" \in CheckpointKey /\ "openSigner" \in Place /\ "openSigner" \notin Live \cup Applying
    BY Zenon DEF CheckpointKey, Place, Opening, Live, Applying
  <2> QED
    BY <1>1, <2>1, <2>2, ReadStep, Zenon DEF OpenHead
<1>2. CASE ~Present(records["head"])
  BY <1>2, QuitStep, Zenon DEF OpenHead
<1> QED
  BY <1>1, <1>2, Zenon

\* open: the third read and the validation of the three together.
LEMMA OpenSignerInv ==
    ASSUME Inv, NEW h \in Handle, OpenSigner(h)
    PROVE  Inv'
<1> DEFINE opens == /\ Present(records["signer"])
                    /\ OpensCheckpoint(read[h]["envelope"].bytes, read[h]["head"].bytes,
                                       records["signer"].bytes)
<1>1. CASE opens
  <2>1. ReadSoFar("seed", [read[h] EXCEPT !["signer"] = records["signer"]])
    BY <1>1, HandleInOrder, ReadKeepsEnvelope, Zenon
       DEF HandleOK, ReadSoFar, Opening, OpenSigner, OpensCheckpoint
  <2>2. "signer" \in CheckpointKey /\ "seed" \in Place /\ "seed" \notin Live \cup Applying
    BY Zenon DEF CheckpointKey, Place, Opening, Live, Applying
  <2> QED
    BY <1>1, <2>1, <2>2, ReadStep, Zenon DEF OpenSigner
<1>2. CASE ~opens
  BY <1>2, QuitStep, Zenon DEF OpenSigner
<1> QED
  BY <1>1, <1>2, Zenon

\* A handle that goes on with all it has.
LEMMA GotoStep ==
    ASSUME Inv, UNCHANGED <<store, head, version, read, scan, joined, reached>>,
           NEW h \in Handle, NEW p, NEW bt,
           Goto(h, p), batch' = [batch EXCEPT ![h] = bt],
           HandleOK(records, next, p, head[h], version[h], read[h], bt)
    PROVE  Inv'
<1>1. StoreMoves /\ records' = records /\ next' = next
  BY StoreStays, Zenon DEF store
<1>2. /\ pc' = [pc EXCEPT ![h] = p]
      /\ head' = [head EXCEPT ![h] = head[h]]
      /\ version' = [version EXCEPT ![h] = version[h]]
      /\ read' = [read EXCEPT ![h] = read[h]]
  BY Zenon DEF Inv, TypeOK, Goto
<1> QED
  BY <1>1, <1>2, LocalStep, ZenonT(30)

\* The places of seed_history need the same of a handle.
LEMMA Seeding ==
    ASSUME Inv, NEW h \in Handle, pc[h] \in {"seed", "seedPut"},
           NEW p \in {"seedPut", "seedReread"}
    PROVE  HandleOK(records, next, p, head[h], version[h], read[h], batch[h])
  BY HandleInOrder, Zenon
     DEF HandleOK, HandleType, ReadSoFar, HeldTrue, BatchOpens, Place, Opening, Live, Applying

\* seed_history: the history record is there, disagrees or is missing.
LEMMA SeedInv ==
    ASSUME Inv, NEW h \in Handle, Seed(h)
    PROVE  Inv'
<1> DEFINE e == read[h]["envelope"].bytes
           existing == history[Revision[e]]
<1>1. CASE Opened(h)
  BY <1>1, StoreStays, OpenedStep, Zenon DEF Seed
<1>2. CASE Leave(h, "closed") /\ UNCHANGED <<head, version>>
  BY <1>2, QuitStep, Zenon DEF Seed
<1>3. CASE Goto(h, "seedPut") /\ UNCHANGED <<head, version, read, batch>>
  <2>1. batch' = [batch EXCEPT ![h] = batch[h]]
    BY <1>3, Zenon DEF Inv, TypeOK
  <2> QED
    BY <1>3, <2>1, Seeding, GotoStep, Zenon DEF Seed
<1> QED
  BY <1>1, <1>2, <1>3, SMTT(30) DEF Seed, SeedCompared

\* seed_history: the history record is put, or another handle was faster.
LEMMA SeedPutInv ==
    ASSUME Inv, NEW h \in Handle, SeedPut(h)
    PROVE  Inv'
<1> DEFINE e == read[h]["envelope"].bytes
           put == [k \in {Revision[e]} |-> e]
<1>1. CASE history' = WithPuts(history, put, next) /\ next' = Bump(next) /\ Opened(h)
  <2>1. /\ next \in Nat \ {Missing} /\ records \in [CheckpointKey -> Record(Bytes)]
        /\ history \in [Revisions -> Record(Envelope)]
    BY Zenon DEF Inv, TypeOK
  <2>2. e \in Envelope
    BY HandleInOrder, EnvelopeAssumption, Zenon DEF HandleOK, ReadSoFar, SeedPut
  <2>3. DOMAIN put \subseteq Revisions /\ \A k \in DOMAIN put : put[k] \in Envelope
    BY <2>2, SMTT(30) DEF Revisions
  <2>4. history' \in [Revisions -> Record(Envelope)]
    BY <1>1, <2>1, <2>3, PutsType, Zenon
  <2>5. next' \in Nat \ {Missing} /\ next < next' /\ UNCHANGED <<records, scan, joined, reached>>
    BY <1>1, <2>1 DEF Bump, Missing, SeedPut
  <2>6. StoreType'
    BY <2>1, <2>4, <2>5, Zenon DEF StoreType, Inv, TypeOK
  <2>7. CheckpointWhole' /\ ScanWhole'
    BY <2>5, Zenon DEF Inv, StoreOK, CheckpointWhole, ScanWhole
  <2>8. StoreFresh'
    <3>1. \A k \in CheckpointKey : records[k].version \in Nat /\ records[k].version < next
      BY <2>1, Zenon DEF Inv, StoreOK, StoreFresh, Record
    <3> QED
      BY ONLY <2>1, <2>5, <3>1 DEF StoreFresh
  <2>9. StoreMoves
    BY ONLY <2>1, <2>5, <2>6, <2>7, <2>8 DEF StoreMoves, StoreOK
  <2> QED
    BY <1>1, <2>9, OpenedStep, Zenon DEF SeedPut
<1>2. CASE Goto(h, "seedReread") /\ UNCHANGED <<history, next, head, version, read, batch>>
  <2>1. batch' = [batch EXCEPT ![h] = batch[h]]
    BY <1>2, Zenon DEF Inv, TypeOK
  <2>2. UNCHANGED <<store, scan, joined, reached>>
    BY <1>2, Zenon DEF SeedPut, store
  <2> QED
    BY <1>2, <2>1, <2>2, Seeding, GotoStep, Zenon DEF SeedPut
<1> QED
  BY <1>1, <1>2, Zenon DEF SeedPut

\* seed_history: the second look after a lost race.
LEMMA SeedRereadInv ==
    ASSUME Inv, NEW h \in Handle, SeedReread(h)
    PROVE  Inv'
<1>1. CASE Opened(h)
  BY <1>1, StoreStays, OpenedStep, Zenon DEF SeedReread
<1>2. CASE Leave(h, "closed") /\ UNCHANGED <<head, version>>
  BY <1>2, QuitStep, Zenon DEF SeedReread
<1> QED
  BY <1>1, <1>2, Zenon DEF SeedReread, SeedCompared

\* apply: the batch that opens is the one the handle goes on with.
LEMMA ApplyInv ==
    ASSUME Inv, NEW h \in Handle, NEW b \in Batch, Apply(h, b)
    PROVE  Inv'
<1>1. HandleOK(records, next, "commit", head[h], version[h], read[h], b)
  BY HandleInOrder, Zenon
     DEF HandleOK, HandleType, ReadSoFar, HeldTrue, BatchOpens, Place, Opening, Live, Applying, Apply
<1> QED
  BY <1>1, GotoStep, Zenon DEF Apply

\* apply: the compare-and-swap replaces the whole checkpoint or nothing.
LEMMA ApplyCommitInv ==
    ASSUME Inv, NEW h \in Handle, ApplyCommit(h)
    PROVE  Inv'
<1> DEFINE e == Final(batch[h])
           links == HistoryOf(batch[h])
<1>1. batch[h] \in Batch /\ e \in Envelope /\ e \in Recipient
  <2>1. batch[h] \in Batch /\ head[h] \in Envelope /\ OpensBatch(head[h], batch[h])
    BY HandleInOrder, Zenon DEF HandleOK, BatchOpens, HeldTrue, ApplyCommit, Applying, Live
  <2> QED
    BY <2>1, FinalOpens, BatchLen, SMTT(30)
<1>2. CASE /\ records' = WithPuts(records, CheckpointOf(e), next)
           /\ history' = WithPuts(history, links, next)
           /\ next' = Bump(next)
           /\ reached' = Revision[e] + 1
           /\ Goto(h, "backEnvelope")
           /\ UNCHANGED <<read, batch>>
  <2>1. next \in Nat /\ history \in [Revisions -> Record(Envelope)]
    BY Zenon DEF Inv, TypeOK
  <2>2. history' \in [Revisions -> Record(Envelope)]
    BY <1>1, <1>2, <2>1, HistoryOfType, PutsType, Zenon
  <2>3. reached' \in Nat
    BY <1>1, <1>2, EnvelopeAssumption
  <2>4. StoreMoves
    BY <1>1, <1>2, <2>2, <2>3, CheckpointPut, SMTT(30) DEF ApplyCommit, Inv, TypeOK
  <2>5. HandleOK(records', next', pc[h], head[h], version[h], read[h], batch[h])
    BY <2>4, OthersKeep, SMTT(30)
  <2>6. HandleOK(records', next', "backEnvelope", head[h], version[h], read[h], batch[h])
    BY <2>5, Zenon DEF HandleOK, HandleType, ReadSoFar, HeldTrue, BatchOpens, Place, Opening, Live,
                Applying, ApplyCommit
  <2>7. /\ pc' = [pc EXCEPT ![h] = "backEnvelope"]
        /\ head' = [head EXCEPT ![h] = head[h]]
        /\ version' = [version EXCEPT ![h] = version[h]]
        /\ read' = [read EXCEPT ![h] = read[h]]
        /\ batch' = [batch EXCEPT ![h] = batch[h]]
    BY <1>2, SMTT(30) DEF Inv, TypeOK, Goto, ApplyCommit
  <2> QED
    BY ONLY Inv, h \in Handle, <2>4, <2>6, <2>7, LocalStep, Zenon
<1>3. CASE Leave(h, "ready") /\ UNCHANGED <<store, reached>>
  BY <1>3, QuitStep, Zenon DEF ApplyCommit, Live, Applying
<1> QED
  BY <1>2, <1>3, Zenon DEF ApplyCommit

\* apply: the envelope is read back, or is gone.
LEMMA BackEnvelopeInv ==
    ASSUME Inv, NEW h \in Handle, BackEnvelope(h)
    PROVE  Inv'
<1>1. CASE Present(records["envelope"])
  <2>1. [read[h] EXCEPT !["envelope"] = records["envelope"]]["envelope"] = records["envelope"]
    BY Zenon DEF Inv, TypeOK, CheckpointKey
  <2>2. ReadSoFar("backHead", [read[h] EXCEPT !["envelope"] = records["envelope"]])
    BY <1>1, <2>1, Zenon DEF ReadSoFar
  <2>3. "envelope" \in CheckpointKey /\ "backHead" \in Place /\ pc[h] \in Live \cap Applying
    BY Zenon DEF CheckpointKey, Place, Live, Applying, BackEnvelope
  <2> QED
    BY <1>1, <2>2, <2>3, ReadStep, Zenon DEF BackEnvelope
<1>2. CASE ~Present(records["envelope"])
  BY <1>2, QuitStep, Zenon DEF BackEnvelope, Live, Applying
<1> QED
  BY <1>1, <1>2, Zenon

\* apply: the head is read back, or is gone.
LEMMA BackHeadInv ==
    ASSUME Inv, NEW h \in Handle, BackHead(h)
    PROVE  Inv'
<1>1. CASE Present(records["head"])
  <2>1. ReadSoFar("backSigner", [read[h] EXCEPT !["head"] = records["head"]])
    BY HandleInOrder, ReadKeepsEnvelope, Zenon DEF HandleOK, ReadSoFar, BackHead
  <2>2. "head" \in CheckpointKey /\ "backSigner" \in Place /\ pc[h] \in Live \cap Applying
    BY Zenon DEF CheckpointKey, Place, Live, Applying, BackHead
  <2> QED
    BY <1>1, <2>1, <2>2, ReadStep, Zenon DEF BackHead
<1>2. CASE ~Present(records["head"])
  BY <1>2, QuitStep, SMTT(30) DEF BackHead, Live, Applying
<1> QED
  BY <1>1, <1>2, Zenon

\* apply: only read-backs that match the batch move the handle.
LEMMA BackSignerInv ==
    ASSUME Inv, NEW h \in Handle, BackSigner(h)
    PROVE  Inv'
<1> DEFINE e == Final(batch[h])
           rd == [read[h] EXCEPT !["signer"] = records["signer"]]
           vs == Versions(rd)
<1>1. HandleOK(records, next, pc[h], head[h], version[h], read[h], batch[h])
  BY HandleInOrder, SMTT(30)
<1>2. CASE /\ read[h]["envelope"].bytes = e
           /\ head' = [head EXCEPT ![h] = e]
           /\ version' = [version EXCEPT ![h] = vs]
  <2>1. /\ read[h] \in [CheckpointKey -> Record(Bytes)]
        /\ records \in [CheckpointKey -> Record(Bytes)]
        /\ next \in Nat
    BY Zenon DEF Inv, TypeOK
  <2>2. e \in Envelope
    BY <1>1, BatchLen, Zenon DEF HandleOK, BatchOpens, BackSigner, Applying
  <2>3. \A k \in CheckpointKey : rd[k] = (IF k = "signer" THEN records["signer"] ELSE read[h][k])
    BY <2>1, Zenon
  <2>4. vs \in [CheckpointKey -> Nat] /\ \A k \in CheckpointKey : vs[k] = rd[k].version
    BY <2>1, SMTT(30) DEF Versions, Record, CheckpointKey
  <2>5. \A k \in CheckpointKey : vs[k] < next
    BY <1>1, <2>3, <2>4 DEF HandleOK, HandleFresh, Inv, StoreOK, StoreFresh
  <2>6. vs["envelope"] = read[h]["envelope"].version
    BY <2>3, <2>4, SMTT(30) DEF CheckpointKey
  <2>7. HeldTrue(records, "ready", e, vs)
    BY <1>1, <1>2, <2>2, <2>6, SMTT(30) DEF HandleOK, HeldTrue, ReadTrue, ReadSoFar, Present, CheckpointKey, BackSigner
  <2>8. StoreMoves /\ records' = records /\ next' = next /\ Leave(h, "ready")
    BY StoreStays, Zenon DEF BackSigner, store
  <2> HIDE DEF vs, e, rd
  <2> QED
    BY ONLY Inv, h \in Handle, <1>2, <2>2, <2>4, <2>5, <2>7, <2>8, LeaveStep, Zenon
<1>3. CASE UNCHANGED <<head, version>>
  BY <1>3, QuitStep, Zenon DEF BackSigner, Live, Applying
<1> QED
  BY <1>2, <1>3, Zenon DEF BackSigner

\* apply is aborted: the handle keeps its head and its versions.
LEMMA AbandonInv ==
    ASSUME Inv, NEW h \in Handle, Abandon(h) \/ Drop(h)
    PROVE  Inv'
  BY QuitStep, Zenon DEF Abandon, Drop, Live

-----------------------------------------------------------------------------
\* The empty store and the closed handles satisfy the invariant.
LEMMA InitInv ==
    ASSUME Init
    PROVE  Inv
<1>1. TypeOK
  BY NothingRead DEF Init, TypeOK, Record, NoRecord, NoScan, Missing
<1>2. StoreOK
  BY SMTT(30) DEF Init, StoreOK, CheckpointWhole, StoreFresh, ScanWhole, NoScan, NoRecord, Missing
<1>3. HandlesOK
  <2> SUFFICES ASSUME NEW h \in Handle
               PROVE  HandleOK(records, next, pc[h], head[h], version[h], read[h], batch[h])
    BY Zenon DEF HandlesOK
  <2>1. HandleType(pc[h], head[h], version[h], read[h], batch[h])
    BY <1>1, Zenon DEF TypeOK, HandleType, Place
  <2>2. HandleFresh(next, version[h], read[h]) /\ ReadTrue(records, read[h])
    BY DEF Init, HandleFresh, ReadTrue, NoRecord, Missing, Present
  <2>3. /\ ReadSoFar(pc[h], read[h])
        /\ HeldTrue(records, pc[h], head[h], version[h])
        /\ BatchOpens(pc[h], head[h], batch[h])
    BY Zenon DEF Init, ReadSoFar, HeldTrue, BatchOpens, Opening, Live, Applying
  <2> QED
    BY <2>1, <2>2, <2>3, Zenon DEF HandleOK
<1> QED
  BY <1>1, <1>2, <1>3, Zenon DEF Inv

\* Every step of the store and the handles preserves the invariant.
LEMMA StepInv ==
    ASSUME Inv, [Next]_vars
    PROVE  Inv'
<1>1. ASSUME NEW e \in Envelope, Join(e) PROVE Inv'
  BY <1>1, JoinInv, Zenon
<1>2. CASE ResetScan
  BY <1>2, ResetScanInv, Zenon
<1>3. CASE ResetCommit
  BY <1>3, ResetCommitInv, Zenon
<1>4. ASSUME NEW h \in Handle, HandleStep(h) PROVE Inv'
  <2>1. CASE OpenEnvelope(h) \/ OpenHead(h) \/ OpenSigner(h)
    BY <2>1, OpenEnvelopeInv, OpenHeadInv, OpenSignerInv, Zenon
  <2>2. CASE Seed(h) \/ SeedPut(h) \/ SeedReread(h)
    BY <2>2, SeedInv, SeedPutInv, SeedRereadInv, Zenon
  <2>3. ASSUME NEW b \in Batch, Apply(h, b) PROVE Inv'
    BY <2>3, ApplyInv, Zenon
  <2>4. CASE ApplyCommit(h) \/ BackEnvelope(h) \/ BackHead(h) \/ BackSigner(h)
    BY <2>4, ApplyCommitInv, BackEnvelopeInv, BackHeadInv, BackSignerInv, Zenon
  <2>5. CASE Abandon(h) \/ Drop(h)
    BY <2>5, AbandonInv, Zenon
  <2> QED
    BY <1>4, <2>1, <2>2, <2>3, <2>4, <2>5, Zenon DEF HandleStep
<1>5. CASE UNCHANGED vars
  BY <1>5, StoreStays, StoreStep, Zenon DEF vars, store
<1> QED
  BY <1>1, <1>2, <1>3, <1>4, <1>5, TicketAssumption, Zenon DEF Next

\* The invariant holds throughout every behaviour of the member.
LEMMA Invariance == Spec => []Inv
  BY InitInv, StepInv, PTL DEF Spec

\* The state of the member side is well typed, for any set of handles.
THEOREM TypeCorrect == Spec => []TypeOK
<1>1. Inv => TypeOK
  BY Zenon DEF Inv
<1> QED
  BY <1>1, Invariance, PTL

\* The three records of the checkpoint are missing together or belong to one
\* envelope that opens, whatever opens, applies, aborts and resets interleave.
THEOREM CheckpointStaysWhole == Spec => []CheckpointWhole
<1>1. Inv => CheckpointWhole
  BY Zenon DEF Inv, StoreOK
<1> QED
  BY <1>1, Invariance, PTL

\* A handle that holds the store's versions has the stored head in memory.
LEMMA InvKnowsHead == Inv => CurrentKnowsHead
<1> SUFFICES ASSUME Inv, NEW h \in Handle, Current(h)
             PROVE  Joined /\ head[h] = StoredHead
  BY Zenon DEF CurrentKnowsHead
<1>1. version[h]["envelope"] = records["envelope"].version
  BY Zenon DEF Current, Versions, Inv, TypeOK, CheckpointKey
<1>2. records["envelope"].version # Missing /\ head[h] = records["envelope"].bytes
  BY <1>1, HandleInOrder, Zenon DEF HandleOK, HeldTrue, Current
<1>3. PICK e \in Recipient : \A k \in CheckpointKey :
         Present(records[k]) /\ records[k].bytes = CheckpointOf(e)[k]
  BY <1>2 DEF Inv, StoreOK, CheckpointWhole, NoRecord, CheckpointKey
<1>4. e \in Envelope
  BY EnvelopeAssumption, Zenon
<1> QED
  BY <1>2, <1>3, <1>4, CheckpointOfType, Zenon DEF Joined, StoredHead, CheckpointKey

\* A compare-and-swap that succeeds was made by a handle that knew the head it
\* replaced: no update is applied to a configuration the handle never saw.
THEOREM CurrentHandleKnowsHead == Spec => []CurrentKnowsHead
  BY Invariance, InvKnowsHead, PTL

-----------------------------------------------------------------------------
\* The refinement mapping: the stored head is the abstract checkpoint.
LEMMA HeadIsCheckpoint ==
    ASSUME Inv
    PROVE  /\ Joined <=> StoredHead \in Envelope
           /\ ~Joined <=> StoredHead = NoBytes
<1>1. CASE \A k \in CheckpointKey : records[k] = NoRecord
  BY <1>1, BytesAssumption DEF Joined, StoredHead, Present, NoRecord, CheckpointKey
<1>2. ASSUME NEW e \in Recipient,
             \A k \in CheckpointKey : Present(records[k]) /\ records[k].bytes = CheckpointOf(e)[k]
      PROVE  Joined /\ StoredHead \in Envelope /\ StoredHead # NoBytes
  <2>1. e \in Envelope /\ e # NoBytes
    BY EnvelopeAssumption, BytesAssumption, Zenon
  <2> QED
    BY <1>2, <2>1, CheckpointOfType, Zenon DEF Joined, StoredHead, CheckpointKey
<1>3. Joined => StoredHead \in Envelope /\ StoredHead # NoBytes
  BY <1>1, <1>2, Zenon DEF Inv, StoreOK, CheckpointWhole
<1>4. ~Joined => StoredHead = NoBytes
  BY <1>1, <1>2, Zenon DEF Inv, StoreOK, CheckpointWhole
<1> QED
  BY <1>3, <1>4, BytesAssumption, Zenon

\* A checkpoint put moves the stored head to its envelope.
LEMMA HeadAfterPut ==
    ASSUME Inv, NEW e \in Envelope, records' = WithPuts(records, CheckpointOf(e), next)
    PROVE  StoredHead' = e
<1>1. CheckpointOf(e)["head"] = e /\ DOMAIN CheckpointOf(e) = CheckpointKey
  BY CheckpointOfType, Zenon
<1>2. records \in [CheckpointKey -> Record(Bytes)]
  BY Zenon DEF Inv, TypeOK
<1> QED
  BY <1>1, <1>2, Zenon DEF StoredHead, WithPuts, CheckpointKey

\* Every step joins, advances along a batch that opens, resets, or leaves the
\* checkpoint alone.
LEMMA StepAdvances ==
    ASSUME Inv, [Next]_vars
    PROVE  \/ StoredHead = NoBytes /\ StoredHead' \in Recipient
           \/ /\ StoredHead \in Envelope
              /\ \E b \in Batch : OpensBatch(StoredHead, b) /\ StoredHead' = Final(b)
           \/ StoredHead' = NoBytes
           \/ StoredHead' = StoredHead
<1>1. ASSUME NEW e \in Envelope, Join(e)
      PROVE  StoredHead = NoBytes /\ StoredHead' \in Recipient
  <2>1. StoredHead' = e /\ e \in Recipient
    BY <1>1, HeadAfterPut, Zenon DEF Join, OpensCheckpoint
  <2>2. ~Joined
    BY <1>1, Zenon DEF Join, Holds, Joined, Present, CheckpointKey
  <2> QED
    BY <2>1, <2>2, HeadIsCheckpoint, Zenon
<1>2. CASE ResetCommit
  <2>1. records' = records \/ records' = WithDeletes(records, Scanned(scan.records))
    BY <1>2, Zenon DEF ResetCommit
  <2> QED
    BY <2>1 DEF Inv, TypeOK, WithDeletes, StoredHead, CheckpointKey, NoRecord
<1>3. ASSUME NEW h \in Handle, ApplyCommit(h), records' # records
      PROVE  /\ StoredHead \in Envelope
             /\ \E b \in Batch : OpensBatch(StoredHead, b) /\ StoredHead' = Final(b)
  <2>1. Holds(records, version[h]) /\ records' = WithPuts(records, CheckpointOf(Final(batch[h])), next)
    BY <1>3, SMTT(30) DEF ApplyCommit, store
  <2>2. batch[h] \in Batch /\ OpensBatch(head[h], batch[h])
    BY <1>3, HandleInOrder, ZenonT(30) DEF HandleOK, BatchOpens, ApplyCommit, Applying
  <2>3. Current(h)
    <3>1. version[h] \in [CheckpointKey -> Nat] /\ records \in [CheckpointKey -> Record(Bytes)]
      BY Zenon DEF Inv, TypeOK
    <3> QED
      BY <1>3, <2>1, <3>1, Zenon DEF Current, Holds, Versions, ApplyCommit, Live, Applying
  <2>4. Joined /\ head[h] = StoredHead
    BY <2>3, InvKnowsHead, SMTT(30) DEF CurrentKnowsHead
  <2>5. StoredHead' = Final(batch[h])
    BY <2>1, <2>2, BatchLen, HeadAfterPut, Zenon
  <2> QED
    BY <2>2, <2>4, <2>5, HeadIsCheckpoint, Zenon
<1>4. CASE records' = records
  BY <1>4, SMTT(30) DEF StoredHead
<1>5. ASSUME NEW h \in Handle, HandleStep(h), ~ApplyCommit(h) PROVE records' = records
  BY <1>5, Zenon DEF HandleStep, OpenEnvelope, OpenHead, OpenSigner, Seed, SeedPut, SeedReread, SeedCompared, Apply,
              BackEnvelope, BackHead, BackSigner, Abandon, Drop, store
<1> QED
  BY <1>1, <1>2, <1>3, <1>4, <1>5, TicketAssumption, Zenon DEF Next, ResetScan, vars

\* All handles, torn reads, lost read-backs and resets together implement one
\* checkpoint that appears by joining, moves along openable envelopes and
\* disappears by a reset.
THEOREM CheckpointImplemented == Spec => ImplementsCheckpoint
<1>1. Init => Checkpoint!Init
  BY SMTT(30) DEF Init, Checkpoint!Init, StoredHead, CheckpointKey, NoRecord
<1>2. Inv /\ [Next]_vars => [Checkpoint!Next]_StoredHead
  BY StepAdvances, Zenon
     DEF Checkpoint!Next, Checkpoint!Join, Checkpoint!Advance, Checkpoint!Reset,
         Checkpoint!Batch, Batch, Checkpoint!OpensBatch, OpensBatch, Checkpoint!OpensNext, OpensNext,
         Checkpoint!FollowsHead, FollowsHead, Checkpoint!Final, Final
<1> QED
  BY <1>1, <1>2, Invariance, PTL DEF Spec, ImplementsCheckpoint, Checkpoint!Spec

-----------------------------------------------------------------------------
\* Induction over the natural numbers, for a set of numbers instead of a
\* predicate: the provers cannot instantiate a theorem that takes a predicate
\* as a parameter.
INSTANCE WellFoundedInduction

\* A non-empty set of natural numbers has a least element.
LEMMA LeastNatural ==
    ASSUME NEW T \in SUBSET Nat, T # {}
    PROVE  \E x \in T : \A y \in T : x <= y
<1>1. IsWellFoundedOn(OpToRel(<, Nat), Nat)
  BY NatLessThanWellFounded, Zenon
<1>2. PICK x \in T : \A y \in T : ~(<<y, x>> \in OpToRel(<, Nat))
  BY <1>1, WFMin, Zenon
<1>3. \A y \in T : ~(y < x)
  BY <1>2, Zenon DEF OpToRel
<1> QED
  BY <1>3

\* A set with 0 that is closed under successor holds every natural number.
LEMMA SetInduction ==
    ASSUME NEW S, 0 \in S, \A n \in Nat : n \in S => n + 1 \in S
    PROVE  Nat \subseteq S
<1> SUFFICES ASSUME Nat \ S # {} PROVE FALSE
  BY Zenon
<1>1. PICK x \in Nat \ S : \A y \in Nat \ S : x <= y
  BY LeastNatural, Zenon
<1>2. x # 0 /\ x - 1 \in Nat
  BY <1>1
<1>3. x - 1 \in S
  BY <1>1, <1>2
<1> QED
  BY <1>1, <1>2, <1>3

\* Along a batch that opens, revisions rise one by one and epochs never fall.
LEMMA BatchPositions ==
    ASSUME NEW e \in Envelope, NEW b \in Batch, OpensBatch(e, b)
    PROVE  \A i \in 1..Len(b) : Revision[b[i]] = Revision[e] + i /\ Epoch[b[i]] >= Epoch[e]
<1> DEFINE rises == {n \in Nat : n + 1 \in 1..Len(b) =>
                        /\ Revision[b[n + 1]] = Revision[e] + n + 1
                        /\ Epoch[b[n + 1]] >= Epoch[e]}
<1>1. Len(b) \in Nat \ {0} /\ b \in [1..Len(b) -> Envelope]
  BY BatchLen, Zenon
<1>2. \A i \in 1..Len(b) : Revision[b[i]] \in Nat /\ Epoch[b[i]] \in Nat
  BY <1>1, EnvelopeAssumption, Zenon
<1>3. \A i \in 1..Len(b) :
         /\ Revision[b[i]] = Revision[IF i = 1 THEN e ELSE b[i - 1]] + 1
         /\ Epoch[b[i]] >= Epoch[IF i = 1 THEN e ELSE b[i - 1]]
  BY Zenon DEF OpensBatch, OpensNext, FollowsHead
<1>4. Revision[e] \in Nat /\ Epoch[e] \in Nat
  BY EnvelopeAssumption, Zenon
<1>5. 0 \in rises
  BY <1>3, <1>4
<1>6. ASSUME NEW n \in Nat, n \in rises PROVE n + 1 \in rises
  <2> SUFFICES ASSUME (n + 1) + 1 \in 1..Len(b)
               PROVE  /\ Revision[b[(n + 1) + 1]] = Revision[e] + (n + 1) + 1
                      /\ Epoch[b[(n + 1) + 1]] >= Epoch[e]
    OBVIOUS
  <2>0. (n + 1) + 1 = n + 2
    OBVIOUS
  <2>1. n + 2 \in 1..Len(b) /\ n + 1 \in 1..Len(b) /\ n + 2 # 1 /\ (n + 2) - 1 = n + 1
    BY <1>1, <2>0
  <2>2. Revision[b[n + 1]] = Revision[e] + n + 1 /\ Epoch[b[n + 1]] >= Epoch[e]
    BY <1>6, <2>1, Zenon
  <2>3. Revision[b[n + 2]] = Revision[b[n + 1]] + 1 /\ Epoch[b[n + 2]] >= Epoch[b[n + 1]]
    BY <1>3, <2>1, Zenon
  <2>4. Epoch[b[n + 1]] \in Nat /\ Epoch[b[n + 2]] \in Nat
    BY <1>2, <2>1, Zenon
  <2>5. Revision[b[n + 2]] = Revision[e] + (n + 1) + 1 /\ Epoch[b[n + 2]] >= Epoch[e]
    BY ONLY <1>4, <2>2, <2>3, <2>4, n \in Nat
  <2> QED
    BY ONLY <2>0, <2>5, Zenon
<1> HIDE DEF rises
<1>7. Nat \subseteq rises
  BY <1>5, <1>6, SetInduction, Zenon
<1>8. \A i \in 1..Len(b) : i - 1 \in Nat /\ (i - 1) + 1 = i /\ i - 1 \in rises
  BY <1>1, <1>7
<1>9. \A i \in 1..Len(b) : Revision[b[i]] = Revision[e] + (i - 1) + 1 /\ Epoch[b[i]] >= Epoch[e]
  BY <1>8, Zenon DEF rises
<1> QED
  BY <1>1, <1>4, <1>8, <1>9

\* So the last one is as many revisions on as the batch is long.
LEMMA BatchRises ==
    ASSUME NEW e \in Envelope, NEW b \in Batch, OpensBatch(e, b)
    PROVE  Revision[Final(b)] = Revision[e] + Len(b) /\ Epoch[Final(b)] >= Epoch[e]
<1>1. Len(b) \in 1..Len(b)
  BY BatchLen
<1> QED
  BY <1>1, BatchPositions, Zenon DEF Final

\* The stored head is never replaced by a lower revision or a lower epoch.
THEOREM StoredHeadAdvances == Spec => HeadOnlyAdvances
<1> DEFINE headIsSet == Joined => StoredHead # NoBytes
<1>0. Inv => headIsSet
  BY HeadIsCheckpoint, Zenon
<1> HIDE DEF headIsSet
<1>a. Inv' => headIsSet'
  BY <1>0, PTL
<1>1. ASSUME Inv, Inv', [Next]_vars, Joined, Joined', StoredHead' # StoredHead
      PROVE  /\ Revision[StoredHead'] > Revision[StoredHead]
             /\ Epoch[StoredHead'] >= Epoch[StoredHead]
  <2>1. StoredHead \in Envelope /\ StoredHead # NoBytes
    BY <1>1, HeadIsCheckpoint, BytesAssumption, Zenon
  <2>2. StoredHead' # NoBytes
    BY <1>1, <1>a, Zenon DEF headIsSet
  <2>3. PICK b \in Batch : OpensBatch(StoredHead, b) /\ StoredHead' = Final(b)
    BY <1>1, <2>1, <2>2, StepAdvances, Zenon
  <2>4. Len(b) \in Nat \ {0} /\ Revision[StoredHead] \in Nat
    BY <2>1, BatchLen, EnvelopeAssumption, Zenon
  <2> QED
    BY <2>1, <2>3, <2>4, BatchRises
<1>2. Inv /\ Inv' /\ [Next]_vars =>
        [Joined /\ Joined' /\ StoredHead' # StoredHead =>
           /\ Revision[StoredHead'] > Revision[StoredHead]
           /\ Epoch[StoredHead'] >= Epoch[StoredHead]]_vars
  BY <1>1, Zenon
<1> QED
  BY <1>2, Invariance, PTL DEF Spec, HeadOnlyAdvances

=============================================================================
