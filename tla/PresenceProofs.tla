--------------------------- MODULE PresenceProofs ---------------------------
(***************************************************************************)
(* That the reader's directory is consistent, never goes back and drops    *)
(* what its configuration has taken away, and that the service stays       *)
(* within its capacity, for any endpoints, addresses and configurations.   *)
(***************************************************************************)
EXTENDS Presence, FiniteSetTheorems, TLAPS

\* How a record is made: its sequence and its end follow from the moment.
Stamped(m) ==
    /\ m \in Record
    /\ m.sequence = m.issued + 1
    /\ m.expires = m.issued + Ttl
    /\ m.issued <= now

\* Every record there is was made like that, and the history is of its type.
\* The records of the service are finitely many.
Records ==
    /\ IsFiniteSet(Held)
    /\ \A m \in flight : Stamped(m)
    /\ \A k \in Keys : store[k] # None => Stamped(store[k])
    /\ refresh.phase = "apply" => Stamped(refresh.record)
    /\ \A e \in Endpoint : cache[e] # None => Stamped(cache[e]) /\ cache[e].endpoint = e
    /\ highest \in [Endpoint -> Nat]
    /\ settled \in 0..now

\* What is held after the expired records are gone.
LEMMA RetainedHeld ==
    ASSUME TypeOK, Records
    PROVE  /\ Retained \in [Keys -> Record \cup {None}]
           /\ LET left == {k \in Keys : Retained[k] # None}
              IN  left \subseteq Held /\ IsFiniteSet(left) /\ Cardinality(left) <= Capacity
           /\ \A k \in Keys : Retained[k] # None => Retained[k] = store[k]
<1> DEFINE left == {k \in Keys : Retained[k] # None}
<1>1. /\ Retained \in [Keys -> Record \cup {None}]
      /\ \A k \in Keys : Retained[k] # None => Retained[k] = store[k]
      /\ left \subseteq Held
  BY Zenon DEF Retained, TypeOK, Held
<1>2. IsFiniteSet(left) /\ Cardinality(left) <= Cardinality(Held)
  BY <1>1, FS_Subset, Zenon DEF Records
<1>3. Cardinality(left) \in Nat /\ Cardinality(Held) \in Nat
  BY <1>2, FS_CardinalityType, Zenon DEF Records
<1> QED
  BY <1>1, <1>2, <1>3, PresenceAssumption DEF TypeOK

\* A publication that is stored leaves at most Capacity records, all well made.
LEMMA StoresKept ==
    ASSUME TypeOK, Records, NEW m, Stamped(m), Stores(m)
    PROVE  /\ store' \in [Keys -> Record \cup {None}]
           /\ IsFiniteSet(Held') /\ Cardinality(Held') <= Capacity
           /\ \A k \in Keys : store'[k] # None => Stamped(store'[k])
<1> DEFINE key == <<m.epoch, m.endpoint>>
           left == {k \in Keys : Retained[k] # None}
<1>1. m \in Record /\ key \in Keys /\ m # None
  BY NoneAssumption, Zenon DEF Stamped, Record, Keys
<1>2. CASE UNCHANGED store
  BY <1>2, Zenon DEF TypeOK, Records, Held
<1>3. CASE store' = Retained
  <2>1. Held' = left
    BY <1>3, Zenon DEF Held
  <2> QED
    BY <1>3, <2>1, RetainedHeld, Zenon DEF Records
<1>4. CASE store' = [Retained EXCEPT ![key] = m] /\ (Retained[key] # None \/ ~Full(Retained))
  <2>1. Held' = left \cup {key}
    BY <1>1, <1>4, RetainedHeld, Zenon DEF Held
  <2>2. IsFiniteSet(left \cup {key}) /\ Cardinality(left \cup {key}) =
            IF key \in left THEN Cardinality(left) ELSE Cardinality(left) + 1
    BY RetainedHeld, FS_AddElement, Zenon
  <2>3. Cardinality(left) \in Nat /\ Cardinality(left) <= Capacity
    BY RetainedHeld, FS_CardinalityType, Zenon
  <2>4. key \in left \/ Cardinality(left) < Capacity
    BY <1>1, <1>4, <2>3, PresenceAssumption DEF Full
  <2>5. Cardinality(Held') <= Capacity
    BY <2>1, <2>2, <2>3, <2>4, PresenceAssumption
  <2> QED
    BY <1>1, <1>4, <2>1, <2>2, <2>5, RetainedHeld, Zenon DEF Records
<1> QED
  BY <1>2, <1>3, <1>4, Zenon DEF Stores

\* What a refresh is in each phase.
LEMMA RefreshPhases ==
    ASSUME TypeOK
    PROVE  /\ refresh.phase = "ask" => refresh \in [phase : {"ask"}, config : Revision, left : SUBSET Endpoint]
           /\ refresh.phase = "apply" =>
                 refresh \in [phase : {"apply"}, config : Revision, left : SUBSET Endpoint, record : Record]
BY DEF TypeOK, Refresh, Idle

\* Every step keeps the types, the capacity included.
LEMMA TypeStep ==
    ASSUME TypeOK, Records, [Next]_vars
    PROVE  TypeOK'
<1> USE DEF directory
<1>1. CASE Tick
  BY <1>1, PresenceAssumption DEF Tick, TypeOK, Time, Held
<1>2. ASSUME NEW e \in Endpoint \cup {Reader, Service}, Update(e) PROVE TypeOK'
  BY <1>2, PresenceAssumption DEF Update, TypeOK, Revision, Held
<1>3. ASSUME NEW e \in Endpoint, Start(e) PROVE TypeOK'
  <2>1. local' \in [Endpoint -> SUBSET Addr]
    BY <1>3, Zenon DEF Start, TypeOK, Granted
  <2>2. sequence' \in [Endpoint -> Nat]
    BY <1>3, PresenceAssumption DEF Start, TypeOK, Time
  <2> QED
    BY <1>3, <2>1, <2>2, Zenon DEF Start, TypeOK, Held
<1>4. ASSUME NEW e \in Endpoint, Stop(e) PROVE TypeOK'
  BY <1>4, Zenon DEF Stop, TypeOK, Held
<1>5. ASSUME NEW e \in Endpoint, Publish(e) PROVE TypeOK'
  <2>1. now \in Nat /\ sequence[e] \in Nat /\ sequence' \in [Endpoint -> Nat]
    <3>1. now \in Nat /\ sequence[e] \in Nat /\ Later(sequence[e], now) \in Nat
      BY PresenceAssumption DEF TypeOK, Later, Time
    <3> QED
      BY <1>5, <3>1 DEF Publish, TypeOK
  <2> DEFINE m(parses) == [endpoint |-> e, epoch |-> Epoch[view[e]], addrs |-> local[e],
                           sequence |-> sequence'[e], issued |-> now, expires |-> now + Ttl,
                           parses |-> parses]
  <2>2. view[e] \in Revision /\ local[e] \in (SUBSET Addr) \ {{}} /\ sequence'[e] \in Nat
    BY <1>5, <2>1, Zenon DEF Publish, TypeOK
  <2>3. \A parses \in BOOLEAN : m(parses) \in Record
    BY <2>1, <2>2, PresenceAssumption DEF Record, Epochs, TypeOK
  <2>4. flight' \subseteq Record
    BY <1>5, <2>3, Zenon DEF Publish, TypeOK
  <2> QED
    BY <1>5, <2>1, <2>4, Zenon DEF Publish, TypeOK, Held
<1>6. ASSUME NEW m \in flight, Lose(m) PROVE TypeOK'
  BY <1>6, Zenon DEF Lose, TypeOK, Held
<1>7. ASSUME NEW m \in flight, HandlePublish(m) PROVE TypeOK'
  <2>1. store' \in [Keys -> Record \cup {None}] /\ Cardinality(Held') <= Capacity
    <3>1. CASE Stores(m)
      BY <3>1, StoresKept, Zenon DEF Records
    <3>2. CASE UNCHANGED store
      BY <3>2, Zenon DEF TypeOK, Held
    <3> QED
      BY <1>7, <3>1, <3>2, Zenon DEF HandlePublish
  <2> QED
    BY <1>7, <2>1, Zenon DEF HandlePublish, TypeOK
<1>8. CASE StartRefresh
  BY <1>8, PresenceAssumption, Zenon DEF StartRefresh, TypeOK, Refresh, Held
<1>9. ASSUME NEW e \in Endpoint, QueryPresence(e) PROVE TypeOK'
  <2>1. store' = Retained /\ store' \in [Keys -> Record \cup {None}] /\ Cardinality(Held') <= Capacity
    BY <1>9, RetainedHeld, Zenon DEF QueryPresence, Held
  <2>2. refresh.phase = "ask" /\ refresh.config \in Revision /\ refresh.left \subseteq Endpoint
        /\ refresh \in [phase : {"ask"}, config : Revision, left : SUBSET Endpoint]
    BY <1>9, RefreshPhases, Zenon DEF QueryPresence
  <2>3. <<Epoch[refresh.config], e>> \in Keys
    BY <2>2, Zenon DEF Keys, Epochs
  <2>4. refresh' \in Refresh
    BY <1>9, <2>1, <2>2, <2>3 DEF QueryPresence, Refresh
  <2> QED
    BY <1>9, <2>1, <2>4, Zenon DEF QueryPresence, TypeOK
<1>10. CASE ApplyEncrypted
  <2>1. /\ refresh.config \in Revision /\ refresh.left \subseteq Endpoint
        /\ refresh.record \in Record /\ refresh.record.endpoint \in Endpoint
    BY <1>10, RefreshPhases, Zenon DEF ApplyEncrypted, Record
  <2>2. refresh' \in Refresh
    BY <1>10, <2>1, Zenon DEF ApplyEncrypted, Refresh
  <2>3. CASE UNCHANGED directory
    BY <1>10, <2>2, <2>3, Zenon DEF ApplyEncrypted, TypeOK, Held
  <2>4. CASE Opens(refresh.record, refresh.config) /\ Accepts(refresh.record)
    <3>1. index' \in [Addr -> Record \cup {None}]
      BY <1>10, <2>1, <2>4 DEF ApplyEncrypted, TypeOK
    <3>2. cache' \in [Endpoint -> Record \cup {None}] /\ lookup' \in [Endpoint -> Record \cup {None}]
      BY <1>10, <2>1, <2>4, Zenon DEF ApplyEncrypted, TypeOK
    <3> QED
      BY <1>10, <2>2, <3>1, <3>2, Zenon DEF ApplyEncrypted, TypeOK, Held
  <2> QED
    BY <1>10, <2>3, <2>4, Zenon DEF ApplyEncrypted
<1>11. CASE FinishRefresh
  BY <1>11, Zenon DEF FinishRefresh, Purge, Unexpired, TypeOK, Refresh, Held
<1>12. CASE UNCHANGED vars
  BY <1>12, SMTT(30) DEF vars, TypeOK, Held
<1> QED
  BY <1>1, <1>2, <1>3, <1>4, <1>5, <1>6, <1>7, <1>8, <1>9, <1>10, <1>11, <1>12, Zenon
     DEF Next, RefreshStep

\* Every step keeps the records as they were made.
LEMMA RecordsStep ==
    ASSUME TypeOK, Records, [Next]_vars
    PROVE  Records'
<1> USE DEF directory
<1>0. now \in Nat /\ settled \in Nat
  BY PresenceAssumption DEF TypeOK, Time, Records
<1>1. CASE Tick
  <2>1. \A m : Stamped(m) => Stamped(m)'
    BY <1>0, <1>1 DEF Tick, Stamped, Record, Time
  <2> QED
    BY <1>0, <1>1, <2>1 DEF Tick, Records, Held
<1>2. CASE now' = now
  <2>1. \A m : Stamped(m)' <=> Stamped(m)
    BY <1>2, Zenon DEF Stamped
  <2>2. ASSUME UNCHANGED <<flight, store, refresh, cache, highest>>, settled' \in {now, settled}
        PROVE  Records'
    BY <1>0, <1>2, <2>1, <2>2 DEF Records, Held
  <2>3. CASE \/ \E e \in Endpoint \cup {Reader, Service} : Update(e)
             \/ \E e \in Endpoint : Start(e) \/ Stop(e)
             \/ UNCHANGED vars
    BY <2>2, <2>3, Zenon DEF Update, Start, Stop, vars
  <2>4. ASSUME NEW e \in Endpoint, Publish(e) PROVE Records'
    <3> DEFINE m(parses) == [endpoint |-> e, epoch |-> Epoch[view[e]], addrs |-> local[e],
                             sequence |-> sequence'[e], issued |-> now, expires |-> now + Ttl,
                             parses |-> parses]
    <3>1. \A parses : m(parses) \in flight' => m(parses) \in Record
      BY <2>4, TypeStep, Zenon DEF TypeOK
    <3>2. sequence'[e] = now + 1
      BY <1>0, <2>4 DEF Publish, TypeOK, Later
    <3>3. \A parses : m(parses) \in flight' => Stamped(m(parses))
      BY <1>0, <3>1, <3>2 DEF Stamped
    <3>4. \A n \in flight' : Stamped(n)
      BY <2>4, <3>3, Zenon DEF Publish, Records
    <3> QED
      BY <2>1, <2>4, <3>4, Zenon DEF Publish, Records, Held
  <2>5. ASSUME NEW m \in flight, Lose(m) PROVE Records'
    BY <2>1, <2>5, Zenon DEF Lose, Records, Held
  <2>6. ASSUME NEW m \in flight, HandlePublish(m) PROVE Records'
    <3>1. IsFiniteSet(Held') /\ \A k \in Keys : store'[k] # None => Stamped(store'[k])
      BY <2>6, StoresKept, Zenon DEF HandlePublish, Records, Held
    <3> QED
      BY <2>1, <2>6, <3>1, Zenon DEF HandlePublish, Records
  <2>7. CASE StartRefresh
    BY <2>1, <2>7, Zenon DEF StartRefresh, Records, Held
  <2>8. ASSUME NEW e \in Endpoint, QueryPresence(e) PROVE Records'
    <3>1. store' = Retained /\ IsFiniteSet(Held') /\ \A k \in Keys : store'[k] # None => Stamped(store'[k])
      BY <2>8, RetainedHeld, Zenon DEF QueryPresence, Records, Held
    <3>2. refresh.phase = "ask" /\ refresh.config \in Revision
          /\ refresh \in [phase : {"ask"}, config : Revision, left : SUBSET Endpoint]
      BY <2>8, RefreshPhases, Zenon DEF QueryPresence
    <3>3. <<Epoch[refresh.config], e>> \in Keys
      BY <3>2, Zenon DEF Keys, Epochs
    <3>4. refresh'.phase = "apply" => Stamped(refresh'.record)
      BY <2>8, <3>1, <3>2, <3>3 DEF QueryPresence
    <3> QED
      BY <2>1, <2>8, <3>1, <3>4, Zenon DEF QueryPresence, Records
  <2>9. CASE ApplyEncrypted
    <3> DEFINE r == refresh.record
    <3>1. Stamped(r) /\ r.endpoint \in Endpoint /\ r.sequence \in Nat
      BY <2>9, RefreshPhases, Zenon DEF ApplyEncrypted, Record, Records
    <3>2. CASE UNCHANGED directory
      BY <2>1, <2>9, <3>2, Zenon DEF ApplyEncrypted, Records, Held
    <3>3. CASE /\ cache' = [cache EXCEPT ![r.endpoint] = r]
               /\ highest' = [highest EXCEPT ![r.endpoint] = Later(@, r.sequence)]
      <4>1. highest' \in [Endpoint -> Nat]
        BY <3>1, <3>3, Zenon DEF Later, Records
      <4>2. \A e \in Endpoint : cache'[e] # None => Stamped(cache'[e]) /\ cache'[e].endpoint = e
        BY <3>1, <3>3, Zenon DEF Records, TypeOK
      <4> QED
        BY <2>1, <2>9, <4>1, <4>2, Zenon DEF ApplyEncrypted, Records, Held
    <3> QED
      BY <2>9, <3>2, <3>3, Zenon DEF ApplyEncrypted
  <2>10. CASE FinishRefresh
    <3>1. \A e \in Endpoint : cache'[e] # None => cache'[e] = cache[e]
      BY <2>10, SMTT(30) DEF FinishRefresh, Purge, Unexpired
    <3> QED
      BY <1>0, <2>1, <2>10, <3>1 DEF FinishRefresh, Purge, Idle, Records, Held
  <2> QED
    BY <1>2, <2>3, <2>4, <2>5, <2>6, <2>7, <2>8, <2>9, <2>10, <1>0 DEF Next, RefreshStep, Tick
<1> QED
  BY <1>1, <1>2, Zenon DEF Next, RefreshStep, vars, Update, Start, Stop, Publish, Lose, HandlePublish,
                    StartRefresh, QueryPresence, ApplyEncrypted, FinishRefresh

\* Only the refresh touches the directory, and the clock only ticks.
LEMMA OthersLeaveDirectory ==
    ASSUME TypeOK, [Next]_vars
    PROVE  /\ ApplyEncrypted \/ FinishRefresh \/ UNCHANGED directory
           /\ now' = now \/ Tick
BY Zenon DEF Next, RefreshStep, vars, directory, Tick, Update, Start, Stop, Publish, Lose, HandlePublish,
       StartRefresh, QueryPresence, ApplyEncrypted, FinishRefresh

\* A record is taken into the directory.
Takes(r) ==
    /\ Stamped(r) /\ r.endpoint \in Endpoint /\ r # None
    /\ Opens(r, refresh.config) /\ Accepts(r)
    /\ cache' = [cache EXCEPT ![r.endpoint] = r]
    /\ lookup' = IF r.parses THEN [lookup EXCEPT ![r.endpoint] = r] ELSE lookup
    /\ highest' = [highest EXCEPT ![r.endpoint] = Later(@, r.sequence)]
    /\ \A x \in Addr :
          \/ x \in r.addrs /\ index'[x] = r
          \/ /\ x \notin r.addrs /\ cache[r.endpoint] # None /\ x \in cache[r.endpoint].addrs
             /\ index'[x] = None
          \/ /\ x \notin r.addrs /\ (cache[r.endpoint] = None \/ x \notin cache[r.endpoint].addrs)
             /\ index'[x] = index[x]

\* ApplyEncrypted does that, or leaves the directory alone.
LEMMA Applied ==
    ASSUME TypeOK, Records, ApplyEncrypted
    PROVE  UNCHANGED directory \/ Takes(refresh.record)
<1>1. /\ Stamped(refresh.record) /\ refresh.record.endpoint \in Endpoint /\ refresh.record # None
  BY RefreshPhases, NoneAssumption, Zenon DEF ApplyEncrypted, Records, Record
<1> QED
  BY <1>1, Zenon DEF ApplyEncrypted, Takes

\* What is in the directory is a record of an endpoint for some addresses.
LEMMA DirectoryTypes ==
    ASSUME TypeOK
    PROVE  /\ \A x \in Addr : index[x] # None => index[x].endpoint \in Endpoint
           /\ \A e \in Endpoint : cache[e] # None => cache[e].addrs \subseteq Addr
BY Zenon DEF TypeOK, Record

\* What DirectoryAgrees says of the candidates of one endpoint.
Looked(e) ==
    /\ cache[e] # None /\ cache[e].parses => lookup[e] = cache[e]
    /\ lookup[e] # None =>
          lookup[e].parses /\ cache[e] # None /\ lookup[e].sequence <= cache[e].sequence

\* Every step keeps the directory consistent.
LEMMA AgreesStep ==
    ASSUME TypeOK, Records, DirectoryAgrees, [Next]_vars
    PROVE  DirectoryAgrees'
<1>1. CASE UNCHANGED directory
  BY <1>1, Zenon DEF directory, DirectoryAgrees
<1>2. CASE ApplyEncrypted
  <2>1. SUFFICES ASSUME NEW r, Takes(r) PROVE DirectoryAgrees'
    BY <1>1, <1>2, Applied, Zenon
  <2> USE <2>1 DEF Takes
  <2>2. cache \in [Endpoint -> Record \cup {None}]
    BY Zenon DEF TypeOK
  <2>3. ASSUME NEW x \in Addr, index'[x] # None
        PROVE  cache'[index'[x].endpoint] = index'[x] /\ x \in index'[x].addrs
    <3>1. CASE x \in r.addrs
      BY <2>2, <2>3, <3>1, Zenon
    <3>2. CASE x \notin r.addrs
      BY <2>2, <2>3, <3>2, DirectoryTypes DEF DirectoryAgrees
    <3> QED
      BY <3>1, <3>2, Zenon
  <2>4. ASSUME NEW f \in Endpoint, cache'[f] # None, NEW x \in cache'[f].addrs
        PROVE  index'[x] = cache'[f]
    <3>1. CASE f = r.endpoint
      <4>1. cache'[f] = r /\ x \in Addr
        BY <2>2, <2>4, <3>1, Zenon DEF Stamped, Record
      <4> QED
        BY <2>4, <4>1, Zenon
    <3>2. CASE f # r.endpoint
      <4>1. cache'[f] = cache[f] /\ x \in Addr /\ index[x] = cache[f] /\ cache[f].endpoint = f
        BY <2>2, <2>4, <3>2, DirectoryTypes, Zenon DEF DirectoryAgrees, Records
      <4>2. x \notin r.addrs
        BY <2>4, <3>2, <4>1, Zenon DEF Accepts
      <4>3. cache[r.endpoint] = None \/ x \notin cache[r.endpoint].addrs
        BY <2>4, <3>2, <4>1 DEF DirectoryAgrees, Records
      <4> QED
        BY <4>1, <4>2, <4>3, Zenon
    <3> QED
      BY <3>1, <3>2, Zenon
  <2>5. ASSUME NEW f \in Endpoint PROVE Looked(f)'
    <3>1. lookup \in [Endpoint -> Record \cup {None}] /\ Looked(f)
      BY Zenon DEF TypeOK, DirectoryAgrees, Looked
    <3>2. CASE f # r.endpoint
      <4>1. cache'[f] = cache[f] /\ lookup'[f] = lookup[f]
        BY <2>2, <3>1, <3>2, Zenon
      <4> QED
        BY <3>1, <4>1, Zenon DEF Looked
    <3>3. CASE f = r.endpoint /\ r.parses
      <4>1. cache'[f] = r /\ lookup'[f] = r
        BY <2>2, <3>1, <3>3, Zenon
      <4>2. r.sequence <= r.sequence
        BY DEF Stamped, Record
      <4> QED
        BY <3>3, <4>1, <4>2, Zenon DEF Looked
    <3>4. CASE f = r.endpoint /\ ~r.parses
      <4>1. cache'[f] = r /\ lookup'[f] = lookup[f]
        BY <2>2, <3>4, Zenon
      <4>2. lookup[f] # None => cache[f] # None /\ lookup[f].parses
                                /\ lookup[f].sequence <= cache[f].sequence
        BY <3>1, Zenon DEF Looked
      <4>3. cache[f] # None => r.sequence > cache[f].sequence
        BY <3>4, Zenon DEF Accepts
      <4>4. /\ r.sequence \in Nat /\ (cache[f] # None => cache[f].sequence \in Nat)
            /\ (lookup[f] # None => lookup[f].sequence \in Nat)
        BY <2>2, <3>1, Zenon DEF Stamped, Record
      <4>5. lookup[f] # None => lookup[f].sequence <= r.sequence
        BY ONLY <4>2, <4>3, <4>4
      <4> QED
        BY <3>4, <4>1, <4>2, <4>5, Zenon DEF Looked
    <3> QED
      BY <3>2, <3>3, <3>4, Zenon
  <2> QED
    BY <2>3, <2>4, <2>5, Zenon DEF DirectoryAgrees, Looked
<1>3. CASE FinishRefresh
  <2>1. /\ cache' = [e \in Endpoint |-> Unexpired(cache[e])]
        /\ index' = [x \in Addr |-> Unexpired(index[x])]
        /\ lookup' = [e \in Endpoint |-> IF cache[e] # None /\ Unexpired(cache[e]) = None
                                         THEN None ELSE lookup[e]]
    BY <1>3, Zenon DEF FinishRefresh, Purge
  <2>2. \A e \in Endpoint : Looked(e)'
    <3>1. \A e \in Endpoint : Looked(e)
      BY Zenon DEF DirectoryAgrees, Looked
    <3>2. ASSUME NEW e \in Endpoint
          PROVE  \/ cache'[e] = cache[e] /\ lookup'[e] = lookup[e]
                 \/ cache'[e] = None /\ lookup'[e] = None
      <4>1. cache'[e] = Unexpired(cache[e])
        BY <2>1, Zenon
      <4>2. CASE Unexpired(cache[e]) # None
        BY <2>1, <4>1, <4>2, Zenon DEF Unexpired
      <4>3. CASE Unexpired(cache[e]) = None
        <5>1. cache[e] = None => lookup[e] = None
          BY <3>1, Zenon DEF Looked
        <5> QED
          BY <2>1, <4>1, <4>3, <5>1, Zenon
      <4> QED
        BY <4>2, <4>3, Zenon
    <3> QED
      BY <3>1, <3>2, Zenon DEF Looked
  <2>3. \A x \in Addr : index'[x] # None =>
            cache'[index'[x].endpoint] = index'[x] /\ x \in index'[x].addrs
    BY <2>1, DirectoryTypes, Zenon DEF DirectoryAgrees, Unexpired
  <2>4. \A e \in Endpoint : cache'[e] # None => \A x \in cache'[e].addrs : index'[x] = cache'[e]
    BY <2>1, DirectoryTypes, Zenon DEF DirectoryAgrees, Unexpired
  <2> QED
    BY <2>2, <2>3, <2>4, Zenon DEF DirectoryAgrees, Looked
<1> QED
  BY <1>1, <1>2, <1>3, OthersLeaveDirectory, Zenon

\* An endpoint whose record was purged has no record of that age any more.
Forgotten ==
    \A e \in Endpoint : cache[e] = None => highest[e] = 0 \/ highest[e] + Ttl <= now + 1

\* Every step keeps the highest sequence number in the cache, or expired: a
\* record that still opens is newer than one that was purged.
LEMMA NeverBackStep ==
    ASSUME TypeOK, Records, NeverBack, Forgotten, [Next]_vars
    PROVE  NeverBack' /\ Forgotten'
<1>0. now \in Nat /\ Ttl \in Nat \ {0} /\ (now' = now \/ now' = now + 1) /\ highest \in [Endpoint -> Nat]
  BY PresenceAssumption, OthersLeaveDirectory DEF TypeOK, Time, Tick, Records
<1>1. CASE UNCHANGED directory
  BY <1>0, <1>1 DEF directory, NeverBack, Forgotten
<1>2. CASE ApplyEncrypted
  <2>1. SUFFICES ASSUME NEW r, Takes(r) PROVE NeverBack' /\ Forgotten'
    BY <1>1, <1>2, Applied, Zenon
  <2>2. now' = now /\ cache \in [Endpoint -> Record \cup {None}]
    BY <1>2, Zenon DEF ApplyEncrypted, TypeOK
  <2>3. r.sequence \in Nat /\ r.sequence + Ttl > now + 1
    BY <1>0, <2>1 DEF Takes, Stamped, Opens, Record, Time
  <2>4. Later(highest[r.endpoint], r.sequence) = r.sequence
    <3>1. CASE cache[r.endpoint] = None
      BY <1>0, <2>1, <2>3, <3>1 DEF Takes, Forgotten, Later
    <3>2. CASE cache[r.endpoint] # None
      BY <1>0, <2>1, <2>3, <3>2 DEF Takes, Accepts, NeverBack, Later
    <3> QED
      BY <3>1, <3>2, Zenon
  <2> QED
    BY <1>0, <2>1, <2>2, <2>4, Zenon DEF Takes, NeverBack, Forgotten
<1>3. CASE FinishRefresh
  <2>1. now' = now /\ highest' = highest /\ \A e \in Endpoint : cache'[e] = Unexpired(cache[e])
    BY <1>3, Zenon DEF FinishRefresh, Purge
  <2>2. \A e \in Endpoint : cache[e] # None => cache[e].sequence + Ttl = cache[e].expires + 1
    BY <1>0 DEF Records, Stamped, Record, Time
  <2>3. \A e \in Endpoint : cache[e] # None => cache[e].expires \in Nat
    BY Zenon DEF Records, Stamped, Record
  <2> QED
    BY <1>0, <2>1, <2>2, <2>3 DEF NeverBack, Forgotten, Unexpired
<1> QED
  BY <1>1, <1>2, <1>3, OthersLeaveDirectory, Zenon

\* A refresh that began under a configuration the reader has left.
Behind == refresh # Idle /\ refresh.config # view[Reader]

\* An address leads where the reader's configuration says, or to a record from
\* before the reader left the previous one, unless a refresh is behind.
Fading ==
    \A x \in Addr : index[x] # None =>
        \/ x \in Granted(index[x].endpoint, view[Reader])
        \/ index[x].expires <= settled + Ttl
        \/ Behind

\* Every step keeps it so.
LEMMA FadingStep ==
    ASSUME TypeOK, Records, DirectoryAgrees, Fading, [Next]_vars
    PROVE  Fading'
<1>0. now \in Nat /\ settled \in Nat /\ Ttl \in Nat
  BY PresenceAssumption DEF TypeOK, Time, Records
<1>1. \A x \in Addr : index[x] # None => Stamped(index[x])
  BY DirectoryTypes, Zenon DEF DirectoryAgrees, Records
<1>2. \A x \in Addr : index[x] # None => index[x].expires <= now + Ttl
  BY <1>0, <1>1 DEF Stamped, Record, Time
<1>3. CASE UNCHANGED <<index, view, settled>> /\ (Behind => Behind')
  BY <1>3, Zenon DEF Fading, Granted
<1>4. CASE UNCHANGED index /\ settled' = now
  BY <1>2, <1>4, Zenon DEF Fading
<1>5. ASSUME NEW e \in Endpoint \cup {Reader, Service}, Update(e) PROVE Fading'
  <2>1. CASE e = Reader
    BY <1>4, <1>5, <2>1, Zenon DEF Update, directory
  <2>2. CASE e # Reader
    <3>1. view'[Reader] = view[Reader]
      BY <1>5, <2>2, Zenon DEF Update, TypeOK
    <3> QED
      BY <1>5, <2>2, <3>1, Zenon DEF Update, directory, Fading, Granted, Behind
  <2> QED
    BY <2>1, <2>2, Zenon
<1>6. CASE StartRefresh
  BY <1>3, <1>6, Zenon DEF StartRefresh, directory, Behind
<1>7. ASSUME NEW e \in Endpoint, QueryPresence(e) PROVE Fading'
  <2>1. refresh'.config = refresh.config /\ refresh' # Idle
    BY <1>7, RefreshPhases DEF QueryPresence, Idle
  <2> QED
    BY <1>3, <1>7, <2>1, Zenon DEF QueryPresence, directory, Behind
<1>8. CASE ApplyEncrypted
  <2>1. /\ refresh'.config = refresh.config /\ refresh' # Idle /\ refresh # Idle
        /\ view' = view /\ settled' = settled
    BY <1>8 DEF ApplyEncrypted, Idle
  <2>2. SUFFICES ASSUME NEW r, Takes(r) PROVE Fading'
    BY <1>3, <1>8, <2>1, Applied, Zenon DEF directory, Behind
  <2>3. \A x \in Addr : index'[x] # None =>
            index'[x] = index[x] \/ (index'[x] = r /\ x \in Granted(r.endpoint, refresh.config))
    BY <2>2, Zenon DEF Takes, Opens, Authorizes
  <2> QED
    BY <2>1, <2>3, Zenon DEF Fading, Behind, Granted
<1>9. CASE FinishRefresh
  <2>1. \A x \in Addr : index'[x] # None => index'[x] = index[x]
    BY <1>9, Zenon DEF FinishRefresh, Purge, Unexpired
  <2>2. CASE Behind
    BY <1>2, <1>9, <2>1, <2>2, Zenon DEF FinishRefresh, Behind, Fading
  <2>3. CASE ~Behind
    BY <1>9, <2>1, <2>3 DEF FinishRefresh, Behind, Fading, Granted, Idle
  <2> QED
    BY <2>2, <2>3, Zenon
<1>10. CASE \/ Tick
            \/ \E e \in Endpoint : Start(e) \/ Stop(e) \/ Publish(e)
            \/ \E m \in flight : Lose(m) \/ HandlePublish(m)
            \/ UNCHANGED vars
  BY <1>3, <1>10, Zenon DEF Tick, Start, Stop, Publish, Lose, HandlePublish, directory, vars, Behind
<1> QED
  BY <1>5, <1>6, <1>7, <1>8, <1>9, <1>10, Zenon DEF Next, RefreshStep

PresenceInv == TypeOK /\ Records /\ DirectoryAgrees /\ NeverBack /\ Forgotten /\ Fading

\* At the start there are no records.
LEMMA PresenceInit == Init => PresenceInv
<1> SUFFICES ASSUME Init PROVE PresenceInv
  BY Zenon
<1>1. Held = {} /\ IsFiniteSet(Held) /\ Cardinality(Held) = 0
  <2>1. Held = {}
    BY Zenon DEF Init, Held
  <2> QED
    BY <2>1, FS_EmptySet, Zenon
<1>2. TypeOK
  BY <1>1, PresenceAssumption DEF Init, TypeOK, Time, Revision, Refresh
<1>3. Records
  BY <1>1 DEF Init, Records, Idle
<1>4. DirectoryAgrees /\ NeverBack /\ Forgotten /\ Fading
  BY Zenon DEF Init, DirectoryAgrees, NeverBack, Forgotten, Fading
<1> QED
  BY <1>2, <1>3, <1>4, Zenon DEF PresenceInv

LEMMA PresenceAlways == Spec => []PresenceInv
<1>1. PresenceInv /\ [Next]_vars => PresenceInv'
  BY TypeStep, RecordsStep, AgreesStep, NeverBackStep, FadingStep, Zenon DEF PresenceInv
<1> QED
  BY PresenceInit, <1>1, PTL DEF Spec

\* Types, and the service's store never holds more records than its capacity.
THEOREM PresenceTypeAlways == Spec => []TypeOK
BY PresenceAlways, PTL DEF PresenceInv

\* The addresses, the endpoints and the candidates of the reader's directory
\* always agree, through conflicts, replacements, expiry and records whose relay
\* URLs do not parse: the candidates stay behind for one of those only, and are
\* never ahead of the record (apply_encrypted, purge_expired).
THEOREM DirectoryAgreesAlways == Spec => []DirectoryAgrees
BY PresenceAlways, PTL DEF PresenceInv

\* The reader never goes back to an older record of an endpoint, although it
\* forgets the sequence number of a record that expired: whatever is older has
\* expired too.
THEOREM NeverBackAlways == Spec => []NeverBack
BY PresenceAlways, PTL DEF PresenceInv

\* An address that the configuration took from an endpoint leads there for no
\* longer than the lifetime of a record after the last refresh under the old one.
THEOREM SupersededFadesAlways == Spec => []SupersededFades
<1>1. PresenceInv => SupersededFades
  <2> SUFFICES ASSUME PresenceInv, refresh = Idle \/ refresh.config = view[Reader],
                      NEW x \in Addr, NEW e \in Resolves(x), x \notin Granted(e, view[Reader])
               PROVE  now < settled + Ttl
    BY Zenon DEF SupersededFades
  <2>1. index[x] # None /\ now < index[x].expires /\ e = index[x].endpoint
    BY NoneAssumption, Zenon DEF Resolves, Unexpired
  <2>2. index[x].expires <= settled + Ttl
    BY <2>1, Zenon DEF PresenceInv, Fading, Behind
  <2>3. index[x].expires \in Nat /\ now \in Nat /\ settled \in Nat /\ Ttl \in Nat
    BY <2>1, PresenceAssumption DEF PresenceInv, TypeOK, Record, Records, Time
  <2> QED
    BY <2>1, <2>2, <2>3
<1> QED
  BY PresenceAlways, <1>1, PTL

=============================================================================
