------------------------------ MODULE Presence ------------------------------
(***************************************************************************)
(* Encrypted presence: endpoints publish where they are to a service that  *)
(* cannot read the records, other members query it and keep a directory    *)
(* (weaver-net: spawn_presence_sync, MemoryOpaquePresenceStore,            *)
(* handle_presence_connection; weaver-discovery: EncryptedPresenceRecord,  *)
(* PresenceCache, PresenceDirectory, WeaverAddressLookup).                 *)
(*                                                                         *)
(* One reader and one service; every other endpoint publishes.  Each has   *)
(* the configuration it has come to (ConfigSync), and the network loses    *)
(* and delays requests: a publisher that lost its connection publishes     *)
(* again while the handler of the earlier request may still be running.    *)
(* Clocks agree.  A tick is the least time between two publications, so    *)
(* far above a millisecond, and a restart takes as long.                   *)
(***************************************************************************)
EXTENDS Naturals, FiniteSets

CONSTANTS
    Endpoint,   \* the endpoints that publish
    Addr,       \* the scoped virtual addresses
    Reader,     \* the endpoint that keeps a directory
    Service,    \* the presence service
    Newest,     \* the last revision of the configuration
    Epoch,      \* [0..Newest -> Nat]
    Lists,      \* [0..Newest -> SUBSET Endpoint], the endpoint bindings
    Grants,     \* [0..Newest -> SUBSET (Endpoint \X Addr)], the app bindings
    None,       \* no record
    Ttl,        \* record_ttl, at most MAX_PRESENCE_TTL_MS
    Capacity,   \* the records the service holds at most
    MaxTime,    \* bound: the clock
    MaxFlight,  \* bound: publications on their way
    MaxFaults   \* bound: what goes wrong

Revision == 0..Newest

ASSUME PresenceAssumption ==
    /\ Reader \notin Endpoint /\ Service \notin Endpoint
    /\ Ttl \in Nat \ {0} /\ Capacity \in Nat \ {0}
    /\ Newest \in Nat /\ MaxTime \in Nat
    /\ Lists \in [Revision -> SUBSET Endpoint]
    /\ \A r \in Revision : Grants[r] \subseteq Lists[r] \X Addr
    \* A revision that takes something away is a revocation: a new epoch.
    /\ \A r \in 1..Newest : Epoch[r] = Epoch[r - 1] =>
          Lists[r] = Lists[r - 1] /\ Grants[r - 1] \subseteq Grants[r]

VARIABLES
    now,       \* the clock
    view,      \* the configuration each endpoint, the reader and the service have
    local,     \* the addresses an endpoint is bound to, none while it is down
    sequence,  \* the last sequence number of each endpoint's runtime
    flight,    \* the publications on their way, as the handlers got them
    store,     \* the service's records, by epoch and endpoint (the opaque key)
    refresh,   \* what the reader's refresh is doing
    cache,     \* endpoint_records of the reader's PresenceCache
    index,     \* records of the PresenceCache, by address
    lookup,    \* the record whose candidates WeaverAddressLookup holds
    highest,   \* history variable: the highest sequence the cache has had
    settled,   \* history variable: when the reader left the previous configuration
    faults     \* what went wrong so far, for the bound

vars == <<now, view, local, sequence, flight, store, refresh, cache, index, lookup,
          highest, settled, faults>>
directory == <<cache, index, lookup, highest>>

Epochs == {Epoch[r] : r \in Revision}
Time == 0..MaxTime

\* parses: the reader makes a relay URL of every relay among the candidates,
\* which validate_candidates does not look into.
Record == [endpoint : Endpoint, epoch : Epochs, addrs : (SUBSET Addr) \ {{}},
           sequence : Nat, issued : Time, expires : Nat, parses : BOOLEAN]

ASSUME NoneAssumption == None \notin Record

Idle == [phase |-> "idle"]

\* config is the one the refresh began with, left the endpoints still to query.
Refresh == {Idle}
    \cup [phase : {"ask"}, config : Revision, left : SUBSET Endpoint]
    \cup [phase : {"apply"}, config : Revision, left : SUBSET Endpoint, record : Record]

Keys == Epochs \X Endpoint
Held == {k \in Keys : store[k] # None}

TypeOK ==
    /\ now \in Time
    /\ view \in [Endpoint \cup {Reader, Service} -> Revision]
    /\ local \in [Endpoint -> SUBSET Addr]
    /\ sequence \in [Endpoint -> Nat]
    /\ flight \subseteq Record
    /\ store \in [Keys -> Record \cup {None}] /\ Cardinality(Held) <= Capacity
    /\ refresh \in Refresh
    /\ cache \in [Endpoint -> Record \cup {None}]
    /\ index \in [Addr -> Record \cup {None}]
    /\ lookup \in [Endpoint -> Record \cup {None}]

Init ==
    /\ now = 0
    /\ view = [e \in Endpoint \cup {Reader, Service} |-> 0]
    /\ local = [e \in Endpoint |-> {}]
    /\ sequence = [e \in Endpoint |-> 0]
    /\ flight = {}
    /\ store = [k \in Keys |-> None]
    /\ refresh = Idle
    /\ cache = [e \in Endpoint |-> None]
    /\ index = [x \in Addr |-> None]
    /\ lookup = cache
    /\ highest = [e \in Endpoint |-> 0]
    /\ settled = 0
    /\ faults = 0

-----------------------------------------------------------------------------
Tick ==
    /\ now < MaxTime
    /\ now' = now + 1
    /\ UNCHANGED <<view, local, sequence, flight, store, refresh, directory, settled, faults>>

\* LiveConfigAuthorizer::update: whoever asks next gets the new configuration.
Update(e) ==
    /\ view[e] < Newest
    /\ view' = [view EXCEPT ![e] = @ + 1]
    /\ settled' = IF e = Reader THEN now ELSE settled
    /\ UNCHANGED <<now, local, sequence, flight, store, refresh, directory, faults>>

Granted(e, r) == {x \in Addr : <<e, x>> \in Grants[r]}

\* NetworkHandle::open with addresses the configuration grants; the sequence
\* starts from the clock.
Start(e) ==
    /\ local[e] = {}
    /\ sequence[e] <= now
    /\ \E xs \in (SUBSET Granted(e, view[e])) \ {{}} : local' = [local EXCEPT ![e] = xs]
    /\ sequence' = [sequence EXCEPT ![e] = now]
    /\ UNCHANGED <<now, view, flight, store, refresh, directory, settled, faults>>

\* An endpoint stops, a publication is lost, a relay URL does not parse.
Fault == faults < MaxFaults /\ faults' = faults + 1

Stop(e) ==
    /\ local[e] # {}
    /\ Fault
    /\ local' = [local EXCEPT ![e] = {}]
    /\ UNCHANGED <<now, view, sequence, flight, store, refresh, directory, settled>>

\* authorize_endpoint_and_addr, for every address: one that is not granted any
\* more fails the whole record.
Authorizes(r, e, xs) == e \in Lists[r] /\ xs \subseteq Granted(e, r)

Later(s, t) == IF s >= t THEN s ELSE t

\* publish_current_presence: the sequence moves on even if the record cannot be
\* sealed.  Nothing but their length is asked of the relay URLs.
Publish(e) ==
    /\ local[e] # {}
    /\ sequence[e] <= now
    /\ sequence' = [sequence EXCEPT ![e] = Later(@, now) + 1]
    /\ \/ /\ Authorizes(view[e], e, local[e])
          /\ Cardinality(flight) < MaxFlight
          /\ \E parses \in BOOLEAN :
                /\ flight' = flight \cup
                      {[endpoint |-> e, epoch |-> Epoch[view[e]], addrs |-> local[e],
                        sequence |-> sequence'[e], issued |-> now, expires |-> now + Ttl,
                        parses |-> parses]}
                /\ \/ parses /\ UNCHANGED faults
                   \/ ~parses /\ Fault
       \/ /\ ~Authorizes(view[e], e, local[e])
          /\ UNCHANGED <<flight, faults>>
    /\ UNCHANGED <<now, view, local, store, refresh, directory, settled>>

Lose(m) ==
    /\ Fault
    /\ flight' = flight \ {m}
    /\ UNCHANGED <<now, view, local, sequence, store, refresh, directory, settled>>

-----------------------------------------------------------------------------
\* records.retain
Retained == [k \in Keys |-> IF k \in Held /\ now < store[k].expires THEN store[k] ELSE None]

Full(records) == Cardinality({k \in Keys : records[k] # None}) >= Capacity

\* Mutant: a new key is inserted however many there are.
StoresUnbounded(m) == store' = [Retained EXCEPT ![<<m.epoch, m.endpoint>>] = m]

\* MemoryOpaquePresenceStore::publish: expired records make room, the record
\* replaces the one its key has.
Stores(m) ==
    LET key == <<m.epoch, m.endpoint>>
    IN  IF now >= m.expires
        THEN UNCHANGED store
        ELSE store' = IF Retained[key] = None /\ Full(Retained) THEN Retained
                      ELSE [Retained EXCEPT ![key] = m]

\* handle_presence_connection, for an endpoint the service's configuration lists.
HandlePublish(m) ==
    /\ flight' = flight \ {m}
    /\ IF m.endpoint \in Lists[view[Service]] THEN Stores(m) ELSE UNCHANGED store
    /\ UNCHANGED <<now, view, local, sequence, refresh, directory, settled, faults>>

-----------------------------------------------------------------------------
\* refresh_remote_presence: the endpoints of the configuration of this moment ...
StartRefresh ==
    /\ refresh = Idle
    /\ refresh' = [phase |-> "ask", config |-> view[Reader], left |-> Lists[view[Reader]]]
    /\ UNCHANGED <<now, view, local, sequence, flight, store, directory, settled, faults>>

\* ... are queried one after the other under the key of its epoch (a request
\* that is lost is like one that finds nothing) ...
QueryPresence(e) ==
    /\ refresh.phase = "ask" /\ e \in refresh.left
    /\ store' = Retained
    /\ LET found == Retained[<<Epoch[refresh.config], e>>]
           left == refresh.left \ {e}
       IN  \/ refresh' = [refresh EXCEPT !.left = left]
           \/ /\ found # None
              /\ refresh' = [phase |-> "apply", config |-> refresh.config,
                             left |-> left, record |-> found]
    /\ UNCHANGED <<now, view, local, sequence, flight, directory, settled, faults>>

\* EncryptedPresenceRecord::open
Opens(record, r) ==
    /\ record.epoch = Epoch[r]
    /\ record.issued <= now /\ now < record.expires
    /\ Authorizes(r, record.endpoint, record.addrs)

\* Mutant: a record is taken whatever its sequence.
AcceptsAnySequence(record) ==
    \A x \in record.addrs : index[x] # None => index[x].endpoint = record.endpoint

\* PresenceCache::apply: neither a rollback nor an address that another
\* endpoint holds, were its record expired.
Accepts(record) ==
    LET current == cache[record.endpoint]
    IN  /\ current # None => record.sequence > current.sequence
        /\ \A x \in record.addrs : index[x] # None => index[x].endpoint = record.endpoint

\* PresenceDirectory::apply_encrypted: the cache has taken the record when
\* apply_presence fails on a relay URL, and the lookup is left as it was.
ApplyEncrypted ==
    /\ refresh.phase = "apply"
    /\ refresh' = [phase |-> "ask", config |-> refresh.config, left |-> refresh.left]
    /\ LET record == refresh.record
           e == record.endpoint
       IN  IF Opens(record, refresh.config) /\ Accepts(record)
           THEN /\ cache' = [cache EXCEPT ![e] = record]
                /\ index' = [x \in Addr |->
                      CASE x \in record.addrs -> record
                        [] x \notin record.addrs /\ cache[e] # None /\ x \in cache[e].addrs -> None
                        [] OTHER -> index[x]]
                /\ lookup' = IF record.parses THEN [lookup EXCEPT ![e] = record] ELSE lookup
                /\ highest' = [highest EXCEPT ![e] = Later(@, record.sequence)]
           ELSE UNCHANGED directory
    /\ UNCHANGED <<now, view, local, sequence, flight, store, settled, faults>>

Unexpired(record) == IF record # None /\ now < record.expires THEN record ELSE None

\* Mutant: the address lookup keeps the candidates of a purged endpoint.
PurgeKeepingLookup ==
    /\ cache' = [e \in Endpoint |-> Unexpired(cache[e])]
    /\ index' = [x \in Addr |-> Unexpired(index[x])]
    /\ UNCHANGED <<lookup, highest>>

\* Mutant: expired records stay until they are replaced.
PurgeNothing == UNCHANGED directory

\* PresenceDirectory::purge_expired
Purge ==
    /\ cache' = [e \in Endpoint |-> Unexpired(cache[e])]
    /\ index' = [x \in Addr |-> Unexpired(index[x])]
    /\ lookup' = [e \in Endpoint |-> IF cache[e] # None /\ Unexpired(cache[e]) = None
                                     THEN None ELSE lookup[e]]
    /\ UNCHANGED highest

\* ... and in the end what has expired is purged.
FinishRefresh ==
    /\ refresh.phase = "ask" /\ refresh.left = {}
    /\ refresh' = Idle
    /\ Purge
    /\ settled' = IF refresh.config # view[Reader] THEN now ELSE settled
    /\ UNCHANGED <<now, view, local, sequence, flight, store, faults>>

RefreshStep ==
    \/ StartRefresh \/ ApplyEncrypted \/ FinishRefresh
    \/ \E e \in Endpoint : QueryPresence(e)

-----------------------------------------------------------------------------
Next ==
    \/ Tick
    \/ \E e \in Endpoint \cup {Reader, Service} : Update(e)
    \/ \E e \in Endpoint : Start(e) \/ Stop(e) \/ Publish(e)
    \/ \E m \in flight : Lose(m) \/ HandlePublish(m)
    \/ RefreshStep

\* Time passes, configurations arrive, the publish and query intervals come
\* round, the service handles what it got, and an endpoint that may run does;
\* a query that is asked again and again gets through now and then.
Fairness ==
    /\ WF_vars(Tick)
    /\ \A e \in Endpoint \cup {Reader, Service} : WF_vars(Update(e))
    /\ \A e \in Endpoint : WF_vars(Start(e)) /\ WF_vars(Publish(e))
    /\ WF_vars(\E m \in flight : HandlePublish(m))
    /\ WF_vars(RefreshStep)
    /\ \A e \in Endpoint : SF_vars(QueryPresence(e) /\ refresh'.phase = "apply")

Spec == Init /\ [][Next]_vars /\ Fairness

-----------------------------------------------------------------------------
\* Mutant: an expired record still resolves.
ResolvesExpired(x) == IF index[x] # None THEN {index[x].endpoint} ELSE {}

\* PresenceDirectory::resolve
Resolves(x) == IF Unexpired(index[x]) # None THEN {index[x].endpoint} ELSE {}

\* The three indexes of the directory tell one story: an address leads to the
\* record its endpoint has now and that names it, every address of a record
\* leads to it, and the candidates iroh dials are the ones of that record, or
\* of an older one as long as the record is one whose relay URLs do not parse.
\* There are none without a record.
DirectoryAgrees ==
    /\ \A x \in Addr : index[x] # None => cache[index[x].endpoint] = index[x] /\ x \in index[x].addrs
    /\ \A e \in Endpoint : cache[e] # None => \A x \in cache[e].addrs : index[x] = cache[e]
    /\ \A e \in Endpoint : cache[e] # None /\ cache[e].parses => lookup[e] = cache[e]
    /\ \A e \in Endpoint : lookup[e] # None =>
          lookup[e].parses /\ cache[e] # None /\ lookup[e].sequence <= cache[e].sequence

\* The reader never goes back to an older record of an endpoint, although
\* purging forgets the sequence number and the service may hand out an older
\* record after a newer one (DISC-3).
NeverBack ==
    \A e \in Endpoint : cache[e] # None => cache[e].sequence = highest[e]

\* An address leads to an endpoint that the reader's configuration no longer
\* grants it for no longer than the lifetime of a record after the refresh
\* that began under the previous configuration: nothing renews it.
SupersededFades ==
    refresh = Idle \/ refresh.config = view[Reader] =>
        \A x \in Addr : \A e \in Resolves(x) :
            x \in Granted(e, view[Reader]) \/ now < settled + Ttl

\* Once the whole network has the newest revision, early enough for the old
\* records to expire, an address it grants to one endpoint comes to lead there,
\* whoever held it before.
Moved(x, e) ==
    /\ \A f \in Endpoint : x \in Granted(f, Newest) <=> f = e
    /\ local[e] = Granted(e, Newest)

AddressMoves ==
    \A x \in Addr, e \in Endpoint :
        (\A p \in DOMAIN view : view[p] = Newest) /\ Moved(x, e) /\ now + Ttl < MaxTime
            ~> Resolves(x) = {e}

=============================================================================
