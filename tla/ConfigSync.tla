----------------------------- MODULE ConfigSync -----------------------------
(***************************************************************************)
(* Anti-entropy: how the revisions an authority publishes reach the        *)
(* members (weaver-net: spawn_config_anti_entropy, fetch_config_updates,   *)
(* handle_config_sync_connection, LiveConfigState, MemberConfigSource).    *)
(*                                                                         *)
(* Every member runs a loop of rounds.  A round asks the peers its         *)
(* configuration lists, one after the other, for what follows its head,    *)
(* and ends with the first answer that applies; the next round starts with *)
(* the peer after the one that answered.  An answer that brings nothing    *)
(* new ends a round like any other.                                        *)
(*                                                                         *)
(* The chain is given: revision r lists the peers in Lists[r] and          *)
(* validates until GoodUntil[r], the first expiry of anything it lists.    *)
(* MemberConfig is the persisted state behind head and stored.             *)
(***************************************************************************)
EXTENDS Naturals, Sequences, FiniteSets

CONSTANTS
    Peer,        \* the members' endpoints
    Authority,   \* the endpoint of the authority's server
    Rank,        \* [Peer -> Nat], the order of the endpoint ids
    LastRevision,      \* the last revision
    Lists,       \* [0..LastRevision -> SUBSET Peer], the endpoint bindings
    GoodUntil,   \* [0..LastRevision -> Nat]
    Unjoined,    \* the head of a peer that has not joined
    MaxBatch,    \* MAX_UPDATE_ENVELOPES
    MaxTime,     \* bound: the clock
    MaxLost,     \* bound: requests that fail on the way
    MaxFaults,   \* bound: read-backs that fail after a commit
    MaxStops     \* bound: times a peer stops

ASSUME SyncAssumption ==
    /\ Authority \in Peer
    /\ IsFiniteSet(Peer)
    /\ Rank \in [Peer -> Nat] /\ \A p, q \in Peer : Rank[p] = Rank[q] => p = q
    /\ LastRevision \in Nat /\ Unjoined \notin 0..LastRevision
    /\ \A r \in 0..LastRevision : Authority \in Lists[r] /\ Lists[r] \subseteq Peer
    /\ MaxBatch \in Nat \ {0}
    /\ MaxTime \in Nat /\ MaxLost \in Nat /\ MaxFaults \in Nat /\ MaxStops \in Nat

VARIABLES
    published,  \* the authority's head
    now,        \* the clock
    running,    \* the peers whose process is up
    head,       \* self.head of each peer's PersistedConfigState
    stored,     \* the head in its store
    oldest,     \* the first revision its store retains
    targets,    \* the peers its loop asks, in order
    start,      \* start_index of its loop
    round,      \* the round its loop is in
    faults      \* what went wrong so far, for the bounds

syncVars == <<published, now, running, head, stored, oldest, targets, start, round, faults>>
state == <<head, stored, oldest>>

Revision == 0..LastRevision
Waiting == [phase |-> "waiting"]

\* previous is the head the round began with, upto the end of a fetched batch.
Round == {Waiting}
    \cup [phase : {"fetch"}, previous : Revision, offset : Nat]
    \cup [phase : {"apply"}, previous : Revision, offset : Nat, upto : Revision]

SyncTypeOK ==
    /\ published \in Revision
    /\ now \in 0..MaxTime
    /\ running \subseteq Peer
    /\ head \in [Peer -> Revision \cup {Unjoined}]
    /\ stored \in [Peer -> Revision \cup {Unjoined}]
    /\ oldest \in [Peer -> Revision \cup {Unjoined}]
    /\ round \in [Peer -> Round]
    /\ targets \in [Peer -> Seq(Peer)] /\ \A p \in Peer : targets[p] \in Seq(Peer \ {p})
    /\ start \in [Peer -> Nat]
    /\ \A p \in Peer : round[p] # Waiting =>
          start[p] < Len(targets[p]) /\ round[p].offset < Len(targets[p])
    /\ faults \in [lost : 0..MaxLost, store : 0..MaxFaults, stops : 0..MaxStops]

SyncInit ==
    /\ published = 0
    /\ now = 0
    /\ running = {Authority}
    /\ head = [p \in Peer |-> IF p = Authority THEN 0 ELSE Unjoined]
    /\ stored = head
    /\ oldest = head
    /\ targets = [p \in Peer |-> << >>]
    /\ start = [p \in Peer |-> 0]
    /\ round = [p \in Peer |-> Waiting]
    /\ faults = [lost |-> 0, store |-> 0, stops |-> 0]

-----------------------------------------------------------------------------
Validates(r) == now < GoodUntil[r]

\* The authority commits the next revision; its server answers from it.
Publish ==
    /\ published < LastRevision
    /\ Validates(published + 1)
    /\ published' = published + 1
    /\ head' = [head EXCEPT ![Authority] = published + 1]
    /\ stored' = [stored EXCEPT ![Authority] = published + 1]
    /\ UNCHANGED <<now, running, oldest, targets, start, round, faults>>

Tick ==
    /\ now < MaxTime
    /\ now' = now + 1
    /\ UNCHANGED <<published, running, state, targets, start, round, faults>>

\* The ticket of a peer carries the first revision that lists it.
Joins(p) == CHOOSE r \in Revision : p \in Lists[r] /\ \A s \in 0..r - 1 : p \notin Lists[s]

\* The peers of a set in the order of their endpoint ids.
InOrder(S) == CHOOSE s \in [1..Cardinality(S) -> S] :
                  \A i, j \in DOMAIN s : i < j => Rank[s[i]] < Rank[s[j]]

\* config_peer_descriptors
PeersOf(p, r) == InOrder(Lists[r] \ {p})

\* Join with the ticket and open the network.
Join(p) ==
    /\ head[p] = Unjoined
    /\ \E r \in 0..published : p \in Lists[r]
    /\ Validates(Joins(p))
    /\ head' = [head EXCEPT ![p] = Joins(p)]
    /\ stored' = [stored EXCEPT ![p] = Joins(p)]
    /\ oldest' = [oldest EXCEPT ![p] = Joins(p)]
    /\ targets' = [targets EXCEPT ![p] = PeersOf(p, Joins(p))]
    /\ running' = running \cup {p}
    /\ UNCHANGED <<published, now, start, round, faults>>

\* Mutant: an envelope without a key wrap for the peer is accepted.
OpensUnlisted(p, base, upto) == \A r \in base + 1..upto : Validates(r)

\* Every envelope of the batch is sealed for the peer and validates now.
Opens(p, base, upto) == \A r \in base + 1..upto : p \in Lists[r] /\ Validates(r)

\* The batch a peer is about to apply starts at its head, opens ...
Accepts(p) ==
    /\ round[p].phase = "apply"
    /\ round[p].previous = head[p]
    /\ Opens(p, head[p], round[p].upto)

\* ... and, unless it is empty, meets the store as the handle knows it.
Commits(p) == Accepts(p) /\ round[p].upto # head[p] /\ stored[p] = head[p]

\* The process stops; a commit under way may still land.
Stop(p) ==
    /\ p \in running
    /\ faults.stops < MaxStops
    /\ faults' = [faults EXCEPT !.stops = @ + 1]
    /\ running' = running \ {p}
    /\ round' = [round EXCEPT ![p] = Waiting]
    /\ \/ UNCHANGED stored
       \/ Commits(p) /\ stored' = [stored EXCEPT ![p] = round[p].upto]
    /\ UNCHANGED <<published, now, head, oldest, targets, start>>

\* PersistedConfigState::open (or Authority::open) and a new loop: the stored
\* revision must still validate.
Restart(p) ==
    /\ p \notin running /\ head[p] # Unjoined
    /\ Validates(stored[p])
    /\ running' = running \cup {p}
    /\ head' = [head EXCEPT ![p] = stored[p]]
    /\ targets' = [targets EXCEPT ![p] = IF p = Authority THEN @ ELSE PeersOf(p, stored[p])]
    /\ start' = [start EXCEPT ![p] = 0]
    /\ UNCHANGED <<published, now, stored, oldest, round, faults>>

-----------------------------------------------------------------------------
\* The timer or a trigger starts a round, with the peers of the current head.
StartRound(p) ==
    /\ p \in running \ {Authority}
    /\ round[p] = Waiting
    /\ LET current == PeersOf(p, head[p])
       IN  /\ targets' = [targets EXCEPT ![p] = IF current = << >> THEN @ ELSE current]
           /\ start' = [start EXCEPT ![p] = IF current = << >> THEN @ ELSE @ % Len(current)]
    /\ round' = [round EXCEPT ![p] = [phase |-> "fetch", previous |-> head[p], offset |-> 0]]
    /\ UNCHANGED <<published, now, running, state, faults>>

\* Mutant: the failover runs past the last target.
NextTargetUnbounded(p) ==
    round' = [round EXCEPT ![p] = [phase |-> "fetch", previous |-> @.previous,
                                   offset |-> @.offset + 1]]

\* Failover: on to the next target, or the round has failed.
NextTarget(p) ==
    round' = [round EXCEPT ![p] =
                 IF @.offset + 1 < Len(targets[p])
                 THEN [phase |-> "fetch", previous |-> @.previous, offset |-> @.offset + 1]
                 ELSE Waiting]

Index(p) == (start[p] + round[p].offset) % Len(targets[p])
Target(p) == targets[p][Index(p) + 1]

\* The peer is up, admits the asking endpoint (allow_config_sync), knows its
\* head, retains everything after it, and can put it into one batch.
Answers(q, p, base) ==
    /\ q \in running
    /\ p \in Lists[head[q]]
    /\ base <= head[q]
    /\ oldest[q] <= base
    /\ head[q] - base <= MaxBatch

\* fetch_config_updates from the target of this step.
Fetch(p) ==
    /\ round[p].phase = "fetch"
    /\ LET q == Target(p)
           base == round[p].previous
       IN  \/ /\ Answers(q, p, base)
              /\ round' = [round EXCEPT ![p] = [phase |-> "apply", previous |-> base,
                                                offset |-> @.offset, upto |-> head[q]]]
              /\ UNCHANGED faults
           \/ /\ ~Answers(q, p, base)
              /\ NextTarget(p)
              /\ UNCHANGED faults
           \/ /\ Answers(q, p, base)
              /\ faults.lost < MaxLost
              /\ faults' = [faults EXCEPT !.lost = @ + 1]
              /\ NextTarget(p)
    /\ UNCHANGED <<published, now, running, state, targets, start>>

\* Mutant: a round that was answered does not move the starting peer.
RoundDoneInPlace(p) ==
    /\ start' = start
    /\ round' = [round EXCEPT ![p] = Waiting]

RoundDone(p) ==
    /\ start' = [start EXCEPT ![p] = (Index(p) + 1) % Len(targets[p])]
    /\ round' = [round EXCEPT ![p] = Waiting]

\* LiveConfigState::apply_updates: the batch applies, is refused, or is
\* committed by a handle that then fails to read it back.
ApplyUpdates(p) ==
    /\ round[p].phase = "apply"
    /\ \/ /\ Accepts(p) /\ round[p].upto = head[p]
          /\ RoundDone(p)
          /\ UNCHANGED <<head, stored, faults>>
       \/ /\ Commits(p)
          /\ head' = [head EXCEPT ![p] = round[p].upto]
          /\ stored' = [stored EXCEPT ![p] = round[p].upto]
          /\ RoundDone(p)
          /\ UNCHANGED faults
       \/ /\ ~Commits(p) /\ ~(Accepts(p) /\ round[p].upto = head[p])
          /\ NextTarget(p)
          /\ UNCHANGED <<head, stored, start, faults>>
       \/ /\ Commits(p)
          /\ faults.store < MaxFaults
          /\ faults' = [faults EXCEPT !.store = @ + 1]
          /\ stored' = [stored EXCEPT ![p] = round[p].upto]
          /\ NextTarget(p)
          /\ UNCHANGED <<head, start>>
    /\ UNCHANGED <<published, now, running, oldest, targets>>

\* apply_config_updates with a batch that was delivered by hand.
ApplyByHand(p, upto) ==
    /\ p \in running \ {Authority}
    /\ stored[p] = head[p]
    /\ head[p] < upto /\ upto <= published
    /\ Opens(p, head[p], upto)
    /\ head' = [head EXCEPT ![p] = upto]
    /\ stored' = [stored EXCEPT ![p] = upto]
    /\ UNCHANGED <<published, now, running, oldest, targets, start, round, faults>>

Loop(p) == StartRound(p) \/ Fetch(p) \/ ApplyUpdates(p)

SyncNext ==
    \/ Publish \/ Tick
    \/ \E p \in Peer : Join(p) \/ Stop(p) \/ Restart(p) \/ Loop(p)
    \/ \E p \in Peer, r \in Revision : ApplyByHand(p, r)

\* The loops run on and a stopped process is started again; nobody is obliged
\* to deliver a batch by hand, to stop, or to lose a request.
SyncFairness ==
    /\ WF_syncVars(Publish)
    /\ \A p \in Peer : WF_syncVars(Join(p)) /\ WF_syncVars(Restart(p)) /\ WF_syncVars(Loop(p))

SyncSpec == SyncInit /\ [][SyncNext]_syncVars /\ SyncFairness

-----------------------------------------------------------------------------
\* What keeps a peer from the newest revision: a handle that has not read back
\* what it committed, a revision ahead of it (or the stored one, for a process
\* that is to be started) that does not validate any more, or more of them than
\* a batch holds.
Stuck(p) ==
    /\ head[p] # Unjoined
    /\ \/ stored[p] # head[p]
       \/ \E r \in stored[p]..LastRevision : ~Validates(r)
       \/ LastRevision - head[p] > MaxBatch

\* Once the newest revision is published, every peer that has joined and that
\* it lists comes to have it for good, whatever was lost, refused or restarted
\* on the way and however far the other peers are behind, unless it is stuck
\* for good.
ConvergesUnlessStuck ==
    \A p \in Peer : p \in Lists[LastRevision] /\ <>(published = LastRevision /\ head[p] # Unjoined) =>
        <>[](head[p] = LastRevision) \/ <>[]Stuck(p)

\* A member that was removed gets no further than the last revision that
\* listed it without a gap, and one that was not always keeps everything
\* between the revision it joined with and its head.
OnlyWhatListsIt ==
    \A p \in Peer : head[p] # Unjoined =>
        \A r \in oldest[p]..stored[p] : p \in Lists[r]

=============================================================================
