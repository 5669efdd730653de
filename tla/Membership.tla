----------------------------- MODULE Membership -----------------------------
(***************************************************************************)
(* Joining and leaving a network (weaver-net/src/membership.rs): records   *)
(* in the state store that refer to secrets in the secret store, with no   *)
(* transaction over the two.                                               *)
(*                                                                         *)
(* prepare_join, join and reset are calls a host application may have in   *)
(* progress at the same time; each access to a store is an await point,    *)
(* and the process may die between any two.  A prepared request carries a  *)
(* nonce drawn for it, and a membership is the answer to one request, so   *)
(* that a record is never written twice and its version is the record      *)
(* itself.  The five records join puts appear and disappear together.      *)
(***************************************************************************)
EXTENDS Naturals, FiniteSets, Sequences

CONSTANTS
    Task,         \* the calls that may be in progress
    None,         \* no key, no record
    MaxKeys,      \* bound: keys generated
    MaxRequests   \* bound: requests created

ASSUME MembershipAssumption ==
    /\ MaxKeys \in Nat /\ MaxRequests \in Nat

VARIABLES
    exclusive, \* whether this host runs reset with no other call in progress
    secrets,   \* the member secrets, by label
    prepared,  \* the record under membership/prepared-join
    member,    \* the membership records: the request that was answered
    pc,        \* where each call is
    keys,      \* the keys a prepare_join has so far
    seen,      \* the request a join works on, the records a reset has scanned
    counts,    \* keys and requests made so far
    returned   \* history variable: the requests prepare_join has returned
               \* since the records were last reset

vars == <<exclusive, secrets, prepared, member, pc, keys, seen, counts, returned>>

Label == {"signing", "encryption", "endpoint"}
Key == 1..MaxKeys
Request == [keys : [Label -> Key], nonce : 1..MaxRequests]

\* No key and no request is mistaken for none.
ASSUME NoneAssumption == None \notin Key /\ None \notin Request

\* The order in which prepare_join and reset go through the secrets, and join.
Made == <<"signing", "encryption", "endpoint">>
Checked == <<"encryption", "endpoint", "signing">>

Idle == [at |-> "idle", step |-> 1]
Place == {"idle", "prepared", "load", "seal", "reload", "commit", "reread",
          "joinLoad", "joinCommit", "resetCommit", "resetDelete"}
Resetting == {"resetCommit", "resetDelete"}

TypeOK ==
    /\ exclusive \in BOOLEAN
    /\ secrets \in [Label -> Key \cup {None}]
    /\ prepared \in Request \cup {None}
    /\ member \in Request \cup {None}
    /\ pc \in [Task -> [at : Place, step : 1..3]]
    /\ keys \in [Task -> [Label -> Key \cup {None}]]
    /\ seen \in [Task -> [prepared : Request \cup {None}, member : Request \cup {None}]]
    /\ counts \in [keys : 0..MaxKeys, requests : 0..MaxRequests]
    /\ returned \subseteq Request

Nothing == [prepared |-> None, member |-> None]
NoKeys == [l \in Label |-> None]

Init ==
    /\ exclusive \in BOOLEAN
    /\ secrets = NoKeys
    /\ prepared = None
    /\ member = None
    /\ pc = [t \in Task |-> Idle]
    /\ keys = [t \in Task |-> NoKeys]
    /\ seen = [t \in Task |-> Nothing]
    /\ counts = [keys |-> 0, requests |-> 0]
    /\ returned = {}

-----------------------------------------------------------------------------
At(t, place) == pc[t].at = place

Goto(t, place) == pc' = [pc EXCEPT ![t] = [at |-> place, step |-> 1]]

\* The call ends and what it held is gone.
End(t) ==
    /\ pc' = [pc EXCEPT ![t] = Idle]
    /\ keys' = [keys EXCEPT ![t] = NoKeys]
    /\ seen' = [seen EXCEPT ![t] = Nothing]

Return(t, request) == End(t) /\ returned' = returned \cup {request}

MayCall(t) == At(t, "idle") /\ (exclusive => \A u \in Task : pc[u].at \notin Resetting)
MayReset(t) == At(t, "idle") /\ (exclusive => \A u \in Task : At(u, "idle"))

-----------------------------------------------------------------------------
\* prepare_join: not if there is a membership ...
ReadHead(t) ==
    /\ MayCall(t)
    /\ member = None
    /\ Goto(t, "prepared")
    /\ UNCHANGED <<exclusive, secrets, prepared, member, keys, seen, counts, returned>>

\* ... an earlier request is resumed ...
ReadPrepared(t) ==
    /\ At(t, "prepared")
    /\ \/ /\ prepared # None
          /\ Return(t, prepared)
       \/ /\ prepared = None
          /\ Goto(t, "load")
          /\ UNCHANGED <<keys, seen, returned>>
    /\ UNCHANGED <<exclusive, secrets, prepared, member, counts>>

\* ... and otherwise the three keys are loaded or made, one after the other.
Making(t) == Made[pc[t].step]

Take(t, key) ==
    /\ keys' = [keys EXCEPT ![t][Making(t)] = key]
    /\ pc' = [pc EXCEPT ![t] = IF pc[t].step = 3 THEN [at |-> "commit", step |-> 1]
                               ELSE [at |-> "load", step |-> pc[t].step + 1]]

\* Mutant: a key that is not found is used as it is.
LoadKeyUnchecked(t) ==
    /\ At(t, "load")
    /\ Take(t, secrets[Making(t)])
    /\ UNCHANGED <<exclusive, secrets, prepared, member, seen, counts, returned>>

LoadKey(t) ==
    /\ At(t, "load")
    /\ \/ /\ secrets[Making(t)] # None
          /\ Take(t, secrets[Making(t)])
       \/ /\ secrets[Making(t)] = None
          /\ pc' = [pc EXCEPT ![t].at = "seal"]
          /\ UNCHANGED keys
    /\ UNCHANGED <<exclusive, secrets, prepared, member, seen, counts, returned>>

\* Mutant: the generated key is used even if another one was sealed first.
SealKeyKeepingOwn(t) ==
    /\ At(t, "seal")
    /\ counts.keys < MaxKeys
    /\ counts' = [counts EXCEPT !.keys = @ + 1]
    /\ secrets' = [secrets EXCEPT ![Making(t)] = IF @ = None THEN counts'.keys ELSE @]
    /\ Take(t, counts'.keys)
    /\ UNCHANGED <<exclusive, prepared, member, seen, returned>>

\* A generated key is sealed; one that exists already is not overwritten.
SealKey(t) ==
    /\ At(t, "seal")
    /\ counts.keys < MaxKeys
    /\ counts' = [counts EXCEPT !.keys = @ + 1]
    /\ \/ /\ secrets[Making(t)] = None
          /\ secrets' = [secrets EXCEPT ![Making(t)] = counts'.keys]
          /\ Take(t, counts'.keys)
       \/ /\ secrets[Making(t)] # None
          /\ pc' = [pc EXCEPT ![t].at = "reload"]
          /\ UNCHANGED <<secrets, keys>>
    /\ UNCHANGED <<exclusive, prepared, member, seen, returned>>

ReloadKey(t) ==
    /\ At(t, "reload")
    /\ \/ /\ secrets[Making(t)] # None
          /\ Take(t, secrets[Making(t)])
          /\ UNCHANGED seen
       \/ /\ secrets[Making(t)] = None
          /\ End(t)
    /\ UNCHANGED <<exclusive, secrets, prepared, member, counts, returned>>

\* The request is put unless there is one; a lost race returns the winner's.
CommitPrepared(t) ==
    /\ At(t, "commit")
    /\ counts.requests < MaxRequests
    /\ counts' = [counts EXCEPT !.requests = @ + 1]
    /\ \/ /\ prepared = None
          /\ prepared' = [keys |-> keys[t], nonce |-> counts'.requests]
          /\ Return(t, prepared')
       \/ /\ prepared # None
          /\ Goto(t, "reread")
          /\ UNCHANGED <<prepared, keys, seen, returned>>
    /\ UNCHANGED <<exclusive, secrets, member>>

\* Mutant: the loser of the race returns a request of its own.
RereadPreparedOwn(t) ==
    /\ At(t, "reread")
    /\ Return(t, [keys |-> keys[t], nonce |-> counts.requests])
    /\ UNCHANGED <<exclusive, secrets, prepared, member, counts>>

RereadPrepared(t) ==
    /\ At(t, "reread")
    /\ \/ /\ prepared # None
          /\ Return(t, prepared)
       \/ /\ prepared = None
          /\ End(t)
          /\ UNCHANGED returned
    /\ UNCHANGED <<exclusive, secrets, prepared, member, counts>>

-----------------------------------------------------------------------------
\* join with a ticket that answers the prepared request ...
BeginJoin(t) ==
    /\ MayCall(t)
    /\ prepared \in returned
    /\ seen' = [seen EXCEPT ![t].prepared = prepared]
    /\ Goto(t, "joinLoad")
    /\ UNCHANGED <<exclusive, secrets, prepared, member, keys, counts, returned>>

\* ... whose three keys must be the ones at hand ...
CheckKey(t) ==
    /\ At(t, "joinLoad")
    /\ LET l == Checked[pc[t].step]
       IN  \/ /\ secrets[l] = seen[t].prepared.keys[l]
              /\ pc' = [pc EXCEPT ![t] =
                           IF @.step = 3 THEN [at |-> "joinCommit", step |-> 1]
                           ELSE [at |-> "joinLoad", step |-> @.step + 1]]
              /\ UNCHANGED <<keys, seen>>
           \/ /\ secrets[l] # seen[t].prepared.keys[l]
              /\ End(t)
    /\ UNCHANGED <<exclusive, secrets, prepared, member, counts, returned>>

\* Mutant: the batch does not require the membership records to be missing,
\* nor the request it consumes to be there.
JoinCommitAnyway(t) ==
    /\ At(t, "joinCommit")
    /\ member' = seen[t].prepared
    /\ prepared' = None
    /\ End(t)
    /\ UNCHANGED <<exclusive, secrets, counts, returned>>

\* ... and one batch puts the membership and deletes the request.
JoinCommit(t) ==
    /\ At(t, "joinCommit")
    /\ IF prepared = seen[t].prepared /\ member = None
       THEN member' = prepared /\ prepared' = None
       ELSE UNCHANGED <<prepared, member>>
    /\ End(t)
    /\ UNCHANGED <<exclusive, secrets, counts, returned>>

-----------------------------------------------------------------------------
\* reset scans the records ...
ResetScan(t) ==
    /\ MayReset(t)
    /\ seen' = [seen EXCEPT ![t] = [prepared |-> prepared, member |-> member]]
    /\ Goto(t, "resetCommit")
    /\ UNCHANGED <<exclusive, secrets, prepared, member, keys, counts, returned>>

Unchanged(found, record) == found # None => found = record

\* ... deletes the ones it found in one batch ...
ResetCommit(t) ==
    /\ At(t, "resetCommit")
    /\ IF Unchanged(seen[t].prepared, prepared) /\ Unchanged(seen[t].member, member)
       THEN /\ prepared' = IF seen[t].prepared # None THEN None ELSE prepared
            /\ member' = IF seen[t].member # None THEN None ELSE member
            /\ Goto(t, "resetDelete")
            /\ returned' = returned \cap {prepared'}
            /\ UNCHANGED <<keys, seen>>
       ELSE /\ End(t)
            /\ UNCHANGED <<prepared, member, returned>>
    /\ UNCHANGED <<exclusive, secrets, counts>>

\* ... and then the secrets, one by one.
ResetDelete(t) ==
    /\ At(t, "resetDelete")
    /\ secrets' = [secrets EXCEPT ![Making(t)] = None]
    /\ \/ /\ pc[t].step < 3
          /\ pc' = [pc EXCEPT ![t].step = @ + 1]
          /\ UNCHANGED <<keys, seen>>
       \/ /\ pc[t].step = 3
          /\ End(t)
    /\ UNCHANGED <<exclusive, prepared, member, counts, returned>>

\* The process dies.
Crash ==
    /\ \E t \in Task : ~At(t, "idle")
    /\ pc' = [t \in Task |-> Idle]
    /\ keys' = [t \in Task |-> NoKeys]
    /\ seen' = [t \in Task |-> Nothing]
    /\ UNCHANGED <<exclusive, secrets, prepared, member, counts, returned>>

Next ==
    \/ \E t \in Task :
          \/ ReadHead(t) \/ ReadPrepared(t) \/ LoadKey(t) \/ SealKey(t) \/ ReloadKey(t)
          \/ CommitPrepared(t) \/ RereadPrepared(t)
          \/ BeginJoin(t) \/ CheckKey(t) \/ JoinCommit(t)
          \/ ResetScan(t) \/ ResetCommit(t) \/ ResetDelete(t)
    \/ Crash

Spec == Init /\ [][Next]_vars

-----------------------------------------------------------------------------
\* A committed record never refers to a secret that is missing or is another
\* one (STORE-9): neither the prepared request nor the membership, whichever
\* calls overlap and wherever the process dies.
NoDanglingReference ==
    \A record \in {prepared, member} \ {None} : secrets = record.keys

\* It does not, whatever else overlaps and dies, if the host runs reset alone.
SecretsOfRecords == exclusive => NoDanglingReference

\* However often and however concurrently prepare_join is called, and whatever
\* crashes in between, every request it returns until the next reset is made
\* of the same keys ("a retry reconstructs the same member identities"), and
\* until one is answered they are all the stored one: the authority sees a
\* retry as the same request and answers it with the same ticket.  (The host
\* runs reset alone.)
OneIdentity ==
    exclusive =>
        /\ \A a, b \in returned : a.keys = b.keys
        /\ member = None => returned \subseteq {prepared}

\* A membership is neither replaced nor taken away by a call other than reset,
\* and the request it answers is consumed with it: no ticket is used twice.
MembershipStable ==
    [][/\ member # None => member' \in {member, None}
       /\ member = None /\ member' # None => member' = prepared /\ prepared' = None
      ]_vars

=============================================================================
