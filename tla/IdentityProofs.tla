--------------------------- MODULE IdentityProofs ---------------------------
(***************************************************************************)
(* The two identities a device keeps, each a record in the state store     *)
(* that refers to secrets in the secret store: the client identity of an   *)
(* application (ClientIdentity) and the identities of a member             *)
(* (Membership).  Their invariants, for any number of calls and keys.      *)
(***************************************************************************)
EXTENDS ClientIdentity, Membership, TLAPS

-----------------------------------------------------------------------------
\* The membership.

\* A call has what it has loaded so far, and one that is done has nothing.
Loading == {"load", "seal", "reload"}

KeysSoFar ==
    \A t \in Task :
        /\ pc[t].at \in Loading => \A i \in 1..3 : i < pc[t].step => keys[t][Made[i]] # None
        /\ pc[t].at = "commit" => \A l \in Label : keys[t][l] # None
        /\ pc[t].at \in {"idle"} \cup Resetting => keys[t] = NoKeys
        /\ pc[t].at \in {"joinLoad", "joinCommit"} => seen[t].prepared # None

\* A reset of a host that runs it alone is alone, ...
Alone ==
    exclusive => \A t, u \in Task : pc[t].at \in Resetting /\ u # t => pc[u].at = "idle"

\* ... so that its scan is still true when it commits, and nothing is left when
\* it deletes the secrets; ...
ScanTrue ==
    exclusive => \A t \in Task :
        /\ pc[t].at = "resetCommit" => seen[t] = [prepared |-> prepared, member |-> member]
        /\ pc[t].at = "resetDelete" => prepared = None /\ member = None /\ returned = {}

\* ... a key that a call holds is the sealed one; ...
Held ==
    exclusive => \A t \in Task, l \in Label : keys[t][l] # None => secrets[l] = keys[t][l]

\* ... and so are the keys of every request that was returned.
ReturnedTrue ==
    exclusive => /\ \A a \in returned : a.keys = secrets
                 /\ member = None => returned \subseteq {prepared}

MInv ==
    /\ TypeOK /\ KeysSoFar /\ Alone /\ ScanTrue /\ Held /\ SecretsOfRecords /\ ReturnedTrue

-----------------------------------------------------------------------------
\* The order goes through every label.
LEMMA MadeLabels ==
    /\ \A i \in 1..3 : Made[i] \in Label
    /\ \A l \in Label : \E i \in 1..3 : Made[i] = l
<1>1. Made[1] = "signing" /\ Made[2] = "encryption" /\ Made[3] = "endpoint"
  BY Zenon DEF Made
<1>2. \A i \in 1..3 : i = 1 \/ i = 2 \/ i = 3
  OBVIOUS
<1> QED
  BY <1>1, <1>2 DEF Label

LEMMA MakingLabel == ASSUME TypeOK, NEW t \in Task PROVE Making(t) \in Label
  BY MadeLabels, Zenon DEF TypeOK, Making

\* What a request's keys are, told apart from none.
LEMMA RequestKeys ==
    ASSUME NEW a \in Request PROVE a # None /\ a.keys \in [Label -> Key] /\ \A l \in Label : a.keys[l] # None
  BY NoneAssumption, Zenon DEF Request

\* A call that ends holds nothing.
LEMMA EndStep ==
    ASSUME TypeOK, KeysSoFar, NEW t \in Task, End(t)
    PROVE  /\ pc' \in [Task -> [at : Place, step : 1..3]]
           /\ keys' \in [Task -> [Label -> Key \cup {None}]]
           /\ seen' \in [Task -> [prepared : Request \cup {None}, member : Request \cup {None}]]
           /\ KeysSoFar'
           /\ pc'[t].at = "idle"
           /\ \A u \in Task : u # t => pc'[u] = pc[u] /\ keys'[u] = keys[u] /\ seen'[u] = seen[u]
           /\ \A l \in Label : keys'[t][l] = None
<1>1. Idle \in [at : Place, step : 1..3] /\ Idle.at = "idle"
  BY DEF Idle, Place
<1>2. NoKeys \in [Label -> Key \cup {None}] /\ \A l \in Label : NoKeys[l] = None
  BY Zenon DEF NoKeys
<1>3. Nothing \in [prepared : Request \cup {None}, member : Request \cup {None}]
  BY Zenon DEF Nothing
<1>4. /\ pc' \in [Task -> [at : Place, step : 1..3]]
      /\ keys' \in [Task -> [Label -> Key \cup {None}]]
      /\ seen' \in [Task -> [prepared : Request \cup {None}, member : Request \cup {None}]]
  BY <1>1, <1>2, <1>3, Zenon DEF End, TypeOK
<1>5. /\ pc'[t] = Idle /\ keys'[t] = NoKeys
      /\ \A u \in Task : u # t => pc'[u] = pc[u] /\ keys'[u] = keys[u] /\ seen'[u] = seen[u]
  BY Zenon DEF End, TypeOK
<1>6. KeysSoFar'
  BY <1>1, <1>5 DEF KeysSoFar, Loading, Resetting
<1> QED
  BY <1>1, <1>2, <1>4, <1>5, <1>6, Zenon

\* A call that has a key goes on to the next one.
LEMMA TakeStep ==
    ASSUME TypeOK, KeysSoFar, NEW t \in Task, pc[t].at \in Loading, NEW k \in Key, Take(t, k),
           seen' = seen
    PROVE  /\ pc' \in [Task -> [at : Place, step : 1..3]]
           /\ keys' \in [Task -> [Label -> Key \cup {None}]]
           /\ KeysSoFar'
           /\ pc'[t].at \in Loading \cup {"commit"}
           /\ \A u \in Task : u # t => pc'[u] = pc[u] /\ keys'[u] = keys[u]
           /\ \A l \in Label : keys'[t][l] = IF l = Making(t) THEN k ELSE keys[t][l]
<1> DEFINE s == pc[t].step
<1>1. s \in 1..3 /\ Making(t) = Made[s] /\ Making(t) \in Label
  BY MakingLabel, Zenon DEF TypeOK, Making
<1>2. keys' \in [Task -> [Label -> Key \cup {None}]]
  BY <1>1, Zenon DEF Take, TypeOK
<1>3. /\ \A l \in Label : keys'[t][l] = IF l = Making(t) THEN k ELSE keys[t][l]
      /\ \A u \in Task : u # t => keys'[u] = keys[u]
  BY <1>1, Zenon DEF Take, TypeOK
<1>4. /\ pc'[t] = IF s = 3 THEN [at |-> "commit", step |-> 1] ELSE [at |-> "load", step |-> s + 1]
      /\ \A u \in Task : u # t => pc'[u] = pc[u]
      /\ pc' = [pc EXCEPT ![t] = pc'[t]]
  BY Zenon DEF Take, TypeOK
<1>5. pc'[t] \in [at : Place, step : 1..3] /\ pc'[t].at \in {"load", "commit"}
  BY <1>1, <1>4 DEF Place
<1>6. pc' \in [Task -> [at : Place, step : 1..3]]
  BY <1>4, <1>5, SMTT(30) DEF TypeOK
<1>7. \A i \in 1..3 : i <= s => keys'[t][Made[i]] # None
  BY <1>1, <1>3, MadeLabels, NoneAssumption DEF KeysSoFar
<1>8. /\ pc'[t].at = "load" => \A i \in 1..3 : i < pc'[t].step => keys'[t][Made[i]] # None
      /\ pc'[t].at = "commit" => \A l \in Label : keys'[t][l] # None
  BY <1>1, <1>4, <1>7, MadeLabels
<1>9. KeysSoFar'
  BY <1>3, <1>4, <1>5, <1>8 DEF KeysSoFar, Loading, Resetting
<1> QED
  BY <1>2, <1>3, <1>4, <1>5, <1>6, <1>9, Zenon DEF Loading

\* A call other than reset moves on, and what is stored and returned stays.
Others(t) ==
    \A u \in Task : u # t => pc'[u] = pc[u] /\ keys'[u] = keys[u] /\ seen'[u] = seen[u]

LEMMA QuietStep ==
    ASSUME MInv, NEW t \in Task, TypeOK', KeysSoFar', Others(t),
           UNCHANGED <<exclusive, secrets, prepared, member, returned>>,
           pc[t].at = "idle" => MayCall(t),
           pc'[t].at \notin Resetting,
           exclusive => \A l \in Label : keys'[t][l] # None => secrets[l] = keys'[t][l]
    PROVE  MInv'
<1>1. exclusive /\ pc'[t].at # "idle" => \A u \in Task : pc[u].at \notin Resetting \/ u = t
  BY Zenon DEF MInv, Alone, MayCall
<1>2. Alone'
  BY <1>1, Zenon DEF MInv, Alone, Others
<1>3. ScanTrue'
  BY Zenon DEF MInv, ScanTrue, Others, Resetting
<1>4. Held'
  BY DEF MInv, Held, Others
<1>5. SecretsOfRecords' /\ ReturnedTrue'
  BY Zenon DEF MInv, SecretsOfRecords, NoDanglingReference, ReturnedTrue
<1> QED
  BY <1>2, <1>3, <1>4, <1>5, Zenon DEF MInv

\* A call that ends, with a request or without one.
LEMMA EndQuietly ==
    ASSUME MInv, NEW t \in Task, End(t), pc[t].at # "idle", counts' \in [keys : 0..MaxKeys, requests : 0..MaxRequests],
           UNCHANGED <<exclusive, secrets, prepared, member, returned>>
    PROVE  MInv'
<1>1. TypeOK' /\ KeysSoFar' /\ Others(t) /\ pc'[t].at = "idle" /\ \A l \in Label : keys'[t][l] = None
  BY EndStep, Zenon DEF MInv, TypeOK, Others
<1> QED
  BY <1>1, QuietStep, Zenon DEF Resetting

LEMMA EndReturning ==
    ASSUME MInv, NEW t \in Task, pc[t].at \notin {"idle"} \cup Resetting,
           prepared # None, Return(t, prepared),
           UNCHANGED <<exclusive, secrets, prepared, member, counts>>
    PROVE  MInv'
<1>1. End(t) /\ returned' = returned \cup {prepared} /\ prepared \in Request
  BY Zenon DEF Return, MInv, TypeOK
<1>2. TypeOK' /\ KeysSoFar' /\ Others(t) /\ pc'[t].at = "idle" /\ \A l \in Label : keys'[t][l] = None
  BY <1>1, EndStep, Zenon DEF MInv, TypeOK, Others
<1>3. Alone'
  BY <1>2, Zenon DEF MInv, Alone, Others, Resetting
<1>4. exclusive => \A u \in Task : pc[u].at \notin Resetting
  BY Zenon DEF MInv, Alone
<1>5. ScanTrue'
  BY <1>2, <1>4, Zenon DEF ScanTrue, Others, Resetting
<1>6. Held'
  BY <1>2 DEF MInv, Held, Others
<1>7. SecretsOfRecords' /\ (exclusive => prepared.keys = secrets)
  BY Zenon DEF MInv, SecretsOfRecords, NoDanglingReference
<1>8. ReturnedTrue'
  BY <1>1, <1>7, Zenon DEF MInv, ReturnedTrue
<1> QED
  BY <1>2, <1>3, <1>5, <1>6, <1>7, <1>8, Zenon DEF MInv

-----------------------------------------------------------------------------
\* A call goes to a place where nothing is asked of what it holds.
LEMMA GotoStep ==
    ASSUME TypeOK, KeysSoFar, NEW t \in Task, NEW p \in Place, Goto(t, p), keys' = keys,
           \A u \in Task : u # t => seen'[u] = seen[u],
           p \notin {"idle", "commit", "joinCommit"},
           p = "joinLoad" => seen'[t].prepared # None,
           p \in Resetting => pc[t].at \in {"idle"} \cup Resetting
    PROVE  /\ pc' \in [Task -> [at : Place, step : 1..3]]
           /\ KeysSoFar'
           /\ Others(t)
           /\ pc'[t].at = p /\ pc'[t].step = 1
<1>1. /\ pc'[t] = [at |-> p, step |-> 1]
      /\ pc' = [pc EXCEPT ![t] = [at |-> p, step |-> 1]]
      /\ \A u \in Task : u # t => pc'[u] = pc[u]
  BY Zenon DEF Goto, TypeOK
<1>2. pc' \in [Task -> [at : Place, step : 1..3]]
  BY <1>1 DEF TypeOK
<1>3. pc'[t].at = p /\ pc'[t].step = 1 /\ \A i \in 1..3 : ~(i < pc'[t].step)
  BY <1>1
<1>4. p \in Resetting => keys[t] = NoKeys
  BY Zenon DEF KeysSoFar
<1>5. ASSUME NEW u \in Task, u # t
      PROVE  pc'[u] = pc[u] /\ keys'[u] = keys[u] /\ seen'[u] = seen[u]
  BY <1>1, <1>5, Zenon
<1>6. KeysSoFar'
  BY <1>3, <1>4, <1>5 DEF KeysSoFar
<1> QED
  BY <1>2, <1>3, <1>5, <1>6, Zenon DEF Others

\* A call goes from one of the loading places to another, at the same key.
LEMMA ReachStep ==
    ASSUME TypeOK, KeysSoFar, NEW t \in Task, pc[t].at \in Loading, NEW p \in Loading,
           pc' = [pc EXCEPT ![t].at = p], keys' = keys, seen' = seen
    PROVE  /\ pc' \in [Task -> [at : Place, step : 1..3]]
           /\ KeysSoFar'
           /\ Others(t)
           /\ pc'[t].at = p
<1>1. /\ pc'[t].at = p /\ pc'[t].step = pc[t].step
      /\ \A u \in Task : u # t => pc'[u] = pc[u]
  BY Zenon DEF TypeOK
<1>2. pc' \in [Task -> [at : Place, step : 1..3]]
  BY ZenonT(30) DEF TypeOK, Place, Loading
<1>3. p \notin {"idle", "commit", "joinLoad", "joinCommit"} \cup Resetting
  BY Zenon DEF Loading, Resetting
<1>4. KeysSoFar'
  BY <1>1, <1>3 DEF KeysSoFar
<1> QED
  BY <1>1, <1>2, <1>4, Zenon DEF Others

-----------------------------------------------------------------------------
LEMMA ReadHeadStep == ASSUME MInv, NEW t \in Task, ReadHead(t) PROVE MInv'
<1>1. /\ MayCall(t) /\ Goto(t, "prepared")
      /\ UNCHANGED <<exclusive, secrets, prepared, member, keys, seen, counts, returned>>
  BY Zenon DEF ReadHead
<1>2. /\ pc' \in [Task -> [at : Place, step : 1..3]] /\ KeysSoFar' /\ Others(t)
      /\ pc'[t].at = "prepared"
  BY <1>1, GotoStep, Zenon DEF MInv, Place, Resetting
<1>3. TypeOK'
  BY <1>1, <1>2, Zenon DEF MInv, TypeOK
<1>4. exclusive => \A l \in Label : keys'[t][l] # None => secrets[l] = keys'[t][l]
  BY <1>1, Zenon DEF MInv, Held
<1> QED
  BY <1>1, <1>2, <1>3, <1>4, QuietStep, Zenon DEF Resetting

LEMMA ReadPreparedStep == ASSUME MInv, NEW t \in Task, ReadPrepared(t) PROVE MInv'
<1>1. pc[t].at = "prepared" /\ UNCHANGED <<exclusive, secrets, prepared, member, counts>>
  BY Zenon DEF ReadPrepared, At
<1>2. CASE prepared # None /\ Return(t, prepared)
  BY <1>1, <1>2, EndReturning, Zenon DEF Resetting
<1>3. CASE Goto(t, "load") /\ UNCHANGED <<keys, seen, returned>>
  <2>1. /\ pc' \in [Task -> [at : Place, step : 1..3]] /\ KeysSoFar' /\ Others(t)
        /\ pc'[t].at = "load"
    BY <1>1, <1>3, GotoStep, Zenon DEF MInv, Place, Resetting
  <2>2. TypeOK'
    BY <1>1, <1>3, <2>1, Zenon DEF MInv, TypeOK
  <2>3. exclusive => \A l \in Label : keys'[t][l] # None => secrets[l] = keys'[t][l]
    BY <1>3, Zenon DEF MInv, Held
  <2> QED
    BY <1>1, <1>3, <2>1, <2>2, <2>3, QuietStep, Zenon DEF Resetting
<1> QED
  BY <1>2, <1>3, Zenon DEF ReadPrepared

\* A call takes the key that is sealed.
LEMMA TakeSealed ==
    ASSUME MInv, NEW t \in Task, pc[t].at \in Loading, secrets[Making(t)] # None,
           Take(t, secrets[Making(t)]),
           UNCHANGED <<exclusive, secrets, prepared, member, seen, counts, returned>>
    PROVE  MInv'
<1> DEFINE k == secrets[Making(t)]
<1>1. Making(t) \in Label /\ k \in Key /\ TypeOK /\ KeysSoFar
  BY MakingLabel, Zenon DEF MInv, TypeOK
<1>2. /\ pc' \in [Task -> [at : Place, step : 1..3]]
      /\ keys' \in [Task -> [Label -> Key \cup {None}]]
      /\ KeysSoFar'
      /\ pc'[t].at \in Loading \cup {"commit"}
      /\ \A u \in Task : u # t => pc'[u] = pc[u] /\ keys'[u] = keys[u]
      /\ \A l \in Label : keys'[t][l] = IF l = Making(t) THEN k ELSE keys[t][l]
  BY <1>1, TakeStep, Zenon
<1>3. TypeOK' /\ Others(t)
  BY <1>2, Zenon DEF MInv, TypeOK, Others
<1>4. exclusive => \A l \in Label : keys'[t][l] # None => secrets[l] = keys'[t][l]
  BY <1>1, <1>2, Zenon DEF MInv, Held
<1>5. pc[t].at # "idle" /\ pc'[t].at \notin Resetting
  BY <1>2, Zenon DEF Loading, Resetting
<1> QED
  BY <1>2, <1>3, <1>4, <1>5, QuietStep, Zenon

\* A call goes on to seal, or to reload, the key it is at.
LEMMA ReachQuietly ==
    ASSUME MInv, NEW t \in Task, pc[t].at \in Loading, NEW p \in Loading,
           pc' = [pc EXCEPT ![t].at = p],
           counts' \in [keys : 0..MaxKeys, requests : 0..MaxRequests],
           UNCHANGED <<exclusive, secrets, prepared, member, keys, seen, returned>>
    PROVE  MInv'
<1>1. /\ pc' \in [Task -> [at : Place, step : 1..3]] /\ KeysSoFar' /\ Others(t)
      /\ pc'[t].at = p
  BY ReachStep, Zenon DEF MInv
<1>2. TypeOK'
  BY <1>1, Zenon DEF MInv, TypeOK
<1>3. exclusive => \A l \in Label : keys'[t][l] # None => secrets[l] = keys'[t][l]
  BY Zenon DEF MInv, Held
<1>4. pc[t].at # "idle" /\ pc'[t].at \notin Resetting
  BY <1>1, Zenon DEF Loading, Resetting
<1> QED
  BY <1>1, <1>2, <1>3, <1>4, QuietStep, Zenon

LEMMA LoadKeyStep == ASSUME MInv, NEW t \in Task, LoadKey(t) PROVE MInv'
<1>1. /\ pc[t].at \in Loading /\ "seal" \in Loading
      /\ UNCHANGED <<exclusive, secrets, prepared, member, seen, counts, returned>>
      /\ counts' \in [keys : 0..MaxKeys, requests : 0..MaxRequests]
  BY Zenon DEF LoadKey, At, Loading, MInv, TypeOK
<1>2. CASE secrets[Making(t)] # None /\ Take(t, secrets[Making(t)])
  BY <1>1, <1>2, TakeSealed, Zenon
<1>3. CASE pc' = [pc EXCEPT ![t].at = "seal"] /\ UNCHANGED keys
  BY <1>1, <1>3, ReachQuietly, Zenon
<1> QED
  BY <1>2, <1>3, Zenon DEF LoadKey

LEMMA ReloadKeyStep == ASSUME MInv, NEW t \in Task, ReloadKey(t) PROVE MInv'
<1>1. /\ pc[t].at \in Loading /\ pc[t].at # "idle"
      /\ UNCHANGED <<exclusive, secrets, prepared, member, counts, returned>>
      /\ counts' \in [keys : 0..MaxKeys, requests : 0..MaxRequests]
  BY Zenon DEF ReloadKey, At, Loading, MInv, TypeOK
<1>2. CASE secrets[Making(t)] # None /\ Take(t, secrets[Making(t)]) /\ UNCHANGED seen
  BY <1>1, <1>2, TakeSealed, Zenon
<1>3. CASE End(t)
  BY <1>1, <1>3, EndQuietly, Zenon
<1> QED
  BY <1>2, <1>3, Zenon DEF ReloadKey

\* The first call to seal a key: no record, no request and no call has one yet.
LEMMA SealKeyStep == ASSUME MInv, NEW t \in Task, SealKey(t) PROVE MInv'
<1> DEFINE k == counts.keys + 1
           l == Making(t)
<1>1. /\ pc[t].at \in Loading /\ "reload" \in Loading /\ pc[t].at # "idle" /\ pc[t].at \notin Resetting
      /\ UNCHANGED <<exclusive, prepared, member, seen, returned>>
  BY Zenon DEF SealKey, At, Loading, Resetting
<1>2. /\ k \in Key /\ counts'.keys = k
      /\ counts' \in [keys : 0..MaxKeys, requests : 0..MaxRequests]
  <2>1. counts \in [keys : 0..MaxKeys, requests : 0..MaxRequests] /\ MaxKeys \in Nat
        /\ counts.keys < MaxKeys /\ counts' = [counts EXCEPT !.keys = @ + 1]
    BY MembershipAssumption, Zenon DEF SealKey, MInv, TypeOK
  <2> QED
    BY <2>1 DEF Key
<1>3. l \in Label /\ TypeOK /\ KeysSoFar
  BY MakingLabel, Zenon DEF MInv
<1>4. CASE secrets[l] = None /\ secrets' = [secrets EXCEPT ![l] = k] /\ Take(t, k)
  <2>1. /\ pc' \in [Task -> [at : Place, step : 1..3]]
        /\ keys' \in [Task -> [Label -> Key \cup {None}]]
        /\ KeysSoFar'
        /\ pc'[t].at \in Loading \cup {"commit"}
        /\ \A u \in Task : u # t => pc'[u] = pc[u] /\ keys'[u] = keys[u]
        /\ \A m \in Label : keys'[t][m] = IF m = l THEN k ELSE keys[t][m]
    BY <1>1, <1>2, <1>3, <1>4, TakeStep, Zenon
  <2>2. /\ secrets' \in [Label -> Key \cup {None}] /\ secrets'[l] = k
        /\ \A m \in Label : m # l => secrets'[m] = secrets[m]
    BY <1>2, <1>3, <1>4, Zenon DEF TypeOK
  <2>3. TypeOK' /\ Others(t)
    BY <1>1, <1>2, <1>3, <2>1, <2>2, Zenon DEF TypeOK, Others
  <2>4. exclusive => prepared = None /\ member = None /\ returned = {}
    BY <1>3, <1>4, RequestKeys, Zenon DEF MInv, TypeOK, SecretsOfRecords, NoDanglingReference, ReturnedTrue
  <2>5. pc'[t].at \notin Resetting /\ pc'[t].at # "idle"
    BY <2>1, Zenon DEF Loading, Resetting
  <2>6. Alone'
    BY <1>1, <2>1, <2>5, Zenon DEF MInv, Alone
  <2>7. ScanTrue'
    BY <1>1, <2>1, <2>5, Zenon DEF MInv, ScanTrue, Resetting
  <2>8. Held'
    BY <1>1, <1>3, <1>4, <2>1, <2>2, SMTT(30) DEF MInv, Held
  <2>9. SecretsOfRecords' /\ ReturnedTrue'
    BY <1>1, <2>4, Zenon DEF SecretsOfRecords, NoDanglingReference, ReturnedTrue
  <2> QED
    BY <2>1, <2>3, <2>6, <2>7, <2>8, <2>9, Zenon DEF MInv
<1>5. CASE pc' = [pc EXCEPT ![t].at = "reload"] /\ UNCHANGED <<secrets, keys>>
  BY <1>1, <1>2, <1>5, ReachQuietly, Zenon
<1> QED
  BY <1>2, <1>4, <1>5, Zenon DEF SealKey

\* The request is made of the keys the call holds, which are the sealed ones.
LEMMA CommitPreparedStep == ASSUME MInv, NEW t \in Task, CommitPrepared(t) PROVE MInv'
<1> DEFINE r == [keys |-> keys[t], nonce |-> counts.requests + 1]
<1>1. /\ pc[t].at = "commit" /\ pc[t].at # "idle" /\ pc[t].at \notin Resetting
      /\ UNCHANGED <<exclusive, secrets, member>>
  BY Zenon DEF CommitPrepared, At, Resetting
<1>2. /\ counts.requests + 1 \in 1..MaxRequests /\ counts'.requests = counts.requests + 1
      /\ counts' \in [keys : 0..MaxKeys, requests : 0..MaxRequests]
  <2>1. counts \in [keys : 0..MaxKeys, requests : 0..MaxRequests] /\ MaxRequests \in Nat
        /\ counts.requests < MaxRequests /\ counts' = [counts EXCEPT !.requests = @ + 1]
    BY MembershipAssumption, Zenon DEF CommitPrepared, MInv, TypeOK
  <2> QED
    BY <2>1
<1>3. CASE prepared = None /\ prepared' = r /\ Return(t, r)
  <2>1. /\ keys[t] \in [Label -> Key] /\ r \in Request
    <3>1. keys[t] \in [Label -> Key \cup {None}] /\ \A l \in Label : keys[t][l] # None
      BY <1>1, Zenon DEF MInv, TypeOK, KeysSoFar
    <3>2. keys[t] \in [Label -> Key]
      BY <3>1, Zenon
    <3> QED
      BY <1>2, <3>2, Zenon DEF Request
  <2>2. exclusive => keys[t] = secrets
    BY <2>1, RequestKeys DEF MInv, TypeOK, Held, KeysSoFar
  <2>3. End(t) /\ returned' = returned \cup {r} /\ r # None
    BY <1>3, <2>1, RequestKeys, SMTT(30) DEF Return
  <2>4. TypeOK' /\ KeysSoFar' /\ Others(t) /\ pc'[t].at = "idle" /\ \A l \in Label : keys'[t][l] = None
    BY <1>1, <1>2, <1>3, <2>1, <2>3, EndStep, Zenon DEF MInv, TypeOK, Others
  <2>5. exclusive => \A u \in Task : pc[u].at \notin Resetting
    BY <1>1, Zenon DEF MInv, Alone
  <2>6. Alone' /\ ScanTrue'
    BY <1>1, <2>4, <2>5, Zenon DEF Alone, ScanTrue, Others, Resetting
  <2>7. Held'
    BY <1>1, <2>4, Zenon DEF MInv, Held, Others
  <2>8. SecretsOfRecords'
    BY <1>1, <1>3, <2>2 DEF MInv, SecretsOfRecords, NoDanglingReference
  <2>9. ReturnedTrue'
    <3>1. exclusive => \A a \in returned : a.keys = secrets
      BY Zenon DEF MInv, ReturnedTrue
    <3>2. exclusive /\ member = None => returned = {}
      BY <1>3, RequestKeys, Zenon DEF MInv, ReturnedTrue, TypeOK
    <3>3. r.keys = keys[t]
      BY Zenon
    <3> QED
      BY <1>1, <1>3, <2>2, <2>3, <3>1, <3>2, <3>3, Zenon DEF ReturnedTrue
  <2> QED
    BY <2>4, <2>6, <2>7, <2>8, <2>9, Zenon DEF MInv
<1>4. CASE Goto(t, "reread") /\ UNCHANGED <<prepared, keys, seen, returned>>
  <2>1. /\ pc' \in [Task -> [at : Place, step : 1..3]] /\ KeysSoFar' /\ Others(t)
        /\ pc'[t].at = "reread"
    BY <1>1, <1>4, GotoStep, Zenon DEF MInv, Place, Resetting
  <2>2. TypeOK'
    BY <1>1, <1>2, <1>4, <2>1, Zenon DEF MInv, TypeOK
  <2>3. exclusive => \A l \in Label : keys'[t][l] # None => secrets[l] = keys'[t][l]
    BY <1>4, Zenon DEF MInv, Held
  <2> QED
    BY <1>1, <1>4, <2>1, <2>2, <2>3, QuietStep, Zenon DEF Resetting
<1> QED
  BY <1>2, <1>3, <1>4, Zenon DEF CommitPrepared

LEMMA RereadPreparedStep == ASSUME MInv, NEW t \in Task, RereadPrepared(t) PROVE MInv'
<1>1. /\ pc[t].at = "reread" /\ UNCHANGED <<exclusive, secrets, prepared, member, counts>>
      /\ counts' \in [keys : 0..MaxKeys, requests : 0..MaxRequests]
  BY Zenon DEF RereadPrepared, At, MInv, TypeOK
<1>2. CASE prepared # None /\ Return(t, prepared)
  BY <1>1, <1>2, EndReturning, Zenon DEF Resetting
<1>3. CASE End(t) /\ UNCHANGED returned
  BY <1>1, <1>3, EndQuietly, Zenon
<1> QED
  BY <1>2, <1>3, Zenon DEF RereadPrepared

-----------------------------------------------------------------------------
LEMMA BeginJoinStep == ASSUME MInv, NEW t \in Task, BeginJoin(t) PROVE MInv'
<1>1. /\ MayCall(t) /\ Goto(t, "joinLoad") /\ prepared \in Request /\ prepared # None
      /\ UNCHANGED <<exclusive, secrets, prepared, member, keys, counts, returned>>
      /\ seen' = [seen EXCEPT ![t].prepared = prepared]
  BY RequestKeys, Zenon DEF BeginJoin, MInv, TypeOK
<1>2. /\ seen' \in [Task -> [prepared : Request \cup {None}, member : Request \cup {None}]]
      /\ seen'[t].prepared = prepared
      /\ \A u \in Task : u # t => seen'[u] = seen[u]
  BY <1>1, SMTT(30) DEF MInv, TypeOK
<1>3. /\ pc' \in [Task -> [at : Place, step : 1..3]] /\ KeysSoFar' /\ Others(t)
      /\ pc'[t].at = "joinLoad"
  BY <1>1, <1>2, GotoStep, Zenon DEF MInv, Place, Resetting
<1>4. TypeOK'
  BY <1>1, <1>2, <1>3, Zenon DEF MInv, TypeOK
<1>5. exclusive => \A l \in Label : keys'[t][l] # None => secrets[l] = keys'[t][l]
  BY <1>1, Zenon DEF MInv, Held
<1> QED
  BY <1>1, <1>3, <1>4, <1>5, QuietStep, Zenon DEF Resetting

LEMMA CheckKeyStep == ASSUME MInv, NEW t \in Task, CheckKey(t) PROVE MInv'
<1>1. /\ pc[t].at = "joinLoad"
      /\ UNCHANGED <<exclusive, secrets, prepared, member, counts, returned>>
      /\ counts' \in [keys : 0..MaxKeys, requests : 0..MaxRequests]
  BY Zenon DEF CheckKey, At, MInv, TypeOK
<1>2. CASE /\ pc' = [pc EXCEPT ![t] = IF @.step = 3 THEN [at |-> "joinCommit", step |-> 1]
                                      ELSE [at |-> "joinLoad", step |-> @.step + 1]]
           /\ UNCHANGED <<keys, seen>>
  <2>1. pc[t] \in [at : Place, step : 1..3]
    BY Zenon DEF MInv, TypeOK
  <2>2. /\ pc'[t] \in [at : Place, step : 1..3]
        /\ pc'[t].at \in {"joinLoad", "joinCommit"}
    <3>1. pc'[t] = IF pc[t].step = 3 THEN [at |-> "joinCommit", step |-> 1]
                   ELSE [at |-> "joinLoad", step |-> pc[t].step + 1]
      BY <1>2, Zenon DEF MInv, TypeOK
    <3>2. CASE pc[t].step = 3
      BY <3>1, <3>2 DEF Place
    <3>3. CASE pc[t].step # 3
      <4>1. pc[t].step + 1 \in 1..3
        BY <2>1, <3>3
      <4> QED
        BY <3>1, <3>3, <4>1 DEF Place
    <3> QED
      BY <3>2, <3>3, SMTT(30)
  <2>3. /\ pc' = [pc EXCEPT ![t] = pc'[t]]
        /\ \A u \in Task : u # t => pc'[u] = pc[u]
    BY <1>2, Zenon DEF MInv, TypeOK
  <2>4. TypeOK' /\ Others(t)
    BY <1>1, <1>2, <2>2, <2>3, Zenon DEF MInv, TypeOK, Others
  <2>5. KeysSoFar'
    BY <1>1, <1>2, <2>2, <2>3 DEF MInv, KeysSoFar, Loading, Resetting
  <2>6. exclusive => \A l \in Label : keys'[t][l] # None => secrets[l] = keys'[t][l]
    BY <1>2, Zenon DEF MInv, Held
  <2> QED
    BY <1>1, <1>2, <2>2, <2>4, <2>5, <2>6, QuietStep, Zenon DEF Resetting
<1>3. CASE End(t)
  BY <1>1, <1>3, EndQuietly, Zenon
<1> QED
  BY <1>2, <1>3, Zenon DEF CheckKey

LEMMA JoinCommitStep == ASSUME MInv, NEW t \in Task, JoinCommit(t) PROVE MInv'
<1>1. /\ pc[t].at = "joinCommit" /\ pc[t].at \notin {"idle"} \cup Resetting
      /\ End(t) /\ UNCHANGED <<exclusive, secrets, counts, returned>>
      /\ counts' \in [keys : 0..MaxKeys, requests : 0..MaxRequests]
  BY Zenon DEF JoinCommit, At, Resetting, MInv, TypeOK
<1>2. CASE prepared = seen[t].prepared /\ member' = prepared /\ prepared' = None
  <2>1. prepared # None /\ prepared \in Request
    BY <1>1, <1>2, Zenon DEF MInv, KeysSoFar, TypeOK
  <2>2. TypeOK' /\ KeysSoFar' /\ Others(t) /\ pc'[t].at = "idle" /\ \A l \in Label : keys'[t][l] = None
    BY <1>1, <1>2, EndStep, Zenon DEF MInv, TypeOK, Others
  <2>3. exclusive => \A u \in Task : pc[u].at \notin Resetting
    BY <1>1, SMTT(30) DEF MInv, Alone
  <2>4. Alone' /\ ScanTrue'
    BY <1>1, <2>2, <2>3, Zenon DEF Alone, ScanTrue, Others, Resetting
  <2>5. Held'
    BY <1>1, <2>2 DEF MInv, Held, Others
  <2>6. SecretsOfRecords'
    BY <1>1, <1>2, <2>1, Zenon DEF MInv, SecretsOfRecords, NoDanglingReference
  <2>7. ReturnedTrue'
    BY <1>1, <1>2, <2>1, Zenon DEF MInv, ReturnedTrue
  <2> QED
    BY <2>2, <2>4, <2>5, <2>6, <2>7, Zenon DEF MInv
<1>3. CASE UNCHANGED <<prepared, member>>
  BY <1>1, <1>3, EndQuietly, Zenon
<1> QED
  BY <1>2, <1>3, Zenon DEF JoinCommit

-----------------------------------------------------------------------------
\* A reset starts when no call is in progress, ...
LEMMA ResetScanStep == ASSUME MInv, NEW t \in Task, ResetScan(t) PROVE MInv'
<1>1. /\ pc[t].at = "idle" /\ Goto(t, "resetCommit")
      /\ exclusive => \A u \in Task : pc[u].at = "idle"
      /\ seen' = [seen EXCEPT ![t] = [prepared |-> prepared, member |-> member]]
      /\ UNCHANGED <<exclusive, secrets, prepared, member, keys, counts, returned>>
  BY Zenon DEF ResetScan, MayReset, At
<1>2. /\ seen' \in [Task -> [prepared : Request \cup {None}, member : Request \cup {None}]]
      /\ seen'[t] = [prepared |-> prepared, member |-> member]
      /\ \A u \in Task : u # t => seen'[u] = seen[u]
  BY <1>1, SMTT(30) DEF MInv, TypeOK
<1>3. /\ pc' \in [Task -> [at : Place, step : 1..3]] /\ KeysSoFar' /\ Others(t)
      /\ pc'[t].at = "resetCommit"
  BY <1>1, <1>2, GotoStep, Zenon DEF MInv, Place, Resetting
<1>4. TypeOK'
  BY <1>1, <1>2, <1>3, SMTT(30) DEF MInv, TypeOK
<1>5. Alone' /\ ScanTrue'
  BY <1>1, <1>2, <1>3 DEF Alone, ScanTrue, Others, Resetting
<1>6. Held' /\ SecretsOfRecords' /\ ReturnedTrue'
  BY <1>1, SMTT(30) DEF MInv, Held, SecretsOfRecords, NoDanglingReference, ReturnedTrue
<1> QED
  BY <1>3, <1>4, <1>5, <1>6, Zenon DEF MInv

\* ... so that its batch deletes every record there is, ...
LEMMA ResetCommitStep == ASSUME MInv, NEW t \in Task, ResetCommit(t) PROVE MInv'
<1>1. /\ pc[t].at = "resetCommit" /\ pc[t].at # "idle"
      /\ UNCHANGED <<exclusive, secrets, counts>>
      /\ counts' \in [keys : 0..MaxKeys, requests : 0..MaxRequests]
  BY Zenon DEF ResetCommit, At, MInv, TypeOK
<1>2. CASE /\ prepared' = IF seen[t].prepared # None THEN None ELSE prepared
           /\ member' = IF seen[t].member # None THEN None ELSE member
           /\ Goto(t, "resetDelete")
           /\ returned' = returned \cap {prepared'}
           /\ UNCHANGED <<keys, seen>>
  <2>1. exclusive => prepared' = None /\ member' = None
    BY <1>1, <1>2 DEF MInv, ScanTrue
  <2>2. exclusive => returned' = {}
    BY <1>2, <2>1, RequestKeys, Zenon DEF MInv, TypeOK
  <2>3. /\ pc' \in [Task -> [at : Place, step : 1..3]] /\ KeysSoFar' /\ Others(t)
        /\ pc'[t].at = "resetDelete"
    BY <1>1, <1>2, GotoStep, Zenon DEF MInv, Place, Resetting
  <2>4. TypeOK'
    BY <1>1, <1>2, <2>3, Zenon DEF MInv, TypeOK
  <2>5. exclusive => \A u \in Task : u # t => pc[u].at = "idle"
    BY <1>1, Zenon DEF MInv, Alone, Resetting
  <2>6. Alone' /\ ScanTrue'
    BY <1>1, <2>1, <2>2, <2>3, <2>5, SMTT(30) DEF Alone, ScanTrue, Others, Resetting
  <2>7. Held' /\ SecretsOfRecords' /\ ReturnedTrue'
    BY <1>1, <1>2, <2>1, <2>2, Zenon DEF MInv, Held, SecretsOfRecords, NoDanglingReference, ReturnedTrue
  <2> QED
    BY <2>3, <2>4, <2>6, <2>7, Zenon DEF MInv
<1>3. CASE End(t) /\ UNCHANGED <<prepared, member, returned>>
  BY <1>1, <1>3, EndQuietly, Zenon
<1> QED
  BY <1>2, <1>3, Zenon DEF ResetCommit

\* ... and the secrets it then deletes belong to no record and to no call.
LEMMA ResetDeleteStep == ASSUME MInv, NEW t \in Task, ResetDelete(t) PROVE MInv'
<1>1. /\ pc[t].at = "resetDelete" /\ Making(t) \in Label
      /\ secrets' = [secrets EXCEPT ![Making(t)] = None]
      /\ UNCHANGED <<exclusive, prepared, member, counts, returned>>
  BY MakingLabel, Zenon DEF ResetDelete, At, MInv
<1>2. secrets' \in [Label -> Key \cup {None}]
  BY <1>1, Zenon DEF MInv, TypeOK
<1>3. exclusive => prepared = None /\ member = None /\ returned = {}
  BY <1>1, SMTT(30) DEF MInv, ScanTrue
<1>4. exclusive => \A u \in Task : u # t => pc[u].at = "idle"
  BY <1>1, Zenon DEF MInv, Alone, Resetting
<1>5. exclusive => \A u \in Task, l \in Label : keys[u][l] = None
  BY <1>1, <1>4, Zenon DEF MInv, KeysSoFar, Resetting, NoKeys
<1>6. SecretsOfRecords' /\ ReturnedTrue'
  BY <1>1, <1>3, Zenon DEF SecretsOfRecords, NoDanglingReference, ReturnedTrue
<1>7. CASE pc[t].step < 3 /\ pc' = [pc EXCEPT ![t].step = @ + 1] /\ UNCHANGED <<keys, seen>>
  <2>1. pc[t] \in [at : Place, step : 1..3] /\ pc \in [Task -> [at : Place, step : 1..3]]
    BY Zenon DEF MInv, TypeOK
  <2>2. pc[t].step + 1 \in 1..3
    BY <1>7, <2>1
  <2>3. pc' \in [Task -> [at : Place, step : 1..3]] /\ pc'[t].at = "resetDelete"
        /\ \A u \in Task : u # t => pc'[u] = pc[u]
    BY <1>1, <1>7, <2>1, <2>2, Zenon
  <2>4. TypeOK'
    BY <1>1, <1>2, <1>7, <2>3, Zenon DEF MInv, TypeOK
  <2>5. KeysSoFar'
    BY <1>1, <1>7, <2>3, Zenon DEF MInv, KeysSoFar, Loading, Resetting
  <2>6. Alone' /\ ScanTrue'
    BY <1>1, <1>3, <1>4, <1>7, <2>3, Zenon DEF Alone, ScanTrue, Resetting
  <2>7. Held'
    BY <1>1, <1>5, <1>7, Zenon DEF Held
  <2> QED
    BY <1>6, <2>4, <2>5, <2>6, <2>7, Zenon DEF MInv
<1>8. CASE End(t)
  <2>1. /\ TypeOK' /\ KeysSoFar' /\ Others(t) /\ pc'[t].at = "idle"
        /\ \A l \in Label : keys'[t][l] = None
    BY <1>1, <1>2, <1>8, EndStep, SMTT(30) DEF MInv, TypeOK, Others
  <2>2. Alone' /\ ScanTrue'
    BY <1>1, <1>4, <2>1, Zenon DEF Alone, ScanTrue, Others, Resetting
  <2>3. Held'
    BY <1>1, <1>5, <2>1 DEF Held, Others
  <2> QED
    BY <1>6, <2>1, <2>2, <2>3, Zenon DEF MInv
<1> QED
  BY <1>7, <1>8, Zenon DEF ResetDelete

\* The process dies: what its calls held is gone, what is stored stays.
LEMMA CrashStep == ASSUME MInv, Crash PROVE MInv'
<1>1. /\ UNCHANGED <<exclusive, secrets, prepared, member, counts, returned>>
      /\ pc' = [t \in Task |-> Idle] /\ keys' = [t \in Task |-> NoKeys]
      /\ seen' = [t \in Task |-> Nothing]
  BY Zenon DEF Crash
<1>2. Idle \in [at : Place, step : 1..3] /\ Idle.at = "idle"
  BY DEF Idle, Place
<1>3. NoKeys \in [Label -> Key \cup {None}] /\ \A l \in Label : NoKeys[l] = None
  BY Zenon DEF NoKeys
<1>4. Nothing \in [prepared : Request \cup {None}, member : Request \cup {None}]
  BY Zenon DEF Nothing
<1>5. TypeOK'
  BY <1>1, <1>2, <1>3, <1>4, Zenon DEF MInv, TypeOK
<1>6. \A t \in Task : pc'[t].at = "idle" /\ keys'[t] = NoKeys
  BY <1>1, <1>2, Zenon
<1>7. KeysSoFar' /\ Alone' /\ ScanTrue'
  BY <1>6, Zenon DEF KeysSoFar, Alone, ScanTrue, Loading, Resetting
<1>8. Held'
  BY <1>3, <1>6, Zenon DEF Held
<1>9. SecretsOfRecords' /\ ReturnedTrue'
  BY <1>1, Zenon DEF MInv, SecretsOfRecords, NoDanglingReference, ReturnedTrue
<1> QED
  BY <1>5, <1>7, <1>8, <1>9, Zenon DEF MInv

LEMMA MInvInit == ASSUME Init PROVE MInv
<1>1. Idle \in [at : Place, step : 1..3] /\ Idle.at = "idle"
  BY DEF Idle, Place
<1>2. NoKeys \in [Label -> Key \cup {None}] /\ \A l \in Label : NoKeys[l] = None
  BY Zenon DEF NoKeys
<1>3. Nothing \in [prepared : Request \cup {None}, member : Request \cup {None}]
  BY Zenon DEF Nothing
<1>4. counts \in [keys : 0..MaxKeys, requests : 0..MaxRequests]
  BY MembershipAssumption DEF Init
<1>5. TypeOK
  BY <1>1, <1>2, <1>3, <1>4, Zenon DEF Init, TypeOK
<1>6. \A t \in Task : pc[t].at = "idle" /\ keys[t] = NoKeys
  BY <1>1, SMTT(30) DEF Init
<1>7. KeysSoFar /\ Alone /\ ScanTrue
  BY <1>6, SMTT(30) DEF KeysSoFar, Alone, ScanTrue, Loading, Resetting
<1>8. Held
  BY <1>2, <1>6, Zenon DEF Held
<1>9. SecretsOfRecords /\ ReturnedTrue
  BY Zenon DEF Init, SecretsOfRecords, NoDanglingReference, ReturnedTrue
<1> QED
  BY <1>5, <1>7, <1>8, <1>9, Zenon DEF MInv

LEMMA MInvNext == ASSUME MInv, [Next]_vars PROVE MInv'
<1>1. CASE Next
  <2>1. CASE Crash
    BY <2>1, CrashStep, Zenon
  <2>2. ASSUME NEW t \in Task,
               \/ ReadHead(t) \/ ReadPrepared(t) \/ LoadKey(t) \/ SealKey(t) \/ ReloadKey(t)
               \/ CommitPrepared(t) \/ RereadPrepared(t)
               \/ BeginJoin(t) \/ CheckKey(t) \/ JoinCommit(t)
               \/ ResetScan(t) \/ ResetCommit(t) \/ ResetDelete(t)
        PROVE  MInv'
    BY <2>2, ReadHeadStep, ReadPreparedStep, LoadKeyStep, SealKeyStep, ReloadKeyStep,
       CommitPreparedStep, RereadPreparedStep, BeginJoinStep, CheckKeyStep, JoinCommitStep,
       ResetScanStep, ResetCommitStep, ResetDeleteStep, SMTT(30)
  <2> QED
    BY <1>1, <2>1, <2>2, Zenon DEF Next
<1>2. CASE UNCHANGED vars
  BY <1>2, Zenon DEF vars, MInv, TypeOK, KeysSoFar, Alone, ScanTrue, Held, SecretsOfRecords,
     NoDanglingReference, ReturnedTrue
<1> QED
  BY <1>1, <1>2, Zenon

-----------------------------------------------------------------------------
\* The inductive invariant holds: every call in progress holds what its place
\* in the code says, and on a host that runs reset alone the keys that calls
\* hold, records refer to and requests carry are the sealed ones.
THEOREM MembershipSafe == Spec => []MInv
  BY MInvInit, MInvNext, PTL DEF Spec

\* prepare_join, join and reset keep every record, secret, place and count
\* within its type, for any number of calls in progress and any bounds.
THEOREM MembershipTyped == Spec => []TypeOK
<1>1. MInv => TypeOK
  BY Zenon DEF MInv
<1> QED
  BY <1>1, MembershipSafe, PTL

\* STORE-9: on a host that runs reset alone no committed record ever refers to
\* a secret that is missing or is another one, whichever other calls overlap
\* and wherever the process dies between the two stores.
THEOREM RecordsHaveSecrets == Spec => []SecretsOfRecords
<1>1. MInv => SecretsOfRecords
  BY Zenon DEF MInv
<1> QED
  BY <1>1, MembershipSafe, PTL

\* A retried prepare_join reconstructs the same member identities: between two
\* resets every request returned carries the same keys, and until it is
\* answered it is the stored one.
THEOREM OneIdentityKept == Spec => []OneIdentity
<1>1. MInv => OneIdentity
  BY Zenon DEF MInv, ReturnedTrue, OneIdentity
<1> QED
  BY <1>1, MembershipSafe, PTL

\* Only the batch of reset takes a membership away and none replaces it, and a
\* join consumes the request it answers; for calls that overlap in any way.
THEOREM MembershipKept == Spec => MembershipStable
<1>1. ASSUME Next
      PROVE  /\ member # None => member' \in {member, None}
             /\ member = None /\ member' # None => member' = prepared /\ prepared' = None
  <2>1. CASE \E t \in Task : JoinCommit(t)
    BY <2>1, Zenon DEF JoinCommit
  <2>2. CASE \E t \in Task : ResetCommit(t)
    BY <2>2, Zenon DEF ResetCommit
  <2>3. CASE member' = member
    BY <2>3, Zenon
  <2> QED
    BY <1>1, <2>1, <2>2, <2>3, Zenon DEF Next, ReadHead, ReadPrepared, LoadKey, SealKey, ReloadKey,
       CommitPrepared, RereadPrepared, BeginJoin, CheckKey, ResetScan, ResetDelete, Crash
<1>2. [Next]_vars =>
          [/\ member # None => member' \in {member, None}
           /\ member = None /\ member' # None => member' = prepared /\ prepared' = None
          ]_vars
  BY <1>1, Zenon
<1> QED
  BY <1>2, PTL DEF Spec, MembershipStable

-----------------------------------------------------------------------------
\* The client identity.

\* The calls that have generated a key and have not ended, and those that have
\* read the record.
Owning == {t \in Caller : stage[t] \notin {"idle", "open"}}
Reading == {t \in Caller : stage[t] \in {"open", "reopen", "discard", "forget"}}

\* No two calls have one key, and the record has none of theirs: what a loser
\* deletes is nobody else's.
KeysApart ==
    /\ record \notin unused
    /\ \A t \in Owning : own[t] \in EndpointKey \ unused /\ own[t] # record
    /\ \A t, u \in Owning : own[t] = own[u] => t = u

\* Whatever has a name has its contents on the disk: no file is ever torn.
NoneTorn ==
    /\ linked \subseteq whole /\ durable \subseteq whole
    /\ torn = {}
    /\ \A t \in Caller : stage[t] = "link" => own[t] \in whole

\* A key is under its name before it is synced, and on the disk before it is
\* committed; the record's key stays there.
Synced ==
    /\ record # NoKey => record \in linked \cap durable
    /\ \A t \in Caller :
          /\ stage[t] = "sync" => own[t] \in linked
          /\ stage[t] \in {"confirm", "commit"} => own[t] \in linked \cap durable

\* A call that no reset has overtaken has read what the record still says.
ReadsRecord ==
    \A t \in Reading : winner[t] \in EndpointKey /\ (t \notin overtaken => winner[t] = record)

IInv == IdentityTypeOK /\ KeysApart /\ NoneTorn /\ Synced /\ ReadsRecord /\ IdentityKept

\* The initial states satisfy the invariant.
LEMMA InitIInv == IdentityInit => IInv
BY IdentityAssumption, SMTT(30) DEF EndpointKey, IdentityInit, FilesInit, IInv, IdentityTypeOK, FilesTypeOK,
   Stage, KeysApart, NoneTorn, Synced, ReadsRecord, IdentityKept, Owning, Reading

\* The calls of load_or_create_client_identity preserve it, one step at a time.
LEMMA StepIInv ==
    ASSUME IInv, NEW t \in Caller, Step(t)
    PROVE  IInv'
<1> USE IdentityAssumption DEF EndpointKey
<1> USE DEF IInv, IdentityTypeOK, FilesTypeOK, Stage, KeysApart, NoneTorn, Synced, ReadsRecord,
            IdentityKept, Owning, Reading, MoveTo, Finish, fileVars
<1>1. CASE Load(t)
  BY <1>1, SMTT(30) DEF Load
<1>2. CASE OpenSecret(t)
  BY <1>2, SMTT(30) DEF OpenSecret, FinishWith, Readable
<1>3. CASE Seal(t)
  BY <1>3, SMTT(30) DEF Seal, WriteSecret
<1>4. CASE SealLink(t)
  BY <1>4, SMTT(30) DEF SealLink, LinkSecret
<1>5. CASE SealSync(t)
  BY <1>5, SMTT(30) DEF SealSync, SyncDirectory
<1>6. CASE Confirm(t)
  BY <1>6, SMTT(30) DEF Confirm
<1>7. CASE Commit(t)
  BY <1>7, SMTT(30) DEF Commit, FinishWith
<1>8. CASE CommitFails(t)
  BY <1>8, SMTT(30) DEF CommitFails
<1>9. CASE Reread(t)
  BY <1>9, SMTT(30) DEF Reread
<1>10. CASE Reopen(t)
  BY <1>10, SMTT(30) DEF Reopen
<1>11. CASE Discard(t)
  BY <1>11, SMTT(30) DEF Discard, RemoveSecret, FinishWith
<1>12. CASE Forget(t)
  BY <1>12, SMTT(30) DEF Forget, SyncDirectory, FinishWith
<1>13. CASE StoreFails(t)
  BY <1>13, SMTT(30) DEF StoreFails
<1> HIDE DEF IInv
<1> QED
  BY <1>1, <1>2, <1>3, <1>4, <1>5, <1>6, <1>7, <1>8, <1>9, <1>10, <1>11, <1>12, <1>13, Zenon DEF Step

\* So do a reset, a crash and a power failure.
LEMMA FaultIInv ==
    ASSUME IInv, Reset \/ ProcessDies \/ PowerFails
    PROVE  IInv'
<1> USE IdentityAssumption DEF EndpointKey
<1> USE DEF IInv, IdentityTypeOK, FilesTypeOK, Stage, KeysApart, NoneTorn, Synced, ReadsRecord,
            IdentityKept, Owning, Reading
<1>1. CASE Reset
  BY <1>1, SMTT(30) DEF Reset, fileVars
<1>2. CASE ProcessDies
  BY <1>2, SMTT(30) DEF ProcessDies, FinishAll, fileVars
<1>3. CASE PowerFails
  BY <1>3 DEF PowerFails, FinishAll, LosePower
<1> HIDE DEF IInv
<1> QED
  BY <1>1, <1>2, <1>3, Zenon

\* The invariant is inductive.
LEMMA NextIInv == IInv /\ [IdentityNext]_identityVars => IInv'
<1> SUFFICES ASSUME IInv, [IdentityNext]_identityVars PROVE IInv'
  BY Zenon
<1>1. CASE IdentityNext
  BY <1>1, StepIInv, FaultIInv, SMTT(30) DEF IdentityNext
<1>2. CASE UNCHANGED identityVars
  BY <1>2, Zenon DEF identityVars, fileVars, IInv, IdentityTypeOK, FilesTypeOK, KeysApart, NoneTorn, Synced,
              ReadsRecord, IdentityKept, Owning, Reading
<1> QED
  BY <1>1, <1>2, Zenon

\* It holds in every reachable state.
LEMMA AlwaysIInv == IdentitySpec => []IInv
BY InitIInv, NextIInv, PTL DEF IdentitySpec

\* However many calls overlap, crash, lose power or are overtaken by a reset,
\* the record of load_or_create_client_identity never refers to a secret that
\* the file store cannot open.
THEOREM RecordHasSecretAlways == IdentitySpec => []RecordHasSecret
<1>1. IInv => RecordHasSecret
  BY Zenon DEF IInv, NoneTorn, Synced, RecordHasSecret, Readable
<1> QED
  BY <1>1, AlwaysIInv, PTL

\* Until a reset every call that returns an identity returns the record's.
THEOREM IdentityKeptAlways == IdentitySpec => []IdentityKept
<1>1. IInv => IdentityKept
  BY Zenon DEF IInv
<1> QED
  BY <1>1, AlwaysIInv, PTL

=============================================================================
