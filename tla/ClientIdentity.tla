--------------------------- MODULE ClientIdentity ---------------------------
(***************************************************************************)
(* The client identity an application keeps on a device                    *)
(* (weaver-net/src/identity.rs, load_or_create_client_identity): a record  *)
(* in the state store that refers to an endpoint secret by an id derived   *)
(* from the key, so that no two keys share one.                            *)
(*                                                                         *)
(* Calls overlap, a commit may take effect although its acknowledgement is *)
(* lost, the process may die or the device lose power, and                 *)
(* NetworkMembership::reset deletes the record with everything else in the *)
(* member scope.  The secrets are those of SecretFile; a commit of the     *)
(* state store is durable.                                                 *)
(***************************************************************************)
EXTENDS SecretFile

CONSTANTS
    Caller, \* the calls that may be in progress
    NoKey   \* no record, no key

EndpointKey == Secret    \* the endpoint keys that may be generated, each once

ASSUME IdentityAssumption == NoKey \notin EndpointKey

VARIABLES
    record,     \* the key the identity record refers to
    unused,     \* the keys not generated yet
    stage,      \* where each call is
    own,        \* the key a call has generated
    winner,     \* the key it has read from the record
    overtaken,  \* history variable: the calls a reset has overtaken
    identities  \* history variable: the identities the other calls have returned
                \* since the record was last reset

identityVars == <<record, fileVars, unused, stage, own, winner, overtaken, identities>>

Stage == {"idle", "open", "seal", "link", "sync", "confirm", "commit",
          "reread", "reopen", "discard", "forget"}

IdentityTypeOK ==
    /\ record \in EndpointKey \cup {NoKey}
    /\ FilesTypeOK
    /\ unused \subseteq EndpointKey
    /\ stage \in [Caller -> Stage]
    /\ own \in [Caller -> EndpointKey \cup {NoKey}]
    /\ winner \in [Caller -> EndpointKey \cup {NoKey}]
    /\ overtaken \subseteq Caller
    /\ identities \subseteq EndpointKey

IdentityInit ==
    /\ record = NoKey
    /\ FilesInit
    /\ unused = EndpointKey
    /\ stage = [t \in Caller |-> "idle"]
    /\ own = [t \in Caller |-> NoKey]
    /\ winner = [t \in Caller |-> NoKey]
    /\ overtaken = {}
    /\ identities = {}

-----------------------------------------------------------------------------
MoveTo(t, place) == stage' = [stage EXCEPT ![t] = place]

Finish(t) ==
    /\ MoveTo(t, "idle")
    /\ own' = [own EXCEPT ![t] = NoKey]
    /\ winner' = [winner EXCEPT ![t] = NoKey]
    /\ overtaken' = overtaken \ {t}

\* The call returns the identities given, one or, with an error, none.
FinishWith(t, found) ==
    /\ Finish(t)
    /\ identities' = IF t \in overtaken THEN identities ELSE identities \cup found

\* The record is read; without one a key is generated.
Load(t) ==
    /\ stage[t] = "idle"
    /\ \/ /\ record # NoKey
          /\ winner' = [winner EXCEPT ![t] = record]
          /\ MoveTo(t, "open")
          /\ UNCHANGED <<own, unused>>
       \/ /\ record = NoKey
          /\ \E k \in unused : own' = [own EXCEPT ![t] = k] /\ unused' = unused \ {k}
          /\ MoveTo(t, "seal")
          /\ UNCHANGED winner
    /\ UNCHANGED <<record, fileVars, overtaken, identities>>

\* The secret it refers to is opened.
OpenSecret(t) ==
    /\ stage[t] = "open"
    /\ FinishWith(t, {winner[t]} \cap Readable)
    /\ UNCHANGED <<record, fileVars, unused>>

\* Mutant: the record is committed before the secret is sealed.
SealLater(t) ==
    /\ stage[t] = "seal"
    /\ MoveTo(t, "commit")
    /\ UNCHANGED <<record, fileVars, unused, own, winner, overtaken, identities>>

\* The key is sealed ...
Seal(t) ==
    /\ stage[t] = "seal"
    /\ WriteSecret(own[t])
    /\ MoveTo(t, "link")
    /\ UNCHANGED <<record, unused, own, winner, overtaken, identities>>

SealLink(t) ==
    /\ stage[t] = "link"
    /\ LinkSecret(own[t])
    /\ MoveTo(t, "sync")
    /\ UNCHANGED <<record, unused, own, winner, overtaken, identities>>

SealSync(t) ==
    /\ stage[t] = "sync"
    /\ SyncDirectory
    /\ MoveTo(t, "confirm")
    /\ UNCHANGED <<record, unused, own, winner, overtaken, identities>>

\* ... and read back.
Confirm(t) ==
    /\ stage[t] = "confirm"
    /\ own[t] \in Readable
    /\ MoveTo(t, "commit")
    /\ UNCHANGED <<record, fileVars, unused, own, winner, overtaken, identities>>

\* The record is put unless there is one.
Commit(t) ==
    /\ stage[t] = "commit"
    /\ \/ /\ record = NoKey
          /\ record' = own[t]
          /\ FinishWith(t, {own[t]})
       \/ /\ record # NoKey
          /\ MoveTo(t, "reread")
          /\ UNCHANGED <<record, own, winner, overtaken, identities>>
    /\ UNCHANGED <<fileVars, unused>>

\* The commit fails, or succeeds and reports a failure: the secret is kept.
CommitFails(t) ==
    /\ stage[t] = "commit"
    /\ \/ UNCHANGED record
       \/ record = NoKey /\ record' = own[t]
    /\ Finish(t)
    /\ UNCHANGED <<fileVars, unused, identities>>

\* After a lost race the winner's identity is loaded ...
Reread(t) ==
    /\ stage[t] = "reread"
    /\ \/ /\ record # NoKey
          /\ winner' = [winner EXCEPT ![t] = record]
          /\ MoveTo(t, "reopen")
          /\ UNCHANGED <<own, overtaken>>
       \/ /\ record = NoKey
          /\ Finish(t)
    /\ UNCHANGED <<record, fileVars, unused, identities>>

Reopen(t) ==
    /\ stage[t] = "reopen"
    /\ IF winner[t] \in Readable
       THEN MoveTo(t, "discard") /\ UNCHANGED <<own, winner, overtaken>>
       ELSE Finish(t)
    /\ UNCHANGED <<record, fileVars, unused, identities>>

\* Mutant: the loser goes on with the key it generated.
DiscardReturningOwn(t) ==
    /\ stage[t] = "discard"
    /\ FinishWith(t, {own[t]})
    /\ UNCHANGED <<record, fileVars, unused>>

\* ... and the loser's own secret, which no record refers to, is deleted.
Discard(t) ==
    /\ stage[t] = "discard"
    /\ IF winner[t] = own[t]
       THEN FinishWith(t, {winner[t]}) /\ UNCHANGED fileVars
       ELSE /\ RemoveSecret(own[t])
            /\ MoveTo(t, "forget")
            /\ UNCHANGED <<own, winner, overtaken, identities>>
    /\ UNCHANGED <<record, unused>>

Forget(t) ==
    /\ stage[t] = "forget"
    /\ SyncDirectory
    /\ FinishWith(t, {winner[t]})
    /\ UNCHANGED <<record, unused>>

\* A read, a write, a link or a sync fails, and the call with it.
StoreFails(t) ==
    /\ stage[t] \notin {"idle", "commit"}
    /\ Finish(t)
    /\ UNCHANGED <<record, fileVars, unused, identities>>

-----------------------------------------------------------------------------
\* NetworkMembership::reset, as far as this record goes.
Reset ==
    /\ record # NoKey
    /\ record' = NoKey
    /\ overtaken' = {t \in Caller : stage[t] # "idle"}
    /\ identities' = {}
    /\ UNCHANGED <<fileVars, unused, stage, own, winner>>

FinishAll ==
    /\ stage' = [t \in Caller |-> "idle"]
    /\ own' = [t \in Caller |-> NoKey]
    /\ winner' = [t \in Caller |-> NoKey]
    /\ overtaken' = {}
    /\ UNCHANGED <<record, unused, identities>>

ProcessDies ==
    /\ \E t \in Caller : stage[t] # "idle"
    /\ FinishAll
    /\ UNCHANGED fileVars

PowerFails ==
    /\ FinishAll
    /\ LosePower

Step(t) ==
    \/ Load(t) \/ OpenSecret(t) \/ Seal(t) \/ SealLink(t) \/ SealSync(t) \/ Confirm(t)
    \/ Commit(t) \/ CommitFails(t) \/ Reread(t) \/ Reopen(t) \/ Discard(t) \/ Forget(t)
    \/ StoreFails(t)

IdentityNext == (\E t \in Caller : Step(t)) \/ Reset \/ ProcessDies \/ PowerFails

IdentitySpec == IdentityInit /\ [][IdentityNext]_identityVars

-----------------------------------------------------------------------------
\* "A crash can therefore leave only an unreferenced secret, never a committed
\* state record pointing to a missing secret": nor can a power failure at any
\* point of sealing it, a lost race, a reset or a commit whose acknowledgement
\* is lost.
RecordHasSecret == record # NoKey => record \in Readable

\* The device keeps one identity (ID-3): until a reset every call returns the
\* one the record holds, however many calls generate keys at the same time.
\* (A call that a reset overtakes may return an identity that was wiped.)
IdentityKept == identities \subseteq {record}

=============================================================================
