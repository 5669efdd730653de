---------------------------- MODULE ConfigChain ----------------------------
(***************************************************************************)
(* The signed configuration chain (weaver-config).                         *)
(*                                                                         *)
(* An envelope stands for its exact bytes, and so for its hash: a          *)
(* ConfigHead (epoch, revision, hash) names one envelope, and Previous is  *)
(* the envelope whose hash it carries.  The universe of envelopes is any   *)
(* set of well-signed envelopes a member may ever be handed, not           *)
(* necessarily one line of descent: another branch, a skipped revision or  *)
(* a lower epoch are all for the checks below to refuse.                   *)
(***************************************************************************)
EXTENDS Naturals, Sequences

CONSTANTS
    Envelope,    \* the envelopes in circulation
    NoEnvelope,  \* the all-zero previous hash of a genesis envelope
    Revision,    \* [Envelope -> Nat]
    Epoch,       \* [Envelope -> Nat]
    Previous,    \* [Envelope -> Envelope \cup {NoEnvelope}]
    Admin,       \* the administrator certificates
    Signer,      \* [Envelope -> Admin], who signed the envelope
    Admins,      \* [Envelope -> SUBSET Admin], the admin keys its snapshot lists
    Recipient,   \* the envelopes with a key wrap this member can open and
                 \* whose snapshot validates
    MaxBatch     \* MAX_UPDATE_ENVELOPES

ASSUME EnvelopeAssumption ==
    /\ NoEnvelope \notin Envelope
    /\ Revision \in [Envelope -> Nat]
    /\ Epoch \in [Envelope -> Nat]
    /\ Previous \in [Envelope -> Envelope \cup {NoEnvelope}]
    /\ Signer \in [Envelope -> Admin]
    /\ Admins \in [Envelope -> SUBSET Admin]
    /\ Recipient \subseteq Envelope
    /\ MaxBatch \in Nat

\* Mutant: validate_chain that lets the epoch fall.
FollowsHeadAnyEpoch(head, e) ==
    /\ Revision[e] = Revision[head] + 1
    /\ Previous[e] = head

\* validate_chain with ChainExpectation::Next(head).
FollowsHead(head, e) ==
    /\ Revision[e] = Revision[head] + 1
    /\ Previous[e] = head
    /\ Epoch[e] >= Epoch[head]

\* open_next_config: the signer is an admin of the current snapshot, the
\* envelope follows the head, and this member can open and validate it.
OpensNext(head, e) ==
    /\ Signer[e] \in Admins[head]
    /\ FollowsHead(head, e)
    /\ e \in Recipient

\* open_config_with_verified_admin with ChainExpectation::Checkpoint(head):
\* the head names this very envelope, the certificate is its signer's.
OpensCheckpoint(e, head, signer) ==
    /\ e = head
    /\ signer = Signer[e]
    /\ e \in Recipient

\* ConfigUpdateBatch: at most MaxBatch envelopes, revision and previous hash
\* consecutive from the base head.  (Its epoch and signatures are not looked
\* at here.)
Batch == UNION {[1..n -> Envelope] : n \in 1..MaxBatch}

LinkedBatch(base, b) ==
    /\ Len(b) <= MaxBatch
    /\ \A i \in 1..Len(b) : LET before == IF i = 1 THEN base ELSE b[i - 1]
                            IN  /\ Revision[b[i]] = Revision[before] + 1
                                /\ Previous[b[i]] = before

\* The loop of PersistedConfigState::apply: every envelope of the batch opens
\* on top of the one before it, the first on top of the head.
OpensBatch(head, b) ==
    \A i \in 1..Len(b) : OpensNext(IF i = 1 THEN head ELSE b[i - 1], b[i])

Final(b) == b[Len(b)]

=============================================================================
