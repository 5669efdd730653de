-------------------------- MODULE MemberCheckpoint --------------------------
(***************************************************************************)
(* What a member's persisted configuration promises, whatever number of    *)
(* handles, tasks and crashes work on it: one checkpoint, which appears by *)
(* joining, moves only along envelopes that each open on top of the one    *)
(* before, and disappears only by a reset.                                 *)
(***************************************************************************)
EXTENDS ConfigChain

CONSTANT NoBytes

VARIABLE checkpoint

Init == checkpoint = NoBytes

Join ==
    /\ checkpoint = NoBytes
    /\ checkpoint' \in Recipient

Advance ==
    /\ checkpoint \in Envelope
    /\ \E b \in Batch : /\ OpensBatch(checkpoint, b)
                        /\ checkpoint' = Final(b)

Reset == checkpoint' = NoBytes

Next == Join \/ Advance \/ Reset

Spec == Init /\ [][Next]_checkpoint

=============================================================================
