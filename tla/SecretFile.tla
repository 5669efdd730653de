----------------------------- MODULE SecretFile -----------------------------
(***************************************************************************)
(* The encrypted file store (EncryptedFileSecretStore,                     *)
(* weaver-store/src/secret_file.rs), down to what a power failure leaves   *)
(* of it.                                                                  *)
(*                                                                         *)
(* A secret is written to a file with a random name, synced, and linked to *)
(* its own name, which is synced with the directory; a link never replaces *)
(* a file.  A secret is sealed under an id that is derived from it, so     *)
(* that a file of that name holds that secret or a part of it.  Until the  *)
(* directory is synced a link or its removal may or may not survive; until *)
(* a file is synced its contents may not.  Files left under random names   *)
(* are never read.                                                         *)
(***************************************************************************)
CONSTANT Secret    \* the secrets that may be sealed

VARIABLES
    linked,        \* the secrets with a file under their name
    durable,       \* those whose name is on the disk
    whole,         \* those whose contents are on the disk
    torn           \* those whose contents were lost in a power failure

fileVars == <<linked, durable, whole, torn>>

FilesTypeOK ==
    /\ linked \subseteq Secret /\ durable \subseteq Secret
    /\ whole \subseteq Secret /\ torn \subseteq Secret

FilesInit ==
    /\ linked = {}
    /\ durable = {}
    /\ whole = {}
    /\ torn = {}

\* What open_sync decrypts: a part of a file fails to authenticate.
Readable == linked \ torn

\* Mutant: the contents are not synced.
WriteUnsynced(s) == UNCHANGED fileVars

\* seal_sync: unless the secret has a file, its contents are written under a
\* random name and synced ...
WriteSecret(s) ==
    /\ whole' = IF s \in linked THEN whole ELSE whole \cup {s}
    /\ UNCHANGED <<linked, durable, torn>>

\* ... linked to the name of the secret, unless it has a file by now ...
LinkSecret(s) ==
    /\ linked' = linked \cup {s}
    /\ UNCHANGED <<durable, whole, torn>>

\* Mutant: the directory is not synced.
SyncNothing == UNCHANGED fileVars

\* ... and the link is synced: sync_directory.
SyncDirectory ==
    /\ durable' = linked
    /\ UNCHANGED <<linked, whole, torn>>

\* delete_sync: the file is removed, and then the directory synced.
RemoveSecret(s) ==
    /\ linked' = linked \ {s}
    /\ UNCHANGED <<durable, whole, torn>>

\* A change of a name that was not synced survives or not; contents that were
\* not synced are lost.
LosePower ==
    /\ linked' \in {(durable \cap linked) \cup kept :
                       kept \in SUBSET ((durable \cup linked) \ (durable \cap linked))}
    /\ durable' = linked'
    /\ torn' = torn \cup (linked' \ whole)
    /\ UNCHANGED whole

=============================================================================
