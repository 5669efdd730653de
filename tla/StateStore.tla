----------------------------- MODULE StateStore -----------------------------
(***************************************************************************)
(* The compare-and-swap state store every persistent component of weaver   *)
(* is written against (weaver-store: the StateStore trait, the in-memory   *)
(* store and the redb store).                                              *)
(*                                                                         *)
(* A range of keys of one scope is a function from keys to records.  A     *)
(* record carries the version the store stamped on it; version 0, which no *)
(* store ever hands out, stands for a key without a record, so that        *)
(* ExpectedVersion::Missing and ExpectedVersion::Exact(v) are both "the    *)
(* version is the expected one".  (No caller uses ExpectedVersion::Any.)   *)
(*                                                                         *)
(* The code stamps each Put of a batch with a version of its own.  Versions *)
(* are only ever compared for one key, and a batch names a key once        *)
(* (insert_unique), so one stamp for the whole batch tells apart exactly   *)
(* the same states.                                                        *)
(***************************************************************************)
EXTENDS Naturals

CONSTANTS
    NoBytes,    \* the content of a key that has no record
    MaxVersion  \* the version counter is a u64 incremented with checked_add

ASSUME MaxVersionAssumption == MaxVersion \in Nat

Missing == 0

NoRecord == [version |-> Missing, bytes |-> NoBytes]

Record(Bytes) == [version : Nat, bytes : Bytes \cup {NoBytes}]

Present(record) == record.version # Missing

\* The versions a caller remembers of the records it read.
Versions(records) == [k \in DOMAIN records |-> records[k].version]

\* The preconditions of a batch: expected maps the keys it names to versions.
Holds(records, expected) ==
    \A k \in DOMAIN expected : records[k].version = expected[k]

\* The records after the batch has put puts (a function from keys to bytes).
WithPuts(records, puts, version) ==
    [k \in DOMAIN records |->
        IF k \in DOMAIN puts
        THEN [version |-> version, bytes |-> puts[k]]
        ELSE records[k]]

\* The records after the batch has deleted the keys.
WithDeletes(records, keys) ==
    [k \in DOMAIN records |-> IF k \in keys THEN NoRecord ELSE records[k]]

\* Mutant: wrapping instead of checked addition.
BumpWrapping(version) == (version + 1) % MaxVersion

\* The version stamp of the next batch.
Bump(version) == version + 1

=============================================================================
