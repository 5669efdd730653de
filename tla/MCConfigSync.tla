---------------------------- MODULE MCConfigSync ----------------------------
(***************************************************************************)
(* The authority and two members, ann from the start, bob from revision 1  *)
(* until revision 3 removes it.  The members come before the authority in  *)
(* the order of the endpoint ids, so that each asks the other first.       *)
(***************************************************************************)
EXTENDS ConfigSync

MCPeer == {"authority", "ann", "bob"}
MCRank == [ann |-> 1, bob |-> 2, authority |-> 3]
MCLists == [r \in 0..LastRevision |->
    {"authority", "ann"} \cup (IF r \in 1..2 THEN {"bob"} ELSE {})]

\* Nothing expires, or an entry that revision 1 lists does and is then replaced.
Lasting == [r \in 0..LastRevision |-> 100]
Expiring == [r \in 0..LastRevision |-> IF r = 1 THEN 1 ELSE 100]

=============================================================================
