----------------------------- MODULE MCPresence -----------------------------
(***************************************************************************)
(* Two endpoints.  Either ann serves x until it is revoked, which begins   *)
(* an epoch, and x is granted to bob (the two revisions arrive in one      *)
(* batch); or one configuration grants x and y to ann and x to bob, too.   *)
(***************************************************************************)
EXTENDS Presence

MCEndpoint == {"ann", "bob"}
MCEpoch == [r \in 0..Newest |-> r]

MovingLists == [r \in 0..Newest |-> IF r = 0 THEN {"ann", "bob"} ELSE {"bob"}]
MovingGrants == [r \in 0..Newest |-> IF r = 0 THEN {<<"ann", "x">>} ELSE {<<"bob", "x">>}]

SharedLists == [r \in 0..Newest |-> {"ann", "bob"}]
SharedGrants == [r \in 0..Newest |-> {<<"ann", "x">>, <<"ann", "y">>, <<"bob", "x">>}]

=============================================================================
