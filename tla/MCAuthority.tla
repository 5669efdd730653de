----------------------------- MODULE MCAuthority -----------------------------
(***************************************************************************)
(* Two devices that ask to join and contend for one invitation, while      *)
(* commits of dropped futures may still land.                              *)
(***************************************************************************)
EXTENDS Authority

MCMember == {"alice", "bob"}
MCRequest == {"a", "b"}
MCApplicant == [a |-> "alice", b |-> "bob"]
MCWants == [a |-> {"member", "relay"}, b |-> {"member"}]
MCGoodUntil == [a |-> 2, b |-> 1]
PlainGrants == {{"member"}}
MCBindings == {[app |-> a, member |-> "founder", role |-> "server", expires |-> 2] : a \in App}
MCLimit == [revoked |-> 1, apps |-> 1, bindings |-> 2, dns |-> 1, relays |-> 1]

=============================================================================
