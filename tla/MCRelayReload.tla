---------------------------- MODULE MCRelayReload ----------------------------
(***************************************************************************)
(* One member, one run of init.                                            *)
(***************************************************************************)
EXTENDS RelayReload

MCApplicant == [a |-> "alice"]
MCWants == [a |-> {"member"}]
MCGoodUntil == [a |-> 1]
MCGrants == {{"member"}}
MCLimit == [revoked |-> 1, apps |-> 1, bindings |-> 1, dns |-> 1, relays |-> 1]

=============================================================================
