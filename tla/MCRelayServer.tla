---------------------------- MODULE MCRelayServer ----------------------------
(***************************************************************************)
(* Two runs of init, two devices that ask to join, one of them for the     *)
(* roles of a relay, and an invitation for each; the operations on names,  *)
(* bindings and relays.                                                    *)
(***************************************************************************)
EXTENDS RelayServer, TLC

MCMember == {"alice", "bob"}
MCRequest == {"a", "b"}
MCApplicant == [a |-> "alice", b |-> "bob"]
MCWants == [a |-> {"member", "relay"}, b |-> {"member"}]
MCGoodUntil == [a |-> 2, b |-> 1]
MCGrants == {{"member"}, {"member", "relay"}}
MCBindings == {[app |-> a, member |-> "founder", role |-> "server", expires |-> 2] : a \in App}
              \cup {[app |-> a, member |-> "alice", role |-> "client", expires |-> 1] : a \in App}
MCRelays == {[member |-> "alice", roles |-> {"data"}, expires |-> 1],
             [member |-> "alice", roles |-> {"data", "presence"}, expires |-> 2],
             [member |-> "founder", roles |-> {"data", "bootstrap"}, expires |-> 2]}
MCLimit == [revoked |-> 1, apps |-> 1, bindings |-> 2, dns |-> 1, relays |-> 2]
Symmetry == Permutations(InitRun) \cup Permutations(Invitation)

=============================================================================
