-------------------------- MODULE MCMemberConfig --------------------------
(***************************************************************************)
(* Three revisions in one line, e1 to e3: e2 brings a second admin, who    *)
(* signs e3, which raises the epoch.  Beside them f2, a second envelope    *)
(* for revision 2, and g3, a successor of e2 with a lower epoch.           *)
(***************************************************************************)
EXTENDS MemberConfig, TLC

MCEnvelope == {"e1", "e2", "e3", "f2", "g3"}
MCRevision == [e1 |-> 1, e2 |-> 2, e3 |-> 3, f2 |-> 2, g3 |-> 3]
MCEpoch    == [e1 |-> 1, e2 |-> 1, e3 |-> 2, f2 |-> 1, g3 |-> 0]
MCPrevious == [e1 |-> NoEnvelope, e2 |-> "e1", e3 |-> "e2", f2 |-> "e1", g3 |-> "e2"]
MCAdmin    == {"admin", "rotated"}
MCSigner   == [e1 |-> "admin", e2 |-> "admin", e3 |-> "rotated", f2 |-> "admin",
               g3 |-> "admin"]
MCAdmins   == [e1 |-> {"admin"}, e2 |-> {"admin", "rotated"}, e3 |-> {"rotated"},
               f2 |-> {"admin"}, g3 |-> {"admin"}]
MCTicket   == MCEnvelope \ {"g3"}

Symmetry == Permutations(Handle)

=============================================================================
