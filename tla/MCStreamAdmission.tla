------------------------- MODULE MCStreamAdmission -------------------------
(***************************************************************************)
(* ann has a connection to the first server, for reliable streams, and bob *)
(* one to the other server, for datagrams, which never accepts.  The next  *)
(* revision takes ann's client address away.                               *)
(***************************************************************************)
EXTENDS StreamAdmission

MCOn == [s1 |-> "c1", s2 |-> "c1", s3 |-> "c2", s4 |-> "c2"]
MCRemote == [c1 |-> "ann", c2 |-> "bob"]
MCTo == [c1 |-> "first", c2 |-> "other"]
MCSource == [s1 |-> "x", s2 |-> "x", s3 |-> "y", s4 |-> "y"]
MCClients == [r \in 0..Newest |->
    {<<"bob", "y">>} \cup (IF r = 0 THEN {<<"ann", "x">>} ELSE {})]
MCHosts == [r \in 0..Newest |-> {"first", "other"}]

=============================================================================
