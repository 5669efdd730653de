--------------------------- MODULE MCLanDiscovery ---------------------------
EXTENDS LanDiscovery

OneSkew == [r |-> 0, p |-> 1]
OneStored == [r |-> 0, p |-> LastEpoch]
OnePeer == {"p"}
AllLists == [e \in 0..LastEpoch |-> Node]

=============================================================================
