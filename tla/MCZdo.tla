------------------------------- MODULE MCZdo -------------------------------
\* An instance with two nodes; the bounds are in the configuration.  The host types
\* requests for one cluster, two, and none, and lines that are not well formed.
EXTENDS Zdo

Profile == [len |-> 4, value |-> 260]
Count(n) == [len |-> 2, value |-> n]
Cluster(n) == [len |-> 4, value |-> n]

MCLines == {
    <<Profile, Count(1), Cluster(6), Count(1), Cluster(8)>>,
    <<Profile, Count(0), Count(2), Cluster(6), Cluster(6)>>,
    <<Profile, Count(0), Count(0)>>,
    <<Profile, Count(1), Cluster(6)>>,
    <<Profile, Count(3), Cluster(6), Cluster(7), Cluster(8), Count(0)>>,
    <<Profile, Count(0), Count(0), Cluster(6)>>,
    <<Profile, Count(2), Cluster(6), Count(1), Cluster(8)>>,
    <<Profile, Count(1), [len |-> 4, value |-> -1], Count(0)>>}
=============================================================================
