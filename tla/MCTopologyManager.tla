-------------------------- MODULE MCTopologyManager -------------------------
(* TopologyManager for TLC: three bundles.  The second one brings the DC    *)
(* the configuration lacks, the third one is signed ahead of its time.      *)
EXTENDS TopologyManager, TLC

CONSTANTS d1, d2

BundlesThree ==
    {[gen |-> 1, from |-> 0, until |-> 1, dcs |-> {d1}],
     [gen |-> 2, from |-> 0, until |-> 3, dcs |-> {d1, d2}],
     [gen |-> 3, from |-> 1, until |-> 4, dcs |-> {d1}]}

RequestSymmetry == Permutations(Requests)
=============================================================================
