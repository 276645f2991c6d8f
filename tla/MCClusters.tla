------------------------------ MODULE MCClusters ------------------------------
(***************************************************************************)
(* Instances of Clusters for TLC: a cluster with inline endpoints, with an *)
(* EDS name of its own and without, with and without outlier detection,    *)
(* next to another one, and responses that are complete, empty or broken.  *)
(***************************************************************************)
EXTENDS Clusters

Raw(n, eds, od, cla) ==
    [url |-> "Cluster",
     msg |-> [name |-> n, type |-> "EDS", lbPolicy |-> "MAGLEV", serviceName |-> eds,
              outlierDetection |-> od, loadAssignment |-> cla]]

On == [threshold |-> 10, volume |-> 100]
Off == [threshold |-> 10, volume |-> 0]

CDSResponses ==
    {<<>>,
     <<Raw("c1", "e1", On, None), Raw("c2", "", Off, None)>>,
     <<Raw("c1", "e1", On, None), Raw("c1", "", None, <<>>)>>,
     <<Raw("c2", "", On, None), Raw("c1", "e1", Off, <<<<"i1">>, <<"i2", "i3">>>>)>>,
     <<Raw("c1", "e1", On, None), [url |-> "Cluster", msg |-> None]>>}

CLA(n, localities) ==
    [url |-> "ClusterLoadAssignment", msg |-> [name |-> n, endpoints |-> localities]]

EDSResponses ==
    {<<CLA("c1", <<<<"i4">>>>), CLA("e1", <<<<"i5">>, <<>>>>)>>,
     <<CLA("e1", <<>>)>>,
     <<CLA("e1", <<<<"i6">>>>), [url |-> "Cluster", msg |-> None]>>}
MCRawCDS == CDSResponses

MCRawEDS == EDSResponses
=============================================================================
