--------------------------- MODULE MCLeaseScenes ----------------------------
(* Two instances of LeaseReplication for TLC, told apart by scene: a leader   *)
(* that falls only with its process, under the fairness of the code; and one  *)
(* that may be deposed, refused an apply and restarted.                       *)
EXTENDS LeaseReplication

Failing == INSTANCE LeaseReplication WITH MaxLoss <- 1, MaxFail <- 1, MaxOther <- 0

VARIABLE scene

\* The MACs are interchangeable; one stands for all.
SomeMac == CHOOSE m \in Mac : TRUE

ScenesInit ==
    /\ Init
    /\ scene = "follow" \/ (scene = "failing" /\ source = [c \in Client |-> SomeMac])

ScenesNext ==
    /\ UNCHANGED scene
    /\ \/ scene = "follow" /\ Next
       \/ scene = "failing" /\ Failing!Next

ScenesSpec == ScenesInit /\ [][ScenesNext]_<<vars, scene>> /\ Fairness

\* The variables have the types of their scene.
ScenesTypeOK == IF scene = "follow" THEN TypeOK ELSE Failing!TypeOK

\* No node, the polling leader included, serves leases the cluster has not
\* committed (manager.go pollOnce), as long as no replication fails; it may serve
\* none.
FollowServesCommitted == scene = "follow" => ServesCommitted

\* Once the source has stopped changing, every node ends up serving what it
\* reports (manager.go pollOnce, app.go onApply), unless a replication failed or
\* the source reports no lease.
SourceFollowed == scene = "follow" => SourceServedEverywhere

\* An anomaly one node has shown and replicated without an error is shown by all
\* of them in the end (recordAnomaly's goroutine), unless the leader changed.  The
\* nodes are interchangeable as well, so this looks at one of them.
AnomaliesFollowed ==
    scene = "follow" =>
        \A c \in Client, k \in 0..MaxChange :
            LET n == CHOOSE x \in Node : TRUE
                a == [client |-> c, mac |-> SomeMac, nr |-> k]
            IN  a \in sending[n] ~>
                    \/ leader # n
                    \/ \A o \in Node : \E r \in mgr[o].shown : r.a = a
=============================================================================
