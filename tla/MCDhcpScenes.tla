--------------------------- MODULE MCDhcpScenes ----------------------------
(* Two instances of DhcpServer for TLC, told apart by scene: a handover of    *)
(* one address between two nodes that may restart, and one node whose         *)
(* settings change under its clients, with more addresses than its pool has.  *)
EXTENDS DhcpServer, TLC

CONSTANTS PinNode, PinAddr, PinPool, PinTime, PinLoss, PinCrash, PinAdmin,
          PinCommits

Pins == INSTANCE DhcpServer
    WITH Node <- PinNode, Addr <- PinAddr, Pool <- PinPool,
         MaxTime <- PinTime, MaxLoss <- PinLoss, MaxCrash <- PinCrash, MaxAdmin <- PinAdmin,
         Commits <- PinCommits

ASSUME PinsAssumption == Pins!DhcpAssumption /\ Pins!NoneIsNoRow

VARIABLE scene

Symmetry == Permutations(Mac)

ScenesInit ==
    \/ scene = "handover" /\ Init
    \/ scene = "pinned" /\ Pins!Init

ScenesNext ==
    /\ UNCHANGED scene
    /\ \/ scene = "handover" /\ Next
       \/ scene = "pinned" /\ Pins!Next

ScenesSpec == ScenesInit /\ [][ScenesNext]_<<vars, scene>>

\* The variables have the types of their scene.
ScenesTypeOK == IF scene = "handover" THEN TypeOK ELSE Pins!TypeOK

\* A node that restarts while everything is replicated, or the one that leads
\* next, knows every lease a client still holds (loadLeasesFromStore).
HandoverKeepsLeases == scene = "handover" => HeldIsInTable

\* And so it gives no address to a client while another one still holds it
\* (allocateIP, handleDiscover).
HandoverGivesOnce == scene = "handover" => NoAddressHeldTwice

\* A pin of an unused address holds through settings that change, renewals and a
\* leadership that is lost and regained: the address is its client's alone.
PinHolds == scene = "pinned" => Pins!PinnedAddressIsOnes

\* Whatever a pinned client is offered is its pinned address.
PinIsOffered ==
    [][scene = "pinned" =>
          \A m \in Mac : offer'[m] \notin {offer[m], None} /\ config.static[m] # None
                         => offer'[m] = config.static[m]]_<<vars, scene>>
=============================================================================
