--------------------------- MODULE MCConfigScenes ---------------------------
(* ConfigWrites for TLC, in two scenes: writes of all sorts, two under way at *)
(* a time, with a refresh between; and every write of what an import carries, *)
(* taking turns.                                                              *)
EXTENDS ConfigWrites, TLC

Symmetry == Permutations(Request) \cup Permutations(Url)

Plain == {op \in Operation : op.kind = "allow" /\ op.as = "plain"}
MixedOps == {op \in CarriedOps : op.kind \notin {"source", "enable", "unallow"}}
    \cup {op \in Operation : op.kind \in {"pause", "patch"}}
DistributedOps == {op \in Operation : op.kind = "create"} \cup Plain
RefreshOps == {op \in Operation : op.kind \in {"create", "enable"}}
ProfileOps == {op \in Operation : op.kind \in {"patch", "pause"}}
ArchiveOps == {op \in Operation : op.kind \in {"archive", "creds"}}

VARIABLE scene

ScenesInit ==
    \/ scene = "mixed" /\ Init
    \/ scene = "turns" /\ Begin(CarriedOps)

ScenesNext ==
    /\ UNCHANGED scene
    /\ \/ scene = "mixed" /\ Next
       \/ scene = "turns" /\ TurnsNext

ScenesSpec == ScenesInit /\ [][ScenesNext]_<<vars, scene>>

\* Requests that take turns: reading, editing and importing the configuration
\* implements ConfigPromise, the write of one thing, on what an import carries.
KeepsPromiseAlone ==
    /\ scene = "turns" => Promise!Init
    /\ [][scene = "turns" => Promise!Next \/ UNCHANGED <<Carried(file), want, Stage>>]_<<vars, scene>>
=============================================================================
