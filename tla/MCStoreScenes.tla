--------------------------- MODULE MCStoreScenes ----------------------------
(* Two instances of the store for TLC, told apart by scene: the files of all  *)
(* nodes under every kind of row; and, with fewer commands, the files and     *)
(* what each node keeps in memory of its own.                                 *)
EXTENDS ReplicatedStore, TLC

Nodes == Permutations(Node)

AllOff == [l \in List |-> "absent"]
NoCommand == << >>

\* Rows, tokens, bindings.
RowCommands ==
    {c \in Command : c.kind \in {"list.put", "list.set", "list.delete"} /\
                     (c.kind = "list.put" => c.on)}
    \cup {c \in Command : c.kind \in {"tok.put", "bind.put", "sched.delete"}}
    \cup {[kind |-> "import", lists |-> AllOff, ceiling |-> "set"]}

\* Profiles and the two kinds of pause.
PauseCommands ==
    {c \in Command : c.kind \in {"prof.put", "prof.delete", "pause.set", "pause.clear",
                                 "gpause.set", "gpause.clear"}}
    \cup {[kind |-> "import", lists |-> AllOff, ceiling |-> "off"]}

BothCommands == RowCommands \cup PauseCommands

AuditCommands == {c \in Command : c.kind = "audit"}
TokCommands == {c \in Command : c.kind \in {"tok.put", "tok.delete"}}
ImportCommands == {[kind |-> "import", lists |-> AllOff, ceiling |-> "off"]}

\* A former cluster of one has issued a token.
OneToken == <<CHOOSE c \in Command : c.kind = "tok.put">>

VARIABLES phase, cache, toks, readToks, todo, missed, scene

CachedCommands == TokCommands \cup {c \in Command : c.kind = "list.set" /\ c.on}

Cached == INSTANCE AppCache WITH Log1 <- CachedCommands, MaxLog <- 2

allVars == <<vars, phase, cache, toks, readToks, todo, missed, scene>>

ScenesInit ==
    /\ Cached!AppInit
    /\ scene \in {"rows", "cached"}

\* In the scene of the rows nobody caches anything.
ScenesNext ==
    /\ UNCHANGED scene
    /\ \/ scene = "rows" /\ Next /\ UNCHANGED <<phase, cache, toks, readToks, todo, missed>>
       \/ scene = "cached" /\ Cached!AppNext

ScenesSpec == ScenesInit /\ [][ScenesNext]_allVars

\* The variables have the types of their scene.
ScenesTypeOK == IF scene = "rows" THEN TypeOK ELSE Cached!TypeOK

\* Where nodes cache what they read, they serve their file, but for what one
\* missed in a way AppCache names (App.onApply, NewApp, fsm.Restore).
ServesItsFile == scene = "cached" => Cached!ServesItsFile
=============================================================================
