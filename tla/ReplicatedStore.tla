-------------------------- MODULE ReplicatedStore ---------------------------
(***************************************************************************)
(* Replication of the store.  Raft (external) commits commands to one log; *)
(* every node applies them, in order, to a bbolt file that outlives the    *)
(* process.  (AppCache adds what the node keeps in memory.)                *)
(*                                                                         *)
(* The file is durable but "how far it has been applied" is not: a         *)
(* restarted node applies the log again, from its last Raft snapshot or,   *)
(* without one, from the start, to whatever the file already holds.  A     *)
(* snapshot is a copy of that file made after Raft fixed the snapshot's    *)
(* index; a node that is too far behind gets another node's snapshot.      *)
(* A node may also have lived as a cluster of one before it joined.        *)
(***************************************************************************)
EXTENDS StoreCommands

CONSTANTS Node,          \* the nodes
          Log1,          \* the commands a run commits, a subset of Command
          Standalone,    \* nodes that were a cluster of one before joining
          Leftover,      \* their commands of that time
          MaxLog,        \* bound on the log
          MaxRestarts,   \* bound on restarts, over all nodes
          MaxSnaps       \* bound on snapshots, over all nodes

ASSUME ReplAssumption ==
    /\ Log1 \subseteq Command
    /\ Leftover \in Seq(Command)
    /\ Standalone \subseteq Node
    /\ {MaxLog, MaxRestarts, MaxSnaps} \subseteq Nat

VARIABLES
    log,       \* committed commands
    canon,     \* canon[i + 1]: an empty file after the first i of them, each once
    db,        \* db[n]: bbolt file of n
    applied,   \* applied[n]: index of the last entry applied
    snapping,  \* snapping[n]: index of the snapshot being persisted, or NoIndex
    snap,      \* snap[n]: the last snapshot, [idx, db]
    restarts,
    snaps

vars == <<log, canon, db, applied, snapping, snap, restarts, snaps>>

NoIndex == -1
NoSnap == [idx |-> NoIndex, db |-> EmptyDb]

\* A file after the commands of a sequence.
ApplyAll(d, s) ==
    LET f[i \in 0..Len(s)] == IF i = 0 THEN d ELSE Apply(f[i - 1], s[i])
    IN f[Len(s)]

\* What a node brings along: ResetRaftForJoin wipes its Raft state, not its file.
OwnDb(n) == IF n \in Standalone THEN ApplyAll(EmptyDb, Leftover) ELSE EmptyDb

TypeOK ==
    /\ log \in Seq(Log1)
    /\ Len(canon) = Len(log) + 1
    /\ \A n \in Node :
          /\ applied[n] \in 0..Len(log)
          /\ snapping[n] \in NoIndex..applied[n]
          /\ snap[n].idx \in NoIndex..Len(log)

Init ==
    /\ log = << >>
    /\ canon = <<EmptyDb>>
    /\ db = [n \in Node |-> OwnDb(n)]
    /\ applied = [n \in Node |-> 0]
    /\ snapping = [n \in Node |-> NoIndex]
    /\ snap = [n \in Node |-> NoSnap]
    /\ restarts = 0
    /\ snaps = 0

\* Raft commits a command.
Commit(c) ==
    /\ Len(log) < MaxLog
    /\ log' = Append(log, c)
    /\ canon' = Append(canon, Apply(canon[Len(canon)], c))
    /\ UNCHANGED <<db, applied, snapping, snap, restarts, snaps>>

\* fsm.Apply: node n applies its next entry; a refused command leaves the
\* file as it was, and the index moves on.
ApplyEntry(n) ==
    /\ applied[n] < Len(log)
    /\ applied' = [applied EXCEPT ![n] = @ + 1]
    /\ db' = [db EXCEPT ![n] = Apply(@, log[applied[n] + 1])]
    /\ UNCHANGED <<log, canon, snapping, snap, restarts, snaps>>

-----------------------------------------------------------------------------
(* Snapshots.                                                              *)

\* fsm.Snapshot: Raft fixes the index; only the database handle is kept.
StartSnapshot(n) ==
    /\ snaps < MaxSnaps
    /\ snapping[n] = NoIndex
    /\ applied[n] > snap[n].idx
    /\ applied[n] > 0
    /\ snapping' = [snapping EXCEPT ![n] = applied[n]]
    /\ snaps' = snaps + 1
    /\ UNCHANGED <<log, canon, db, applied, snap, restarts>>

\* snapshot.Persist, in Raft's snapshot goroutine: copies the file as it is
\* by then (taken here as one step; the code holds no transaction open).
\* Raft prefers the snapshot with the highest index.
PersistSnapshot(n) ==
    /\ snapping[n] # NoIndex
    /\ snap' = IF snapping[n] > snap[n].idx
               THEN [snap EXCEPT ![n] = [idx |-> snapping[n], db |-> db[n]]] ELSE snap
    /\ snapping' = [snapping EXCEPT ![n] = NoIndex]
    /\ UNCHANGED <<log, canon, db, applied, restarts, snaps>>

\* fsm.Restore of another node's snapshot; nobody is notified.
InstallSnapshot(n, m) ==
    /\ snap[m].idx > applied[n]
    /\ db' = [db EXCEPT ![n] = snap[m].db]
    /\ applied' = [applied EXCEPT ![n] = snap[m].idx]
    /\ snap' = [snap EXCEPT ![n] = snap[m]]
    /\ UNCHANGED <<log, canon, snapping, restarts, snaps>>

RestartMidSnapshot(n) ==      \* mutant: the snapshot in progress survives
    /\ restarts < MaxRestarts
    /\ restarts' = restarts + 1
    /\ db' = IF snap[n] = NoSnap THEN db ELSE [db EXCEPT ![n] = snap[n].db]
    /\ applied' = [applied EXCEPT ![n] = IF snap[n] = NoSnap THEN 0 ELSE snap[n].idx]
    /\ UNCHANGED <<log, canon, snapping, snap, snaps>>

\* The process dies and starts again: NewRaft restores the last snapshot if
\* there is one and leaves the file alone if there is none.
Restart(n) ==
    LET from == snap[n] IN
    /\ restarts < MaxRestarts
    /\ restarts' = restarts + 1
    /\ db' = IF from = NoSnap THEN db ELSE [db EXCEPT ![n] = from.db]
    /\ applied' = [applied EXCEPT ![n] = IF from = NoSnap THEN 0 ELSE from.idx]
    /\ snapping' = [snapping EXCEPT ![n] = NoIndex]
    /\ UNCHANGED <<log, canon, snap, snaps>>

Next ==
    \/ \E c \in Log1 : Commit(c)
    \/ \E n \in Node : \/ ApplyEntry(n) \/ StartSnapshot(n) \/ PersistSnapshot(n)
                       \/ Restart(n)
    \/ \E n, m \in Node : InstallSnapshot(n, m)

Spec == Init /\ [][Next]_vars

-----------------------------------------------------------------------------
(* Properties.                                                             *)

Caught(n) == applied[n] = Len(log)
Truth == canon[Len(canon)]

\* The part of the file whose rows each command writes outright.
Keyed(d) == <<d.lists, d.toks, d.binds, d.prof, d.gpause>>

\* A node that has applied the whole log holds the rows, bindings, profiles
\* and pauses of the log applied once to an empty file, although it may have
\* applied any part of it again to a file that already held later effects, or
\* started from a snapshot that ran ahead of its index (fsm.go, applyTx).
KeyedRowsConverge ==
    \A n \in Node : Caught(n) => Keyed(db[n]) = Keyed(Truth)

\* What the comment on AuditRow says: every replica records the same sequence
\* for the same log entry, so two nodes that have applied the whole log hold
\* the same audit rows.
SameAuditEverywhere ==
    \A n, m \in Node : Caught(n) /\ Caught(m) => db[n].audit = db[m].audit

\* What raft-fsm.md says of every command ("applying it twice yields the same
\* final state (required because Raft may replay log on restart)"), for the
\* pause ceiling: a replay does not change it.
ReplayKeepsCeiling ==
    \A n \in Node : Caught(n) => db[n].ceiling = Truth.ceiling

\* What the operations guide says of a node that joins ("their previous local
\* data is replaced"): once caught up it holds the leader's rows only.
JoinReplacesLocalData ==
    \A n \in Standalone : log # << >> /\ Caught(n) => Keyed(db[n]) = Keyed(Truth)

\* What the comment on fsm.Snapshot says ("a complete, point-in-time image"):
\* without a replay anywhere a snapshot is the state at its index.
SnapshotIsPointInTime ==
    restarts = 0 => \A n \in Node \ Standalone :
                        snap[n].idx # NoIndex => snap[n].db = canon[snap[n].idx + 1]

-----------------------------------------------------------------------------
(* The inductive invariant behind KeyedRowsConverge.  A file that is being *)
(* replayed, or was copied late, may hold cells "from the future"; each is *)
(* accounted for by a command still to be applied that will write it again.*)

\* Where file d differs from the outcome, in cs, of a log lg at index i, a later
\* command writes the cell; where only one of them has a row, it does so outright.
Explained(cs, lg, d, i, k) ==
    /\ Cell(d, k) # Cell(cs[i + 1], k)
          => \E j \in (i + 1)..Len(lg) : Overwrites(lg[j], k) \/ Sets(lg[j], k)
    /\ (Cell(d, k) = "absent") # (Cell(cs[i + 1], k) = "absent")
          => \E j \in (i + 1)..Len(lg) : Overwrites(lg[j], k)

\* A file that has been at index i is explained there and anywhere before:
\* a restart or a snapshot may take a node back to any of them.
FilesExplained ==
    \A n \in Node, k \in Key :
        /\ \A i \in 0..applied[n] : Explained(canon, log, db[n], i, k)
        /\ snap[n] # NoSnap =>
              \A i \in 0..snap[n].idx : Explained(canon, log, snap[n].db, i, k)

SnapshotsBehind == \A n \in Node : snapping[n] # NoIndex => snapping[n] <= applied[n]

=============================================================================
