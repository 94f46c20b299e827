----------------------- MODULE ReplicatedStoreProofs ------------------------
(***************************************************************************)
(* Proofs about ReplicatedStore, for every set of nodes, lists, tokens,    *)
(* schedules and profiles, every log of commands, and any number of        *)
(* restarts, snapshots and installations.  First, where nodes and their    *)
(* snapshots are in the log.  Then the keyed rows of all nodes converge:   *)
(* what a command is to one cell of a file (store.go, applyTx), and that   *)
(* every file in the system is explained by what is still to be applied.   *)
(* Last, the two scenes of MCStoreScenes, and what a node keeps in memory: *)
(* it serves its file, but for what it missed.                             *)
(***************************************************************************)
EXTENDS MCStoreScenes, SequenceTheorems, TLAPS

\* A step of the replicated store, whatever commands a run commits and how many.
Grows(c) ==
    /\ log' = Append(log, c)
    /\ canon' = Append(canon, Apply(canon[Len(canon)], c))
    /\ UNCHANGED <<db, applied, snapping, snap>>

Step ==
    \/ \E c \in Command : Grows(c)
    \/ \E n \in Node : ApplyEntry(n) \/ StartSnapshot(n) \/ PersistSnapshot(n) \/ Restart(n)
    \/ \E n, m \in Node : InstallSnapshot(n, m)
    \/ UNCHANGED vars

\* The commands of a run are commands.
LEMMA NextIsStep == [Next]_vars => Step
  BY ReplAssumption DEF Next, Step, Commit, Grows

\* canon holds the outcome of every prefix of the log, and nothing is ahead of
\* the log: no node, no snapshot, finished or not.
LogInv ==
    /\ \E S : canon \in Seq(S)
    /\ log \in Seq(Command)
    /\ Len(canon) = Len(log) + 1
    /\ \A i \in 1..Len(log) : canon[i + 1] = Apply(canon[i], log[i])
    /\ applied \in [Node -> Nat]
    /\ \A n \in Node : applied[n] <= Len(log)
    /\ db = [n \in Node |-> db[n]]
    /\ snapping \in [Node -> Nat \cup {NoIndex}]
    /\ snap = [n \in Node |-> snap[n]]
    /\ \A n \in Node : /\ snapping[n] <= Len(log)
                       /\ snap[n] = NoSnap \/ snap[n].idx \in 0..Len(log)

\* An empty log, and the outcome of none of its commands.
LEMMA LogInit == Init => LogInv
  <1> SUFFICES ASSUME Init PROVE LogInv
    OBVIOUS
  <1>1. canon \in Seq({EmptyDb}) /\ Len(canon) = 1 /\ canon[1] = EmptyDb
    BY DEF Init
  <1>2. log \in Seq(Command) /\ Len(log) = 0
    BY EmptySeq DEF Init
  <1>3. applied \in [Node -> Nat] /\ \A n \in Node : applied[n] = 0
    BY DEF Init
  <1>4. db = [n \in Node |-> db[n]]
    BY DEF Init
  <1>7. /\ snapping \in [Node -> Nat \cup {NoIndex}]
        /\ snap = [n \in Node |-> snap[n]]
        /\ \A n \in Node : snapping[n] <= 0 /\ snap[n] = NoSnap
    BY DEF Init, NoIndex
  <1> QED
    BY <1>1, <1>2, <1>3, <1>4, <1>7 DEF LogInv

\* A sequence over S is one over any larger set.
LEMMA SeqWidens == ASSUME NEW S, NEW T, S \subseteq T, NEW s \in Seq(S) PROVE s \in Seq(T)
  <1>1. PICK n \in Nat : s \in [1..n -> S]
    BY SeqDef
  <1>2. s \in [1..n -> T]
    BY <1>1
  <1> QED
    BY <1>2, SeqDef

\* Every step keeps LogInv: a restart and a snapshot take a node to where some
\* node has been.
LEMMA LogNext == LogInv /\ Step => LogInv'
  <1> SUFFICES ASSUME LogInv, Step PROVE LogInv'
    OBVIOUS
  <1> USE DEF LogInv
  <1>len. Len(log) \in Nat /\ Len(canon) \in Nat
    BY LenProperties
  <1>1. ASSUME NEW c \in Command, Grows(c) PROVE LogInv'
    <2> DEFINE d == Apply(canon[Len(canon)], c)
    <2> HIDE DEF d
    <2>1. log' = Append(log, c) /\ canon' = Append(canon, d)
          /\ UNCHANGED <<db, applied, snapping, snap>>
      BY <1>1 DEF Grows, d
    <2>2. PICK S : canon \in Seq(S)
      OBVIOUS
    <2>3. canon \in Seq(S \cup {d})
      BY <2>2, SeqWidens
    <2>4. /\ canon' \in Seq(S \cup {d}) /\ Len(canon') = Len(canon) + 1
          /\ canon'[Len(canon) + 1] = d
          /\ \A i \in 1..Len(canon) : canon'[i] = canon[i]
      BY <2>1, <2>3, AppendProperties
    <2>5. /\ log' \in Seq(Command) /\ Len(log') = Len(log) + 1
          /\ log'[Len(log) + 1] = c
          /\ \A i \in 1..Len(log) : log'[i] = log[i]
      BY <2>1, AppendProperties
    <2>6. \A i \in 1..Len(log') : canon'[i + 1] = Apply(canon'[i], log'[i])
      <3> SUFFICES ASSUME NEW i \in 1..Len(log') PROVE canon'[i + 1] = Apply(canon'[i], log'[i])
        OBVIOUS
      <3>1. CASE i \in 1..Len(log)
        BY <3>1, <2>4, <2>5, <1>len
      <3>2. CASE i = Len(log) + 1
        <4>1. canon'[i + 1] = d /\ canon'[i] = canon[Len(canon)] /\ log'[i] = c
          BY <3>2, <2>4, <2>5, <1>len
        <4> QED
          BY <4>1 DEF d
      <3> QED
        BY <3>1, <3>2, <2>5, <1>len
    <2>8. \A n \in Node : /\ applied'[n] <= Len(log')
                          /\ snapping'[n] <= Len(log')
                          /\ snap'[n] = NoSnap \/ snap'[n].idx \in 0..Len(log')
      <3> SUFFICES ASSUME NEW n \in Node
                   PROVE  /\ applied[n] <= Len(log')
                          /\ snapping[n] <= Len(log')
                          /\ snap[n] = NoSnap \/ snap[n].idx \in 0..Len(log')
        BY <2>1
      <3>1. applied[n] <= Len(log')
        BY <2>5, <1>len
      <3>2. snapping[n] <= Len(log')
        <4>1. snapping[n] \in Nat \/ snapping[n] = -1
          BY DEF NoIndex
        <4>2. snapping[n] <= Len(log)
          OBVIOUS
        <4> QED
          BY <4>1, <4>2, <2>5, <1>len
      <3>3. ASSUME snap[n] # NoSnap PROVE snap[n].idx \in 0..Len(log')
        <4>1. snap[n].idx \in 0..Len(log)
          BY <3>3
        <4> QED
          BY <4>1, <2>5, <1>len
      <3> QED
        BY <3>1, <3>2, <3>3
    <2> QED
      BY <2>1, <2>4, <2>5, <2>6, <2>8
  <1>2. ASSUME NEW n \in Node, ApplyEntry(n) PROVE LogInv'
    <2> DEFINE a == applied[n] + 1
    <2>1. a \in 1..Len(log) /\ UNCHANGED <<log, canon, snapping, snap>>
          /\ applied' = [applied EXCEPT ![n] = a]
          /\ db' = [db EXCEPT ![n] = Apply(db[n], log[a])]
      BY <1>2, <1>len DEF ApplyEntry
    <2>2. db' = [m \in Node |-> db'[m]] /\ db'[n] = Apply(db[n], log[a])
          /\ \A m \in Node \ {n} : db'[m] = db[m]
      BY <2>1
    <2>3. applied' \in [Node -> Nat] /\ applied'[n] = a
          /\ \A m \in Node \ {n} : applied'[m] = applied[m]
      BY <2>1
    <2>6. \A m \in Node : applied'[m] <= Len(log')
      BY <2>1, <2>3
    <2> QED
      BY <2>1, <2>2, <2>3, <2>6
  <1>3. ASSUME NEW n \in Node, StartSnapshot(n) PROVE LogInv'
    <2>1. UNCHANGED <<log, canon, db, applied, snap>>
          /\ snapping' = [snapping EXCEPT ![n] = applied[n]]
      BY <1>3 DEF StartSnapshot
    <2>2. snapping' \in [Node -> Nat \cup {NoIndex}] /\ \A m \in Node : snapping'[m] <= Len(log')
      BY <2>1
    <2> QED
      BY <2>1, <2>2
  <1>4. ASSUME NEW n \in Node, PersistSnapshot(n) PROVE LogInv'
    <2>1. UNCHANGED <<log, canon, db, applied>>
          /\ snapping' = [snapping EXCEPT ![n] = NoIndex]
          /\ snapping[n] \in 0..Len(log)
      BY <1>4, <1>len DEF PersistSnapshot
    <2>2. /\ snap' = [m \in Node |-> snap'[m]]
          /\ \A m \in Node : snap'[m] = NoSnap \/ snap'[m].idx \in 0..Len(log)
      <3>1. CASE snap' = snap
        BY <3>1
      <3>2. CASE snap' = [snap EXCEPT ![n] = [idx |-> snapping[n], db |-> db[n]]]
        BY <3>2, <2>1
      <3> QED
        BY <1>4, <3>1, <3>2 DEF PersistSnapshot
    <2>4. snapping' \in [Node -> Nat \cup {NoIndex}] /\ \A m \in Node : snapping'[m] <= Len(log')
      BY <2>1, <1>len DEF NoIndex
    <2> QED
      BY <2>1, <2>2, <2>4
  <1>5. ASSUME NEW n \in Node, NEW m \in Node, InstallSnapshot(n, m) PROVE LogInv'
    <2>1. snap[m].idx \in 0..Len(log)
      BY <1>5, <1>len DEF InstallSnapshot, NoSnap, NoIndex
    <2>2. UNCHANGED <<log, canon, snapping>>
          /\ db' = [db EXCEPT ![n] = snap[m].db]
          /\ applied' = [applied EXCEPT ![n] = snap[m].idx]
          /\ snap' = [snap EXCEPT ![n] = snap[m]]
      BY <1>5 DEF InstallSnapshot
    <2>4. db' = [k \in Node |-> db'[k]] /\ snap' = [k \in Node |-> snap'[k]]
      BY <2>2
    <2>5. applied' \in [Node -> Nat]
          /\ \A k \in Node : /\ applied'[k] <= Len(log')
                             /\ snap'[k] = NoSnap \/ snap'[k].idx \in 0..Len(log')
      BY <2>1, <2>2, <1>len
    <2> QED
      BY <2>2, <2>4, <2>5
  <1>6. ASSUME NEW n \in Node, Restart(n) PROVE LogInv'
    <2> DEFINE start == IF snap[n] = NoSnap THEN 0 ELSE snap[n].idx
    <2>1. start \in 0..Len(log)
      BY <1>len
    <2>2. UNCHANGED <<log, canon, snap>>
          /\ applied' = [applied EXCEPT ![n] = start]
          /\ snapping' = [snapping EXCEPT ![n] = NoIndex]
          /\ db' = IF snap[n] = NoSnap THEN db ELSE [db EXCEPT ![n] = snap[n].db]
      BY <1>6 DEF Restart
    <2>3. /\ db' = [k \in Node |-> db'[k]]
          /\ \A k \in Node \ {n} : db'[k] = db[k]
      <3>1. CASE snap[n] = NoSnap
        BY <2>2, <3>1
      <3>2. CASE snap[n] # NoSnap
        BY <2>2, <3>2
      <3> QED
        BY <3>1, <3>2
    <2> HIDE DEF start
    <2>5. /\ applied' \in [Node -> Nat]
          /\ snapping' \in [Node -> Nat \cup {NoIndex}]
          /\ \A k \in Node : applied'[k] <= Len(log') /\ snapping'[k] <= Len(log')
      BY <2>1, <2>2, <1>len DEF NoIndex
    <2> QED
      BY <2>2, <2>3, <2>5
  <1>7. CASE UNCHANGED vars
    BY <1>7 DEF vars
  <1> QED
    BY <1>1, <1>2, <1>3, <1>4, <1>5, <1>6, <1>7 DEF Step

\* No snapshot is ahead of its node: what is being persisted, and what has been.
Behind ==
    /\ SnapshotsBehind
    /\ \A n \in Node : snap[n] # NoSnap => snap[n].idx <= applied[n]

\* A node whose index goes back, in a restart, has no snapshot under way any more, and
\* goes back no further than its last one.
LEMMA BehindStep ==
    ASSUME LogInv, Behind, Step
    PROVE  Behind'
  <1> USE DEF LogInv, Behind, SnapshotsBehind
  <1>1. \A n \in Node : /\ applied[n] \in Nat
                        /\ snapping[n] # NoIndex => snapping[n] \in Nat
                        /\ snap[n] # NoSnap => snap[n].idx \in Nat
    BY LenProperties
  <1>2. ASSUME NEW c \in Command, Grows(c)
        PROVE  Behind'
    BY <1>2 DEF Grows
  <1>3. ASSUME NEW n \in Node, ApplyEntry(n)
        PROVE  Behind'
    <2>1. /\ UNCHANGED <<snapping, snap>> /\ applied'[n] = applied[n] + 1
          /\ \A m \in Node \ {n} : applied'[m] = applied[m]
      BY <1>3 DEF ApplyEntry
    <2>2. ASSUME NEW m \in Node PROVE applied[m] <= applied'[m] /\ applied'[m] \in Nat
      <3>1. applied[m] \in Nat /\ applied'[m] \in {applied[m], applied[m] + 1}
        BY <1>1, <2>1
      <3> HIDE DEF LogInv, Behind, SnapshotsBehind
      <3> QED
        BY <3>1
    <2> QED
      BY <1>1, <2>1, <2>2
  <1>4. ASSUME NEW n \in Node, StartSnapshot(n)
        PROVE  Behind'
    BY <1>1, <1>4 DEF StartSnapshot
  <1>5. ASSUME NEW n \in Node, PersistSnapshot(n)
        PROVE  Behind'
    <2>1. /\ UNCHANGED applied /\ snapping'[n] = NoIndex
          /\ \A m \in Node \ {n} : snapping'[m] = snapping[m] /\ snap'[m] = snap[m]
          /\ snapping[n] # NoIndex
      BY <1>5 DEF PersistSnapshot
    <2>2. snap'[n] = snap[n] \/ snap'[n].idx = snapping[n]
      BY <1>5 DEF PersistSnapshot
    <2> QED
      BY <2>1, <2>2
  <1>6. ASSUME NEW n \in Node, NEW m \in Node, InstallSnapshot(n, m)
        PROVE  Behind'
    <2>1. /\ UNCHANGED snapping /\ snap'[n] = snap[m] /\ applied'[n] = snap[m].idx
          /\ \A q \in Node \ {n} : applied'[q] = applied[q] /\ snap'[q] = snap[q]
          /\ snap[m].idx > applied[n]
      BY <1>6 DEF InstallSnapshot
    <2>2. snap[m] # NoSnap
      BY <1>1, <2>1 DEF NoSnap, NoIndex
    <2>3. ASSUME NEW q \in Node, snapping[q] # NoIndex
          PROVE  snapping[q] <= applied'[q]
      <3>1. snapping[q] \in Nat /\ snapping[q] <= applied[q] /\ applied[q] \in Nat
        BY <1>1, <2>3
      <3>2. snap[m].idx \in Nat
        BY <1>1, <2>2
      <3>3. CASE q = n
        BY <2>1, <3>1, <3>2, <3>3
      <3>4. CASE q # n
        BY <2>1, <3>1, <3>4
      <3> QED
        BY <3>3, <3>4
    <2>4. \A q \in Node : snap'[q] # NoSnap => snap'[q].idx <= applied'[q]
      BY <1>1, <2>1, <2>2
    <2> QED
      BY <2>1, <2>3, <2>4
  <1>7. ASSUME NEW n \in Node, Restart(n)
        PROVE  Behind'
    <2>1. /\ UNCHANGED snap /\ snapping'[n] = NoIndex
          /\ applied'[n] = IF snap[n] = NoSnap THEN 0 ELSE snap[n].idx
          /\ \A q \in Node \ {n} : applied'[q] = applied[q] /\ snapping'[q] = snapping[q]
      BY <1>7 DEF Restart
    <2>2. snap[n] # NoSnap => snap[n].idx <= applied'[n]
      BY <1>1, <2>1
    <2>3. \A q \in Node : snapping'[q] # NoIndex => snapping'[q] <= applied'[q]
      BY <2>1
    <2>4. \A q \in Node : snap'[q] # NoSnap => snap'[q].idx <= applied'[q]
      BY <2>1, <2>2
    <2> QED
      BY <2>3, <2>4
  <1>8. CASE UNCHANGED vars
    BY <1>8 DEF vars
  <1> QED
    BY <1>2, <1>3, <1>4, <1>5, <1>6, <1>7, <1>8 DEF Step

-----------------------------------------------------------------------------
(* Commands and cells.                                                     *)

KeyedType(d) ==
    /\ d.lists \in [List -> ListRow]
    /\ d.toks \subseteq Tok
    /\ d.binds \subseteq Sched \X List
    /\ d.prof \in [Profile -> ProfRow]
    /\ d.gpause \in BOOLEAN

\* The fields a command has, by its kind.
LEMMA CommandFields ==
    ASSUME NEW c \in Command
    PROVE  /\ c.kind \in {"list.put", "list.set"} => c.list \in List /\ c.on \in BOOLEAN
           /\ c.kind = "list.delete" => c.list \in List
           /\ c.kind \in {"tok.put", "tok.delete"} => c.tok \in Tok
           /\ c.kind \in {"bind.put", "bind.delete"} => c.sched \in Sched /\ c.list \in List
           /\ c.kind = "import" => c.lists \in [List -> ListRow]
           /\ c.kind \in {"prof.put", "prof.delete", "pause.set", "pause.clear"}
                 => c.prof \in Profile
  BY DEF Command

\* Which commands can be refused, and that a refused one changes nothing.
LEMMA Acceptance ==
    ASSUME NEW d, NEW c
    PROVE  /\ c.kind = "list.set" => (Accepts(d, c) <=> d.lists[c.list] # "absent")
           /\ c.kind \in {"pause.set", "pause.clear"} =>
                 (Accepts(d, c) <=> d.prof[c.prof] # "absent")
           /\ c.kind = "prof.delete" => (Accepts(d, c) <=> c.prof # Default)
           /\ c.kind \notin {"list.set", "pause.set", "pause.clear", "prof.delete"} =>
                 Accepts(d, c)
  <1>1. CASE c.kind = "list.set"
    BY <1>1 DEF Accepts
  <1>2. CASE c.kind \in {"pause.set", "pause.clear"}
    BY <1>2 DEF Accepts
  <1>3. CASE c.kind = "prof.delete"
    BY <1>3 DEF Accepts
  <1>4. CASE c.kind \notin {"list.set", "pause.set", "pause.clear", "prof.delete"}
    BY <1>4 DEF Accepts
  <1> QED
    BY <1>1, <1>2, <1>3, <1>4

\* What an applied command makes of each field of a file.
LEMMA AcceptedFields ==
    ASSUME NEW d, NEW c
    PROVE  /\ Accepts(d, c) =>
                 /\ Apply(d, c).lists = ApplyLists(d.lists, c)
                 /\ Apply(d, c).toks = ApplyToks(d.toks, c)
                 /\ Apply(d, c).binds = ApplyBinds(d.binds, c)
                 /\ Apply(d, c).prof = ApplyProfiles(d.prof, c)
                 /\ Apply(d, c).gpause = ApplyGlobalPause(d.gpause, c)
           /\ ~Accepts(d, c) => Apply(d, c) = d
  BY DEF Apply, Effect

\* What a command does to the rows of blocklists, one by one ...
LEMMA ListsStep ==
    ASSUME NEW d, KeyedType(d), NEW c \in Command
    PROVE  /\ Apply(d, c).lists \in [List -> ListRow]
           /\ \A l \in List :
                /\ c.kind = "list.put" /\ c.list = l => Apply(d, c).lists[l] = Row(c.on)
                /\ c.kind = "list.delete" /\ c.list = l => Apply(d, c).lists[l] = "absent"
                /\ c.kind = "import" => Apply(d, c).lists[l] = c.lists[l]
                /\ c.kind = "list.set" /\ c.list = l =>
                      Apply(d, c).lists[l] = IF d.lists[l] = "absent" THEN "absent" ELSE Row(c.on)
                /\ \/ c.kind \notin {"list.put", "list.set", "list.delete", "import"}
                   \/ c.kind \in {"list.put", "list.set", "list.delete"} /\ c.list # l
                   => Apply(d, c).lists[l] = d.lists[l]
  <1>0. d.lists \in [List -> ListRow]
    BY DEF KeyedType
  <1>r. \A b \in BOOLEAN : Row(b) \in ListRow /\ Row(b) # "absent"
    BY DEF Row, ListRow
  <1>1. CASE c.kind \in {"list.put", "list.set"} /\ Accepts(d, c)
    <2>1. Apply(d, c).lists = [d.lists EXCEPT ![c.list] = Row(c.on)]
      BY <1>1, AcceptedFields DEF ApplyLists
    <2>2. c.list \in List /\ Row(c.on) \in ListRow
      BY <1>1, <1>r, CommandFields
    <2>3. c.kind = "list.set" => d.lists[c.list] # "absent"
      BY <1>1, Acceptance
    <2>4. Apply(d, c).lists \in [List -> ListRow]
      BY <1>0, <2>1, <2>2
    <2>5. \A l \in List : Apply(d, c).lists[l] = IF l = c.list THEN Row(c.on) ELSE d.lists[l]
      BY <1>0, <2>1, <2>2
    <2>6. CASE c.kind = "list.put"
      BY <2>4, <2>5, <2>6
    <2>7. CASE c.kind = "list.set"
      BY <2>3, <2>4, <2>5, <2>7
    <2> QED
      BY <1>1, <2>6, <2>7
  <1>2. CASE c.kind = "list.set" /\ ~Accepts(d, c)
    <2>1. Apply(d, c).lists = d.lists /\ d.lists[c.list] = "absent"
      BY <1>2, AcceptedFields, Acceptance
    <2> QED
      BY <1>0, <1>2, <2>1
  <1>3. CASE c.kind = "list.delete"
    <2>1. ApplyLists(d.lists, c) = [d.lists EXCEPT ![c.list] = "absent"]
      BY <1>3 DEF ApplyLists
    <2>2. Accepts(d, c)
      BY <1>3, Acceptance
    <2>3. Apply(d, c).lists = [d.lists EXCEPT ![c.list] = "absent"]
      BY <2>1, <2>2, AcceptedFields
    <2> QED
      BY <1>0, <1>3, <2>3, CommandFields DEF ListRow
  <1>4. CASE c.kind = "import"
    <2>1. ApplyLists(d.lists, c) = c.lists
      BY <1>4 DEF ApplyLists
    <2>2. Apply(d, c).lists = c.lists
      BY <1>4, <2>1, AcceptedFields, Acceptance
    <2> QED
      BY <1>4, <2>2, CommandFields
  <1>5. CASE c.kind \notin {"list.put", "list.set", "list.delete", "import"}
    <2>1. ApplyLists(d.lists, c) = d.lists
      BY <1>5 DEF ApplyLists
    <2>2. Apply(d, c).lists = d.lists
      BY <2>1, AcceptedFields
    <2> QED
      BY <1>0, <1>5, <2>2
  <1>6. c.kind = "list.put" => Accepts(d, c)
    BY Acceptance
  <1> QED
    BY <1>1, <1>2, <1>3, <1>4, <1>5, <1>6

\* ... to tokens ...
LEMMA ToksStep ==
    ASSUME NEW d, KeyedType(d), NEW c \in Command
    PROVE  /\ Apply(d, c).toks \subseteq Tok
           /\ \A t \in Tok : t \in Apply(d, c).toks <=>
                 \/ c.kind = "tok.put" /\ c.tok = t
                 \/ t \in d.toks /\ ~(c.kind = "tok.delete" /\ c.tok = t)
  <1>0. d.toks \subseteq Tok
    BY DEF KeyedType
  <1>1. CASE c.kind = "tok.put"
    <2>0. ApplyToks(d.toks, c) = d.toks \cup {c.tok} /\ Accepts(d, c)
      BY <1>1, Acceptance DEF ApplyToks
    <2>1. Apply(d, c).toks = d.toks \cup {c.tok}
      BY <2>0, AcceptedFields
    <2> QED
      BY <1>0, <1>1, <2>1, CommandFields
  <1>2. CASE c.kind = "tok.delete"
    <2>0. ApplyToks(d.toks, c) = d.toks \ {c.tok} /\ Accepts(d, c)
      BY <1>2, Acceptance DEF ApplyToks
    <2>1. Apply(d, c).toks = d.toks \ {c.tok}
      BY <2>0, AcceptedFields
    <2> QED
      BY <1>0, <1>2, <2>1
  <1>3. CASE c.kind \notin {"tok.put", "tok.delete"}
    <2>1. ApplyToks(d.toks, c) = d.toks
      BY <1>3 DEF ApplyToks
    <2>2. Apply(d, c).toks = d.toks
      BY <2>1, AcceptedFields
    <2> QED
      BY <1>0, <1>3, <2>2
  <1> QED
    BY <1>1, <1>2, <1>3

\* ... to bindings ...
LEMMA BindsStep ==
    ASSUME NEW d, KeyedType(d), NEW c \in Command
    PROVE  /\ Apply(d, c).binds \subseteq Sched \X List
           /\ \A s \in Sched, l \in List : <<s, l>> \in Apply(d, c).binds <=>
                 \/ c.kind = "bind.put" /\ c.sched = s /\ c.list = l
                 \/ /\ <<s, l>> \in d.binds
                    /\ ~(c.kind = "bind.delete" /\ c.sched = s /\ c.list = l)
                    /\ ~(c.kind = "sched.delete" /\ c.sched = s)
  <1>0. d.binds \subseteq Sched \X List
    BY DEF KeyedType
  <1>1. CASE c.kind = "bind.put"
    <2>0. ApplyBinds(d.binds, c) = d.binds \cup {<<c.sched, c.list>>} /\ Accepts(d, c)
      BY <1>1, Acceptance DEF ApplyBinds
    <2>1. Apply(d, c).binds = d.binds \cup {<<c.sched, c.list>>}
      BY <2>0, AcceptedFields
    <2> QED
      BY <1>0, <1>1, <2>1, CommandFields
  <1>2. CASE c.kind = "bind.delete"
    <2>0. ApplyBinds(d.binds, c) = d.binds \ {<<c.sched, c.list>>} /\ Accepts(d, c)
      BY <1>2, Acceptance DEF ApplyBinds
    <2>1. Apply(d, c).binds = d.binds \ {<<c.sched, c.list>>}
      BY <2>0, AcceptedFields
    <2> QED
      BY <1>0, <1>2, <2>1
  <1>3. CASE c.kind = "sched.delete"
    <2>0. ApplyBinds(d.binds, c) = {b \in d.binds : b[1] # c.sched} /\ Accepts(d, c)
      BY <1>3, Acceptance DEF ApplyBinds
    <2>1. Apply(d, c).binds = {b \in d.binds : b[1] # c.sched}
      BY <2>0, AcceptedFields
    <2> QED
      BY <1>0, <1>3, <2>1
  <1>4. CASE c.kind \notin {"bind.put", "bind.delete", "sched.delete"}
    <2>1. ApplyBinds(d.binds, c) = d.binds
      BY <1>4 DEF ApplyBinds
    <2>2. Apply(d, c).binds = d.binds
      BY <2>1, AcceptedFields
    <2> QED
      BY <1>0, <1>4, <2>2
  <1> QED
    BY <1>1, <1>2, <1>3, <1>4

\* ... to profiles and their pauses ...
LEMMA ProfilesStep ==
    ASSUME NEW d, KeyedType(d), NEW c \in Command
    PROVE  /\ Apply(d, c).prof \in [Profile -> ProfRow]
           /\ \A p \in Profile :
                /\ c.kind = "prof.put" /\ c.prof = p => Apply(d, c).prof[p] = "active"
                /\ c.kind = "prof.delete" /\ c.prof = p /\ p # Default =>
                      Apply(d, c).prof[p] = "absent"
                /\ c.kind = "pause.set" /\ c.prof = p =>
                      Apply(d, c).prof[p] = IF d.prof[p] = "absent" THEN "absent" ELSE "paused"
                /\ c.kind = "pause.clear" /\ c.prof = p =>
                      Apply(d, c).prof[p] = IF d.prof[p] = "absent" THEN "absent" ELSE "active"
                /\ \/ c.kind \notin {"prof.put", "prof.delete", "pause.set", "pause.clear"}
                   \/ /\ c.kind \in {"prof.put", "prof.delete", "pause.set", "pause.clear"}
                      /\ c.prof # p
                   \/ c.kind = "prof.delete" /\ c.prof = Default
                   => Apply(d, c).prof[p] = d.prof[p]
  <1>0. d.prof \in [Profile -> ProfRow]
    BY DEF KeyedType
  <1>1. CASE c.kind = "prof.put"
    <2>1. ApplyProfiles(d.prof, c) = [d.prof EXCEPT ![c.prof] = "active"]
      BY <1>1 DEF ApplyProfiles
    <2>2. Apply(d, c).prof = [d.prof EXCEPT ![c.prof] = "active"]
      BY <1>1, <2>1, AcceptedFields, Acceptance
    <2> QED
      BY <1>0, <1>1, <2>2, CommandFields DEF ProfRow
  <1>2. CASE c.kind = "pause.clear" /\ Accepts(d, c)
    <2>1. ApplyProfiles(d.prof, c) = [d.prof EXCEPT ![c.prof] = "active"]
      BY <1>2 DEF ApplyProfiles
    <2>2. Apply(d, c).prof = [d.prof EXCEPT ![c.prof] = "active"] /\ d.prof[c.prof] # "absent"
      BY <1>2, <2>1, AcceptedFields, Acceptance
    <2> QED
      BY <1>0, <1>2, <2>2, CommandFields DEF ProfRow
  <1>3. CASE c.kind = "pause.set" /\ Accepts(d, c)
    <2>1. ApplyProfiles(d.prof, c) = [d.prof EXCEPT ![c.prof] = "paused"]
      BY <1>3 DEF ApplyProfiles
    <2>2. Apply(d, c).prof = [d.prof EXCEPT ![c.prof] = "paused"] /\ d.prof[c.prof] # "absent"
      BY <1>3, <2>1, AcceptedFields, Acceptance
    <2> QED
      BY <1>0, <1>3, <2>2, CommandFields DEF ProfRow
  <1>4. CASE c.kind \in {"pause.set", "pause.clear"} /\ ~Accepts(d, c)
    <2>1. Apply(d, c).prof = d.prof /\ d.prof[c.prof] = "absent"
      BY <1>4, AcceptedFields, Acceptance
    <2> QED
      BY <1>0, <1>4, <2>1
  <1>5. CASE c.kind = "prof.delete" /\ Accepts(d, c)
    <2>1. ApplyProfiles(d.prof, c) = [d.prof EXCEPT ![c.prof] = "absent"]
      BY <1>5 DEF ApplyProfiles
    <2>2. Apply(d, c).prof = [d.prof EXCEPT ![c.prof] = "absent"] /\ c.prof # Default
      BY <1>5, <2>1, AcceptedFields, Acceptance
    <2> QED
      BY <1>0, <1>5, <2>2, CommandFields DEF ProfRow
  <1>6. CASE c.kind = "prof.delete" /\ ~Accepts(d, c)
    <2>1. Apply(d, c).prof = d.prof /\ c.prof = Default
      BY <1>6, AcceptedFields, Acceptance
    <2> QED
      BY <1>0, <1>6, <2>1
  <1>7. CASE c.kind \notin {"prof.put", "prof.delete", "pause.set", "pause.clear"}
    <2>1. ApplyProfiles(d.prof, c) = d.prof
      BY <1>7 DEF ApplyProfiles
    <2>2. Apply(d, c).prof = d.prof
      BY <2>1, AcceptedFields
    <2> QED
      BY <1>0, <1>7, <2>2
  <1> QED
    BY <1>1, <1>2, <1>3, <1>4, <1>5, <1>6, <1>7

\* ... and to the pause of everything.
LEMMA GlobalPauseStep ==
    ASSUME NEW d, KeyedType(d), NEW c \in Command
    PROVE  /\ Apply(d, c).gpause \in BOOLEAN
           /\ Apply(d, c).gpause <=>
                 \/ c.kind = "gpause.set"
                 \/ d.gpause /\ c.kind \notin {"gpause.clear", "import"}
  <1>0. d.gpause \in BOOLEAN
    BY DEF KeyedType
  <1>1. CASE c.kind = "gpause.set"
    <2>1. ApplyGlobalPause(d.gpause, c) = TRUE
      BY <1>1 DEF ApplyGlobalPause
    <2>2. Apply(d, c).gpause = TRUE
      BY <1>1, <2>1, AcceptedFields, Acceptance
    <2> QED
      BY <1>1, <2>2
  <1>2. CASE c.kind \in {"gpause.clear", "import"}
    <2>1. ApplyGlobalPause(d.gpause, c) = FALSE
      BY <1>2 DEF ApplyGlobalPause
    <2>2. Apply(d, c).gpause = FALSE
      BY <1>2, <2>1, AcceptedFields, Acceptance
    <2> QED
      BY <1>2, <2>2
  <1>3. CASE c.kind \notin {"gpause.set", "gpause.clear", "import"}
    <2>1. ApplyGlobalPause(d.gpause, c) = d.gpause
      BY <1>3 DEF ApplyGlobalPause
    <2>2. Apply(d, c).gpause = d.gpause
      BY <2>1, AcceptedFields
    <2> QED
      BY <1>0, <1>3, <2>2
  <1> QED
    BY <1>1, <1>2, <1>3

\* So the keyed part of a file keeps its type.
LEMMA KeyedTypeStep ==
    ASSUME NEW d, KeyedType(d), NEW c \in Command
    PROVE  KeyedType(Apply(d, c))
  BY ListsStep, ToksStep, BindsStep, ProfilesStep, GlobalPauseStep DEF KeyedType

\* The fields a key has.
LEMMA KeyFields ==
    ASSUME NEW k \in Key
    PROVE  /\ k.of \in {"list", "tok", "bind", "prof", "gpause"}
           /\ k.of = "list" => k.list \in List
           /\ k.of = "tok" => k.tok \in Tok
           /\ k.of = "bind" => k.sched \in Sched /\ k.list \in List
           /\ k.of = "prof" => k.prof \in Profile
  BY DEF Key

\* A command writes a cell outright, or writes it if it is there, or not at all.
LEMMA CellStep ==
    ASSUME NEW d, KeyedType(d), NEW e, KeyedType(e), NEW c \in Command, NEW k \in Key
    PROVE  /\ Overwrites(c, k) => Cell(Apply(d, c), k) = Cell(Apply(e, c), k)
           /\ Sets(c, k) =>
                 /\ Cell(Apply(d, c), k) = "absent" <=> Cell(d, k) = "absent"
                 /\ (Cell(d, k) = "absent" <=> Cell(e, k) = "absent") =>
                       Cell(Apply(d, c), k) = Cell(Apply(e, c), k)
           /\ ~Overwrites(c, k) /\ ~Sets(c, k) => Cell(Apply(d, c), k) = Cell(d, k)
           /\ ~(Overwrites(c, k) /\ Sets(c, k))
  <1>1. CASE k.of = "list"
    <2>1. k.list \in List /\ \A b \in BOOLEAN : Row(b) # "absent"
      BY <1>1, KeyFields DEF Row
    <2>2. \A x : Cell(x, k) = x.lists[k.list]
      BY <1>1 DEF Cell
    <2>3. /\ Overwrites(c, k) <=> \/ c.kind \in {"list.put", "list.delete"} /\ c.list = k.list
                                  \/ c.kind = "import"
          /\ Sets(c, k) <=> c.kind = "list.set" /\ c.list = k.list
      BY <1>1 DEF Overwrites, Sets
    <2> QED
      BY <2>1, <2>2, <2>3, ListsStep, CommandFields
  <1>2. CASE k.of = "tok"
    <2>1. k.tok \in Tok
      BY <1>2, KeyFields
    <2>2. \A x : Cell(x, k) = IF k.tok \in x.toks THEN "present" ELSE "absent"
      BY <1>2 DEF Cell
    <2>3. /\ Overwrites(c, k) <=> c.kind \in {"tok.put", "tok.delete"} /\ c.tok = k.tok
          /\ ~Sets(c, k)
      BY <1>2 DEF Overwrites, Sets
    <2> QED
      BY <2>1, <2>2, <2>3, ToksStep
  <1>3. CASE k.of = "bind"
    <2>1. k.sched \in Sched /\ k.list \in List
      BY <1>3, KeyFields
    <2>2. \A x : Cell(x, k) = IF <<k.sched, k.list>> \in x.binds THEN "present" ELSE "absent"
      BY <1>3 DEF Cell
    <2>3. /\ Overwrites(c, k) <=>
                \/ /\ c.kind \in {"bind.put", "bind.delete"}
                   /\ c.sched = k.sched /\ c.list = k.list
                \/ c.kind = "sched.delete" /\ c.sched = k.sched
          /\ ~Sets(c, k)
      BY <1>3 DEF Overwrites, Sets
    <2> QED
      BY <2>1, <2>2, <2>3, BindsStep
  <1>4. CASE k.of = "prof"
    <2>1. k.prof \in Profile
      BY <1>4, KeyFields
    <2>2. \A x : Cell(x, k) = x.prof[k.prof]
      BY <1>4 DEF Cell
    <2>3. /\ Overwrites(c, k) <=>
                \/ c.kind = "prof.put" /\ c.prof = k.prof
                \/ c.kind = "prof.delete" /\ c.prof = k.prof /\ c.prof # Default
          /\ Sets(c, k) <=> c.kind \in {"pause.set", "pause.clear"} /\ c.prof = k.prof
      BY <1>4 DEF Overwrites, Sets
    <2> QED
      BY <2>1, <2>2, <2>3, ProfilesStep
  <1>5. CASE k.of = "gpause"
    <2>1. \A x : Cell(x, k) = IF x.gpause THEN "present" ELSE "absent"
      BY <1>5 DEF Cell
    <2>2. /\ Overwrites(c, k) <=> c.kind \in {"gpause.set", "gpause.clear", "import"}
          /\ ~Sets(c, k)
      BY <1>5 DEF Overwrites, Sets
    <2> QED
      BY <2>1, <2>2, GlobalPauseStep
  <1> QED
    BY <1>1, <1>2, <1>3, <1>4, <1>5, KeyFields

-----------------------------------------------------------------------------
(* Files and the log.                                                      *)

FilesTyped ==
    /\ \A i \in 1..Len(canon) : KeyedType(canon[i])
    /\ \A n \in Node : /\ KeyedType(db[n])
                       /\ snap[n] # NoSnap => KeyedType(snap[n].db)

ConvergeInv == LogInv /\ Behind /\ FilesTyped /\ FilesExplained

\* An empty file has nothing to explain.
LEMMA EmptyFile == KeyedType(EmptyDb)
  BY DEF KeyedType, EmptyDb, ListRow, ProfRow

\* Empty files differ in no cell.
LEMMA ConvergeInit ==
    ASSUME Standalone = {}
    PROVE  Init => ConvergeInv
  <1> SUFFICES ASSUME Init PROVE ConvergeInv
    OBVIOUS
  <1>1. LogInv
    BY LogInit
  <1>2. \A n \in Node : db[n] = EmptyDb /\ applied[n] = 0 /\ snap[n] = NoSnap
                        /\ snapping[n] = NoIndex
    BY DEF Init, OwnDb
  <1>3. Len(canon) = 1 /\ canon[1] = EmptyDb
    BY DEF Init
  <1>4. FilesTyped
    BY <1>2, <1>3, EmptyFile DEF FilesTyped
  <1>5. FilesExplained
    <2> SUFFICES ASSUME NEW n \in Node, NEW k \in Key, NEW i \in 0..applied[n]
                 PROVE  Explained(canon, log, db[n], i, k)
      BY <1>2 DEF FilesExplained
    <2>1. i = 0 /\ db[n] = canon[i + 1]
      BY <1>2, <1>3
    <2> QED
      BY <2>1 DEF Explained
  <1> QED
    BY <1>1, <1>2, <1>4, <1>5 DEF ConvergeInv, Behind, SnapshotsBehind

\* The heart of it: applying the next entry to an explained file leaves it
\* explained, at the new index and at all before.
LEMMA AdvanceFile ==
    ASSUME LogInv, FilesTyped, NEW d, KeyedType(d), NEW k \in Key,
           NEW a \in Nat, a + 1 \in 1..Len(log),
           \A i \in 0..a : Explained(canon, log, d, i, k)
    PROVE  \A i \in 0..(a + 1) : Explained(canon, log, Apply(d, log[a + 1]), i, k)
  <1> DEFINE c == log[a + 1]
             new == Apply(d, c)
             truth == canon[a + 1]
  <1>1. Len(log) \in Nat /\ Len(canon) = Len(log) + 1
    BY LenProperties DEF LogInv
  <1>2. c \in Command
    BY <1>1 DEF LogInv
  <1>3. canon[a + 2] = Apply(truth, c) /\ KeyedType(truth)
    <2>1. a + 1 \in 1..Len(canon) /\ (a + 1) + 1 = a + 2
      BY <1>1
    <2> QED
      BY <2>1 DEF LogInv, FilesTyped
  <1>4. /\ Overwrites(c, k) => Cell(new, k) = Cell(canon[a + 2], k)
        /\ Sets(c, k) =>
              /\ Cell(new, k) = "absent" <=> Cell(d, k) = "absent"
              /\ Cell(canon[a + 2], k) = "absent" <=> Cell(truth, k) = "absent"
              /\ (Cell(d, k) = "absent" <=> Cell(truth, k) = "absent") =>
                    Cell(new, k) = Cell(canon[a + 2], k)
        /\ ~Overwrites(c, k) /\ ~Sets(c, k) =>
              Cell(new, k) = Cell(d, k) /\ Cell(canon[a + 2], k) = Cell(truth, k)
        /\ ~(Overwrites(c, k) /\ Sets(c, k))
    BY <1>2, <1>3, CellStep
  <1> HIDE DEF new, c, truth
  <1>5. ASSUME NEW i \in 0..a
        PROVE  Explained(canon, log, new, i, k)
    <2>1. Explained(canon, log, d, i, k)
      OBVIOUS
    <2>2. a + 1 \in (i + 1)..Len(log) /\ log[a + 1] = c
      BY <1>1 DEF c
    <2>3. CASE Overwrites(c, k)
      BY <2>2, <2>3 DEF Explained
    <2>4. CASE Sets(c, k)
      <3>1. Cell(new, k) = "absent" <=> Cell(d, k) = "absent"
        BY <1>4, <2>4
      <3>2. \E j \in (i + 1)..Len(log) : Overwrites(log[j], k) \/ Sets(log[j], k)
        BY <2>2, <2>4
      <3>3. (Cell(new, k) = "absent") # (Cell(canon[i + 1], k) = "absent")
               => (Cell(d, k) = "absent") # (Cell(canon[i + 1], k) = "absent")
        BY <3>1
      <3> QED
        BY <2>1, <3>2, <3>3 DEF Explained
    <2>5. CASE ~Overwrites(c, k) /\ ~Sets(c, k)
      <3>1. Cell(new, k) = Cell(d, k)
        BY <1>4, <2>5
      <3> QED
        BY <2>1, <3>1 DEF Explained
    <2> QED
      BY <2>3, <2>4, <2>5
  <1>6. Explained(canon, log, new, a + 1, k)
    <2>1. Explained(canon, log, d, a, k)
      OBVIOUS
    <2>2. (a + 1) + 1 = a + 2
      OBVIOUS
    <2>3. ASSUME NEW j \in (a + 1)..Len(log), log[j] # c
          PROVE  j \in (a + 2)..Len(log)
      BY <1>1, <2>3 DEF c
    <2>4. CASE Overwrites(c, k)
      BY <1>4, <2>2, <2>4 DEF Explained
    <2>5. CASE Sets(c, k) /\ (Cell(d, k) = "absent" <=> Cell(truth, k) = "absent")
      BY <1>4, <2>2, <2>5 DEF Explained
    <2>6. CASE Sets(c, k) /\ ~(Cell(d, k) = "absent" <=> Cell(truth, k) = "absent")
      <3>1. PICK j \in (a + 1)..Len(log) : Overwrites(log[j], k)
        BY <2>1, <2>6 DEF Explained, truth
      <3>2. j \in (a + 2)..Len(log)
        BY <1>4, <2>3, <2>6, <3>1
      <3> QED
        BY <2>2, <3>1, <3>2 DEF Explained
    <2>7. CASE ~Overwrites(c, k) /\ ~Sets(c, k)
      <3>1. Cell(new, k) = Cell(d, k) /\ Cell(canon[a + 2], k) = Cell(truth, k)
        BY <1>4, <2>7
      <3>2. ASSUME Cell(d, k) # Cell(truth, k)
            PROVE  \E j \in (a + 2)..Len(log) : Overwrites(log[j], k) \/ Sets(log[j], k)
        <4>1. PICK j \in (a + 1)..Len(log) : Overwrites(log[j], k) \/ Sets(log[j], k)
          BY <2>1, <3>2 DEF Explained, truth
        <4>2. j \in (a + 2)..Len(log)
          BY <2>3, <2>7, <4>1
        <4> QED
          BY <4>1, <4>2
      <3>3. ASSUME (Cell(d, k) = "absent") # (Cell(truth, k) = "absent")
            PROVE  \E j \in (a + 2)..Len(log) : Overwrites(log[j], k)
        <4>1. PICK j \in (a + 1)..Len(log) : Overwrites(log[j], k)
          BY <2>1, <3>3 DEF Explained, truth
        <4>2. j \in (a + 2)..Len(log)
          BY <2>3, <2>7, <4>1
        <4> QED
          BY <4>1, <4>2
      <3> QED
        BY <2>2, <3>1, <3>2, <3>3 DEF Explained
    <2> QED
      BY <2>4, <2>5, <2>6, <2>7
  <1> QED
    <2>1. \A i \in 0..(a + 1) : i = a + 1 \/ i \in 0..a
      OBVIOUS
    <2> QED
      BY <1>5, <1>6, <2>1 DEF new, c

\* What is explained stays so when the log grows.
LEMMA ExplainedGrows ==
    ASSUME LogInv, NEW c \in Command, Grows(c), NEW d, NEW k,
           NEW i \in 0..Len(log), Explained(canon, log, d, i, k)
    PROVE  Explained(canon', log', d, i, k)
  <1>1. Len(log) \in Nat /\ Len(canon) = Len(log) + 1
    BY LenProperties DEF LogInv
  <1>2. Len(log') = Len(log) + 1 /\ \A j \in 1..Len(log) : log'[j] = log[j]
    BY AppendProperties DEF LogInv, Grows
  <1>3. LogInv'
    BY LogNext DEF Step
  <1>4. canon'[i + 1] = canon[i + 1]
    <2> DEFINE x == Apply(canon[Len(canon)], c)
    <2>1. canon' = Append(canon, x)
      BY DEF Grows
    <2> HIDE DEF x
    <2>2. PICK S : canon \in Seq(S)
      BY DEF LogInv
    <2>3. canon \in Seq(S \cup {x})
      BY <2>2, SeqWidens
    <2>4. \A j \in 1..Len(canon) : canon'[j] = canon[j]
      BY <2>1, <2>3, AppendProperties
    <2>5. i + 1 \in 1..Len(canon)
      BY <1>1
    <2> QED
      BY <2>4, <2>5
  <1>5. \A j \in (i + 1)..Len(log) : j \in (i + 1)..Len(log') /\ log'[j] = log[j]
    BY <1>1, <1>2
  <1> QED
    BY <1>4, <1>5 DEF Explained

\* A committed command's outcome is a well formed file.
LEMMA TypedGrows ==
    ASSUME LogInv, FilesTyped, NEW c \in Command, Grows(c)
    PROVE  \A i \in 1..Len(canon') : KeyedType(canon'[i])
  <1>1. LogInv'
    BY LogNext DEF Step
  <1>2. Len(log) \in Nat /\ Len(canon) = Len(log) + 1
    BY LenProperties DEF LogInv
  <1> DEFINE x == Apply(canon[Len(canon)], c)
  <1>3. canon' = Append(canon, x)
    BY DEF Grows
  <1>4. KeyedType(x)
    <2>1. c \in Command /\ Len(canon) \in 1..Len(canon)
      BY <1>2, ReplAssumption
    <2> QED
      BY <2>1, KeyedTypeStep DEF FilesTyped
  <1> HIDE DEF x
  <1>5. PICK S : canon \in Seq(S)
    BY DEF LogInv
  <1>6. canon \in Seq(S \cup {x})
    BY <1>5, SeqWidens
  <1>7. /\ Len(canon') = Len(canon) + 1 /\ canon'[Len(canon) + 1] = x
        /\ \A j \in 1..Len(canon) : canon'[j] = canon[j]
    BY <1>3, <1>6, AppendProperties
  <1>8. \A i \in 1..Len(canon') : i \in 1..Len(canon) \/ i = Len(canon) + 1
    BY <1>2, <1>7
  <1> QED
    BY <1>4, <1>7, <1>8 DEF FilesTyped

\* Every step keeps every file explained.
LEMMA ConvergeNext == ConvergeInv /\ Step => ConvergeInv'
  <1> SUFFICES ASSUME ConvergeInv, Step
               PROVE  FilesTyped' /\ FilesExplained'
    BY LogNext, BehindStep DEF ConvergeInv
  <1>1. LogInv /\ SnapshotsBehind /\ FilesTyped /\ FilesExplained /\ LogInv'
    BY LogNext DEF ConvergeInv, Behind
  <1>2. Len(log) \in Nat /\ \A n \in Node : applied[n] \in Nat /\ applied[n] <= Len(log)
    BY <1>1, LenProperties DEF LogInv
  <1>s. \A n \in Node : snap[n] # NoSnap => snap[n].idx \in 0..Len(log)
    BY <1>1 DEF LogInv
  <1>3. ASSUME NEW c \in Command, Grows(c)
        PROVE  FilesTyped' /\ FilesExplained'
    <2>1. UNCHANGED <<db, applied, snapping, snap>>
      BY <1>3 DEF Grows
    <2>3. FilesTyped'
      BY <1>1, <1>3, <2>1, TypedGrows DEF FilesTyped
    <2>4. ASSUME NEW n \in Node, NEW k \in Key, NEW i \in 0..applied[n]
          PROVE  Explained(canon', log', db[n], i, k)
      <3>1. i \in 0..Len(log) /\ Explained(canon, log, db[n], i, k)
        BY <1>1, <1>2 DEF FilesExplained
      <3> QED
        BY <1>1, <1>3, <3>1, ExplainedGrows
    <2>5. ASSUME NEW n \in Node, NEW k \in Key, snap[n] # NoSnap, NEW i \in 0..snap[n].idx
          PROVE  Explained(canon', log', snap[n].db, i, k)
      <3>1. i \in 0..Len(log) /\ Explained(canon, log, snap[n].db, i, k)
        BY <1>1, <1>2, <1>s, <2>5 DEF FilesExplained
      <3> QED
        BY <1>1, <1>3, <3>1, ExplainedGrows
    <2> QED
      BY <2>1, <2>3, <2>4, <2>5 DEF FilesExplained
  <1>4. ASSUME NEW n \in Node, ApplyEntry(n)
        PROVE  FilesTyped' /\ FilesExplained'
    <2>1. PICK a \in Nat : a = applied[n]
      BY <1>2
    <2>2. /\ a + 1 \in 1..Len(log) /\ UNCHANGED <<log, canon, snapping, snap>>
          /\ applied' = [applied EXCEPT ![n] = a + 1]
          /\ db' = [db EXCEPT ![n] = Apply(db[n], log[a + 1])]
      BY <1>2, <1>4, <2>1 DEF ApplyEntry
    <2>3. /\ applied'[n] = a + 1 /\ \A m \in Node \ {n} : applied'[m] = applied[m]
          /\ db'[n] = Apply(db[n], log[a + 1]) /\ \A m \in Node \ {n} : db'[m] = db[m]
      BY <1>1, <2>2 DEF LogInv
    <2>5. FilesTyped'
      <3>1. log[a + 1] \in Command
        BY <1>1, <2>2, ReplAssumption DEF LogInv
      <3>2. KeyedType(db'[n])
        BY <1>1, <2>3, <3>1, KeyedTypeStep DEF FilesTyped
      <3> QED
        BY <1>1, <2>2, <2>3, <3>2 DEF FilesTyped
    <2>6. ASSUME NEW k \in Key
          PROVE  \A i \in 0..(a + 1) : Explained(canon, log, Apply(db[n], log[a + 1]), i, k)
      <3>1. KeyedType(db[n]) /\ \A i \in 0..a : Explained(canon, log, db[n], i, k)
        BY <1>1, <2>1 DEF FilesTyped, FilesExplained
      <3> QED
        BY <1>1, <2>2, <3>1, AdvanceFile
    <2>7. FilesExplained'
      <3>1. ASSUME NEW m \in Node, NEW k \in Key, NEW i \in 0..applied'[m]
            PROVE  Explained(canon, log, db'[m], i, k)
        BY <1>1, <2>3, <2>6, <3>1 DEF FilesExplained
      <3> QED
        BY <1>1, <2>2, <3>1 DEF FilesExplained
    <2> QED
      BY <2>5, <2>7
  <1>5. ASSUME NEW n \in Node, StartSnapshot(n)
        PROVE  FilesTyped' /\ FilesExplained'
    <2>1. UNCHANGED <<log, canon, db, applied, snap>>
          /\ snapping' = [snapping EXCEPT ![n] = applied[n]]
      BY <1>5 DEF StartSnapshot
    <2> QED
      BY <1>1, <2>1 DEF FilesTyped, FilesExplained
  <1>6. ASSUME NEW n \in Node, PersistSnapshot(n)
        PROVE  FilesTyped' /\ FilesExplained'
    <2> DEFINE copy == [idx |-> snapping[n], db |-> db[n]]
    <2>1. UNCHANGED <<log, canon, db, applied>> /\ snapping[n] # NoIndex
          /\ snapping' = [snapping EXCEPT ![n] = NoIndex]
      BY <1>6 DEF PersistSnapshot
    <2>2. snapping[n] \in Nat /\ snapping[n] <= applied[n]
      BY <1>1, <2>1 DEF SnapshotsBehind, LogInv
    <2>3. \A m \in Node : snap'[m] = snap[m] \/ (m = n /\ snap'[m] = copy)
      <3>1. CASE snap' = snap
        BY <3>1
      <3>2. CASE snap' = [snap EXCEPT ![n] = copy]
        BY <1>1, <3>2 DEF LogInv
      <3> QED
        BY <1>6, <3>1, <3>2 DEF PersistSnapshot
    <2>5. FilesTyped'
      BY <1>1, <2>1, <2>3 DEF FilesTyped
    <2>6. ASSUME NEW m \in Node, NEW k \in Key, snap'[m] # NoSnap, NEW i \in 0..snap'[m].idx
          PROVE  Explained(canon, log, snap'[m].db, i, k)
      <3>1. CASE snap'[m] = snap[m]
        BY <1>1, <2>6, <3>1 DEF FilesExplained
      <3>2. CASE m = n /\ snap'[m] = copy
        <4>1. i \in 0..applied[n]
          BY <1>2, <2>2, <2>6, <3>2
        <4> QED
          BY <1>1, <3>2, <4>1 DEF FilesExplained
      <3> QED
        BY <2>3, <3>1, <3>2
    <2>7. FilesExplained'
      BY <1>1, <2>1, <2>6 DEF FilesExplained
    <2> QED
      BY <2>5, <2>7
  <1>7. ASSUME NEW n \in Node, NEW m \in Node, InstallSnapshot(n, m)
        PROVE  FilesTyped' /\ FilesExplained'
    <2>1. /\ UNCHANGED <<log, canon, snapping>> /\ snap[m].idx > applied[n]
          /\ db' = [db EXCEPT ![n] = snap[m].db]
          /\ applied' = [applied EXCEPT ![n] = snap[m].idx]
          /\ snap' = [snap EXCEPT ![n] = snap[m]]
      BY <1>7 DEF InstallSnapshot
    <2>2. snap[m] # NoSnap /\ snap[m].idx \in Nat
      BY <1>2, <1>s, <2>1 DEF NoSnap, NoIndex
    <2>3. /\ db'[n] = snap[m].db /\ applied'[n] = snap[m].idx /\ snap'[n] = snap[m]
          /\ \A q \in Node \ {n} : /\ db'[q] = db[q] /\ applied'[q] = applied[q]
                                   /\ snap'[q] = snap[q]
      BY <1>1, <2>1 DEF LogInv
    <2>5. FilesTyped'
      BY <1>1, <2>1, <2>2, <2>3 DEF FilesTyped
    <2>6. FilesExplained'
      <3>1. ASSUME NEW q \in Node, NEW k \in Key, NEW i \in 0..applied'[q]
            PROVE  Explained(canon, log, db'[q], i, k)
        BY <1>1, <2>2, <2>3, <3>1 DEF FilesExplained
      <3>2. ASSUME NEW q \in Node, NEW k \in Key, snap'[q] # NoSnap, NEW i \in 0..snap'[q].idx
            PROVE  Explained(canon, log, snap'[q].db, i, k)
        BY <1>1, <2>2, <2>3, <3>2 DEF FilesExplained
      <3> QED
        BY <2>1, <3>1, <3>2 DEF FilesExplained
    <2> QED
      BY <2>5, <2>6
  <1>8. ASSUME NEW n \in Node, Restart(n)
        PROVE  FilesTyped' /\ FilesExplained'
    <2>1. UNCHANGED <<log, canon, snap>>
          /\ snapping' = [snapping EXCEPT ![n] = NoIndex]
          /\ applied' = [applied EXCEPT ![n] = IF snap[n] = NoSnap THEN 0 ELSE snap[n].idx]
          /\ db' = IF snap[n] = NoSnap THEN db ELSE [db EXCEPT ![n] = snap[n].db]
      BY <1>8 DEF Restart
    <2>2. \A q \in Node \ {n} : db'[q] = db[q] /\ applied'[q] = applied[q]
      <3>1. CASE snap[n] = NoSnap
        BY <1>1, <2>1, <3>1 DEF LogInv
      <3>2. CASE snap[n] # NoSnap
        BY <1>1, <2>1, <3>2 DEF LogInv
      <3> QED
        BY <3>1, <3>2
    <2>3. \/ snap[n] = NoSnap /\ db'[n] = db[n] /\ applied'[n] = 0
          \/ snap[n] # NoSnap /\ db'[n] = snap[n].db /\ applied'[n] = snap[n].idx
      <3>1. CASE snap[n] = NoSnap
        BY <1>1, <2>1, <3>1 DEF LogInv
      <3>2. CASE snap[n] # NoSnap
        BY <1>1, <2>1, <3>2 DEF LogInv
      <3> QED
        BY <3>1, <3>2
    <2>5. FilesTyped'
      BY <1>1, <2>1, <2>2, <2>3 DEF FilesTyped
    <2>6. FilesExplained'
      <3>1. ASSUME NEW q \in Node, NEW k \in Key, NEW i \in 0..applied'[q]
            PROVE  Explained(canon, log, db'[q], i, k)
        <4>1. CASE q # n
          BY <1>1, <2>2, <4>1 DEF FilesExplained
        <4>2. CASE q = n /\ snap[n] = NoSnap
          <5>1. i \in 0..applied[n]
            BY <1>2, <2>3, <3>1, <4>2
          <5> QED
            BY <1>1, <2>3, <4>2, <5>1 DEF FilesExplained
        <4>3. CASE q = n /\ snap[n] # NoSnap
          BY <1>1, <2>3, <4>3 DEF FilesExplained
        <4> QED
          BY <4>1, <4>2, <4>3
      <3> QED
        BY <1>1, <2>1, <3>1 DEF FilesExplained
    <2> QED
      BY <2>5, <2>6
  <1>9. CASE UNCHANGED vars
    BY <1>1, <1>9 DEF vars, FilesTyped, FilesExplained
  <1> QED
    BY <1>3, <1>4, <1>5, <1>6, <1>7, <1>8, <1>9 DEF Step

\* With nothing left to apply there is nothing left to explain a difference by.
LEMMA InvImpliesConverge == ConvergeInv => KeyedRowsConverge
  <1> SUFFICES ASSUME ConvergeInv, NEW n \in Node, applied[n] = Len(log)
               PROVE  Keyed(db[n]) = Keyed(Truth)
    BY DEF KeyedRowsConverge, Caught
  <1>1. Len(log) \in Nat /\ Len(canon) = Len(log) + 1
    BY LenProperties DEF ConvergeInv, LogInv
  <1>2. KeyedType(db[n]) /\ KeyedType(Truth)
    BY <1>1 DEF ConvergeInv, FilesTyped, Truth
  <1>3. ASSUME NEW k \in Key PROVE Cell(db[n], k) = Cell(Truth, k)
    <2>1. Explained(canon, log, db[n], Len(log), k)
      BY <1>1 DEF ConvergeInv, FilesExplained
    <2>2. ~\E j \in (Len(log) + 1)..Len(log) : TRUE
      BY <1>1
    <2> QED
      BY <1>1, <2>1, <2>2 DEF Explained, Truth
  <1> HIDE DEF Truth
  <1>4. db[n].lists = Truth.lists
    <2>1. ASSUME NEW l \in List PROVE db[n].lists[l] = Truth.lists[l]
      <3> DEFINE k == [of |-> "list", list |-> l]
      <3>1. k \in Key
        BY DEF Key
      <3> QED
        BY <1>3, <3>1 DEF Cell
    <2> QED
      BY <1>2, <2>1 DEF KeyedType
  <1>5. db[n].prof = Truth.prof
    <2>1. ASSUME NEW p \in Profile PROVE db[n].prof[p] = Truth.prof[p]
      <3> DEFINE k == [of |-> "prof", prof |-> p]
      <3>1. k \in Key
        BY DEF Key
      <3> QED
        BY <1>3, <3>1 DEF Cell
    <2> QED
      BY <1>2, <2>1 DEF KeyedType
  <1>6. db[n].toks = Truth.toks
    <2>1. ASSUME NEW t \in Tok PROVE t \in db[n].toks <=> t \in Truth.toks
      <3> DEFINE k == [of |-> "tok", tok |-> t]
      <3>1. k \in Key
        BY DEF Key
      <3> QED
        BY <1>3, <3>1 DEF Cell
    <2> QED
      BY <1>2, <2>1 DEF KeyedType
  <1>7. db[n].binds = Truth.binds
    <2>1. ASSUME NEW s \in Sched, NEW l \in List
          PROVE  <<s, l>> \in db[n].binds <=> <<s, l>> \in Truth.binds
      <3> DEFINE k == [of |-> "bind", sched |-> s, list |-> l]
      <3>1. k \in Key
        BY DEF Key
      <3> QED
        BY <1>3, <3>1 DEF Cell
    <2>2. db[n].binds \subseteq Sched \X List /\ Truth.binds \subseteq Sched \X List
      BY <1>2 DEF KeyedType
    <2>3. ASSUME NEW b \in Sched \X List
          PROVE  b \in db[n].binds <=> b \in Truth.binds
      <3>1. b[1] \in Sched /\ b[2] \in List /\ b = <<b[1], b[2]>>
        OBVIOUS
      <3> QED
        BY <2>1, <3>1
    <2> HIDE DEF Truth
    <2> QED
      BY <2>2, <2>3
  <1>8. db[n].gpause = Truth.gpause
    <2> DEFINE k == [of |-> "gpause"]
    <2>1. k \in Key
      BY DEF Key
    <2>2. db[n].gpause <=> Truth.gpause
      BY <1>3, <2>1 DEF Cell
    <2> QED
      BY <1>2, <2>2 DEF KeyedType
  <1> QED
    BY <1>4, <1>5, <1>6, <1>7, <1>8 DEF Keyed

\* In a cluster none of whose nodes had a life of its own, every node that has
\* applied the whole log holds the rows, bindings, profiles and pauses of one
\* pass over it, whatever it applied again after restarts, and although
\* snapshots are copied later than their index (fsm.go, store.go applyTx).
THEOREM KeyedConverge ==
    ASSUME Standalone = {}
    PROVE  Spec => []KeyedRowsConverge
  BY ConvergeInit, ConvergeNext, NextIsStep, InvImpliesConverge, PTL DEF Spec

-----------------------------------------------------------------------------
(* Both scenes.                                                            *)

\* The instance "Cached" differs in the commands it commits, and in no operator.
LEMMA SameApply ==
    /\ \A d, c : Cached!Accepts(d, c) = Accepts(d, c)
    /\ \A d, c : Cached!Apply(d, c) = Apply(d, c)
  <1>1. \A d, c : Cached!Accepts(d, c) = Accepts(d, c)
    BY DEF Cached!Accepts, Accepts
  <1>2. \A x, c : Cached!ApplyLists(x, c) = ApplyLists(x, c)
    BY DEF Cached!ApplyLists, ApplyLists, Cached!Row, Row
  <1>3. \A x, c : Cached!ApplyToks(x, c) = ApplyToks(x, c)
    BY DEF Cached!ApplyToks, ApplyToks
  <1>4. \A x, c : Cached!ApplyBinds(x, c) = ApplyBinds(x, c)
    BY DEF Cached!ApplyBinds, ApplyBinds
  <1>5. \A x, c : Cached!ApplyProfiles(x, c) = ApplyProfiles(x, c)
    BY DEF Cached!ApplyProfiles, ApplyProfiles
  <1>6. \A x, c : Cached!ApplyHistory(x, c) = ApplyHistory(x, c)
    <2>1. \A h : Cached!CloseLatestOpen(h) = CloseLatestOpen(h)
      BY DEF Cached!CloseLatestOpen, CloseLatestOpen
    <2> QED
      BY <2>1 DEF Cached!ApplyHistory, ApplyHistory
  <1>7. \A x, c : Cached!ApplyAudit(x, c) = ApplyAudit(x, c)
    BY DEF Cached!ApplyAudit, ApplyAudit
  <1>8. \A x, c : Cached!ApplyCeiling(x, c) = ApplyCeiling(x, c)
    BY DEF Cached!ApplyCeiling, ApplyCeiling
  <1>9. \A x, c : Cached!ApplyGlobalPause(x, c) = ApplyGlobalPause(x, c)
    BY DEF Cached!ApplyGlobalPause, ApplyGlobalPause
  <1>10. \A d, c : Cached!Effect(d, c) = Effect(d, c)
    BY <1>2, <1>3, <1>4, <1>5, <1>6, <1>7, <1>8, <1>9 DEF Cached!Effect, Effect
  <1> QED
    BY <1>1, <1>10 DEF Cached!Apply, Apply

\* ... and no action but Commit.
LEMMA SameActions ==
    /\ \A n : Cached!ApplyEntry(n) = ApplyEntry(n)
    /\ \A n : Cached!StartSnapshot(n) = StartSnapshot(n)
    /\ \A n : Cached!PersistSnapshot(n) = PersistSnapshot(n)
    /\ \A n : Cached!Restart(n) = Restart(n)
    /\ \A n, m : Cached!InstallSnapshot(n, m) = InstallSnapshot(n, m)
  <1>1. Cached!NoSnap = NoSnap /\ Cached!NoIndex = NoIndex
    BY DEF Cached!NoSnap, NoSnap, Cached!NoIndex, NoIndex, Cached!EmptyDb, EmptyDb
  <1> QED
    BY <1>1, SameApply DEF Cached!ApplyEntry, ApplyEntry, Cached!StartSnapshot, StartSnapshot,
       Cached!PersistSnapshot, PersistSnapshot, Cached!Restart, Restart,
       Cached!InstallSnapshot, InstallSnapshot

\* What the commands of the cached scene are.
LEMMA CachedAreCommands == CachedCommands \subseteq Command
  BY DEF CachedCommands, TokCommands

\* The steps of onApply, and of NewApp.
Rebuilds(n) == \/ Cached!RebuildConfig(n) \/ Cached!RebuildFails(n)
               \/ Cached!RebuildTokens(n) \/ Cached!RebuildTokensFails(n)
Boots(n) == \/ Cached!Prime(n) \/ Cached!Subscribe(n) \/ Cached!ReadTokens(n)
            \/ Cached!StoreTokens(n)

\* The steps of onApply only read the file ...
LEMMA RebuildsLeaveStore == \A n : Rebuilds(n) => UNCHANGED vars
  BY DEF Rebuilds, Cached!RebuildConfig, Cached!RebuildFails, Cached!RebuildTokens,
     Cached!RebuildTokensFails, Cached!vars, vars

\* ... and so do those of NewApp.
LEMMA BootsLeaveStore == \A n : Boots(n) => UNCHANGED vars
  BY DEF Boots, Cached!Prime, Cached!Subscribe, Cached!ReadTokens, Cached!StoreTokens,
     Cached!vars, vars

\* A step of the caches takes the store a step, or none.
LEMMA CachedStep == Cached!AppNext => Step
  <1>1. ASSUME Cached!Quiet
        PROVE  Step
    <2>1. ASSUME NEW c \in CachedCommands, Cached!Commit(c)
          PROVE  Grows(c)
      BY <2>1, SameApply DEF Cached!Commit, Grows
    <2> QED
      BY <1>1, <2>1, CachedAreCommands, SameActions DEF Cached!Quiet, Step
  <1>2. ASSUME NEW n \in Node, Cached!ApplyAndNotify(n) \/ Cached!RestartApp(n)
        PROVE  Step
    BY <1>2, SameActions DEF Cached!ApplyAndNotify, Cached!RestartApp, Step
  <1>3. ASSUME NEW n \in Node, NEW m \in Node, Cached!InstallUnnoticed(n, m)
        PROVE  Step
    BY <1>3, SameActions DEF Cached!InstallUnnoticed, Step
  <1>4. ASSUME NEW n \in Node, Rebuilds(n) \/ Boots(n)
        PROVE  Step
    BY <1>4, RebuildsLeaveStore, BootsLeaveStore DEF Step
  <1> QED
    BY <1>1, <1>2, <1>3, <1>4 DEF Cached!AppNext, Rebuilds, Boots

\* Either scene takes steps of the store only.
LEMMA ScenesStep == [ScenesNext]_allVars => Step
  BY NextIsStep, CachedStep DEF ScenesNext, allVars, Step

\* The caches begin as the store does.
LEMMA CachedInit == Cached!AppInit => Init
  <1>1. \A d, t : Cached!ApplyAll(d, t) = ApplyAll(d, t)
    BY DEF Cached!ApplyAll, ApplyAll, Cached!Apply, Apply, Cached!Accepts, Accepts,
       Cached!Effect, Effect, Cached!ApplyLists, ApplyLists, Cached!Row, Row,
       Cached!ApplyToks, ApplyToks, Cached!ApplyBinds, ApplyBinds,
       Cached!ApplyProfiles, ApplyProfiles, Cached!ApplyHistory, ApplyHistory,
       Cached!CloseLatestOpen, CloseLatestOpen, Cached!ApplyAudit, ApplyAudit,
       Cached!ApplyCeiling, ApplyCeiling, Cached!ApplyGlobalPause, ApplyGlobalPause
  <1> QED
    BY <1>1 DEF Cached!AppInit, Cached!Init, Init, Cached!OwnDb, OwnDb, Cached!EmptyDb, EmptyDb,
       Cached!NoIndex, NoIndex, Cached!NoSnap, NoSnap

\* The commands of a scene.
Commits == IF scene = "rows" THEN Log1 ELSE CachedCommands

\* The log of the scene, and the positions of nodes and snapshots in it.
ScenesInv ==
    /\ LogInv /\ Behind
    /\ scene \in {"rows", "cached"}
    /\ log \in Seq(Commits)

\* Every node starts at the beginning of an empty log.
LEMMA ScenesInvInit == ScenesInit => ScenesInv
  <1> SUFFICES ASSUME ScenesInit
               PROVE  ScenesInv
    OBVIOUS
  <1>1. Init
    BY CachedInit DEF ScenesInit
  <1>2. LogInv /\ Behind
    BY <1>1, LogInit DEF Init, Behind, SnapshotsBehind
  <1>3. log \in Seq(Commits)
    BY <1>1, EmptySeq DEF Init
  <1> QED
    BY <1>2, <1>3 DEF ScenesInv, ScenesInit

\* Every step of either scene keeps all of it.
LEMMA ScenesInvStep ==
    ASSUME ScenesInv, [ScenesNext]_allVars
    PROVE  ScenesInv'
  <1> USE DEF ScenesInv
  <1>1. LogInv' /\ Behind'
    BY ScenesStep, LogNext, BehindStep
  <1>2. scene' = scene /\ Commits' = Commits
    BY DEF ScenesNext, allVars, Commits
  <1>3. ASSUME NEW c \in Commits, log' = Append(log, c)
        PROVE  log' \in Seq(Commits)
    BY <1>3, AppendProperties
  <1>4. log' = log \/ \E c \in Commits : log' = Append(log, c)
    <2>1. CASE scene = "rows" /\ Next
      BY <2>1 DEF Next, Commit, ApplyEntry, StartSnapshot, PersistSnapshot, Restart,
         InstallSnapshot, Commits
    <2>2. CASE scene = "cached" /\ Cached!AppNext
      <3>1. CASE Cached!Quiet
        BY <2>2, <3>1 DEF Cached!Quiet, Cached!Commit, Cached!StartSnapshot,
           Cached!PersistSnapshot, Commits
      <3>2. ASSUME NEW n \in Node, Rebuilds(n) \/ Boots(n)
            PROVE  log' = log
        BY <3>2, RebuildsLeaveStore, BootsLeaveStore DEF vars
      <3>3. ASSUME NEW n \in Node, Cached!ApplyAndNotify(n) \/ Cached!RestartApp(n)
            PROVE  log' = log
        BY <3>3 DEF Cached!ApplyAndNotify, Cached!ApplyEntry, Cached!RestartApp, Cached!Restart
      <3>4. ASSUME NEW n \in Node, NEW m \in Node, Cached!InstallUnnoticed(n, m)
            PROVE  log' = log
        BY <3>4 DEF Cached!InstallUnnoticed, Cached!InstallSnapshot
      <3> QED
        BY <2>2, <3>1, <3>2, <3>3, <3>4 DEF Cached!AppNext, Rebuilds, Boots
    <2>3. CASE UNCHANGED allVars
      BY <2>3 DEF allVars, vars
    <2> QED
      BY <2>1, <2>2, <2>3 DEF ScenesNext
  <1>5. log' \in Seq(Commits')
    BY <1>2, <1>3, <1>4
  <1> QED
    BY <1>1, <1>2, <1>5

\* So it holds throughout.
LEMMA ScenesInvHolds == ScenesSpec => []ScenesInv
  BY ScenesInvInit, ScenesInvStep, PTL DEF ScenesSpec

\* Indices are where the types have them.
LEMMA PositionsTyped ==
    ASSUME LogInv, Behind
    PROVE  /\ Len(canon) = Len(log) + 1
           /\ \A n \in Node : /\ applied[n] \in 0..Len(log)
                              /\ snapping[n] \in NoIndex..applied[n]
                              /\ snap[n].idx \in NoIndex..Len(log)
  <1>1. Len(log) \in Nat
    BY LenProperties DEF LogInv
  <1> SUFFICES ASSUME NEW n \in Node
               PROVE  /\ applied[n] \in 0..Len(log)
                      /\ snapping[n] \in NoIndex..applied[n]
                      /\ snap[n].idx \in NoIndex..Len(log)
    BY DEF LogInv
  <1>2. applied[n] \in 0..Len(log)    BY <1>1 DEF LogInv
  <1>3. snapping[n] \in NoIndex..applied[n]
    <2>1. snapping[n] \in Nat \/ snapping[n] = NoIndex
      BY DEF LogInv
    <2>2. snapping[n] # NoIndex => snapping[n] <= applied[n]
      BY DEF Behind, SnapshotsBehind
    <2> QED
      BY <1>2, <2>1, <2>2 DEF NoIndex
  <1>4. snap[n].idx \in NoIndex..Len(log)
    <2>1. CASE snap[n] = NoSnap
      BY <1>1, <2>1 DEF NoSnap, NoIndex
    <2>2. CASE snap[n] # NoSnap
      BY <1>1, <2>2 DEF LogInv, NoIndex
    <2> QED
      BY <2>1, <2>2
  <1> QED
    BY <1>2, <1>3, <1>4

\* In both scenes the log is one of the commands the scene commits, and no index of a node
\* or of a snapshot is ahead of what it counts.
THEOREM ScenesTyped == ScenesSpec => []ScenesTypeOK
  <1>1. ScenesInv => ScenesTypeOK
    <2> SUFFICES ASSUME ScenesInv
                 PROVE  ScenesTypeOK
      OBVIOUS
    <2>1. Cached!NoIndex = NoIndex
      BY DEF Cached!NoIndex, NoIndex
    <2>2. CASE scene = "rows"
      BY <2>2, PositionsTyped DEF ScenesInv, Commits, ScenesTypeOK, TypeOK
    <2>3. CASE scene = "cached"
      BY <2>1, <2>3, PositionsTyped DEF ScenesInv, Commits, ScenesTypeOK, Cached!TypeOK
    <2> QED
      BY <2>2, <2>3 DEF ScenesInv
  <1> QED
    BY <1>1, ScenesInvHolds, PTL

\* Rows, bindings, profiles and pauses converge in both scenes, restarts of whole nodes with
\* their caches included (the second theorem).
THEOREM ScenesConverge ==
    ASSUME Standalone = {}
    PROVE  ScenesSpec => []KeyedRowsConverge
  <1>1. ScenesInit => ConvergeInv
    BY CachedInit, ConvergeInit DEF ScenesInit
  <1>2. ConvergeInv /\ [ScenesNext]_allVars => ConvergeInv'
    BY ScenesStep, ConvergeNext
  <1> QED
    BY <1>1, <1>2, InvImpliesConverge, PTL DEF ScenesSpec

-----------------------------------------------------------------------------
(* What a node serves.                                                     *)

\* What a node has in memory of its file, in every phase of boot and of onApply:
\* what is not yet rebuilt is on the list, or was missed.
Sees(n) ==
    /\ phase[n] \in Cached!Phase
    /\ todo[n] # "none" => Cached!Subscribed(n)
    /\ phase[n] # "booting" /\ todo[n] # "config" => "config" \in missed[n] \/ cache[n] = db[n]
    /\ phase[n] = "reading" => "tokens" \in missed[n] \/ readToks[n] = db[n].toks
    /\ phase[n] = "serving" /\ todo[n] = "none"
          => "tokens" \in missed[n] \/ toks[n] = db[n].toks

\* The variables are functions of the nodes.
ByNode ==
    /\ \A f \in {db, phase, cache, toks, readToks, todo, missed} : f = [n \in Node |-> f[n]]
    /\ applied = [n \in Node |-> applied[n]]

CachesInv == ByNode /\ (scene = "cached" => \A n \in Node : Sees(n))

\* Nodes boot with nothing in memory, or have been serving alone.
LEMMA CachesInvInit == ScenesInit => CachesInv
  <1> SUFFICES ASSUME ScenesInit
               PROVE  CachesInv
    OBVIOUS
  <1>1. /\ db = [n \in Node |-> Cached!OwnDb(n)] /\ applied = [n \in Node |-> 0]
        /\ phase = [n \in Node |-> IF n \in Standalone THEN "serving" ELSE "booting"]
        /\ cache = [n \in Node |-> Cached!OwnDb(n)]
        /\ toks = [n \in Node |-> Cached!OwnDb(n).toks]
        /\ readToks = [n \in Node |-> {}]
        /\ todo = [n \in Node |-> "none"]
        /\ missed = [n \in Node |-> {}]
    BY DEF ScenesInit, Cached!AppInit, Cached!Init
  <1>2. ByNode
    BY <1>1 DEF ByNode
  <1>3. \A n \in Node : Sees(n)
    BY <1>1 DEF Sees, Cached!Phase, Cached!Subscribed
  <1> QED
    BY <1>2, <1>3 DEF CachesInv

\* A node that nothing happens to sees what it saw.
LEMMA OthersSee ==
    ASSUME NEW n \in Node, Sees(n),
           /\ db'[n] = db[n] /\ phase'[n] = phase[n] /\ cache'[n] = cache[n]
           /\ toks'[n] = toks[n] /\ readToks'[n] = readToks[n]
           /\ todo'[n] = todo[n] /\ missed'[n] = missed[n]
    PROVE  Sees(n)'
  BY DEF Sees, Cached!Subscribed

\* fsm.Apply: an accepted command is followed by onApply, or passes by what the
\* node has already read; a refused one leaves the file as it is.
LEMMA ApplySees ==
    ASSUME ByNode, NEW n \in Node, Cached!ApplyAndNotify(n), \A m \in Node : Sees(m)
    PROVE  ByNode' /\ \A m \in Node : Sees(m)'
  <1> DEFINE c == log[applied[n] + 1]
             accepted == Cached!Accepts(db[n], c)
  <1>1. /\ todo[n] = "none" /\ UNCHANGED <<phase, cache, toks, readToks>>
        /\ db' = [db EXCEPT ![n] = Cached!Apply(db[n], c)]
        /\ applied' = [applied EXCEPT ![n] = @ + 1]
        /\ todo' = [todo EXCEPT ![n] = IF accepted /\ Cached!Subscribed(n)
                                        THEN "config" ELSE "none"]
        /\ missed' = [missed EXCEPT ![n] = IF accepted THEN missed[n] \cup Cached!PassedBy(n)
                                            ELSE missed[n]]
    BY DEF Cached!ApplyAndNotify, Cached!ApplyEntry, ByNode
  <1>2. ~accepted => Cached!Apply(db[n], c) = db[n]
    BY DEF Cached!Apply
  <1> HIDE DEF c, accepted
  <1>3. ByNode'
    BY <1>1 DEF ByNode
  <1>4. \A m \in Node \ {n} : Sees(m)'
    BY <1>1, OthersSee DEF ByNode
  <1>5. /\ db'[n] = Cached!Apply(db[n], c)
        /\ todo'[n] = IF accepted /\ Cached!Subscribed(n) THEN "config" ELSE "none"
        /\ missed'[n] = IF accepted THEN missed[n] \cup Cached!PassedBy(n) ELSE missed[n]
    BY <1>1 DEF ByNode
  <1>6. Sees(n)'
    <2>1. CASE ~accepted
      BY <1>1, <1>2, <1>5, <2>1 DEF Sees, Cached!Phase, Cached!Subscribed
    <2>2. CASE accepted /\ Cached!Subscribed(n)
      BY <1>1, <1>5, <2>2 DEF Sees, Cached!Phase, Cached!Subscribed, Cached!PassedBy
    <2>3. CASE accepted /\ ~Cached!Subscribed(n)
      BY <1>1, <1>5, <2>3 DEF Sees, Cached!Phase, Cached!Subscribed, Cached!PassedBy
    <2> QED
      BY <2>1, <2>2, <2>3
  <1> QED
    BY <1>3, <1>4, <1>6

\* onApply: what is rebuilt is the file as it is, and what is not was missed.
LEMMA RebuildSees ==
    ASSUME ByNode, NEW n \in Node, Rebuilds(n), \A m \in Node : Sees(m)
    PROVE  ByNode' /\ \A m \in Node : Sees(m)'
  <1>1. UNCHANGED <<db, applied, phase, readToks>>
    BY RebuildsLeaveStore DEF vars, Rebuilds, Cached!RebuildConfig, Cached!RebuildFails,
       Cached!RebuildTokens, Cached!RebuildTokensFails
  <1>2. CASE Cached!RebuildConfig(n)
    <2>1. /\ cache' = [cache EXCEPT ![n] = db[n]] /\ UNCHANGED toks /\ todo[n] = "config"
          /\ missed' = [missed EXCEPT ![n] = missed[n] \ {"config"}]
          /\ todo' = [todo EXCEPT ![n] = "tokens"]
      BY <1>2 DEF Cached!RebuildConfig, ByNode
    <2>2. ByNode'
      BY <1>1, <2>1 DEF ByNode
    <2>3. \A m \in Node \ {n} : Sees(m)'
      BY <1>1, <2>1, OthersSee DEF ByNode
    <2>4. cache'[n] = db[n] /\ todo'[n] = "tokens" /\ missed'[n] = missed[n] \ {"config"}
      BY <2>1 DEF ByNode
    <2> QED
      BY <1>1, <2>1, <2>2, <2>3, <2>4 DEF Sees, Cached!Phase, Cached!Subscribed
  <1>3. CASE Cached!RebuildFails(n)
    <2>1. /\ UNCHANGED <<cache, toks>> /\ todo[n] = "config"
          /\ missed' = [missed EXCEPT ![n] = {"config", "tokens"}]
          /\ todo' = [todo EXCEPT ![n] = "none"]
      BY <1>3 DEF Cached!RebuildFails, Cached!Parts
    <2>2. ByNode'
      BY <1>1, <2>1 DEF ByNode
    <2>3. \A m \in Node \ {n} : Sees(m)'
      BY <1>1, <2>1, OthersSee DEF ByNode
    <2>4. todo'[n] = "none" /\ missed'[n] = {"config", "tokens"}
      BY <2>1 DEF ByNode
    <2> QED
      BY <1>1, <2>1, <2>2, <2>3, <2>4 DEF Sees, Cached!Phase, Cached!Subscribed
  <1>4. CASE Cached!RebuildTokens(n)
    <2>1. /\ toks' = [toks EXCEPT ![n] = db[n].toks] /\ UNCHANGED cache /\ todo[n] = "tokens"
          /\ missed' = [missed EXCEPT ![n] = IF phase[n] = "reading" THEN missed[n]
                                              ELSE missed[n] \ {"tokens"}]
          /\ todo' = [todo EXCEPT ![n] = "none"]
      BY <1>4 DEF Cached!RebuildTokens, ByNode
    <2>2. ByNode'
      BY <1>1, <2>1 DEF ByNode
    <2>3. \A m \in Node \ {n} : Sees(m)'
      BY <1>1, <2>1, OthersSee DEF ByNode
    <2>4. /\ toks'[n] = db[n].toks /\ todo'[n] = "none"
          /\ missed'[n] = IF phase[n] = "reading" THEN missed[n] ELSE missed[n] \ {"tokens"}
      BY <2>1 DEF ByNode
    <2> QED
      BY <1>1, <2>1, <2>2, <2>3, <2>4 DEF Sees, Cached!Phase, Cached!Subscribed
  <1>5. CASE Cached!RebuildTokensFails(n)
    <2>1. /\ UNCHANGED <<cache, toks>> /\ todo[n] = "tokens"
          /\ missed' = [missed EXCEPT ![n] = missed[n] \cup {"tokens"}]
          /\ todo' = [todo EXCEPT ![n] = "none"]
      BY <1>5 DEF Cached!RebuildTokensFails, ByNode
    <2>2. ByNode'
      BY <1>1, <2>1 DEF ByNode
    <2>3. \A m \in Node \ {n} : Sees(m)'
      BY <1>1, <2>1, OthersSee DEF ByNode
    <2>4. todo'[n] = "none" /\ missed'[n] = missed[n] \cup {"tokens"}
      BY <2>1 DEF ByNode
    <2> QED
      BY <1>1, <2>1, <2>2, <2>3, <2>4 DEF Sees, Cached!Phase, Cached!Subscribed
  <1> QED
    BY <1>2, <1>3, <1>4, <1>5 DEF Rebuilds

\* NewApp: a node primes before it subscribes, and is subscribed when it reads the
\* token rows.
LEMMA BootSees ==
    ASSUME ByNode, NEW n \in Node, Boots(n), \A m \in Node : Sees(m)
    PROVE  ByNode' /\ \A m \in Node : Sees(m)'
  <1>1. UNCHANGED <<db, applied, todo>>
    BY BootsLeaveStore DEF vars, Boots, Cached!Prime, Cached!Subscribe, Cached!ReadTokens,
       Cached!StoreTokens
  <1>2. CASE Cached!Prime(n)
    <2>1. /\ phase[n] = "booting" /\ phase' = [phase EXCEPT ![n] = "primed"]
          /\ UNCHANGED <<toks, readToks>>
          /\ \/ cache' = [cache EXCEPT ![n] = db[n]] /\ UNCHANGED missed
             \/ /\ cache' = [cache EXCEPT ![n] = Cached!EmptyDb]
                /\ missed' = [missed EXCEPT ![n] = {"config"}]
      BY <1>2 DEF Cached!Prime
    <2>2. ByNode'
      <3>1. cache' = [m \in Node |-> cache'[m]] /\ missed' = [m \in Node |-> missed'[m]]
        <4>1. CASE cache' = [cache EXCEPT ![n] = db[n]] /\ UNCHANGED missed
          BY <4>1 DEF ByNode
        <4>2. CASE /\ cache' = [cache EXCEPT ![n] = Cached!EmptyDb]
                   /\ missed' = [missed EXCEPT ![n] = {"config"}]
          BY <4>2 DEF ByNode
        <4> QED
          BY <2>1, <4>1, <4>2
      <3> QED
        BY <1>1, <2>1, <3>1 DEF ByNode
    <2>3. \A m \in Node \ {n} : Sees(m)'
      BY <1>1, <2>1, OthersSee DEF ByNode
    <2>4. phase'[n] = "primed" /\ (cache'[n] = db[n] \/ missed'[n] = {"config"})
      BY <2>1 DEF ByNode
    <2> QED
      BY <1>1, <2>1, <2>2, <2>3, <2>4 DEF Sees, Cached!Phase, Cached!Subscribed
  <1>3. CASE Cached!Subscribe(n)
    <2>1. /\ phase[n] = "primed" /\ phase' = [phase EXCEPT ![n] = "subscribed"]
          /\ UNCHANGED <<cache, toks, readToks, missed>>
      BY <1>3 DEF Cached!Subscribe
    <2>2. ByNode'
      BY <1>1, <2>1 DEF ByNode
    <2>3. \A m \in Node \ {n} : Sees(m)'
      BY <1>1, <2>1, OthersSee DEF ByNode
    <2>4. phase'[n] = "subscribed"
      BY <2>1 DEF ByNode
    <2> QED
      BY <1>1, <2>1, <2>2, <2>3, <2>4 DEF Sees, Cached!Phase, Cached!Subscribed
  <1>4. CASE Cached!ReadTokens(n)
    <2>1. /\ phase[n] = "subscribed" /\ UNCHANGED <<cache, toks>>
          /\ \/ /\ phase' = [phase EXCEPT ![n] = "reading"]
                /\ readToks' = [readToks EXCEPT ![n] = db[n].toks]
                /\ missed' = [missed EXCEPT ![n] = missed[n] \ {"tokens"}]
             \/ /\ phase' = [phase EXCEPT ![n] = "serving"] /\ UNCHANGED readToks
                /\ missed' = [missed EXCEPT ![n] = missed[n] \cup {"tokens"}]
      BY <1>4 DEF Cached!ReadTokens, ByNode
    <2>2. ByNode'
      BY <1>1, <2>1 DEF ByNode
    <2>3. \A m \in Node \ {n} : Sees(m)'
      BY <1>1, <2>1, OthersSee DEF ByNode
    <2>4. \/ /\ phase'[n] = "reading" /\ readToks'[n] = db[n].toks
             /\ missed'[n] = missed[n] \ {"tokens"}
          \/ phase'[n] = "serving" /\ missed'[n] = missed[n] \cup {"tokens"}
      BY <2>1 DEF ByNode
    <2> QED
      BY <1>1, <2>1, <2>2, <2>3, <2>4 DEF Sees, Cached!Phase, Cached!Subscribed
  <1>5. CASE Cached!StoreTokens(n)
    <2>1. /\ phase[n] = "reading" /\ phase' = [phase EXCEPT ![n] = "serving"]
          /\ UNCHANGED <<cache, missed>>
          /\ toks' = [toks EXCEPT ![n] = readToks[n]]
          /\ readToks' = [readToks EXCEPT ![n] = {}]
      BY <1>5 DEF Cached!StoreTokens
    <2>2. ByNode'
      BY <1>1, <2>1 DEF ByNode
    <2>3. \A m \in Node \ {n} : Sees(m)'
      BY <1>1, <2>1, OthersSee DEF ByNode
    <2>4. phase'[n] = "serving" /\ toks'[n] = readToks[n]
      BY <2>1 DEF ByNode
    <2> QED
      BY <1>1, <2>1, <2>2, <2>3, <2>4 DEF Sees, Cached!Phase, Cached!Subscribed
  <1> QED
    BY <1>2, <1>3, <1>4, <1>5 DEF Boots

\* A restarted process has nothing in memory; a snapshot is missed by all of it.
LEMMA ReplacedSees ==
    ASSUME ByNode, NEW n \in Node, \A m \in Node : Sees(m),
           Cached!RestartApp(n) \/ \E m \in Node : Cached!InstallUnnoticed(n, m)
    PROVE  ByNode' /\ \A m \in Node : Sees(m)'
  <1>1. CASE Cached!RestartApp(n)
    <2>d. \/ UNCHANGED db
          \/ \E d : db' = [db EXCEPT ![n] = d]
      BY <1>1 DEF Cached!RestartApp, Cached!Restart
    <2>n. /\ db' = [m \in Node |-> db'[m]]
          /\ \A m \in Node \ {n} : db'[m] = db[m]
      <3>1. CASE UNCHANGED db
        BY <3>1 DEF ByNode
      <3>2. ASSUME NEW d, db' = [db EXCEPT ![n] = d]
            PROVE  /\ db' = [m \in Node |-> db'[m]]
                   /\ \A m \in Node \ {n} : db'[m] = db[m]
        BY <3>2 DEF ByNode
      <3> QED
        BY <2>d, <3>1, <3>2
    <2>1. /\ applied' = [m \in Node |-> applied'[m]]
          /\ phase' = [phase EXCEPT ![n] = "booting"]
          /\ cache' = [cache EXCEPT ![n] = Cached!EmptyDb]
          /\ toks' = [toks EXCEPT ![n] = {}]
          /\ readToks' = [readToks EXCEPT ![n] = {}]
          /\ todo' = [todo EXCEPT ![n] = "none"]
          /\ missed' = [missed EXCEPT ![n] = {}]
      BY <1>1 DEF Cached!RestartApp, Cached!Restart, ByNode
    <2>2. ByNode'
      BY <2>1, <2>n DEF ByNode
    <2>3. \A m \in Node \ {n} : Sees(m)'
      BY <2>1, <2>n, OthersSee DEF ByNode
    <2>4. phase'[n] = "booting" /\ todo'[n] = "none"
      BY <2>1 DEF ByNode
    <2> QED
      BY <2>2, <2>3, <2>4 DEF Sees, Cached!Phase
  <1>2. ASSUME NEW q \in Node, Cached!InstallUnnoticed(n, q)
        PROVE  ByNode' /\ \A m \in Node : Sees(m)'
    <2>1. /\ \E d : db' = [db EXCEPT ![n] = d]
          /\ \E i : applied' = [applied EXCEPT ![n] = i]
          /\ UNCHANGED <<phase, cache, toks, readToks, todo>>
          /\ missed' = [missed EXCEPT ![n] = {"config", "tokens"}] /\ todo[n] = "none"
      BY <1>2 DEF Cached!InstallUnnoticed, Cached!InstallSnapshot, Cached!Parts
    <2>2. ByNode'
      BY <2>1 DEF ByNode
    <2>3. \A m \in Node \ {n} : Sees(m)'
      BY <2>1, OthersSee DEF ByNode
    <2>4. missed'[n] = {"config", "tokens"}
      BY <2>1 DEF ByNode
    <2> QED
      BY <2>1, <2>2, <2>3, <2>4 DEF Sees
  <1> QED
    BY <1>1, <1>2

\* Every step of either scene keeps it; where the rows are, nothing is cached.
LEMMA CachesInvStep ==
    ASSUME CachesInv, ScenesInv, ScenesInv', [ScenesNext]_allVars
    PROVE  CachesInv'
  <1>1. ASSUME scene = "rows", Next, UNCHANGED <<phase, cache, toks, readToks, todo, missed, scene>>
        PROVE  CachesInv'
    <2>1. db' = [n \in Node |-> db'[n]] /\ applied' = [n \in Node |-> applied'[n]]
      BY DEF ScenesInv, LogInv
    <2> QED
      BY <1>1, <2>1 DEF CachesInv, ByNode
  <1>2. ASSUME scene = "cached", Cached!AppNext, UNCHANGED scene
        PROVE  CachesInv'
    <2>1. ByNode /\ \A m \in Node : Sees(m)
      BY <1>2 DEF CachesInv
    <2>2. CASE Cached!Quiet
      <3>1. UNCHANGED <<db, applied, phase, cache, toks, readToks, todo, missed>>
        BY <2>2 DEF Cached!Quiet, Cached!appVars, Cached!Commit, Cached!StartSnapshot,
           Cached!PersistSnapshot
      <3> QED
        BY <1>2, <2>1, <3>1, OthersSee DEF CachesInv, ByNode
    <2> QED
      BY <1>2, <2>1, <2>2, ApplySees, RebuildSees, BootSees, ReplacedSees
         DEF Cached!AppNext, Rebuilds, Boots, CachesInv
  <1>3. ASSUME UNCHANGED allVars
        PROVE  CachesInv'
    BY <1>3 DEF allVars, vars, CachesInv, ByNode, Sees, Cached!Subscribed
  <1> QED
    BY <1>1, <1>2, <1>3 DEF ScenesNext, ScenesInv

\* A serving node serves its file, whatever interleaves, but for a part that missed a
\* change by a failed rebuild, a snapshot, or an apply in one of the two gaps of NewApp.
THEOREM ServesFile == ScenesSpec => []ServesItsFile
  <1>1. CachesInv => ServesItsFile
    BY DEF CachesInv, Sees, ServesItsFile, Cached!ServesItsFile
  <1>2. CachesInv /\ ScenesInv /\ ScenesInv' /\ [ScenesNext]_allVars => CachesInv'
    BY CachesInvStep
  <1> QED
    BY <1>1, <1>2, CachesInvInit, ScenesInvHolds, PTL DEF ScenesSpec

=============================================================================
