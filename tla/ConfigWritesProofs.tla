------------------------ MODULE ConfigWritesProofs -------------------------
(***************************************************************************)
(* Proofs about the writes of configuration, for every set of requests,    *)
(* lists, domains and URLs, every bound on those under way and any number  *)
(* of refreshes: what is written while no other write is under way stays   *)
(* written, and requests that take turns do exactly what ConfigPromise     *)
(* promises, which is shown by a refinement mapping.  Both hold of the two *)
(* scenes of MCConfigScenes.                                               *)
(***************************************************************************)
EXTENDS MCConfigScenes, SequenceTheorems, TLAPS

-----------------------------------------------------------------------------
(* Types.                                                                  *)

\* A copy with one row replaced.
LEMMA WithRow ==
    ASSUME NEW c \in Config, NEW l \in List, NEW row \in Row \cup {NoRow}
    PROVE  [c EXCEPT !.lists[l] = row] \in Config
  BY DEF Config

\* A new node's configuration is one.
LEMMA FreshType == ConfigAssumption => Fresh \in Config
  BY DEF Fresh, Config, Allowed, Profile

\* What an edit makes of one row.
NewRow(op, row, from) ==
    CASE op.kind = "create" -> [on |-> TRUE, url |-> op.url, from |-> op.url]
      [] op.kind = "source" -> [row EXCEPT !.url = op.url, !.from = NoUrl]
      [] op.kind = "enable" -> [row EXCEPT !.on = op.on]
      [] op.kind = "delete" -> NoRow
      [] op.kind = "refresh" -> IF row = NoRow THEN row ELSE [row EXCEPT !.from = from]

\* The edits of one blocklist.
RowKinds == {"create", "source", "enable", "delete", "refresh"}

\* An edit that is about a blocklist changes that row.
LEMMA EditsRow ==
    ASSUME NEW op \in Locked, op.kind \in RowKinds, NEW c \in Config, NEW from, Found(op, c)
    PROVE  /\ op.list \in List
           /\ Edit(op, c, from) =
                [c EXCEPT !.lists[op.list] = NewRow(op, c.lists[op.list], from)]
  <1>1. op.list \in List
    BY DEF Locked, RowKinds
  <1>2. CASE op.kind = "create"
    BY <1>1, <1>2 DEF Edit, NewRow
  <1>3. CASE op.kind = "source"
    <2>1. Edit(op, c, from) =
            [c EXCEPT !.lists[op.list].url = op.url, !.lists[op.list].from = NoUrl]
      BY <1>3 DEF Edit
    <2>2. NewRow(op, c.lists[op.list], from)
            = [c.lists[op.list] EXCEPT !.url = op.url, !.from = NoUrl]
      BY <1>3 DEF NewRow
    <2>3. [c EXCEPT !.lists[op.list].url = op.url, !.lists[op.list].from = NoUrl]
            = [c EXCEPT !.lists[op.list] = [c.lists[op.list] EXCEPT !.url = op.url, !.from = NoUrl]]
      BY <1>1 DEF Config
    <2> QED
      BY <1>1, <2>1, <2>2, <2>3, Zenon
  <1>4. CASE op.kind = "enable"
    <2>1. Edit(op, c, from) = [c EXCEPT !.lists[op.list].on = op.on]
      BY <1>4 DEF Edit
    <2> QED
      BY <1>1, <1>4, <2>1 DEF NewRow, Config
  <1>5. CASE op.kind = "delete"
    BY <1>1, <1>5 DEF Edit, NewRow
  <1>6. CASE op.kind = "refresh" /\ c.lists[op.list] = NoRow
    <2>1. Edit(op, c, from) = c
      BY <1>6 DEF Edit
    <2>2. NewRow(op, c.lists[op.list], from) = c.lists[op.list]
      BY <1>6 DEF NewRow
    <2> QED
      BY <1>1, <2>1, <2>2 DEF Config
  <1>7. CASE op.kind = "refresh" /\ c.lists[op.list] # NoRow
    <2>1. Edit(op, c, from) = [c EXCEPT !.lists[op.list].from = from]
      BY <1>7 DEF Edit
    <2>2. NewRow(op, c.lists[op.list], from) = [c.lists[op.list] EXCEPT !.from = from]
      BY <1>7 DEF NewRow
    <2> QED
      BY <1>1, <2>1, <2>2 DEF Config
  <1> QED
    BY <1>1, <1>2, <1>3, <1>4, <1>5, <1>6, <1>7 DEF RowKinds

\* What was found is a row, but by a create and a refresh.
LEMMA FoundRow ==
    ASSUME NEW op \in Locked, op.kind \in {"source", "enable", "delete"}, NEW c \in Config,
           Found(op, c)
    PROVE  c.lists[op.list] \in Row
  <1>1. op.list \in List
    BY DEF Locked
  <1>2. c.lists[op.list] # NoRow
    BY DEF Found
  <1> QED
    BY <1>1, <1>2 DEF Config

\* ... and a row it stays, or becomes no row.
LEMMA NewRowType ==
    ASSUME ConfigAssumption, NEW op \in Locked, op.kind \in RowKinds, NEW c \in Config,
           NEW from \in Url \cup {NoUrl}, Found(op, c)
    PROVE  NewRow(op, c.lists[op.list], from) \in Row \cup {NoRow}
  <1>1. op.list \in List
    BY DEF Locked, RowKinds
  <1>2. CASE op.kind = "create"
    BY <1>2 DEF NewRow, Row, Locked
  <1>3. CASE op.kind = "source"
    <2>1. op.url \in Url /\ NewRow(op, c.lists[op.list], from) =
            [c.lists[op.list] EXCEPT !.url = op.url, !.from = NoUrl]
      BY <1>3 DEF NewRow, Locked
    <2>2. c.lists[op.list] \in Row
      BY <1>3, FoundRow
    <2> QED
      BY <2>1, <2>2 DEF Row
  <1>4. CASE op.kind = "enable"
    <2>1. op.on \in BOOLEAN /\ NewRow(op, c.lists[op.list], from) =
            [c.lists[op.list] EXCEPT !.on = op.on]
      BY <1>4 DEF NewRow, Locked
    <2>2. c.lists[op.list] \in Row
      BY <1>4, FoundRow
    <2> QED
      BY <2>1, <2>2 DEF Row
  <1>5. CASE op.kind = "delete"
    BY <1>5 DEF NewRow
  <1>6. CASE op.kind = "refresh"
    <2>1. NewRow(op, c.lists[op.list], from) = IF c.lists[op.list] = NoRow THEN NoRow
            ELSE [c.lists[op.list] EXCEPT !.from = from]
      BY <1>6 DEF NewRow
    <2>2. c.lists[op.list] \in Row \cup {NoRow}
      BY <1>1 DEF Config
    <2>3. CASE c.lists[op.list] = NoRow
      BY <2>1, <2>3
    <2>4. CASE c.lists[op.list] # NoRow
      BY <2>1, <2>2, <2>4 DEF Row
    <2> QED
      BY <2>3, <2>4
  <1> QED
    BY <1>2, <1>3, <1>4, <1>5, <1>6 DEF RowKinds

\* The other edits, and what they touch.
LEMMA EditsRest ==
    ASSUME NEW op \in Locked, NEW c, NEW from, Found(op, c)
    PROVE  /\ op.kind = "setting" => Edit(op, c, from) = [c EXCEPT !.setting = "new"]
           /\ op.kind = "unallow" => Edit(op, c, from) = [c EXCEPT !.allow[op.dom] = "no"]
           /\ op.kind = "archive" => Edit(op, c, from) =
                                       [Fresh EXCEPT !.setting = "archived", !.creds = c.creds]
  BY DEF Edit

\* What the kinds of locked operations are.
LEMMA LockedKinds ==
    \A op \in Locked : op.kind \in RowKinds \cup {"setting", "unallow", "archive"}
  BY DEF Locked, RowKinds

\* An edited copy is a configuration, found or not.
LEMMA EditType ==
    ASSUME ConfigAssumption, NEW op \in Locked, NEW c \in Config, NEW from \in Url \cup {NoUrl}
    PROVE  Edit(op, c, from) \in Config
  <1>1. CASE ~Found(op, c)
    BY <1>1 DEF Edit
  <1>2. CASE Found(op, c) /\ op.kind \in RowKinds
    BY <1>2, EditsRow, NewRowType, WithRow
  <1>3. CASE Found(op, c) /\ op.kind = "setting"
    <2>1. Edit(op, c, from) = [c EXCEPT !.setting = "new"]
      BY <1>3, EditsRest
    <2> QED
      BY <2>1 DEF Config
  <1>4. CASE Found(op, c) /\ op.kind = "unallow"
    <2>1. Edit(op, c, from) = [c EXCEPT !.allow[op.dom] = "no"]
      BY <1>4, EditsRest
    <2> QED
      BY <2>1 DEF Config, Allowed
  <1>5. CASE Found(op, c) /\ op.kind = "archive"
    <2>1. Edit(op, c, from) = [Fresh EXCEPT !.setting = "archived", !.creds = c.creds]
      BY <1>5 DEF Edit
    <2> QED
      BY <2>1, FreshType DEF Config
  <1> QED
    BY <1>1, <1>2, <1>3, <1>4, <1>5, LockedKinds

\* A snapshot is a configuration.
LEMMA SnapshotType ==
    ASSUME ConfigAssumption, NEW f \in Config
    PROVE  Snapshot(f) \in Config
  <1>1. Fresh.prof \in Profile
    BY DEF Fresh, Profile
  <1> QED
    BY <1>1 DEF Snapshot, Config, Allowed

\* An import of a configuration into one gives one.
LEMMA ImportType ==
    ASSUME NEW f \in Config, NEW c \in Config
    PROVE  Import(f, c) \in Config
  BY DEF Import, Config, Allowed

\* So does a typed write.
LEMMA PutType ==
    ASSUME NEW f \in Config, NEW op \in Typed
    PROVE  Put(op, f) \in Config
  <1>1. CASE op.kind = "allow"
    BY <1>1 DEF Put, Config, Typed, Allowed
  <1>2. CASE op.kind # "allow"
    BY <1>2 DEF Put, Config, Profile, Typed
  <1> QED
    BY <1>1, <1>2

\* So does every command.
LEMMA DoneType ==
    ASSUME NEW f \in Config, NEW cmd \in Command
    PROVE  Done(cmd, f) \in Config
  <1>1. CASE cmd \in [kind : {"import"}, conf : Config]
    BY <1>1, ImportType DEF Done
  <1>2. CASE cmd \in [kind : {"put"}, op : Typed]
    BY <1>2, PutType DEF Done
  <1>3. CASE cmd \in [kind : {"profile"}, prof : Profile]
    BY <1>3 DEF Done, Config
  <1>4. CASE cmd \in [kind : {"row"}, list : List, row : Row]
    BY <1>4, WithRow DEF Done
  <1> QED
    BY <1>1, <1>2, <1>3, <1>4 DEF Command

\* A node starts with a configuration.
LEMMA StartsType == ConfigAssumption => Starts \subseteq Config
  <1> SUFFICES ASSUME ConfigAssumption, NEW u \in Url
               PROVE  [Fresh EXCEPT !.lists = [l \in List |-> [on |-> TRUE, url |-> u, from |-> u]]]
                        \in Config
    BY FreshType DEF Starts
  <1> QED
    BY FreshType DEF Config, Row

\* An answered request is a handler still.
LEMMA AnswerType ==
    ASSUME req \in [Request -> Handler], NEW r \in Request,
           NEW a \in {"ok", "no", "lost"}, Answer(r, a)
    PROVE  /\ req' \in [Request -> Handler] /\ req' = [req EXCEPT ![r] = req'[r]]
           /\ req'[r].pc = a /\ req'[r].cmd = NoCommand /\ req'[r].says = "ok"
  <1>1. [Idle EXCEPT !.pc = a] \in Handler
    BY DEF Idle, Handler
  <1>2. [Idle EXCEPT !.pc = a] = [pc |-> a, cmd |-> NoCommand, says |-> "ok", from |-> NoUrl]
    BY DEF Idle
  <1> QED
    BY <1>1, <1>2 DEF Answer

\* So is one that holds a command.
LEMMA HoldType ==
    ASSUME req \in [Request -> Handler], NEW r \in Request, NEW cmd \in Command,
           NEW says \in {"ok", "no"}, Hold(r, cmd, says)
    PROVE  /\ req' \in [Request -> Handler] /\ req' = [req EXCEPT ![r] = req'[r]]
           /\ req'[r].pc = "holding" /\ req'[r].cmd = cmd /\ req'[r].says = says
  <1> DEFINE h == [pc |-> "holding", cmd |-> cmd, says |-> says, from |-> NoUrl]
  <1>1. h \in Handler
    BY DEF Handler
  <1> QED
    BY <1>1 DEF Hold

\* What a step that moves one handler does with it.
Held(r) ==
    \/ ReadCopy(r)
    \/ Check(r) /\ ~Conflict(want[r], file)
    \/ ReadProfile(r)

CommandOf(r) ==
    CASE want[r] \in Locked ->
            [kind |-> "import", conf |-> Edit(want[r], Snapshot(file), req[r].from)]
      [] want[r] \in Typed -> [kind |-> "put", op |-> want[r]]
      [] want[r] \in Patch -> [kind |-> "profile", prof |-> [file.prof EXCEPT !.name = "new"]]

SaysOf(r) ==
    IF want[r] \in Locked /\ ~Found(want[r], Snapshot(file)) THEN "no" ELSE "ok"

\* The three families of operations are apart.
LEMMA Kinds ==
    /\ Locked \cap Typed = {} /\ Locked \cap Patch = {} /\ Typed \cap Patch = {}
    /\ \A op \in Patch : op.kind = "patch"
  BY DEF Locked, Typed, Patch

\* A handler holds the command of its family.
LEMMA HeldHolds ==
    ASSUME NEW r \in Request, Held(r)
    PROVE  /\ Hold(r, CommandOf(r), SaysOf(r)) /\ UNCHANGED <<file, log, want, job, refreshes, alone>>
           /\ req[r].pc \in {"idle", "fetched"} /\ want[r] \in Operation
  <1>1. CASE ReadCopy(r)
    <2>1. want[r] \in Locked
      BY <1>1 DEF ReadCopy
    <2>2. SaysOf(r) = IF Found(want[r], Snapshot(file)) THEN "ok" ELSE "no"
      BY <2>1 DEF SaysOf
    <2>3. CommandOf(r) = [kind |-> "import", conf |-> Edit(want[r], Snapshot(file), req[r].from)]
      BY <2>1, Kinds DEF CommandOf
    <2> QED
      BY <1>1, <2>1, <2>2, <2>3 DEF ReadCopy, Operation
  <1>2. CASE Check(r) /\ ~Conflict(want[r], file)
    BY <1>2, Kinds DEF Check, CommandOf, SaysOf, Operation
  <1>3. CASE ReadProfile(r)
    BY <1>3, Kinds DEF ReadProfile, CommandOf, SaysOf, Operation
  <1> QED
    BY <1>1, <1>2, <1>3 DEF Held

\* It is a command.
LEMMA CommandType ==
    ASSUME ConfigAssumption, TypeOK, NEW r \in Request, want[r] \in Operation
    PROVE  CommandOf(r) \in Command /\ SaysOf(r) \in {"ok", "no"}
  <1> USE DEF TypeOK
  <1>0. SaysOf(r) \in {"ok", "no"}
    BY DEF SaysOf
  <1>1. CASE want[r] \in Locked
    <2>1. CommandOf(r) = [kind |-> "import", conf |-> Edit(want[r], Snapshot(file), req[r].from)]
      BY <1>1, Kinds DEF CommandOf
    <2>2. req[r].from \in Url \cup {NoUrl}
      BY DEF Handler
    <2>3. Edit(want[r], Snapshot(file), req[r].from) \in Config
      BY <1>1, <2>2, SnapshotType, EditType
    <2> QED
      BY <1>0, <2>1, <2>3 DEF Command
  <1>2. CASE want[r] \in Typed
    <2>1. CommandOf(r) = [kind |-> "put", op |-> want[r]]
      BY <1>2, Kinds DEF CommandOf
    <2> QED
      BY <1>0, <1>2, <2>1 DEF Command
  <1>3. CASE want[r] \in Patch
    <2>1. CommandOf(r) = [kind |-> "profile", prof |-> [file.prof EXCEPT !.name = "new"]]
      BY <1>3, Kinds DEF CommandOf
    <2>2. [file.prof EXCEPT !.name = "new"] \in Profile
      BY DEF Config, Profile
    <2> QED
      BY <1>0, <2>1, <2>2 DEF Command
  <1> QED
    BY <1>1, <1>2, <1>3 DEF Operation

\* The answers given without waiting for an apply: what the file was does not
\* matter, and nothing is written.
Told(r, a) ==
    /\ Answer(r, a)
    /\ UNCHANGED <<file, log, want, job, refreshes, alone>>
    /\ \/ a = "no" /\ req[r].pc \in {"idle", "holding"}
       \/ a = "lost" /\ req[r].pc = "holding"
       \/ a = req[r].says /\ req[r].pc = "applied"

Fetched(r) == Fetch(r) /\ ~Answer(r, "no")

\* A refresh that goes on has the source of its list.
LEMMA FetchedType ==
    ASSUME TypeOK, NEW r \in Request, Fetched(r)
    PROVE  /\ req' \in [Request -> Handler] /\ req' = [req EXCEPT ![r] = req'[r]]
           /\ req[r].pc = "idle" /\ req'[r].pc = "fetched" /\ req'[r].cmd = NoCommand
           /\ req'[r].from = file.lists[want[r].list].url /\ file.lists[want[r].list] # NoRow
           /\ want[r].kind = "refresh"
           /\ UNCHANGED <<file, log, want, job, refreshes, alone>>
  <1> USE DEF TypeOK
  <1>1. /\ file.lists[want[r].list] # NoRow /\ want[r].kind = "refresh" /\ req[r].pc = "idle"
        /\ req' = [req EXCEPT ![r].pc = "fetched", ![r].from = file.lists[want[r].list].url]
        /\ UNCHANGED <<file, log, want, job, refreshes, alone>>
    BY DEF Fetched, Fetch
  <1>2. want[r].list \in List
    BY <1>1 DEF Operation, Locked, Typed, Patch
  <1>3. file.lists[want[r].list].url \in Url
    BY <1>1, <1>2 DEF Config, Row
  <1> DEFINE h == [req[r] EXCEPT !.pc = "fetched", !.from = file.lists[want[r].list].url]
  <1>4. /\ h \in Handler /\ h.pc = "fetched" /\ h.cmd = NoCommand
        /\ h.from = file.lists[want[r].list].url
    <2>1. req[r].pc = "idle" /\ req[r] \in Handler
      BY <1>1
    <2> QED
      BY <1>3, <2>1 DEF Handler
  <1>5. req' = [req EXCEPT ![r] = h]
    BY <1>1
  <1> HIDE DEF h
  <1> QED
    BY <1>1, <1>4, <1>5

\* Every step is one of these.
LEMMA Steps ==
    ASSUME TypeOK, Next
    PROVE  \/ \E r \in Request : \/ Held(r) \/ Fetched(r) \/ Submit(r)
                                 \/ \E a \in {"ok", "no", "lost"} : Told(r, a)
           \/ \E l \in List : \/ StartRefresh(l) \/ LoseRefresh(l)
                              \/ \E s \in {"ok", "unchanged", "error"} : FinishRefresh(l, s)
           \/ Apply
           \/ \E kept \in 0..Len(log) : LoseLeadership(kept)
  <1>1. ASSUME NEW r \in Request, Fetch(r)
        PROVE  Fetched(r) \/ Told(r, "no")
    BY <1>1 DEF Fetch, Fetched, Told
  <1>2. ASSUME NEW r \in Request, Check(r)
        PROVE  Held(r) \/ Told(r, "no")
    BY <1>2 DEF Check, Held, Told
  <1>3. ASSUME NEW r \in Request, Reject(r)
        PROVE  Told(r, "no")
    BY <1>3 DEF Reject, Told
  <1>4. ASSUME NEW r \in Request, Decline(r)
        PROVE  Told(r, "lost")
    BY <1>4 DEF Decline, Told
  <1>5. ASSUME NEW r \in Request, Answered(r)
        PROVE  Told(r, req[r].says) /\ req[r].says \in {"ok", "no"}
    BY <1>5 DEF Answered, Told, TypeOK, Handler
  <1> QED
    BY <1>1, <1>2, <1>3, <1>4, <1>5 DEF Next, Held

\* The row the scheduler writes.
RowOf(l, status) ==
    IF status = "ok" THEN [job[l].prior EXCEPT !.from = job[l].prior.url] ELSE job[l].prior
RowCommand(l, status) == [kind |-> "row", list |-> l, row |-> RowOf(l, status)]

\* It is a command, and the job waits.
LEMMA FinishType ==
    ASSUME TypeOK, NEW l \in List, NEW s \in {"ok", "unchanged", "error"}, FinishRefresh(l, s)
    PROVE  /\ job[l].pc = "downloading" /\ job[l].prior \in Row /\ RowCommand(l, s) \in Command
           /\ log' = Append(log, [cmd |-> RowCommand(l, s), by |-> l])
           /\ job' \in [List -> Job] /\ job' = [job EXCEPT ![l] = job'[l]]
           /\ job'[l].pc = "writing" /\ job'[l].prior = job[l].prior
           /\ UNCHANGED <<file, want, req, refreshes, alone>>
  <1> USE DEF TypeOK
  <1>1. job[l].pc = "downloading" /\ job[l] \in Job
    BY DEF FinishRefresh
  <1>2. job[l].prior \in Row
    BY <1>1 DEF Job, NoJob
  <1>3. RowOf(l, s) \in Row
    BY <1>2 DEF RowOf, Row
  <1>4. RowCommand(l, s) \in Command
    BY <1>3 DEF RowCommand, Command
  <1> DEFINE j == [job[l] EXCEPT !.pc = "writing", !.status = s]
  <1>5. j \in Job /\ j.pc = "writing" /\ j.prior = job[l].prior
    BY <1>1, <1>2 DEF Job, NoJob
  <1>6. job' = [job EXCEPT ![l] = j]
    BY DEF FinishRefresh
  <1> HIDE DEF j
  <1> QED
    BY <1>1, <1>2, <1>4, <1>5, <1>6 DEF FinishRefresh, RowCommand, RowOf

\* A refresh starts from a row that is there.
LEMMA StartType ==
    ASSUME TypeOK, NEW l \in List, StartRefresh(l)
    PROVE  /\ file.lists[l] \in Row /\ job' \in [List -> Job] /\ job' = [job EXCEPT ![l] = job'[l]]
           /\ job'[l].pc = "downloading" /\ job'[l].prior = file.lists[l]
           /\ UNCHANGED <<file, log, want, req, alone>>
  <1> USE DEF TypeOK
  <1>1. file.lists[l] \in Row
    BY DEF StartRefresh, Config
  <1> DEFINE j == [pc |-> "downloading", prior |-> file.lists[l], status |-> "none"]
  <1>2. j \in Job
    BY <1>1 DEF Job
  <1>3. job' = [job EXCEPT ![l] = j]
    BY DEF StartRefresh
  <1> QED
    BY <1>1, <1>2, <1>3 DEF StartRefresh

\* The oldest entry is one, and so are the rest.
LEMMA ApplyType ==
    ASSUME TypeOK, Apply
    PROVE  /\ log # <<>> /\ Head(log) = log[1] /\ log[1] \in Entry /\ Len(log) \in Nat \ {0}
           /\ DOMAIN log = 1..Len(log) /\ log' \in Seq(Entry) /\ DOMAIN log' = 1..(Len(log) - 1)
           /\ \A i \in DOMAIN log' : i + 1 \in DOMAIN log /\ log'[i] = log[i + 1]
           /\ file' = Done(log[1].cmd, file) /\ UNCHANGED <<want, refreshes>>
  <1>1. log # <<>> /\ log \in Seq(Entry) /\ log' = Tail(log)
    BY DEF Apply, TypeOK
  <1>2. Len(log) \in Nat \ {0} /\ DOMAIN log = 1..Len(log) /\ Head(log) = log[1]
    BY <1>1
  <1>3. log[1] \in Entry
    BY <1>1, <1>2
  <1>4. /\ Tail(log) \in Seq(Entry) /\ Len(Tail(log)) = Len(log) - 1
        /\ \A i \in 1..(Len(log) - 1) : Tail(log)[i] = log[i + 1]
    BY <1>1, HeadTailProperties
  <1> QED
    BY <1>1, <1>2, <1>3, <1>4 DEF Apply

\* What is left of the log are its oldest entries, those of the scheduler nobody's.
LEMMA LostType ==
    ASSUME TypeOK, NEW kept \in 0..Len(log), LoseLeadership(kept)
    PROVE  /\ log' \in Seq(Entry) /\ DOMAIN log' = 1..kept /\ 1..kept \subseteq DOMAIN log
           /\ \A i \in 1..kept : /\ log'[i].cmd = log[i].cmd /\ log'[i] \in Entry
                                  /\ log'[i].by = IF log[i].by \in List THEN Nobody ELSE log[i].by
           /\ req' \in [Request -> Handler]
           /\ \A r \in Request : IF req[r].pc = "sent"
                                   THEN req'[r].pc = "lost" /\ req'[r].says = "ok"
                                   ELSE req'[r] = req[r]
           /\ job' \in [List -> Job]
           /\ \A l \in List : job'[l] = IF job[l].pc = "writing" THEN NoJob ELSE job[l]
           /\ UNCHANGED <<file, want, refreshes, alone>>
  <1> USE DEF TypeOK
  <1>1. DOMAIN log = 1..Len(log) /\ Len(log) \in Nat
    OBVIOUS
  <1>2. 1..kept \subseteq DOMAIN log /\ kept \in Nat
    BY <1>1
  <1>3. \A i \in 1..kept : log[i] \in Entry
    BY <1>2
  <1>4. log' = [i \in 1..kept |->
                 IF log[i].by \in List THEN [log[i] EXCEPT !.by = Nobody] ELSE log[i]]
    BY DEF LoseLeadership
  <1>5. \A i \in 1..kept : /\ log'[i].cmd = log[i].cmd /\ log'[i] \in Entry
                            /\ log'[i].by = IF log[i].by \in List THEN Nobody ELSE log[i].by
    BY <1>3, <1>4 DEF Entry
  <1>6. log' \in [1..kept -> Entry]
    BY <1>4, <1>5
  <1>7. log' \in Seq(Entry)
    BY <1>2, <1>6
  <1>8. [Idle EXCEPT !.pc = "lost"] \in Handler
    BY DEF Idle, Handler
  <1>9. /\ [Idle EXCEPT !.pc = "lost"].pc = "lost"
        /\ [Idle EXCEPT !.pc = "lost"].says = "ok"
    BY DEF Idle
  <1>10. /\ req' \in [Request -> Handler]
         /\ \A r \in Request : IF req[r].pc = "sent"
                                 THEN req'[r].pc = "lost" /\ req'[r].says = "ok"
                                 ELSE req'[r] = req[r]
    BY <1>8, <1>9 DEF LoseLeadership
  <1>11. /\ job' \in [List -> Job]
         /\ \A l \in List : job'[l] = IF job[l].pc = "writing" THEN NoJob ELSE job[l]
    BY DEF LoseLeadership, Job
  <1> QED
    BY <1>2, <1>4, <1>5, <1>7, <1>10, <1>11 DEF LoseLeadership

\* What a request submits is an entry.
LEMMA SubmitType ==
    ASSUME TypeOK, NEW r \in Request, Submit(r)
    PROVE  /\ req[r].pc = "holding" /\ req[r].cmd \in Command
           /\ log' = Append(log, [cmd |-> req[r].cmd, by |-> r])
           /\ req' \in [Request -> Handler] /\ req' = [req EXCEPT ![r] = req'[r]]
           /\ req'[r].pc = "sent" /\ req'[r].says = req[r].says
           /\ UNCHANGED <<file, want, job, refreshes, alone>>
  <1> USE DEF TypeOK
  <1>1. req[r].pc = "holding" /\ req[r] \in Handler
    BY DEF Submit
  <1> DEFINE h == [req[r] EXCEPT !.pc = "sent", !.cmd = NoCommand]
  <1>2. req[r].cmd \in Command /\ h \in Handler /\ h.pc = "sent" /\ h.says = req[r].says
    BY <1>1 DEF Handler
  <1>3. req' = [req EXCEPT ![r] = h]
    BY DEF Submit
  <1> HIDE DEF h
  <1> QED
    BY <1>1, <1>2, <1>3 DEF Submit

\* An entry more at the end.
LEMMA Longer ==
    ASSUME NEW s \in Seq(Entry), NEW e \in Entry, NEW t, t = Append(s, e)
    PROVE  /\ t \in Seq(Entry) /\ DOMAIN s = 1..Len(s) /\ DOMAIN t = 1..(Len(s) + 1)
           /\ Len(s) \in Nat /\ Len(t) = Len(s) + 1
           /\ t[Len(s) + 1] = e /\ \A i \in DOMAIN s : i \in DOMAIN t /\ t[i] = s[i]
  BY AppendProperties

\* The types hold at the start.
LEMMA TypesInit == ASSUME ConfigAssumption, NEW ops \in SUBSET Operation, Begin(ops)
                   PROVE  TypeOK
  <1>1. Idle \in Handler /\ NoJob \in Job
    BY DEF Idle, Handler, Job
  <1> QED
    BY <1>1, StartsType DEF Begin, TypeOK, ConfigAssumption

\* Whoever waits for the entry that is applied may go on.
LEMMA WaiterType ==
    ASSUME TypeOK, Apply
    PROVE  LET b == log[1].by IN
           /\ job' \in [List -> Job]
           /\ \A l \in List : job'[l] = IF l = b THEN NoJob ELSE job[l]
           /\ IF b \in Request /\ req[b].pc = "sent"
              THEN /\ req' \in [Request -> Handler] /\ req' = [req EXCEPT ![b] = req'[b]]
                   /\ req'[b].pc = "applied" /\ req'[b].says = req[b].says
                   /\ alone' = IF req[b].says = "ok" /\ NobodyElse(b) THEN alone \cup {b}
                               ELSE alone
              ELSE UNCHANGED <<req, alone>>
  <1> USE DEF TypeOK
  <1> DEFINE b == log[1].by
  <1>0. Head(log) = log[1]
    BY ApplyType
  <1>1. /\ job' \in [List -> Job]
        /\ \A l \in List : job'[l] = IF l = b THEN NoJob ELSE job[l]
    <2>1. job' = IF b \in List THEN [job EXCEPT ![b] = NoJob] ELSE job
      BY <1>0 DEF Apply
    <2> QED
      BY <2>1 DEF Job
  <1>2. CASE b \in Request /\ req[b].pc = "sent"
    <2> DEFINE h == [req[b] EXCEPT !.pc = "applied"]
    <2>1. req[b] \in Handler
      BY <1>2
    <2>2. h \in Handler /\ h.pc = "applied" /\ h.says = req[b].says
      BY <1>2, <2>1 DEF Handler
    <2>3. /\ req' = [req EXCEPT ![b] = h]
          /\ alone' = IF req[b].says = "ok" /\ NobodyElse(b) THEN alone \cup {b} ELSE alone
      BY <1>0, <1>2 DEF Apply
    <2> HIDE DEF h, b
    <2> QED
      BY <1>1, <1>2, <2>2, <2>3 DEF b
  <1>3. CASE ~(b \in Request /\ req[b].pc = "sent")
    BY <1>0, <1>1, <1>3 DEF Apply
  <1> QED
    BY <1>2, <1>3

\* Every step keeps the types.
LEMMA TypesStep ==
    ASSUME ConfigAssumption, TypeOK, [Next]_vars
    PROVE  TypeOK'
  <1>0. ASSUME NEW l \in List, NEW s \in {"ok", "unchanged", "error"}, FinishRefresh(l, s)
        PROVE  /\ RowCommand(l, s) \in Command
               /\ log' = Append(log, [cmd |-> RowCommand(l, s), by |-> l])
               /\ job' \in [List -> Job] /\ UNCHANGED <<file, want, req, refreshes, alone>>
    BY <1>0, FinishType
  <1> USE DEF TypeOK
  <1>1. ASSUME NEW r \in Request, Held(r)
        PROVE  TypeOK'
    BY <1>1, HeldHolds, CommandType, HoldType
  <1>2. ASSUME NEW r \in Request, Fetched(r)
        PROVE  TypeOK'
    BY <1>2, FetchedType
  <1>3. ASSUME NEW r \in Request, NEW a \in {"ok", "no", "lost"}, Told(r, a)
        PROVE  TypeOK'
    BY <1>3, AnswerType DEF Told
  <1>4. ASSUME NEW r \in Request, Submit(r)
        PROVE  TypeOK'
    <2>1. [cmd |-> req[r].cmd, by |-> r] \in Entry
      BY <1>4, SubmitType DEF Entry
    <2>2. log' \in Seq(Entry)
      BY <1>4, <2>1, SubmitType, Longer
    <2> QED
      BY <1>4, <2>2, SubmitType
  <1>5. ASSUME NEW l \in List, StartRefresh(l)
        PROVE  TypeOK'
    <2>1. refreshes' \in 0..MaxRefresh
      BY <1>5 DEF StartRefresh, ConfigAssumption
    <2> QED
      BY <1>5, <2>1, StartType
  <1>6. ASSUME NEW l \in List, LoseRefresh(l)
        PROVE  TypeOK'
    BY <1>6 DEF LoseRefresh, Job
  <1>7. ASSUME NEW l \in List, NEW s \in {"ok", "unchanged", "error"}, FinishRefresh(l, s)
        PROVE  TypeOK'
    <2>0. RowCommand(l, s) \in Command
      BY <1>0, <1>7
    <2>1. [cmd |-> RowCommand(l, s), by |-> l] \in Entry
      BY <2>0 DEF Entry
    <2>2. log' \in Seq(Entry)
      <3>1. log' = Append(log, [cmd |-> RowCommand(l, s), by |-> l])
        BY <1>0, <1>7
      <3> QED
        BY <2>1, <3>1, Longer
    <2> QED
      BY <1>0, <1>7, <2>2
  <1>8. CASE Apply
    <2>1. log[1].cmd \in Command
      BY <1>8, ApplyType DEF Entry
    <2>2. file' \in Config
      BY <1>8, <2>1, ApplyType, DoneType
    <2>3. req' \in [Request -> Handler] /\ alone' \subseteq Request /\ job' \in [List -> Job]
      BY <1>8, WaiterType
    <2> QED
      BY <1>8, <2>2, <2>3, ApplyType
  <1>9. ASSUME NEW kept \in 0..Len(log), LoseLeadership(kept)
        PROVE  TypeOK'
    BY <1>9, LostType
  <1>10. CASE UNCHANGED vars
    BY <1>10 DEF vars
  <1> QED
    BY <1>1, <1>2, <1>3, <1>4, <1>5, <1>6, <1>7, <1>8, <1>9, <1>10, Steps

-----------------------------------------------------------------------------
(* What a request asked for depends on one thing, and other commands leave *)
(* that alone.                                                             *)

\* f and g agree on what op is about.
Same(op, f, g) ==
    /\ op.kind \in RowKinds => f.lists[op.list] = g.lists[op.list]
    /\ op.kind \in {"setting", "archive"} => f.setting = g.setting
    /\ op.kind \in {"allow", "unallow"} =>
          (f.allow[op.dom] = "plain" <=> g.allow[op.dom] = "plain")
    /\ op.kind = "creds" => f.creds = g.creds
    /\ op.kind = "patch" => f.prof.name = g.prof.name
    /\ op.kind \in {"pause", "resume"} => f.prof.paused = g.prof.paused

\* What it is that a typed command leaves.
LEMMA TypedHolds ==
    ASSUME NEW op \in Typed, Lasting(op), NEW f \in Config
    PROVE  Holds(op, f) <=> /\ op.kind = "allow" => f.allow[op.dom] = "plain"
                            /\ op.kind = "creds" => f.creds = "new"
                            /\ op.kind = "pause" => f.prof.paused
                            /\ op.kind = "resume" => ~f.prof.paused
  <1>1. Holds(op, f) <=> Put(op, f) = f
    BY DEF Holds, Typed
  <1>2. CASE op.kind = "allow"
    <2>1. Put(op, f) = [f EXCEPT !.allow[op.dom] = "plain"] /\ op.dom \in Domain
      BY <1>2 DEF Put, Typed, Lasting
    <2>2. [f EXCEPT !.allow[op.dom] = "plain"].allow[op.dom] = "plain"
      BY <2>1 DEF Config
    <2>3. ASSUME f.allow[op.dom] = "plain"
          PROVE  [f EXCEPT !.allow[op.dom] = "plain"] = f
      BY <2>1, <2>3 DEF Config
    <2> QED
      BY <1>1, <1>2, <2>1, <2>2, <2>3
  <1>3. CASE op.kind = "creds"
    BY <1>1, <1>3 DEF Put, Config
  <1>4. CASE op.kind \in {"pause", "resume"}
    <2> DEFINE to == op.kind = "pause"
    <2>1. Put(op, f) = [f EXCEPT !.prof.paused = to]
      BY <1>4 DEF Put
    <2>2. f.prof.paused \in BOOLEAN /\ to \in BOOLEAN /\ f.prof \in Profile
      BY DEF Config, Profile
    <2> HIDE DEF to
    <2>3. [f EXCEPT !.prof.paused = to].prof.paused = to
      BY <2>2 DEF Config, Profile
    <2>4. ASSUME f.prof.paused = to
          PROVE  [f EXCEPT !.prof.paused = to] = f
      BY <2>2, <2>4 DEF Config, Profile
    <2>5. Holds(op, f) <=> f.prof.paused = to
      BY <1>1, <2>1, <2>3, <2>4
    <2> QED
      BY <1>4, <2>2, <2>5 DEF to
  <1> QED
    BY <1>2, <1>3, <1>4 DEF Typed, Lasting

\* Configurations that agree on what it is about hold it both or not.
LEMMA SameHolds ==
    ASSUME NEW op \in Operation, Lasting(op), NEW f \in Config, NEW g \in Config,
           Same(op, f, g), Holds(op, f)
    PROVE  Holds(op, g)
  <1>1. CASE op \in Typed
    BY <1>1, TypedHolds DEF Same, Typed
  <1>2. CASE op \in Locked
    <2>1. CASE op.kind \in {"create", "source"}
      BY <2>1 DEF Same, Holds, RowKinds
    <2>2. CASE op.kind = "enable"
      BY <2>2 DEF Same, Holds, RowKinds
    <2>3. CASE op.kind = "delete"
      BY <2>3 DEF Same, Holds, RowKinds
    <2>4. CASE op.kind = "setting"
      BY <2>4 DEF Same, Holds
    <2>5. CASE op.kind = "archive"
      BY <2>5 DEF Same, Holds
    <2>6. CASE op.kind = "unallow"
      BY <2>6 DEF Same, Holds
    <2> QED
      BY <1>2, <2>1, <2>2, <2>3, <2>4, <2>5, <2>6 DEF Locked, Lasting
  <1>3. CASE op \in Patch
    BY <1>3 DEF Same, Holds, Patch
  <1> QED
    BY <1>1, <1>2, <1>3 DEF Operation

\* What the keys of the operations are.
LEMMA Keys ==
    ASSUME NEW op \in Operation
    PROVE  /\ op.kind \in RowKinds => Key(op) = op.list /\ op.list \in List
           /\ op.kind \in {"setting", "archive"} => Key(op) = "setting"
           /\ op.kind \in {"allow", "unallow"} => Key(op) = op.dom /\ op.dom \in Domain
           /\ op.kind = "creds" => Key(op) = "creds"
           /\ op.kind = "patch" => Key(op) = "name"
           /\ op.kind \in {"pause", "resume"} => Key(op) = "paused"
  <1>1. op \in Patch <=> op.kind = "patch"
    BY DEF Operation, Locked, Typed, Patch
  <1>2. op.kind \in RowKinds => Key(op) = op.list /\ op.list \in List
    BY <1>1 DEF Key, RowKinds, Operation, Locked, Typed, Patch
  <1>3. op.kind \in {"allow", "unallow"} => Key(op) = op.dom /\ op.dom \in Domain
    BY <1>1 DEF Key, Operation, Locked, Typed, Patch
  <1> QED
    BY <1>1, <1>2, <1>3 DEF Key

\* An edit of something else leaves it alone.
LEMMA EditLeaves ==
    ASSUME NEW op \in Operation, NEW by \in Locked, Key(by) # Key(op), by.kind # "archive",
           NEW c \in Config, NEW from
    PROVE  Same(op, Edit(by, c, from), c)
  <1> DEFINE e == Edit(by, c, from)
  <1> SUFFICES Same(op, e, c)
    OBVIOUS
  <1>0. by \in Operation
    BY DEF Operation
  <1>1. CASE ~Found(by, c)
    BY <1>1 DEF Edit, Same
  <1>2. CASE Found(by, c) /\ by.kind \in RowKinds
    <2> DEFINE row == NewRow(by, c.lists[by.list], from)
    <2>1. e = [c EXCEPT !.lists[by.list] = row] /\ by.list \in List
      BY <1>2, EditsRow
    <2> HIDE DEF row
    <2>2. /\ e.setting = c.setting /\ e.allow = c.allow /\ e.creds = c.creds /\ e.prof = c.prof
          /\ \A l \in List \ {by.list} : e.lists[l] = c.lists[l]
      BY <2>1 DEF Config
    <2>3. op.kind \in RowKinds => op.list \in List \ {by.list}
      BY <1>0, <1>2, Keys
    <2> HIDE DEF e
    <2> QED
      BY <2>2, <2>3 DEF Same
  <1>3. CASE Found(by, c) /\ by.kind = "setting"
    <2>1. e = [c EXCEPT !.setting = "new"]
      BY <1>3, EditsRest
    <2>2. /\ e.lists = c.lists /\ e.allow = c.allow /\ e.creds = c.creds /\ e.prof = c.prof
      BY <2>1 DEF Config
    <2>3. op.kind \notin {"setting", "archive"}
      BY <1>0, <1>3, Keys
    <2> HIDE DEF e
    <2> QED
      BY <2>2, <2>3 DEF Same
  <1>4. CASE Found(by, c) /\ by.kind = "unallow"
    <2>1. e = [c EXCEPT !.allow[by.dom] = "no"] /\ by.dom \in Domain
      BY <1>4, EditsRest DEF Locked
    <2>2. /\ e.setting = c.setting /\ e.lists = c.lists /\ e.creds = c.creds /\ e.prof = c.prof
          /\ \A d \in Domain \ {by.dom} : e.allow[d] = c.allow[d]
      BY <2>1 DEF Config
    <2>3. op.kind \in {"allow", "unallow"} => op.dom \in Domain \ {by.dom}
      BY <1>0, <1>4, Keys
    <2> HIDE DEF e
    <2> QED
      BY <2>2, <2>3 DEF Same
  <1> QED
    BY <1>1, <1>2, <1>3, <1>4, LockedKinds

\* So does a typed command.
LEMMA PutLeaves ==
    ASSUME NEW op \in Operation, NEW by \in Typed, Key(by) # Key(op), NEW f \in Config
    PROVE  Same(op, f, Put(by, f))
  <1>0. by \in Operation
    BY DEF Operation
  <1> DEFINE e == Put(by, f)
  <1> SUFFICES Same(op, f, e)
    OBVIOUS
  <1>1. CASE by.kind = "allow"
    <2>1. e = [f EXCEPT !.allow[by.dom] = by.as] /\ by.dom \in Domain
      BY <1>1 DEF Put, Typed
    <2>2. /\ e.setting = f.setting /\ e.lists = f.lists /\ e.creds = f.creds /\ e.prof = f.prof
          /\ \A d \in Domain \ {by.dom} : e.allow[d] = f.allow[d]
      BY <2>1 DEF Config
    <2>3. op.kind \in {"allow", "unallow"} => op.dom \in Domain \ {by.dom}
      BY <1>0, <1>1, Keys
    <2> HIDE DEF e
    <2> QED
      BY <2>2, <2>3 DEF Same
  <1>2. CASE by.kind = "creds"
    <2>1. /\ e.setting = f.setting /\ e.lists = f.lists /\ e.allow = f.allow /\ e.prof = f.prof
      BY <1>2 DEF Put, Config
    <2>2. op.kind # "creds"
      BY <1>0, <1>2, Keys
    <2> HIDE DEF e
    <2> QED
      BY <2>1, <2>2 DEF Same
  <1>3. CASE by.kind \in {"gpause", "gresume"}
    <2>1. /\ e.setting = f.setting /\ e.lists = f.lists /\ e.allow = f.allow /\ e.prof = f.prof
          /\ e.creds = f.creds
      BY <1>3 DEF Put, Config
    <2> HIDE DEF e
    <2> QED
      BY <2>1 DEF Same
  <1>4. CASE by.kind \in {"pause", "resume"}
    <2>1. /\ e.setting = f.setting /\ e.lists = f.lists /\ e.allow = f.allow /\ e.creds = f.creds
          /\ e.prof.name = f.prof.name
      BY <1>4 DEF Put, Config, Profile
    <2>2. op.kind \notin {"pause", "resume"}
      BY <1>0, <1>4, Keys
    <2> HIDE DEF e
    <2> QED
      BY <2>1, <2>2 DEF Same
  <1> QED
    BY <1>1, <1>2, <1>3, <1>4 DEF Typed

\* A command that does not undo op, whatever it meets.
Keeps(op, cmd) == \A f \in Config : Holds(op, f) => Holds(op, Done(cmd, f))

\* A request about something else, no archive, that reads the file while it
\* holds op does not undo it later.
LEMMA ReadKeeps ==
    ASSUME ConfigAssumption, TypeOK, NEW r \in Request, NEW op \in Operation, Lasting(op),
           Holds(op, file), Key(want[r]) # Key(op), want[r].kind # "archive"
    PROVE  Keeps(op, CommandOf(r))
  <1> USE DEF TypeOK
  <1> DEFINE cmd == CommandOf(r)
  <1> SUFFICES ASSUME NEW f \in Config, Holds(op, f)
               PROVE  Holds(op, Done(cmd, f))
    BY DEF Keeps
  <1>0. cmd \in Command /\ Done(cmd, f) \in Config
    BY CommandType, DoneType
  <1>1. CASE want[r] \in Locked
    <2> DEFINE s == Snapshot(file)
               conf == Edit(want[r], s, req[r].from)
    <2>1. cmd = [kind |-> "import", conf |-> conf]
      BY <1>1, Kinds DEF CommandOf
    <2>2. s \in Config /\ conf \in Config
      <3>1. req[r].from \in Url \cup {NoUrl}
        BY DEF Handler
      <3> QED
        BY <1>1, <3>1, SnapshotType, EditType
    <2>3. Same(op, conf, s)
      BY <1>1, <2>2, EditLeaves
    <2>4. /\ s.lists = file.lists /\ s.setting = file.setting /\ s.creds = file.creds
          /\ \A d \in Domain : s.allow[d] = "plain" <=> file.allow[d] = "plain"
      BY DEF Snapshot, Config
    <2> HIDE DEF conf, s
    <2>5. Done(cmd, f) = [conf EXCEPT !.prof = f.prof]
      BY <2>1 DEF Done, Import
    <2>6. /\ Done(cmd, f).lists = conf.lists /\ Done(cmd, f).setting = conf.setting
          /\ Done(cmd, f).creds = conf.creds /\ Done(cmd, f).allow = conf.allow
          /\ Done(cmd, f).prof = f.prof
      BY <2>2, <2>5 DEF Config
    <2>7. CASE op.kind \in {"patch", "pause", "resume"}
      <3>1. Same(op, f, Done(cmd, f))
        BY <2>6, <2>7 DEF Same, RowKinds
      <3> QED
        BY <1>0, <3>1, SameHolds
    <2>8. CASE op.kind \notin {"patch", "pause", "resume"}
      <3>1. op.kind \in {"allow", "unallow"} => op.dom \in Domain
        BY Keys
      <3>2. Same(op, file, Done(cmd, f))
        BY <2>3, <2>4, <2>6, <2>8, <3>1 DEF Same
      <3> QED
        BY <1>0, <3>2, SameHolds
    <2> QED
      BY <2>7, <2>8
  <1>2. CASE want[r] \in Typed
    <2>1. cmd = [kind |-> "put", op |-> want[r]]
      BY <1>2, Kinds DEF CommandOf
    <2>2. Done(cmd, f) = Put(want[r], f)
      BY <2>1 DEF Done
    <2> QED
      BY <1>0, <1>2, <2>2, PutLeaves, SameHolds
  <1>3. CASE want[r] \in Patch
    <2> DEFINE prof == [file.prof EXCEPT !.name = "new"]
    <2>1. cmd = [kind |-> "profile", prof |-> prof]
      BY <1>3, Kinds DEF CommandOf
    <2>2. prof.paused = file.prof.paused
      BY DEF Config, Profile
    <2> HIDE DEF prof
    <2>3. Done(cmd, f) = [f EXCEPT !.prof = prof]
      BY <2>1 DEF Done
    <2>4. /\ Done(cmd, f).lists = f.lists /\ Done(cmd, f).setting = f.setting
          /\ Done(cmd, f).creds = f.creds /\ Done(cmd, f).allow = f.allow
          /\ Done(cmd, f).prof = prof
      BY <2>3 DEF Config
    <2>5. op.kind # "patch"
      BY <1>3, Kinds, Keys DEF Operation
    <2>6. CASE op.kind \in {"pause", "resume"}
      <3>1. Same(op, file, Done(cmd, f))
        BY <2>2, <2>4, <2>6 DEF Same, RowKinds
      <3> QED
        BY <1>0, <3>1, SameHolds
    <2>7. CASE op.kind \notin {"pause", "resume"}
      <3>1. Same(op, f, Done(cmd, f))
        BY <2>4, <2>5, <2>7 DEF Same
      <3> QED
        BY <1>0, <3>1, SameHolds
    <2> QED
      BY <2>6, <2>7
  <1> QED
    BY <1>1, <1>2, <1>3 DEF Operation

\* A row of list l that does not undo op, written back as it is or refreshed.
RowKeeps(op, l, row) ==
    \A new \in {row, [row EXCEPT !.from = row.url]} :
        Keeps(op, [kind |-> "row", list |-> l, row |-> new])

\* The row of a file that holds op is one.
LEMMA RowReadKeeps ==
    ASSUME TypeOK, NEW l \in List, file.lists[l] \in Row, NEW op \in Operation, Lasting(op),
           Holds(op, file), NoUrl \notin Url
    PROVE  RowKeeps(op, l, file.lists[l])
  <1> USE DEF TypeOK
  <1> DEFINE row == file.lists[l]
  <1> SUFFICES ASSUME NEW new \in {row, [row EXCEPT !.from = row.url]},
                      NEW f \in Config, Holds(op, f)
               PROVE  Holds(op, Done([kind |-> "row", list |-> l, row |-> new], f))
    BY DEF RowKeeps, Keeps
  <1>0. new \in Row /\ new.url = row.url /\ new.on = row.on
    BY DEF Row
  <1> DEFINE g == [f EXCEPT !.lists[l] = new]
  <1>1. Done([kind |-> "row", list |-> l, row |-> new], f) = g
    BY DEF Done
  <1>2. /\ g \in Config /\ g.setting = f.setting /\ g.creds = f.creds /\ g.allow = f.allow
        /\ g.prof = f.prof /\ g.lists[l] = new /\ \A k \in List \ {l} : g.lists[k] = f.lists[k]
    <2>1. g \in Config
      BY <1>0, WithRow
    <2> HIDE DEF row
    <2>2. /\ g.setting = f.setting /\ g.creds = f.creds /\ g.allow = f.allow /\ g.prof = f.prof
          /\ g.lists = [f.lists EXCEPT ![l] = new]
      BY DEF Config
    <2>3. DOMAIN f.lists = List
      BY DEF Config
    <2> QED
      BY <2>1, <2>2, <2>3
  <1> HIDE DEF g
  <1>3. CASE op.kind \in RowKinds /\ op.list = l
    <2>1. new # NoRow /\ row # NoRow
      BY <1>0 DEF Row, NoRow
    <2>2. CASE op.kind \in {"create", "source"}
      BY <1>0, <1>1, <1>2, <1>3, <2>2 DEF Holds
    <2>3. CASE op.kind = "enable"
      BY <1>0, <1>1, <1>2, <1>3, <2>3 DEF Holds
    <2>4. CASE op.kind = "delete"
      BY <1>3, <2>1, <2>4 DEF Holds
    <2> QED
      BY <1>3, <2>2, <2>3, <2>4 DEF RowKinds, Lasting
  <1>4. CASE ~(op.kind \in RowKinds /\ op.list = l)
    <2>1. Same(op, f, g)
      BY <1>2, <1>4, Keys DEF Same
    <2> QED
      BY <1>1, <1>2, <2>1, SameHolds
  <1> QED
    BY <1>3, <1>4

-----------------------------------------------------------------------------
(* What a command delivers.                                                *)

Delivers(op, cmd) == \A f \in Config : Holds(op, Done(cmd, f))

\* A committed copy holds what was asked of it, whatever it was read from.
LEMMA CommittedHolds ==
    ASSUME ConfigAssumption, NEW op \in Locked, op.kind # "refresh", NEW f \in Config, NEW c \in Config,
           NEW from \in Url \cup {NoUrl}, Found(op, c)
    PROVE  Holds(op, Import(f, Edit(op, c, from)))
  <1> DEFINE new == NewRow(op, c.lists[op.list], from)
             done == Import(f, Edit(op, c, from))
  <1>0. Edit(op, c, from) \in Config
    BY EditType
  <1>1. CASE op.kind \in RowKinds
    <2>1. op.list \in List /\ done.lists[op.list] = new
      BY <1>0, <1>1, EditsRow DEF Import, Config
    <2>2. CASE op.kind = "create"
      BY <2>1, <2>2 DEF Holds, NewRow
    <2>3. CASE op.kind = "source"
      <3>1. new.url = op.url
        BY <2>3, FoundRow DEF NewRow, Row
      <3> QED
        BY <2>1, <2>3, <3>1 DEF Holds
    <2>4. CASE op.kind = "enable"
      <3>1. new.on = op.on
        BY <2>4, FoundRow DEF NewRow, Row
      <3> QED
        BY <2>1, <2>4, <3>1 DEF Holds
    <2>5. CASE op.kind = "delete"
      BY <2>1, <2>5 DEF Holds, NewRow
    <2> QED
      BY <1>1, <2>2, <2>3, <2>4, <2>5 DEF RowKinds
  <1>2. CASE op.kind = "setting"
    <2>1. Edit(op, c, from) = [c EXCEPT !.setting = "new"]
      BY <1>2, EditsRest
    <2>2. done.setting = "new"
      BY <2>1 DEF Import, Config
    <2> QED
      BY <1>2, <2>2 DEF Holds
  <1>3. CASE op.kind = "archive"
    <2>1. Edit(op, c, from) = [Fresh EXCEPT !.setting = "archived", !.creds = c.creds]
      BY <1>3 DEF Edit
    <2>2. done.setting = "archived"
      BY <2>1 DEF Import, Config, Fresh
    <2> QED
      BY <1>3, <2>2 DEF Holds
  <1>4. CASE op.kind = "unallow"
    <2>1. Edit(op, c, from) = [c EXCEPT !.allow[op.dom] = "no"] /\ op.dom \in Domain
      BY <1>4, EditsRest DEF Locked
    <2>2. done.allow[op.dom] = "no"
      BY <2>1 DEF Import, Config
    <2> QED
      BY <1>4, <2>2 DEF Holds
  <1> QED
    BY <1>1, <1>2, <1>3, <1>4, LockedKinds

\* So does a typed write.
LEMMA PutHolds ==
    ASSUME NEW op \in Typed, NEW f \in Config
    PROVE  Holds(op, Put(op, f))
  <1>1. Holds(op, Put(op, f)) <=> Put(op, Put(op, f)) = Put(op, f)
    BY DEF Holds, Typed
  <1> QED
    <2>1. CASE op.kind = "allow"
      <3> DEFINE once == [f EXCEPT !.allow[op.dom] = op.as]
      <3>1. op.dom \in Domain /\ Put(op, f) = once
        BY <2>1 DEF Put, Typed
      <3>2. [once EXCEPT !.allow[op.dom] = op.as] = once
        BY <3>1 DEF Config
      <3>3. Put(op, once) = once
        BY <2>1, <3>2 DEF Put
      <3> QED
        BY <1>1, <3>1, <3>3
    <2>2. CASE op.kind \in {"gpause", "gresume"}
      BY <1>1, <2>2 DEF Put, Config
    <2>3. CASE op.kind \in {"pause", "resume"}
      BY <1>1, <2>3 DEF Put, Config
    <2>4. CASE op.kind = "creds"
      BY <1>1, <2>4 DEF Put, Config
    <2> QED
      BY <2>1, <2>2, <2>3, <2>4 DEF Typed

\* The command a request holds delivers what was asked, if it was found.
LEMMA CommandDelivers ==
    ASSUME ConfigAssumption, TypeOK, NEW r \in Request, Lasting(want[r]), SaysOf(r) = "ok"
    PROVE  Delivers(want[r], CommandOf(r))
  <1> USE DEF TypeOK
  <1> SUFFICES ASSUME NEW f \in Config
               PROVE  Holds(want[r], Done(CommandOf(r), f))
    BY DEF Delivers
  <1>1. CASE want[r] \in Locked
    <2>1. CommandOf(r) = [kind |-> "import", conf |-> Edit(want[r], Snapshot(file), req[r].from)]
      BY <1>1, Kinds DEF CommandOf
    <2>2. Found(want[r], Snapshot(file)) /\ want[r].kind # "refresh"
      BY <1>1 DEF SaysOf, Lasting
    <2>3. Done(CommandOf(r), f) = Import(f, Edit(want[r], Snapshot(file), req[r].from))
      BY <2>1 DEF Done
    <2>4. Snapshot(file) \in Config /\ req[r].from \in Url \cup {NoUrl}
      BY SnapshotType DEF Handler
    <2> QED
      BY <1>1, <2>2, <2>3, <2>4, CommittedHolds
  <1>2. CASE want[r] \in Typed
    <2>1. Done(CommandOf(r), f) = Put(want[r], f)
      BY <1>2, Kinds DEF CommandOf, Done
    <2> QED
      BY <1>2, <2>1, PutHolds
  <1>3. CASE want[r] \in Patch
    <2>1. Done(CommandOf(r), f) = [f EXCEPT !.prof = [file.prof EXCEPT !.name = "new"]]
      BY <1>3, Kinds DEF CommandOf, Done
    <2>2. Done(CommandOf(r), f).prof.name = "new"
      BY <2>1 DEF Config, Profile
    <2> QED
      BY <1>3, <2>2 DEF Holds, Patch
  <1> QED
    BY <1>1, <1>2, <1>3 DEF Operation

-----------------------------------------------------------------------------
(* What is written alone stays.                                            *)

\* An entry is of one request, which waits for it or gave up.
Waiting ==
    \A i, j \in DOMAIN log : log[i].by \in Request =>
        /\ req[log[i].by].pc \in {"sent", "lost"}
        /\ log[i].by = log[j].by => i = j

\* What is to be answered "ok" is what the command brings.
Delivered ==
    \A r \in Request : Lasting(want[r]) /\ req[r].says = "ok" =>
        /\ req[r].pc = "holding" => Delivers(want[r], req[r].cmd)
        /\ \A i \in DOMAIN log :
              log[i].by = r /\ req[r].pc = "sent" => Delivers(want[r], log[i].cmd)

\* Who wrote alone reads no more.
Finished ==
    \A r \in alone : req[r].pc = "ok" \/ (req[r].pc = "applied" /\ req[r].says = "ok")

\* r wrote alone, and nobody else writes that.
Guarded(r) ==
    /\ r \in alone /\ Lasting(want[r])
    /\ \A s \in Request \ {r} : Key(want[s]) # Key(want[r]) /\ want[s].kind # "archive"

\* Its write is there, and no command, row or entry on its way undoes it.
Safe(op) ==
    /\ Holds(op, file)
    /\ \A s \in Request : req[s].pc = "holding" => Keeps(op, req[s].cmd)
    /\ \A i \in DOMAIN log : Keeps(op, log[i].cmd)
    /\ \A l \in List : job[l].pc = "downloading" => RowKeeps(op, l, job[l].prior)

Undisturbed == \A r \in Request : Guarded(r) => Safe(want[r])

LastingInv == TypeOK /\ Waiting /\ Delivered /\ Finished /\ Undisturbed

\* Nobody's request changes.
LEMMA WantStays == Next => UNCHANGED want
  BY DEF Next, Fetch, ReadCopy, Reject, Check, ReadProfile, Submit, Decline, Answered,
     StartRefresh, LoseRefresh, FinishRefresh, Apply, LoseLeadership

\* An entry has one owner after every step.
LEMMA WaitingStep ==
    ASSUME ConfigAssumption, LastingInv, Next
    PROVE  Waiting'
  <1>1. ASSUME NEW r \in Request, Held(r)
        PROVE  Waiting'
    <2>1. /\ req' = [req EXCEPT ![r] = req'[r]] /\ req[r].pc \in {"idle", "fetched"}
          /\ UNCHANGED log
      BY <1>1, HeldHolds, CommandType, HoldType DEF LastingInv, TypeOK
    <2> QED
      BY <2>1 DEF LastingInv, Waiting, TypeOK
  <1>2. ASSUME NEW r \in Request, Fetched(r)
        PROVE  Waiting'
    BY <1>2, FetchedType DEF LastingInv, Waiting, TypeOK
  <1>3. ASSUME NEW r \in Request, NEW a \in {"ok", "no", "lost"}, Told(r, a)
        PROVE  Waiting'
    <2>1. /\ req' = [req EXCEPT ![r] = req'[r]] /\ req[r].pc \in {"idle", "holding", "applied"}
          /\ UNCHANGED log
      BY <1>3, AnswerType DEF LastingInv, TypeOK, Told
    <2> QED
      BY <2>1 DEF LastingInv, Waiting, TypeOK
  <1>4. ASSUME NEW r \in Request, Submit(r)
        PROVE  Waiting'
    <2> DEFINE e == [cmd |-> req[r].cmd, by |-> r]
    <2>1. /\ log' = Append(log, e) /\ req[r].pc = "holding" /\ req'[r].pc = "sent"
          /\ req' = [req EXCEPT ![r] = req'[r]] /\ e \in Entry /\ e.by = r
      BY <1>4, SubmitType DEF LastingInv, Entry
    <2> HIDE DEF e
    <2>2. /\ DOMAIN log = 1..Len(log) /\ DOMAIN log' = 1..(Len(log) + 1) /\ log'[Len(log) + 1] = e
          /\ Len(log) \in Nat /\ \A i \in DOMAIN log : log'[i] = log[i]
      BY <2>1, Longer DEF LastingInv, TypeOK
    <2>3. \A i \in DOMAIN log : log[i].by # r
      BY <2>1 DEF LastingInv, Waiting
    <2>4. \A i \in DOMAIN log' : i \in DOMAIN log \/ (i = Len(log) + 1 /\ log'[i].by = r)
      BY <2>1, <2>2
    <2> QED
      BY <2>1, <2>2, <2>3, <2>4 DEF LastingInv, Waiting, TypeOK
  <1>5. ASSUME NEW l \in List, StartRefresh(l) \/ LoseRefresh(l)
        PROVE  Waiting'
    BY <1>5 DEF LastingInv, Waiting, StartRefresh, LoseRefresh
  <1>6. ASSUME NEW l \in List, NEW s \in {"ok", "unchanged", "error"}, FinishRefresh(l, s)
        PROVE  Waiting'
    <2> DEFINE e == [cmd |-> RowCommand(l, s), by |-> l]
    <2>1. log' = Append(log, e) /\ UNCHANGED req /\ e \in Entry /\ e.by = l /\ l \notin Request
      BY <1>6, FinishType DEF LastingInv, Entry, ConfigAssumption
    <2> HIDE DEF e
    <2>2. /\ DOMAIN log = 1..Len(log) /\ DOMAIN log' = 1..(Len(log) + 1) /\ log'[Len(log) + 1] = e
          /\ Len(log) \in Nat /\ \A i \in DOMAIN log : log'[i] = log[i]
      BY <2>1, Longer DEF LastingInv, TypeOK
    <2>4. \A i \in DOMAIN log' : i \in DOMAIN log \/ (i = Len(log) + 1 /\ log'[i].by = l)
      BY <2>1, <2>2
    <2> QED
      BY <2>1, <2>2, <2>4 DEF LastingInv, Waiting, TypeOK
  <1>7. CASE Apply
    <2> DEFINE b == log[1].by
    <2>1. /\ \A i \in DOMAIN log' : i + 1 \in DOMAIN log /\ log'[i] = log[i + 1]
          /\ DOMAIN log = 1..Len(log) /\ DOMAIN log' = 1..(Len(log) - 1) /\ 1 \in DOMAIN log
          /\ Len(log) \in Nat
      BY <1>7, ApplyType DEF LastingInv
    <2>2. UNCHANGED req \/ (b \in Request /\ req' = [req EXCEPT ![b] = req'[b]])
      BY <1>7, WaiterType DEF LastingInv
    <2>3. \A i \in DOMAIN log' : log'[i].by \in Request => log'[i].by # b
      <3> SUFFICES ASSUME NEW i \in DOMAIN log', log'[i].by \in Request, log'[i].by = b
                   PROVE  FALSE
        OBVIOUS
      <3>1. i + 1 \in DOMAIN log /\ log[i + 1].by = log[1].by /\ i + 1 # 1
        BY <2>1
      <3> QED
        BY <2>1, <3>1 DEF LastingInv, Waiting
    <2> HIDE DEF b
    <2>4. \A r \in Request \ {b} : req'[r] = req[r]
      BY <2>2 DEF LastingInv, TypeOK
    <2> SUFFICES ASSUME NEW i \in DOMAIN log', NEW j \in DOMAIN log', log'[i].by \in Request
                 PROVE  /\ req'[log'[i].by].pc \in {"sent", "lost"}
                        /\ log'[i].by = log'[j].by => i = j
      BY DEF Waiting
    <2>5. i + 1 \in DOMAIN log /\ j + 1 \in DOMAIN log
      BY <2>1
    <2>6. /\ req[log[i + 1].by].pc \in {"sent", "lost"}
          /\ log[i + 1].by = log[j + 1].by => i + 1 = j + 1
      BY <2>1, <2>5 DEF LastingInv, Waiting
    <2>7. req'[log'[i].by] = req[log[i + 1].by]
      BY <2>1, <2>3, <2>4
    <2> QED
      BY <2>1, <2>6, <2>7
  <1>8. ASSUME NEW kept \in 0..Len(log), LoseLeadership(kept)
        PROVE  Waiting'
    <2>1. /\ DOMAIN log' \subseteq DOMAIN log
          /\ \A i \in DOMAIN log' : log'[i].by = IF log[i].by \in List THEN Nobody ELSE log[i].by
          /\ \A r \in Request : IF req[r].pc = "sent" THEN req'[r].pc = "lost"
                                ELSE req'[r] = req[r]
      BY <1>8, LostType DEF LastingInv
    <2>2. \A i \in DOMAIN log' : log'[i].by \in Request => log'[i].by = log[i].by
      BY <2>1 DEF ConfigAssumption
    <2> QED
      BY <2>1, <2>2 DEF LastingInv, Waiting
  <1> QED
    BY <1>1, <1>2, <1>3, <1>4, <1>5, <1>6, <1>7, <1>8, Steps DEF LastingInv

\* What is to be answered "ok" is still what the command brings.
LEMMA DeliveredStep ==
    ASSUME ConfigAssumption, LastingInv, Next
    PROVE  Delivered'
  <1>0. UNCHANGED want
    BY WantStays
  <1>1. ASSUME NEW r \in Request, Held(r)
        PROVE  Delivered'
    <2>1. /\ req' = [req EXCEPT ![r] = req'[r]] /\ UNCHANGED log
          /\ req'[r].pc = "holding" /\ req'[r].cmd = CommandOf(r) /\ req'[r].says = SaysOf(r)
      BY <1>1, HeldHolds, CommandType, HoldType DEF LastingInv, TypeOK
    <2>2. SaysOf(r) = "ok" /\ Lasting(want[r]) => Delivers(want[r], CommandOf(r))
      BY CommandDelivers DEF LastingInv
    <2> QED
      BY <1>0, <2>1, <2>2 DEF LastingInv, Delivered, TypeOK
  <1>2. ASSUME NEW r \in Request, Fetched(r)
        PROVE  Delivered'
    BY <1>0, <1>2, FetchedType DEF LastingInv, Delivered, TypeOK
  <1>3. ASSUME NEW r \in Request, NEW a \in {"ok", "no", "lost"}, Told(r, a)
        PROVE  Delivered'
    <2>1. /\ req' = [req EXCEPT ![r] = req'[r]] /\ UNCHANGED log /\ req'[r].pc = a
      BY <1>3, AnswerType DEF LastingInv, TypeOK, Told
    <2> QED
      BY <1>0, <2>1 DEF LastingInv, Delivered, TypeOK
  <1>4. ASSUME NEW r \in Request, Submit(r)
        PROVE  Delivered'
    <2> DEFINE e == [cmd |-> req[r].cmd, by |-> r]
    <2>1. /\ log' = Append(log, e) /\ req[r].pc = "holding" /\ req'[r].pc = "sent"
          /\ req'[r].says = req[r].says /\ req' = [req EXCEPT ![r] = req'[r]]
          /\ e \in Entry /\ e.by = r /\ e.cmd = req[r].cmd
      BY <1>4, SubmitType DEF LastingInv, Entry
    <2> HIDE DEF e
    <2>2. /\ DOMAIN log = 1..Len(log) /\ DOMAIN log' = 1..(Len(log) + 1) /\ log'[Len(log) + 1] = e
          /\ Len(log) \in Nat /\ \A i \in DOMAIN log : log'[i] = log[i]
      BY <2>1, Longer DEF LastingInv, TypeOK
    <2>3. \A i \in DOMAIN log : log[i].by # r
      BY <2>1 DEF LastingInv, Waiting
    <2>4. \A i \in DOMAIN log' : (i \in DOMAIN log /\ log'[i] = log[i]) \/ log'[i] = e
      BY <2>2
    <2>5. Lasting(want[r]) /\ req[r].says = "ok" => Delivers(want[r], e.cmd)
      BY <2>1 DEF LastingInv, Delivered
    <2> SUFFICES ASSUME NEW q \in Request, Lasting(want[q]), req'[q].says = "ok"
                 PROVE  /\ req'[q].pc = "holding" => Delivers(want[q], req'[q].cmd)
                        /\ \A i \in DOMAIN log' :
                              log'[i].by = q /\ req'[q].pc = "sent" => Delivers(want[q], log'[i].cmd)
      BY <1>0 DEF Delivered
    <2>6. CASE q = r
      BY <2>1, <2>3, <2>4, <2>5, <2>6
    <2>7. CASE q # r
      <3>1. req'[q] = req[q]
        BY <2>1, <2>7 DEF LastingInv, TypeOK
      <3> QED
        BY <2>1, <2>4, <2>7, <3>1 DEF LastingInv, Delivered
    <2> QED
      BY <2>6, <2>7
  <1>5. ASSUME NEW l \in List, StartRefresh(l) \/ LoseRefresh(l)
        PROVE  Delivered'
    BY <1>5 DEF LastingInv, Delivered, StartRefresh, LoseRefresh
  <1>6. ASSUME NEW l \in List, NEW s \in {"ok", "unchanged", "error"}, FinishRefresh(l, s)
        PROVE  Delivered'
    <2> DEFINE e == [cmd |-> RowCommand(l, s), by |-> l]
    <2>1. log' = Append(log, e) /\ UNCHANGED req /\ e \in Entry /\ e.by = l /\ l \notin Request
      BY <1>6, FinishType DEF LastingInv, Entry, ConfigAssumption
    <2> HIDE DEF e
    <2>2. \A i \in DOMAIN log' : (i \in DOMAIN log /\ log'[i] = log[i]) \/ log'[i] = e
      BY <2>1, Longer DEF LastingInv, TypeOK
    <2> QED
      BY <1>0, <2>1, <2>2 DEF LastingInv, Delivered
  <1>7. CASE Apply
    <2> DEFINE b == log[1].by
    <2>1. \A i \in DOMAIN log' : i + 1 \in DOMAIN log /\ log'[i] = log[i + 1]
      BY <1>7, ApplyType DEF LastingInv
    <2>2. UNCHANGED req \/ (b \in Request /\ req' = [req EXCEPT ![b] = req'[b]] /\ req'[b].pc = "applied")
      BY <1>7, WaiterType DEF LastingInv
    <2> HIDE DEF b
    <2>3. \A r \in Request : req'[r] = req[r] \/ req'[r].pc = "applied"
      BY <2>2 DEF LastingInv, TypeOK
    <2> QED
      BY <1>0, <2>1, <2>3 DEF LastingInv, Delivered
  <1>8. ASSUME NEW kept \in 0..Len(log), LoseLeadership(kept)
        PROVE  Delivered'
    <2>1. \A r \in Request : /\ req'[r].pc # "sent"
                             /\ req'[r].pc = "holding" => req'[r] = req[r]
      BY <1>8, LostType DEF LastingInv
    <2> QED
      BY <1>0, <2>1 DEF LastingInv, Delivered
  <1> QED
    BY <1>1, <1>2, <1>3, <1>4, <1>5, <1>6, <1>7, <1>8, Steps DEF LastingInv

\* Who wrote alone has nothing more to do than to answer.
LEMMA FinishedStep ==
    ASSUME ConfigAssumption, LastingInv, Next
    PROVE  Finished'
  <1>1. ASSUME NEW r \in Request, Held(r)
        PROVE  Finished'
    <2>1. /\ req' = [req EXCEPT ![r] = req'[r]] /\ req[r].pc \in {"idle", "fetched"}
          /\ UNCHANGED alone
      BY <1>1, HeldHolds, CommandType, HoldType DEF LastingInv, TypeOK
    <2> QED
      BY <2>1 DEF LastingInv, Finished, TypeOK
  <1>2. ASSUME NEW r \in Request, Fetched(r)
        PROVE  Finished'
    BY <1>2, FetchedType DEF LastingInv, Finished, TypeOK
  <1>3. ASSUME NEW r \in Request, NEW a \in {"ok", "no", "lost"}, Told(r, a)
        PROVE  Finished'
    <2>1. /\ req' = [req EXCEPT ![r] = req'[r]] /\ req'[r].pc = a /\ UNCHANGED alone
          /\ (req[r].pc = "applied" /\ a = req[r].says) \/ req[r].pc \in {"idle", "holding"}
      BY <1>3, AnswerType DEF LastingInv, TypeOK, Told
    <2> QED
      BY <2>1 DEF LastingInv, Finished, TypeOK
  <1>4. ASSUME NEW r \in Request, Submit(r)
        PROVE  Finished'
    <2>1. /\ req' = [req EXCEPT ![r] = req'[r]] /\ req[r].pc = "holding" /\ UNCHANGED alone
      BY <1>4, SubmitType DEF LastingInv
    <2> QED
      BY <2>1 DEF LastingInv, Finished, TypeOK
  <1>5. ASSUME NEW l \in List, StartRefresh(l) \/ LoseRefresh(l)
        PROVE  Finished'
    BY <1>5 DEF LastingInv, Finished, StartRefresh, LoseRefresh
  <1>6. ASSUME NEW l \in List, NEW s \in {"ok", "unchanged", "error"}, FinishRefresh(l, s)
        PROVE  Finished'
    BY <1>6 DEF LastingInv, Finished, FinishRefresh
  <1>7. CASE Apply
    <2> DEFINE b == log[1].by
    <2>1. CASE ~(b \in Request /\ req[b].pc = "sent")
      BY <1>7, <2>1, WaiterType DEF LastingInv, Finished
    <2>2. CASE b \in Request /\ req[b].pc = "sent"
      <3>1. /\ req' = [req EXCEPT ![b] = req'[b]] /\ req'[b].pc = "applied"
            /\ req'[b].says = req[b].says
            /\ alone' = alone \/ (alone' = alone \cup {b} /\ req[b].says = "ok")
        BY <1>7, <2>2, WaiterType DEF LastingInv
      <3>2. b \notin alone
        BY <2>2 DEF LastingInv, Finished
      <3> HIDE DEF b
      <3> QED
        BY <3>1, <3>2 DEF LastingInv, Finished, TypeOK
    <2> QED
      BY <2>1, <2>2
  <1>8. ASSUME NEW kept \in 0..Len(log), LoseLeadership(kept)
        PROVE  Finished'
    <2>1. UNCHANGED alone /\ \A r \in Request : req[r].pc # "sent" => req'[r] = req[r]
      BY <1>8, LostType DEF LastingInv
    <2> QED
      BY <2>1 DEF LastingInv, Finished, TypeOK
  <1> QED
    BY <1>1, <1>2, <1>3, <1>4, <1>5, <1>6, <1>7, <1>8, Steps DEF LastingInv

\* What was written alone is safe after every step: what is read holds it,
\* and what is applied keeps it.
LEMMA UndisturbedStep ==
    ASSUME ConfigAssumption, LastingInv, Next
    PROVE  Undisturbed'
  <1>0. UNCHANGED want
    BY WantStays
  <1> SUFFICES ASSUME NEW q \in Request, Guarded(q)'
               PROVE  Safe(want[q])'
    BY <1>0 DEF Undisturbed
  <1>a. want[q] \in Operation /\ Lasting(want[q])
    BY <1>0 DEF Guarded, LastingInv, TypeOK
  <1>b. \A s \in Request \ {q} : Key(want[s]) # Key(want[q]) /\ want[s].kind # "archive"
    BY <1>0 DEF Guarded
  <1>c. q \in alone => Safe(want[q])
    BY <1>a, <1>b DEF LastingInv, Undisturbed, Guarded
  <1>d. q \in alone => req[q].pc \in {"applied", "ok"}
    BY DEF LastingInv, Finished
  <1>1. ASSUME NEW r \in Request, Held(r)
        PROVE  Safe(want[q])'
    <2>1. /\ req' = [req EXCEPT ![r] = req'[r]] /\ UNCHANGED <<file, log, job, alone>>
          /\ req'[r].cmd = CommandOf(r) /\ req[r].pc \in {"idle", "fetched"}
      BY <1>1, HeldHolds, CommandType, HoldType DEF LastingInv, TypeOK
    <2>2. q \in alone /\ Safe(want[q]) /\ r # q
      BY <1>c, <1>d, <2>1 DEF Guarded
    <2>3. Keeps(want[q], CommandOf(r))
      BY <1>a, <1>b, <2>2, ReadKeeps DEF LastingInv, Safe
    <2> QED
      BY <1>0, <2>1, <2>2, <2>3 DEF Safe, LastingInv, TypeOK
  <1>2. ASSUME NEW r \in Request, Fetched(r)
        PROVE  Safe(want[q])'
    <2>1. /\ req' = [req EXCEPT ![r] = req'[r]] /\ UNCHANGED <<file, log, job, alone>>
          /\ req'[r].pc = "fetched"
      BY <1>2, FetchedType DEF LastingInv
    <2> QED
      BY <1>0, <1>c, <2>1 DEF Safe, LastingInv, TypeOK, Guarded
  <1>3. ASSUME NEW r \in Request, NEW a \in {"ok", "no", "lost"}, Told(r, a)
        PROVE  Safe(want[q])'
    <2>1. /\ req' = [req EXCEPT ![r] = req'[r]] /\ req'[r].pc = a
          /\ UNCHANGED <<file, log, job, alone>>
      BY <1>3, AnswerType DEF LastingInv, TypeOK, Told
    <2> QED
      BY <1>0, <1>c, <2>1 DEF Safe, LastingInv, TypeOK, Guarded
  <1>4. ASSUME NEW r \in Request, Submit(r)
        PROVE  Safe(want[q])'
    <2> DEFINE e == [cmd |-> req[r].cmd, by |-> r]
    <2>1. /\ log' = Append(log, e) /\ req[r].pc = "holding" /\ req'[r].pc = "sent"
          /\ req' = [req EXCEPT ![r] = req'[r]] /\ UNCHANGED <<file, job, alone>>
          /\ e \in Entry /\ e.cmd = req[r].cmd
      BY <1>4, SubmitType DEF LastingInv, Entry
    <2> HIDE DEF e
    <2>2. \A i \in DOMAIN log' : (i \in DOMAIN log /\ log'[i] = log[i]) \/ log'[i] = e
      BY <2>1, Longer DEF LastingInv, TypeOK
    <2>3. Safe(want[q])
      BY <1>c, <2>1 DEF Guarded
    <2>4. Keeps(want[q], e.cmd)
      BY <2>1, <2>3 DEF Safe
    <2> QED
      BY <1>0, <2>1, <2>2, <2>3, <2>4 DEF Safe, LastingInv, TypeOK
  <1>5. ASSUME NEW l \in List, StartRefresh(l)
        PROVE  Safe(want[q])'
    <2>1. /\ file.lists[l] \in Row /\ job' = [job EXCEPT ![l] = job'[l]]
          /\ job'[l].prior = file.lists[l] /\ UNCHANGED <<file, log, req, alone>>
      BY <1>5, StartType DEF LastingInv
    <2>2. Safe(want[q])
      BY <1>c, <2>1 DEF Guarded
    <2>3. RowKeeps(want[q], l, file.lists[l])
      BY <1>a, <2>1, <2>2, RowReadKeeps DEF Safe, LastingInv, ConfigAssumption
    <2> QED
      BY <1>0, <2>1, <2>2, <2>3 DEF Safe, LastingInv, TypeOK
  <1>6. ASSUME NEW l \in List, LoseRefresh(l)
        PROVE  Safe(want[q])'
    <2>1. /\ UNCHANGED <<file, log, req, alone>> /\ \A k \in List : job'[k] = job[k] \/ job'[k] = NoJob
      BY <1>6 DEF LoseRefresh, LastingInv, TypeOK
    <2> QED
      BY <1>0, <1>c, <2>1 DEF Safe, NoJob, Guarded
  <1>7. ASSUME NEW l \in List, NEW s \in {"ok", "unchanged", "error"}, FinishRefresh(l, s)
        PROVE  Safe(want[q])'
    <2> DEFINE e == [cmd |-> RowCommand(l, s), by |-> l]
    <2>1. /\ log' = Append(log, e) /\ e \in Entry /\ e.cmd = RowCommand(l, s)
          /\ job[l].pc = "downloading" /\ job' = [job EXCEPT ![l] = job'[l]]
          /\ job'[l].pc = "writing" /\ UNCHANGED <<file, req, alone>>
      BY <1>7, FinishType DEF LastingInv, Entry
    <2> HIDE DEF e
    <2>2. \A i \in DOMAIN log' : (i \in DOMAIN log /\ log'[i] = log[i]) \/ log'[i] = e
      BY <2>1, Longer DEF LastingInv, TypeOK
    <2>3. Safe(want[q])
      BY <1>c, <2>1 DEF Guarded
    <2>4. Keeps(want[q], e.cmd)
      <3>1. RowKeeps(want[q], l, job[l].prior)
        BY <2>1, <2>3 DEF Safe
      <3>2. RowOf(l, s) \in {job[l].prior, [job[l].prior EXCEPT !.from = job[l].prior.url]}
        BY DEF RowOf
      <3> QED
        BY <2>1, <3>1, <3>2 DEF RowKeeps, RowCommand
    <2> QED
      BY <1>0, <2>1, <2>2, <2>3, <2>4 DEF Safe, LastingInv, TypeOK
  <1>8. CASE Apply
    <2> DEFINE b == log[1].by
    <2>1. /\ \A i \in DOMAIN log' : i + 1 \in DOMAIN log /\ log'[i] = log[i + 1]
          /\ file' = Done(log[1].cmd, file) /\ 1 \in DOMAIN log /\ log[1] \in Entry
          /\ DOMAIN log' = 1..(Len(log) - 1) /\ Len(log) \in Nat
      BY <1>8, ApplyType DEF LastingInv
    <2>2. /\ \A l \in List : job'[l] = job[l] \/ job'[l] = NoJob
          /\ \A s \in Request : req'[s] = req[s] \/ req'[s].pc = "applied"
          /\ \/ alone' = alone
             \/ /\ alone' = alone \cup {b} /\ b \in Request /\ req[b].pc = "sent"
                /\ req[b].says = "ok" /\ NobodyElse(b)
      BY <1>8, WaiterType DEF LastingInv, TypeOK
    <2>3. CASE q \in alone
      <3>1. Safe(want[q])
        BY <1>c, <2>3
      <3>2. Holds(want[q], Done(log[1].cmd, file))
        BY <2>1, <3>1 DEF Safe, Keeps, LastingInv, TypeOK
      <3> QED
        BY <1>0, <2>1, <2>2, <3>1, <3>2 DEF Safe, NoJob
    <2>4. CASE q \notin alone
      <3>1. q = b /\ req[q].pc = "sent" /\ req[q].says = "ok" /\ NobodyElse(q)
        BY <2>2, <2>4 DEF Guarded
      <3>2. Delivers(want[q], log[1].cmd)
        BY <1>a, <2>1, <3>1 DEF LastingInv, Delivered
      <3>3. Holds(want[q], file')
        BY <2>1, <3>2 DEF Delivers, LastingInv, TypeOK
      <3>4. DOMAIN log' = {}
        BY <2>1, <3>1 DEF NobodyElse
      <3>5. \A s \in Request : req[s].pc # "holding"
        BY <3>1 DEF NobodyElse
      <3>6. \A l \in List : job'[l].pc # "downloading"
        BY <2>2, <3>1 DEF NobodyElse, NoJob
      <3> QED
        BY <1>0, <2>2, <3>3, <3>4, <3>5, <3>6 DEF Safe
    <2> QED
      BY <2>3, <2>4
  <1>9. ASSUME NEW kept \in 0..Len(log), LoseLeadership(kept)
        PROVE  Safe(want[q])'
    <2>1. /\ UNCHANGED <<file, alone>>
          /\ \A i \in DOMAIN log' : i \in DOMAIN log /\ log'[i].cmd = log[i].cmd
          /\ \A r \in Request : req'[r].pc = "lost" \/ req'[r] = req[r]
          /\ \A l \in List : job'[l] = NoJob \/ job'[l] = job[l]
      BY <1>9, LostType DEF LastingInv
    <2> QED
      BY <1>0, <1>c, <2>1 DEF Safe, NoJob, Guarded
  <1> QED
    BY <1>1, <1>2, <1>3, <1>4, <1>5, <1>6, <1>7, <1>8, <1>9, Steps DEF LastingInv

\* Nobody has written at the start.
LEMMA LastingInit ==
    ASSUME ConfigAssumption, NEW ops \in SUBSET Operation, Begin(ops)
    PROVE  LastingInv
  <1>1. TypeOK
    BY TypesInit
  <1>2. log = <<>> /\ alone = {} /\ \A r \in Request : req[r] = Idle
    BY DEF Begin
  <1>3. DOMAIN log = {}
    BY <1>2
  <1> QED
    BY <1>1, <1>2, <1>3 DEF LastingInv, Waiting, Delivered, Finished, Undisturbed, Guarded, Idle

\* Every step keeps it all.
LEMMA LastingStep ==
    ASSUME ConfigAssumption, LastingInv, [Next]_vars
    PROVE  LastingInv'
  <1>1. CASE Next
    BY <1>1, TypesStep, WaitingStep, DeliveredStep, FinishedStep, UndisturbedStep DEF LastingInv
  <1>2. CASE UNCHANGED vars
    BY <1>2 DEF vars, LastingInv, TypeOK, Waiting, Delivered, Finished, Undisturbed, Guarded, Safe
  <1> QED
    BY <1>1, <1>2

\* And so what a request wrote alone holds.
LEMMA LastingHolds == LastingInv => WritesAloneStay
  BY DEF LastingInv, Undisturbed, Guarded, Safe, WritesAloneStay, TypeOK

\* The model keeps to its types.
THEOREM Types == Spec => []TypeOK
  <1>1. Init => TypeOK
    BY TypesInit, ConfigAssumption, OpsAssumption DEF Init
  <1>2. TypeOK /\ [Next]_vars => TypeOK'
    BY TypesStep, ConfigAssumption
  <1> QED
    BY <1>1, <1>2, PTL DEF Spec

\* Only writes that cross undo each other: what a request wrote while no other write was under
\* way (the import of WithWriteLock, a typed command, a profile) stays in the configuration,
\* with any number of requests and refreshes after it that cross as they like, and leaders lost.
THEOREM AloneStays == Spec => []WritesAloneStay
  <1>1. Init => LastingInv
    BY LastingInit, ConfigAssumption, OpsAssumption DEF Init
  <1>2. LastingInv /\ [Next]_vars => LastingInv'
    BY LastingStep, ConfigAssumption
  <1> QED
    BY <1>1, <1>2, LastingHolds, PTL DEF Spec

-----------------------------------------------------------------------------
(* What is written is what is promised.                                    *)

\* An import installs the part of the copy that is carried, and all of it.
LEMMA CarriedImport ==
    ASSUME NEW f \in Config, NEW c \in Config
    PROVE  Carried(Import(f, c)) = Carried(c)
  <1>1. /\ Import(f, c).lists = c.lists /\ Import(f, c).setting = c.setting
        /\ Import(f, c).creds = c.creds
        /\ \A d \in Domain : Import(f, c).allow[d] = "plain" <=> c.allow[d] = "plain"
    BY DEF Import, Config
  <1> QED
    BY <1>1 DEF Carried

\* What an edit does to the copy is what is promised, on the part it carries.
LEMMA EditEffect ==
    ASSUME NEW op \in Locked, NEW c \in Config, NEW from, Found(op, c),
           op.kind = "refresh" => c.lists[op.list] # NoRow /\ from = c.lists[op.list].url
    PROVE  Carried(Edit(op, c, from)) = CarriedEffect(op, Carried(c))
  <1> DEFINE e == Edit(op, c, from)
             k == Carried(c)
  <1>0. k = [lists |-> c.lists, setting |-> c.setting, creds |-> c.creds,
             plain |-> {d \in Domain : c.allow[d] = "plain"}]
    BY DEF Carried
  <1>1. CASE op.kind \in RowKinds
    <2> DEFINE new == NewRow(op, c.lists[op.list], from)
    <2>1. op.list \in List /\ e = [c EXCEPT !.lists[op.list] = new]
      BY <1>1, EditsRow
    <2>5. /\ e.lists = [c.lists EXCEPT ![op.list] = new] /\ e.setting = c.setting
          /\ e.creds = c.creds /\ e.allow = c.allow
      BY <2>1 DEF Config
    <2>6. Carried(e) = [lists |-> [c.lists EXCEPT ![op.list] = new], setting |-> c.setting,
                        creds |-> c.creds, plain |-> {d \in Domain : c.allow[d] = "plain"}]
      BY <2>5, Zenon DEF Carried
    <2>2. Carried(e) = [k EXCEPT !.lists[op.list] = new]
      BY <1>0, <2>6
    <2>3. CASE op.kind = "create"
      BY <2>2, <2>3 DEF NewRow, CarriedEffect
    <2>4. CASE op.kind # "create"
      <3>1. c.lists[op.list] # NoRow /\ k.lists = c.lists
        BY <1>0, <1>1, <2>4 DEF Found, RowKinds
      <3>2. new = RowEffect(op, c.lists[op.list])
        BY <1>1, <2>4, <3>1 DEF NewRow, RowEffect, RowKinds
      <3>3. CarriedEffect(op, k) = [k EXCEPT !.lists[op.list] = RowEffect(op, k.lists[op.list])]
        BY <1>1, <2>4, <3>1 DEF CarriedEffect, RowKinds
      <3> QED
        BY <2>2, <3>1, <3>2, <3>3
    <2> QED
      BY <2>3, <2>4
  <1>2. CASE op.kind = "setting"
    <2>1. e = [c EXCEPT !.setting = "new"]
      BY <1>2 DEF Edit
    <2>2. CarriedEffect(op, k) = [k EXCEPT !.setting = "new"]
      BY <1>2 DEF CarriedEffect
    <2>3. e.setting = "new" /\ e.lists = c.lists /\ e.creds = c.creds /\ e.allow = c.allow
      BY <2>1 DEF Config
    <2>4. Carried(e) = [lists |-> c.lists, setting |-> "new", creds |-> c.creds,
                        plain |-> {d \in Domain : c.allow[d] = "plain"}]
      BY <2>3, Zenon DEF Carried
    <2> QED
      BY <1>0, <2>2, <2>4
  <1>3. CASE op.kind = "archive"
    <2>1. e = [Fresh EXCEPT !.setting = "archived", !.creds = c.creds]
      BY <1>3 DEF Edit
    <2>2. CarriedEffect(op, k) = Carried([Fresh EXCEPT !.setting = "archived", !.creds = k.creds])
      BY <1>3 DEF CarriedEffect
    <2>3. k.creds = c.creds
      BY <1>0
    <2> QED
      BY <2>1, <2>2, <2>3
  <1>4. CASE op.kind = "unallow"
    <2>1. e = [c EXCEPT !.allow[op.dom] = "no"] /\ op.dom \in Domain
      BY <1>4, EditsRest DEF Locked
    <2>2. CarriedEffect(op, k) = [k EXCEPT !.plain = k.plain \ {op.dom}]
      BY <1>4 DEF CarriedEffect
    <2>3. {d \in Domain : e.allow[d] = "plain"} = k.plain \ {op.dom}
      BY <1>0, <2>1 DEF Config
    <2>4. e.lists = c.lists /\ e.setting = c.setting /\ e.creds = c.creds
      BY <2>1 DEF Config
    <2> QED
      BY <1>0, <2>2, <2>3, <2>4 DEF Carried
  <1> QED
    BY <1>1, <1>2, <1>3, <1>4, LockedKinds

\* A typed write does to the file what is promised.
LEMMA PutEffect ==
    ASSUME NEW op \in CarriedOps \cap Typed, NEW f \in Config
    PROVE  Carried(Put(op, f)) = CarriedEffect(op, Carried(f))
  <1> DEFINE k == Carried(f)
  <1>0. k = [lists |-> f.lists, setting |-> f.setting, creds |-> f.creds,
             plain |-> {d \in Domain : f.allow[d] = "plain"}]
    BY DEF Carried
  <1>1. CASE op.kind = "allow"
    <2>1. op.dom \in Domain /\ op.as = "plain"
      BY <1>1, Kinds DEF Typed, CarriedOps
    <2>2. Put(op, f) = [f EXCEPT !.allow[op.dom] = "plain"]
      BY <1>1, <2>1 DEF Put
    <2>3. CarriedEffect(op, k) = [k EXCEPT !.plain = k.plain \cup {op.dom}]
      BY <1>1 DEF CarriedEffect
    <2>4. {d \in Domain : Put(op, f).allow[d] = "plain"} = k.plain \cup {op.dom}
      BY <1>0, <2>1, <2>2 DEF Config
    <2>5. /\ Put(op, f).lists = f.lists /\ Put(op, f).setting = f.setting
          /\ Put(op, f).creds = f.creds
      BY <2>2 DEF Config
    <2> QED
      BY <1>0, <2>3, <2>4, <2>5 DEF Carried
  <1>2. CASE op.kind = "creds"
    <2>1. Put(op, f) = [f EXCEPT !.creds = "new"]
      BY <1>2 DEF Put
    <2>2. CarriedEffect(op, k) = [k EXCEPT !.creds = "new"]
      BY <1>2 DEF CarriedEffect
    <2>3. /\ Put(op, f).lists = f.lists /\ Put(op, f).setting = f.setting
          /\ Put(op, f).creds = "new" /\ Put(op, f).allow = f.allow
      BY <2>1 DEF Config
    <2>4. Carried(Put(op, f)) = [lists |-> f.lists, setting |-> f.setting, creds |-> "new",
                                 plain |-> {d \in Domain : f.allow[d] = "plain"}]
      BY <2>3, Zenon DEF Carried
    <2> QED
      BY <1>0, <2>2, <2>4
  <1> QED
    BY <1>1, <1>2, Kinds DEF CarriedOps

-----------------------------------------------------------------------------
(* Requests that take turns.                                               *)

\* What the command of request r brings is what its answer says.
Promised(r, says, cmd) ==
    Carried(Done(cmd, file)) =
        IF says = "ok" THEN CarriedEffect(want[r], Carried(file)) ELSE Carried(file)

\* One request at most is under way, nothing is refreshed behind its back, and
\* the command in its hand or in the log is what is promised.
Turn ==
    /\ want \in [Request -> CarriedOps]
    /\ job = [l \in List |-> NoJob]
    /\ \A r, s \in UnderWay : r = s
    /\ Len(log) <= 1
    /\ \A r \in Request :
          /\ req[r].pc = "fetched" => /\ want[r].kind = "refresh"
                                      /\ file.lists[want[r].list] # NoRow
                                      /\ req[r].from = file.lists[want[r].list].url
          /\ req[r].pc = "holding" => Promised(r, req[r].says, req[r].cmd)
    /\ \A i \in DOMAIN log :
          /\ log[i].by \in Request
          /\ req[log[i].by].pc = "sent" => Promised(log[i].by, req[log[i].by].says, log[i].cmd)
          /\ req[log[i].by].pc = "lost" =>
                \E says \in {"ok", "no"} : Promised(log[i].by, says, log[i].cmd)

TurnInv == LastingInv /\ Turn

\* What a request alone reads, edits and submits is what is promised.
LEMMA ReadPromised ==
    ASSUME ConfigAssumption, TurnInv, NEW r \in Request, Held(r)
    PROVE  Promised(r, SaysOf(r), CommandOf(r))
  <1> USE DEF TurnInv, LastingInv, TypeOK
  <1>1. CASE want[r] \in Locked
    <2> DEFINE s == Snapshot(file)
               e == Edit(want[r], s, req[r].from)
    <2>1. CommandOf(r) = [kind |-> "import", conf |-> e]
      BY <1>1, Kinds DEF CommandOf
    <2>2. s \in Config /\ e \in Config /\ req[r].from \in Url \cup {NoUrl}
      <3>1. req[r].from \in Url \cup {NoUrl}
        BY DEF Handler
      <3> QED
        BY <1>1, <3>1, SnapshotType, EditType
    <2>3. Done(CommandOf(r), file) = Import(file, e)
      BY <2>1 DEF Done
    <2>4. Carried(Import(file, e)) = Carried(e)
      BY <2>2, CarriedImport
    <2>5. /\ s.lists = file.lists /\ s.setting = file.setting /\ s.creds = file.creds
          /\ \A d \in Domain : s.allow[d] = "plain" <=> file.allow[d] = "plain"
      BY DEF Snapshot, Config
    <2> HIDE DEF s
    <2>6. Carried(s) = Carried(file)
      BY <2>5 DEF Carried
    <2>7. CASE Found(want[r], s)
      <3>1. ReadCopy(r)
        BY <1>1, Kinds DEF Held, Check, ReadProfile
      <3>2. want[r].kind = "refresh" => /\ s.lists[want[r].list] # NoRow
                                        /\ req[r].from = s.lists[want[r].list].url
        BY <2>5, <3>1 DEF ReadCopy, Turn
      <3>3. Carried(e) = CarriedEffect(want[r], Carried(s))
        BY <1>1, <2>2, <2>7, <3>2, EditEffect
      <3>4. SaysOf(r) = "ok"
        BY <2>7 DEF SaysOf, s
      <3> HIDE DEF e
      <3> QED
        BY <2>3, <2>4, <2>6, <3>3, <3>4 DEF Promised
    <2>8. CASE ~Found(want[r], s)
      <3>1. e = s
        BY <2>8 DEF Edit
      <3>2. SaysOf(r) = "no"
        BY <1>1, <2>8 DEF SaysOf, s
      <3> HIDE DEF e
      <3> QED
        BY <2>3, <2>4, <2>6, <3>1, <3>2 DEF Promised
    <2> QED
      BY <2>7, <2>8
  <1>2. CASE want[r] \in Typed
    <2>1. Done(CommandOf(r), file) = Put(want[r], file) /\ SaysOf(r) = "ok"
      BY <1>2, Kinds DEF CommandOf, Done, SaysOf
    <2>2. want[r] \in CarriedOps \cap Typed
      BY <1>2 DEF Turn
    <2> QED
      BY <2>1, <2>2, PutEffect DEF Promised
  <1>3. want[r] \in Locked \cup Typed
    BY DEF Turn, CarriedOps
  <1> QED
    BY <1>1, <1>2, <1>3

\* The entry in the log, if there is one, is of the request under way.
LEMMA OneEntry ==
    ASSUME TurnInv
    PROVE  /\ \A i \in DOMAIN log : /\ i = 1 /\ log[1].by \in UnderWay
                                    /\ req[log[1].by].pc \in {"sent", "lost"}
           /\ \A r \in Request : InLog(r) => r \in UnderWay
           /\ Len(log) \in Nat /\ DOMAIN log = 1..Len(log)
  <1> USE DEF TurnInv, LastingInv, TypeOK, Turn, Waiting, UnderWay, InLog
  <1>1. Len(log) \in Nat /\ DOMAIN log = 1..Len(log)
    OBVIOUS
  <1>2. \A i \in DOMAIN log : i = 1
    BY <1>1
  <1> QED
    BY <1>1, <1>2

\* Requests that take turns take steps of a few kinds.
LEMMA TurnSteps ==
    ASSUME ConfigAssumption, TurnInv, TurnsNext
    PROVE  /\ \/ \E r \in Request : \/ Held(r) \/ Fetched(r) \/ Submit(r)
                                    \/ \E a \in {"ok", "no", "lost"} : Told(r, a)
              \/ Apply
              \/ \E kept \in 0..Len(log) : LoseLeadership(kept)
           /\ UNCHANGED want /\ Next /\ \A r, s \in UnderWay' : r = s
  <1>1. ASSUME NEW l \in List
        PROVE  /\ ~StartRefresh(l) /\ ~LoseRefresh(l)
               /\ \A s \in {"ok", "unchanged", "error"} : ~FinishRefresh(l, s)
    <2>1. job[l].pc = "idle"
      BY DEF TurnInv, Turn, NoJob
    <2>2. ~StartRefresh(l)
      BY DEF StartRefresh, TurnsNext, TurnInv, LastingInv, TypeOK, ConfigAssumption
    <2> QED
      BY <2>1, <2>2 DEF LoseRefresh, FinishRefresh
  <1>2. Next /\ \A r, s \in UnderWay' : r = s
    BY DEF TurnsNext
  <1> QED
    BY <1>1, <1>2, Steps, WantStays DEF TurnInv, LastingInv

\* The turns go on.
LEMMA TurnStep ==
    ASSUME ConfigAssumption, TurnInv, TurnsNext
    PROVE  Turn'
  <1>0. UNCHANGED want /\ \A r, s \in UnderWay' : r = s
    BY TurnSteps
  <1>1. ASSUME NEW r \in Request, Held(r)
        PROVE  Turn'
    <2>1. /\ req' = [req EXCEPT ![r] = req'[r]] /\ req'[r].pc = "holding"
          /\ req'[r].cmd = CommandOf(r) /\ req'[r].says = SaysOf(r)
          /\ UNCHANGED <<file, log, job>> /\ req[r].pc \in {"idle", "fetched"}
      BY <1>1, HeldHolds, CommandType, HoldType DEF TurnInv, LastingInv, TypeOK
    <2>2. Promised(r, SaysOf(r), CommandOf(r))
      BY <1>1, ReadPromised
    <2>3. \A i \in DOMAIN log : log[i].by # r
      BY <2>1, OneEntry
    <2> QED
      BY <1>0, <2>1, <2>2, <2>3 DEF TurnInv, LastingInv, TypeOK, Turn, Promised
  <1>2. ASSUME NEW r \in Request, Fetched(r)
        PROVE  Turn'
    <2>1. \A i \in DOMAIN log : log[i].by # r
      BY <1>2, FetchedType, OneEntry DEF TurnInv, LastingInv
    <2>2. /\ req' = [req EXCEPT ![r] = req'[r]] /\ req'[r].pc = "fetched"
          /\ req'[r].from = file.lists[want[r].list].url /\ file.lists[want[r].list] # NoRow
          /\ want[r].kind = "refresh" /\ UNCHANGED <<file, log, job>>
      BY <1>2, FetchedType DEF TurnInv, LastingInv
    <2> QED
      BY <1>0, <2>1, <2>2 DEF TurnInv, LastingInv, TypeOK, Turn, Promised
  <1>3. ASSUME NEW r \in Request, NEW a \in {"ok", "no", "lost"}, Told(r, a)
        PROVE  Turn'
    <2>1. /\ req' = [req EXCEPT ![r] = req'[r]] /\ req'[r].pc = a
          /\ UNCHANGED <<file, log, job>> /\ req[r].pc \in {"idle", "holding", "applied"}
      BY <1>3, AnswerType DEF TurnInv, LastingInv, TypeOK, Told
    <2>2. \A i \in DOMAIN log : log[i].by # r
      BY <2>1, OneEntry
    <2> QED
      BY <1>0, <2>1, <2>2 DEF TurnInv, LastingInv, TypeOK, Turn, Promised
  <1>4. ASSUME NEW r \in Request, Submit(r)
        PROVE  Turn'
    <2> DEFINE e == [cmd |-> req[r].cmd, by |-> r]
    <2>1. /\ log' = Append(log, e) /\ req[r].pc = "holding" /\ req'[r].pc = "sent"
          /\ req'[r].says = req[r].says /\ req' = [req EXCEPT ![r] = req'[r]]
          /\ e \in Entry /\ e.by = r /\ e.cmd = req[r].cmd /\ UNCHANGED <<file, job>>
      BY <1>4, SubmitType DEF TurnInv, LastingInv, Entry
    <2> HIDE DEF e
    <2>2. DOMAIN log = {} /\ Len(log) = 0
      <3>1. r \in UnderWay
        BY <2>1 DEF UnderWay
      <3>2. ASSUME NEW i \in DOMAIN log
            PROVE  FALSE
        BY <2>1, <3>1, OneEntry DEF TurnInv, Turn
      <3> QED
        BY <3>2, OneEntry
    <2>3. DOMAIN log' = {1} /\ log'[1] = e /\ Len(log') = 1
      BY <2>1, <2>2, Longer DEF TurnInv, LastingInv, TypeOK
    <2>4. Promised(r, req[r].says, e.cmd)
      BY <2>1 DEF TurnInv, Turn
    <2>5. /\ \A q \in Request : /\ req'[q].pc = "fetched" => req'[q] = req[q]
                                /\ req'[q].pc = "holding" => req'[q] = req[q]
      BY <2>1 DEF TurnInv, LastingInv, TypeOK
    <2> QED
      BY <1>0, <2>1, <2>3, <2>4, <2>5 DEF TurnInv, Turn, Promised
  <1>5. CASE Apply
    <2> DEFINE b == log[1].by
    <2>1. /\ DOMAIN log' = 1..(Len(log) - 1) /\ 1 \in DOMAIN log /\ log' \in Seq(Entry)
          /\ Len(log) \in Nat
      BY <1>5, ApplyType DEF TurnInv, LastingInv
    <2>2. DOMAIN log' = {} /\ Len(log') = 0
      BY <2>1 DEF TurnInv, Turn
    <2>3. b \in UnderWay /\ b \in Request /\ req[b].pc \in {"sent", "lost"}
      BY <2>1, OneEntry DEF UnderWay
    <2>4. \A q \in Request : req[q].pc \notin {"fetched", "holding"}
      BY <2>3 DEF TurnInv, Turn, UnderWay
    <2>5. \A q \in Request : req'[q] = req[q] \/ req'[q].pc = "applied"
      BY <1>5, WaiterType DEF TurnInv, LastingInv, TypeOK
    <2>6. job' = job
      <3>1. \A l \in List : job'[l] = job[l]
        BY <1>5, WaiterType DEF TurnInv, LastingInv, Turn
      <3> QED
        BY <1>5, <3>1, WaiterType DEF TurnInv, LastingInv, TypeOK
    <2> QED
      BY <1>0, <2>2, <2>4, <2>5, <2>6 DEF TurnInv, Turn
  <1>6. ASSUME NEW kept \in 0..Len(log), LoseLeadership(kept)
        PROVE  Turn'
    <2>1. /\ log' \in Seq(Entry) /\ DOMAIN log' = 1..kept /\ 1..kept \subseteq DOMAIN log
          /\ \A i \in 1..kept : /\ log'[i].cmd = log[i].cmd
                                /\ log'[i].by = IF log[i].by \in List THEN Nobody ELSE log[i].by
          /\ \A r \in Request : IF req[r].pc = "sent"
                                THEN req'[r].pc = "lost" /\ req'[r].says = "ok"
                                ELSE req'[r] = req[r]
          /\ \A l \in List : job'[l] = IF job[l].pc = "writing" THEN NoJob ELSE job[l]
          /\ UNCHANGED file /\ job' \in [List -> Job]
      BY <1>6, LostType DEF TurnInv, LastingInv
    <2>2. job' = job
      BY <2>1 DEF TurnInv, Turn, NoJob, LastingInv, TypeOK
    <2>3. \A i \in 1..kept : log'[i].by = log[i].by
      BY <2>1 DEF TurnInv, Turn, ConfigAssumption
    <2>4. Len(log') <= 1
      <3>1. Len(log') = kept
        BY <2>1
      <3> QED
        BY <3>1, OneEntry DEF TurnInv, Turn
    <2>5. \A q \in Request : /\ req'[q].pc = "fetched" => req'[q] = req[q]
                             /\ req'[q].pc = "holding" => req'[q] = req[q]
                             /\ req'[q].pc # "sent"
      BY <2>1
    <2>6. ASSUME NEW i \in DOMAIN log', req'[log'[i].by].pc = "lost"
          PROVE  \E says \in {"ok", "no"} : Promised(log[i].by, says, log[i].cmd)'
      <3>1. /\ i \in DOMAIN log /\ log'[i].cmd = log[i].cmd /\ log'[i].by = log[i].by
            /\ log[i].by \in Request
        BY <2>1, <2>3 DEF TurnInv, Turn
      <3>2. req[log[i].by].pc \in {"sent", "lost"} /\ req[log[i].by].says \in {"ok", "no"}
        BY <3>1, OneEntry DEF TurnInv, LastingInv, TypeOK, Handler
      <3>3. \E says \in {"ok", "no"} : Promised(log[i].by, says, log[i].cmd)
        BY <3>1, <3>2 DEF TurnInv, Turn
      <3> QED
        BY <1>0, <2>1, <3>1, <3>3 DEF Promised
    <2>7. \A i \in DOMAIN log' : log'[i].by \in Request
      BY <2>1, <2>3 DEF TurnInv, Turn
    <2>8. \A q \in Request : /\ req'[q].pc = "fetched" => /\ want'[q].kind = "refresh"
                                      /\ file'.lists[want'[q].list] # NoRow
                                      /\ req'[q].from = file'.lists[want'[q].list].url
                             /\ req'[q].pc = "holding" => Promised(q, req[q].says, req[q].cmd)'
      BY <1>0, <2>1, <2>5 DEF TurnInv, Turn, Promised
    <2> QED
      BY <1>0, <2>1, <2>2, <2>4, <2>5, <2>6, <2>7, <2>8 DEF TurnInv, Turn, Promised
  <1> QED
    BY <1>1, <1>2, <1>3, <1>4, <1>5, <1>6, TurnSteps

-----------------------------------------------------------------------------
(* The refinement mapping: Stage for the requests, Carried for the file.   *)

\* A stage is told from the handler and the log.
LEMMA StageOf ==
    ASSUME NEW r \in Request
    PROVE  /\ req[r].pc \in {"idle", "fetched", "holding", "sent"} => Stage[r] = "open"
           /\ req[r].pc = "applied" => Stage[r] = IF req[r].says = "ok" THEN "done" ELSE "open"
           /\ req[r].pc \in {"ok", "no"} => Stage[r] = req[r].pc
           /\ req[r].pc = "lost" => Stage[r] = IF InLog(r) THEN "doubt" ELSE "lost"
  BY DEF Stage

\* So it is after a step.
LEMMA StageAfter ==
    ASSUME NEW r \in Request
    PROVE  /\ req'[r].pc \in {"idle", "fetched", "holding", "sent"} => Stage'[r] = "open"
           /\ req'[r].pc = "applied" => Stage'[r] = IF req'[r].says = "ok" THEN "done" ELSE "open"
           /\ req'[r].pc \in {"ok", "no"} => Stage'[r] = req'[r].pc
           /\ req'[r].pc = "lost" => Stage'[r] = IF InLog(r)' THEN "doubt" ELSE "lost"
  BY DEF Stage

\* Where one handler moves, one stage does.
LEMMA StageMoves ==
    ASSUME NEW r \in Request,
           \A q \in Request \ {r} : req'[q] = req[q] /\ (InLog(q)' <=> InLog(q))
    PROVE  Stage' = [Stage EXCEPT ![r] = Stage'[r]]
  <1>1. \A q \in Request \ {r} : Stage'[q] = Stage[q]
    BY DEF Stage
  <1>2. /\ DOMAIN Stage = Request /\ DOMAIN Stage' = Request
        /\ Stage = [q \in Request |-> Stage[q]] /\ Stage' = [q \in Request |-> Stage'[q]]
    BY DEF Stage
  <1> QED
    BY <1>1, <1>2

\* A request that goes on has the stage it had.
LEMMA StageStays ==
    ASSUME NEW r \in Request, Stage'[r] = Stage[r],
           \A q \in Request \ {r} : req'[q] = req[q] /\ (InLog(q)' <=> InLog(q))
    PROVE  Stage' = Stage
  <1>1. Stage' = [Stage EXCEPT ![r] = Stage[r]]
    BY StageMoves
  <1>2. DOMAIN Stage = Request /\ Stage = [q \in Request |-> Stage[q]]
    BY DEF Stage
  <1> QED
    BY <1>1, <1>2

Mapped == Promise!Next \/ UNCHANGED <<Carried(file), want, Stage>>

\* Every step of requests that take turns is a step of the promise, or none.
LEMMA Simulates ==
    ASSUME ConfigAssumption, TurnInv, TurnsNext
    PROVE  Mapped
  <1>0. UNCHANGED want
    BY TurnSteps
  <1>a. ASSUME NEW r \in Request, NEW from, NEW to, Stage[r] = from,
               Stage' = [Stage EXCEPT ![r] = to], Carried(file)' = Carried(file),
               <<from, to>> \in {<<"done", "ok">>, <<"open", "no">>, <<"open", "doubt">>,
                                 <<"open", "lost">>, <<"doubt", "lost">>}
        PROVE  Mapped
    BY <1>0, <1>a DEF Mapped, Promise!Next, Promise!Answer, Promise!GiveUp, Promise!Moves
  <1>b. ASSUME NEW r \in Request, NEW from, NEW to, Stage[r] = from,
               Stage' = [Stage EXCEPT ![r] = to],
               Carried(file)' = CarriedEffect(want[r], Carried(file)),
               <<from, to>> \in {<<"open", "done">>, <<"doubt", "lost">>}
        PROVE  Mapped
    BY <1>0, <1>b DEF Mapped, Promise!Next, Promise!TakeEffect, Promise!Moves
  <1>1. ASSUME NEW r \in Request, Held(r)
        PROVE  Mapped
    <2>1. /\ req' = [req EXCEPT ![r] = req'[r]] /\ req'[r].pc = "holding"
          /\ UNCHANGED <<file, log>> /\ req[r].pc \in {"idle", "fetched"}
      BY <1>1, HeldHolds, CommandType, HoldType DEF TurnInv, LastingInv, TypeOK
    <2>2. \A q \in Request \ {r} : req'[q] = req[q] /\ (InLog(q)' <=> InLog(q))
      BY <2>1 DEF TurnInv, LastingInv, TypeOK, InLog
    <2>3. Stage' = Stage
      BY <2>1, <2>2, StageOf, StageAfter, StageStays
    <2> QED
      BY <1>0, <2>1, <2>3 DEF Mapped, Carried
  <1>2. ASSUME NEW r \in Request, Fetched(r)
        PROVE  Mapped
    <2>1. /\ req' = [req EXCEPT ![r] = req'[r]] /\ req'[r].pc = "fetched"
          /\ UNCHANGED <<file, log>> /\ req[r].pc = "idle"
      BY <1>2, FetchedType DEF TurnInv, LastingInv, TypeOK
    <2>2. \A q \in Request \ {r} : req'[q] = req[q] /\ (InLog(q)' <=> InLog(q))
      BY <2>1 DEF TurnInv, LastingInv, TypeOK, InLog
    <2>3. Stage' = Stage
      BY <2>1, <2>2, StageOf, StageAfter, StageStays
    <2> QED
      BY <1>0, <2>1, <2>3 DEF Mapped, Carried
  <1>3. ASSUME NEW r \in Request, Submit(r)
        PROVE  Mapped
    <2> DEFINE e == [cmd |-> req[r].cmd, by |-> r]
    <2>1. /\ log' = Append(log, e) /\ req[r].pc = "holding" /\ req'[r].pc = "sent"
          /\ req' = [req EXCEPT ![r] = req'[r]] /\ e \in Entry /\ e.by = r /\ UNCHANGED file
      BY <1>3, SubmitType DEF TurnInv, LastingInv, Entry
    <2> HIDE DEF e
    <2>2. /\ \A i \in DOMAIN log : i \in DOMAIN log' /\ log'[i] = log[i]
          /\ \A i \in DOMAIN log' : (i \in DOMAIN log /\ log'[i] = log[i]) \/ log'[i] = e
      BY <2>1, Longer DEF TurnInv, LastingInv, TypeOK
    <2>3. \A q \in Request \ {r} : req'[q] = req[q] /\ (InLog(q)' <=> InLog(q))
      BY <2>1, <2>2 DEF TurnInv, LastingInv, TypeOK, InLog
    <2>4. Stage' = Stage
      BY <2>1, <2>3, StageOf, StageAfter, StageStays
    <2> QED
      BY <1>0, <2>1, <2>4 DEF Mapped, Carried
  <1>4. ASSUME NEW r \in Request, NEW a \in {"ok", "no", "lost"}, Told(r, a)
        PROVE  Mapped
    <2>1. /\ req' = [req EXCEPT ![r] = req'[r]] /\ req'[r].pc = a /\ UNCHANGED <<file, log>>
          /\ \/ a = "no" /\ req[r].pc \in {"idle", "holding"}
             \/ a = "lost" /\ req[r].pc = "holding"
             \/ a = req[r].says /\ req[r].pc = "applied"
          /\ req[r].says \in {"ok", "no"}
      BY <1>4, AnswerType DEF TurnInv, LastingInv, TypeOK, Told, Handler
    <2>2. \A q \in Request \ {r} : req'[q] = req[q] /\ (InLog(q)' <=> InLog(q))
      BY <2>1 DEF TurnInv, LastingInv, TypeOK, InLog
    <2>3. ~InLog(r) /\ ~InLog(r)'
      BY <2>1, OneEntry DEF InLog
    <2>4. Stage' = [Stage EXCEPT ![r] = Stage'[r]] /\ Carried(file)' = Carried(file)
      BY <2>1, <2>2, StageMoves DEF Carried
    <2>5. Stage'[r] = a /\ Stage[r] = IF a = "ok" THEN "done" ELSE "open"
      BY <2>1, <2>3, StageOf, StageAfter
    <2> QED
      BY <1>a, <2>4, <2>5
  <1>5. CASE Apply
    <2> DEFINE b == log[1].by
    <2>1. /\ DOMAIN log' = 1..(Len(log) - 1) /\ 1 \in DOMAIN log /\ Len(log) \in Nat
          /\ file' = Done(log[1].cmd, file)
      BY <1>5, ApplyType DEF TurnInv, LastingInv
    <2>2. b \in UnderWay /\ b \in Request /\ req[b].pc \in {"sent", "lost"}
      BY <2>1, OneEntry DEF UnderWay
    <2>3. DOMAIN log' = {} /\ \A q \in Request : ~InLog(q)'
      BY <2>1 DEF TurnInv, Turn, InLog
    <2>4. InLog(b) /\ \A q \in Request \ {b} : ~InLog(q)
      BY <2>1, OneEntry DEF InLog
    <2>5. IF req[b].pc = "sent"
          THEN req' = [req EXCEPT ![b] = req'[b]] /\ req'[b].pc = "applied"
               /\ req'[b].says = req[b].says
          ELSE UNCHANGED req
      BY <1>5, <2>2, WaiterType DEF TurnInv, LastingInv
    <2>p. /\ req[b].pc = "sent" => Promised(b, req[b].says, log[1].cmd)
          /\ req[b].pc = "lost" => \E says \in {"ok", "no"} : Promised(b, says, log[1].cmd)
      BY <2>1 DEF TurnInv, Turn
    <2>c. Carried(file)' = Carried(Done(log[1].cmd, file))
      BY <2>1 DEF Carried
    <2> HIDE DEF b
    <2>6. \A q \in Request \ {b} : req'[q] = req[q] /\ (InLog(q)' <=> InLog(q))
      BY <2>2, <2>3, <2>4, <2>5 DEF TurnInv, LastingInv, TypeOK
    <2>7. Stage' = [Stage EXCEPT ![b] = Stage'[b]]
      BY <2>2, <2>6, StageMoves
    <2>8. CASE req[b].pc = "sent" /\ req[b].says = "ok"
      <3>1. Stage[b] = "open" /\ Stage'[b] = "done"
        BY <2>2, <2>5, <2>8, StageOf, StageAfter
      <3>2. Carried(file)' = CarriedEffect(want[b], Carried(file))
        BY <2>p, <2>c, <2>8 DEF Promised
      <3> QED
        BY <1>b, <2>2, <2>7, <3>1, <3>2
    <2>9. CASE req[b].pc = "sent" /\ req[b].says # "ok"
      <3>1. Stage[b] = "open" /\ Stage'[b] = "open"
        BY <2>2, <2>5, <2>9, StageOf, StageAfter
      <3>2. Carried(file)' = Carried(file)
        BY <2>p, <2>c, <2>9 DEF Promised
      <3>3. Stage' = Stage
        BY <2>2, <2>6, <3>1, StageStays
      <3> QED
        BY <1>0, <3>2, <3>3 DEF Mapped
    <2>10. CASE req[b].pc = "lost"
      <3>1. Stage[b] = "doubt" /\ Stage'[b] = "lost"
        BY <2>2, <2>3, <2>4, <2>5, <2>10, StageOf, StageAfter
      <3>2. Carried(file)' \in {Carried(file), CarriedEffect(want[b], Carried(file))}
        BY <2>p, <2>c, <2>10 DEF Promised
      <3> QED
        BY <1>a, <1>b, <2>2, <2>7, <3>1, <3>2
    <2> QED
      BY <2>2, <2>8, <2>9, <2>10
  <1>6. ASSUME NEW kept \in 0..Len(log), LoseLeadership(kept)
        PROVE  Mapped
    <2> DEFINE b == log[1].by
    <2>1. /\ DOMAIN log' = 1..kept /\ 1..kept \subseteq DOMAIN log
          /\ \A i \in 1..kept : log'[i].by = IF log[i].by \in List THEN Nobody ELSE log[i].by
          /\ \A r \in Request : IF req[r].pc = "sent" THEN req'[r].pc = "lost"
                                ELSE req'[r] = req[r]
          /\ UNCHANGED file
      BY <1>6, LostType DEF TurnInv, LastingInv
    <2>2. 1 \in DOMAIN log /\ b \in UnderWay /\ b \in Request /\ req[b].pc \in {"sent", "lost"}
      <3>1. log # <<>> /\ log \in Seq(Entry)
        BY <1>6 DEF LoseLeadership, TurnInv, LastingInv, TypeOK
      <3>2. 1 \in DOMAIN log
        BY <3>1
      <3> QED
        BY <3>2, OneEntry DEF UnderWay
    <2>3. \A i \in 1..kept : i = 1 /\ log'[i].by = b
      BY <2>1, <2>2, OneEntry DEF ConfigAssumption
    <2>4. InLog(b) /\ \A q \in Request \ {b} : ~InLog(q) /\ ~InLog(q)'
      BY <2>1, <2>2, <2>3, OneEntry DEF InLog
    <2>5. \A q \in Request \ {b} : req[q].pc # "sent"
      BY <2>2 DEF TurnInv, Turn, UnderWay
    <2> HIDE DEF b
    <2>6. \A q \in Request \ {b} : req'[q] = req[q] /\ (InLog(q)' <=> InLog(q))
      BY <2>1, <2>4, <2>5
    <2>7. Stage' = [Stage EXCEPT ![b] = Stage'[b]] /\ Carried(file)' = Carried(file)
      BY <2>1, <2>2, <2>6, StageMoves DEF Carried
    <2>8. req'[b].pc = "lost" /\ Stage'[b] \in {"doubt", "lost"}
      BY <2>1, <2>2, StageAfter
    <2>9. Stage[b] \in {"open", "doubt"}
      BY <2>2, <2>4, StageOf
    <2>10. CASE Stage[b] = "doubt" /\ Stage'[b] = "doubt"
      <3>1. Stage' = Stage
        BY <2>2, <2>6, <2>10, StageStays
      <3> QED
        BY <1>0, <2>7, <3>1 DEF Mapped
    <2>11. CASE ~(Stage[b] = "doubt" /\ Stage'[b] = "doubt")
      BY <1>a, <2>2, <2>7, <2>8, <2>9, <2>11
    <2> QED
      BY <2>10, <2>11
  <1> QED
    BY <1>1, <1>2, <1>3, <1>4, <1>5, <1>6, TurnSteps

\* Nobody is under way at the start, and the promise starts there too.
LEMMA TurnInit == ConfigAssumption /\ Begin(CarriedOps) => TurnInv /\ Promise!Init
  <1> SUFFICES ASSUME ConfigAssumption, Begin(CarriedOps)
               PROVE  TurnInv /\ Promise!Init
    OBVIOUS
  <1>1. CarriedOps \in SUBSET Operation
    BY DEF CarriedOps, Operation
  <1>2. LastingInv
    BY <1>1, LastingInit
  <1>3. /\ want \in [Request -> CarriedOps] /\ job = [l \in List |-> NoJob] /\ log = <<>>
        /\ req = [r \in Request |-> Idle] /\ file \in Starts
    BY DEF Begin
  <1>4. DOMAIN log = {} /\ Len(log) = 0
    BY <1>3
  <1>5. UnderWay = {} /\ Stage = [r \in Request |-> "open"]
    BY <1>3, <1>4 DEF UnderWay, InLog, Stage, Idle
  <1>6. Turn
    BY <1>3, <1>4, <1>5 DEF Turn, Idle
  <1> QED
    BY <1>2, <1>3, <1>5, <1>6 DEF TurnInv, Promise!Init

\* Nothing changes where no variable does.
LEMMA TurnStutters == TurnInv /\ UNCHANGED vars => TurnInv' /\ UNCHANGED <<Carried(file), want, Stage>>
  <1> SUFFICES ASSUME TurnInv, UNCHANGED vars
               PROVE  TurnInv' /\ UNCHANGED <<Carried(file), want, Stage>>
    OBVIOUS
  <1>1. UNCHANGED <<file, log, want, req, job, refreshes, alone>>
    BY DEF vars
  <1>2. TurnInv'
    BY <1>1 DEF TurnInv, LastingInv, TypeOK, Waiting, Delivered, Finished, Undisturbed, Guarded,
       Safe, Turn, UnderWay, InLog, Promised
  <1> QED
    BY <1>1, <1>2 DEF Carried, Stage, InLog

\* Requests that take turns refine the promise: each one takes its whole effect on the part of
\* the configuration an import carries, once, before its answer; is refused; or is given up, and
\* then takes it later, once, or never.  So an edit that goes missing takes two writes at once,
\* or one in doubt, or a refresh.
THEOREM TurnsKeepPromise == TurnsSpec => KeepsPromise
  <1>1. TurnInv /\ [TurnsNext]_vars => TurnInv'
    <2>1. ASSUME TurnInv, TurnsNext
          PROVE  TurnInv'
      BY <2>1, TurnStep, LastingStep, ConfigAssumption DEF TurnInv, TurnsNext
    <2> QED
      BY <2>1, TurnStutters
  <1>2. TurnInv /\ [TurnsNext]_vars => [Promise!Next]_<<Carried(file), want, Stage>>
    BY Simulates, TurnStutters, ConfigAssumption DEF Mapped
  <1>3. Begin(CarriedOps) => TurnInv /\ Promise!Init
    BY TurnInit, ConfigAssumption
  <1> QED
    BY <1>1, <1>2, <1>3, PTL DEF TurnsSpec, KeepsPromise, Promise!Spec

-----------------------------------------------------------------------------
(* Both scenes.                                                            *)

\* What was written alone stays in both, and turns are taken in one.
ScenesInv == LastingInv /\ (scene = "turns" => Turn)

\* The invariant of the scenes holds.
LEMMA ScenesInvHolds == ScenesSpec => []ScenesInv
  <1>1. ScenesInit => ScenesInv
    <2>1. Init => LastingInv
      BY LastingInit, ConfigAssumption, OpsAssumption DEF Init
    <2> QED
      BY <2>1, TurnInit, ConfigAssumption DEF ScenesInit, ScenesInv, TurnInv
  <1>2. ScenesInv /\ [ScenesNext]_<<vars, scene>> => ScenesInv'
    <2>1. ASSUME ScenesInv, Next, UNCHANGED scene, scene # "turns"
          PROVE  ScenesInv'
      BY <2>1, LastingStep, ConfigAssumption DEF ScenesInv
    <2>2. ASSUME ScenesInv, TurnsNext, UNCHANGED scene, scene = "turns"
          PROVE  ScenesInv'
      BY <2>2, TurnStep, LastingStep, ConfigAssumption DEF ScenesInv, TurnInv, TurnsNext
    <2>3. ASSUME ScenesInv, UNCHANGED <<vars, scene>>
          PROVE  ScenesInv'
      <3>1. LastingInv'
        BY <2>3, LastingStep, ConfigAssumption DEF ScenesInv
      <3>2. scene = "turns" => Turn'
        BY <2>3, TurnStutters DEF ScenesInv, TurnInv
      <3> QED
        BY <2>3, <3>1, <3>2 DEF ScenesInv
    <2> QED
      BY <2>1, <2>2, <2>3 DEF ScenesNext
  <1> QED
    BY <1>1, <1>2, PTL DEF ScenesSpec

\* The variables have their types in both scenes.
THEOREM ScenesTypes == ScenesSpec => []TypeOK
  <1>1. ScenesInv => TypeOK
    BY DEF ScenesInv, LastingInv
  <1> QED
    BY <1>1, ScenesInvHolds, PTL

\* In both scenes only writes that cross undo each other.
THEOREM ScenesStays == ScenesSpec => []WritesAloneStay
  <1>1. ScenesInv => WritesAloneStay
    BY LastingHolds DEF ScenesInv
  <1> QED
    BY <1>1, ScenesInvHolds, PTL

\* In the scene of turns the promise is kept.
THEOREM AloneKeepsPromise == ScenesSpec => KeepsPromiseAlone
  <1>1. ScenesInit => (scene = "turns" => Promise!Init)
    BY TurnInit, ConfigAssumption DEF ScenesInit
  <1>2. ScenesInv /\ [ScenesNext]_<<vars, scene>> =>
          [scene = "turns" => Promise!Next \/ UNCHANGED <<Carried(file), want, Stage>>]_<<vars, scene>>
    <2>1. ASSUME ScenesInv, ScenesNext, scene = "turns"
          PROVE  Promise!Next \/ UNCHANGED <<Carried(file), want, Stage>>
      BY <2>1, Simulates, ConfigAssumption DEF ScenesInv, TurnInv, ScenesNext, Mapped
    <2> QED
      BY <2>1
  <1> QED
    BY <1>1, <1>2, ScenesInvHolds, PTL DEF ScenesSpec, KeepsPromiseAlone

=============================================================================
