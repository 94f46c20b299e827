---------------------------- MODULE ConfigWrites ----------------------------
(***************************************************************************)
(* Configuration writes on the leader.  Most handlers go through           *)
(* App.WithWriteLock, which holds no lock: it reads the whole              *)
(* configuration, edits that copy, and commits the copy as one import that *)
(* wipes and rewrites the buckets it carries.  Other handlers commit a     *)
(* command of their own after a look at the cached configuration, for a    *)
(* profile after a read-modify-write of it.  The refresh scheduler reads a *)
(* blocklist row, downloads for up to half a minute, and writes that row   *)
(* back.                                                                   *)
(*                                                                         *)
(* A write reads, submits its command to Raft, is applied in the order of  *)
(* the log, and is answered, each in a step of its own.  When leadership   *)
(* is lost every caller gets an error while its entry may still be in the  *)
(* log of the next leader, and be applied later.                           *)
(*                                                                         *)
(* The cached configuration a handler reads is the file as of that moment: *)
(* an apply and its onApply are one step of Raft's FSM goroutine here      *)
(* (AppCache has boot, snapshots and failed rebuilds, where they differ).  *)
(***************************************************************************)
EXTENDS Integers, FiniteSets, Sequences

CONSTANTS Request, List, Url, Domain,
          Ops,           \* the operations the requests of a run carry
          MaxInFlight,   \* bound on requests under way at a time
          MaxRefresh,    \* bound on scheduler refreshes
          NoUrl, Nobody

ASSUME ConfigAssumption ==
    /\ NoUrl \notin Url
    /\ Request \cap List = {} /\ Nobody \notin Request \cup List
    /\ MaxInFlight \in Nat \ {0}
    /\ MaxRefresh \in Nat

VARIABLES
    file,      \* the configuration in the replicated store
    log,       \* the entries of Raft's log that are not applied yet
    want,      \* want[r]: the operation request r carries
    req,       \* req[r]: its handler
    job,       \* job[l]: the scheduler's refresh of blocklist l
    refreshes,
    alone      \* history: the writes applied while no other was under way

vars == <<file, log, want, req, job, refreshes, alone>>

\* A blocklist: enabled, its source URL, the URL its domains came from.
Row == [on : BOOLEAN, url : Url, from : Url \cup {NoUrl}]
NoRow == [on |-> FALSE, url |-> NoUrl, from |-> NoUrl]

\* "note": an allowlist entry with an expiry, a note or a schedule.
Allowed == {"no", "plain", "note"}

Profile == [name : {"old", "new"}, paused : BOOLEAN]

Config == [lists : [List -> Row \cup {NoRow}], allow : [Domain -> Allowed],
           setting : {"old", "new", "archived"}, creds : {"old", "new"},
           gpause : BOOLEAN, prof : Profile]

Locked == [kind : {"create", "source"}, list : List, url : Url]
     \cup [kind : {"enable"}, list : List, on : BOOLEAN]
     \cup [kind : {"delete", "refresh"}, list : List]
     \cup [kind : {"setting", "archive"}]
     \cup [kind : {"unallow"}, dom : Domain]
Typed == [kind : {"allow"}, dom : Domain, as : {"plain", "note"}]
    \cup [kind : {"creds", "gpause", "gresume", "pause", "resume"}]
Patch == [kind : {"patch"}]
Operation == Locked \cup Typed \cup Patch

ASSUME OpsAssumption == Ops \subseteq Operation

\* What is submitted to Raft: the import of a configuration, an operation, a
\* profile or a blocklist.
Command == [kind : {"import"}, conf : Config] \cup [kind : {"put"}, op : Typed]
      \cup [kind : {"profile"}, prof : Profile] \cup [kind : {"row"}, list : List, row : Row]
NoCommand == [kind |-> "none"]
Entry == [cmd : Command, by : Request \cup List \cup {Nobody}]

Fresh == [lists |-> [l \in List |-> NoRow], allow |-> [d \in Domain |-> "no"],
          setting |-> "old", creds |-> "old", gpause |-> FALSE,
          prof |-> [name |-> "old", paused |-> FALSE]]

\* A new node's configuration, or one whose blocklists are all there.
Starts == {Fresh} \cup
    {[Fresh EXCEPT !.lists = [l \in List |-> [on |-> TRUE, url |-> u, from |-> u]]] : u \in Url}

\* says: what the handler will answer once its command is applied.
Handler == [pc : {"idle", "fetched", "sent", "applied", "ok", "no", "lost"}, cmd : {NoCommand},
            says : {"ok", "no"}, from : Url \cup {NoUrl}]
      \cup [pc : {"holding"}, cmd : Command, says : {"ok", "no"}, from : {NoUrl}]
Idle == [pc |-> "idle", cmd |-> NoCommand, says |-> "ok", from |-> NoUrl]

NoJob == [pc |-> "idle", prior |-> NoRow, status |-> "none"]
Job == {NoJob} \cup [pc : {"downloading"}, prior : Row, status : {"none"}]
               \cup [pc : {"writing"}, prior : Row, status : {"ok", "unchanged", "error"}]

TypeOK ==
    /\ file \in Config
    /\ log \in Seq(Entry)
    /\ want \in [Request -> Operation]
    /\ req \in [Request -> Handler]
    /\ job \in [List -> Job]
    /\ refreshes \in 0..MaxRefresh
    /\ alone \subseteq Request

Begin(ops) ==
    /\ file \in Starts
    /\ log = <<>>
    /\ want \in [Request -> ops]
    /\ req = [r \in Request |-> Idle]
    /\ job = [l \in List |-> NoJob]
    /\ refreshes = 0
    /\ alone = {}

Init == Begin(Ops)

InLog(r) == \E i \in DOMAIN log : log[i].by = r

\* Being handled, or given up with the command still in the log.
UnderWay == {r \in Request : req[r].pc \in {"fetched", "holding", "sent", "applied"} \/ InLog(r)}
Room == Cardinality(UnderWay) < MaxInFlight

Answer(r, a) == req' = [req EXCEPT ![r] = [Idle EXCEPT !.pc = a]]

\* The handler has read what it read, and has the command to submit.
Hold(r, cmd, says) ==
    req' = [req EXCEPT ![r] = [pc |-> "holding", cmd |-> cmd, says |-> says, from |-> NoUrl]]

-----------------------------------------------------------------------------
(* WithWriteLock.                                                          *)

\* The handler finds what it is to change in its copy, or answers 404; a
\* settings patch, an archive and a new blocklist always find it, a refresh
\* looked before it downloaded.
Found(op, c) ==
    CASE op.kind \in {"enable", "source", "delete"} -> c.lists[op.list] # NoRow
      [] op.kind = "unallow" -> c.allow[op.dom] = "plain"
      [] OTHER -> TRUE

\* fn: the copy c after the handler's edit; from is what a refresh
\* downloaded.  A new source drops the domains of the old one, an archive
\* replaces everything but the credentials.
Edit(op, c, from) ==
    IF ~Found(op, c) THEN c ELSE
    CASE op.kind = "create" ->
            [c EXCEPT !.lists[op.list] = [on |-> TRUE, url |-> op.url, from |-> op.url]]
      [] op.kind = "source" ->
            [c EXCEPT !.lists[op.list].url = op.url, !.lists[op.list].from = NoUrl]
      [] op.kind = "enable" -> [c EXCEPT !.lists[op.list].on = op.on]
      [] op.kind = "delete" -> [c EXCEPT !.lists[op.list] = NoRow]
      [] op.kind = "refresh" ->
            IF c.lists[op.list] = NoRow THEN c ELSE [c EXCEPT !.lists[op.list].from = from]
      [] op.kind = "setting" -> [c EXCEPT !.setting = "new"]
      [] op.kind = "unallow" -> [c EXCEPT !.allow[op.dom] = "no"]
      [] op.kind = "archive" ->
            [Fresh EXCEPT !.setting = "archived", !.creds = c.creds]

\* Store.Snapshot: the plain allowlist entries only, no global pause, and no
\* profiles.
SnapshotForgetful(f) ==     \* mutant: it leaves out the credentials too
    [f EXCEPT !.allow = [d \in Domain |-> IF f.allow[d] = "plain" THEN "plain" ELSE "no"],
              !.gpause = FALSE, !.prof = Fresh.prof, !.creds = Fresh.creds]

Snapshot(f) ==
    [f EXCEPT !.allow = [d \in Domain |-> IF f.allow[d] = "plain" THEN "plain" ELSE "no"],
              !.gpause = FALSE, !.prof = Fresh.prof]

\* importM1Config: wipe and rewrite all but the profiles.
ImportMerging(f, c) ==      \* mutant: the buckets are not wiped first
    [c EXCEPT !.lists = [l \in List |-> IF c.lists[l] = NoRow THEN f.lists[l] ELSE c.lists[l]],
              !.allow = [d \in Domain |-> IF c.allow[d] = "plain" THEN "plain" ELSE f.allow[d]],
              !.prof = f.prof]

Import(f, c) == [c EXCEPT !.prof = f.prof]

\* RefreshBlocklist reads the source from the cache and downloads it, or
\* answers 404 or 502.
Fetch(r) ==
    /\ req[r].pc = "idle"
    /\ want[r].kind = "refresh"
    /\ Room
    /\ \/ /\ file.lists[want[r].list] # NoRow
          /\ req' = [req EXCEPT ![r].pc = "fetched", ![r].from = file.lists[want[r].list].url]
       \/ Answer(r, "no")
    /\ UNCHANGED <<file, log, want, job, refreshes, alone>>

\* WithWriteLock takes its snapshot, and the handler edits it: also a copy in
\* which it found nothing to edit is imported.
ReadCopy(r) ==
    /\ want[r] \in Locked
    /\ req[r].pc = IF want[r].kind = "refresh" THEN "fetched" ELSE "idle"
    /\ req[r].pc = "idle" => Room
    /\ Hold(r, [kind |-> "import", conf |-> Edit(want[r], Snapshot(file), req[r].from)],
               IF Found(want[r], Snapshot(file)) THEN "ok" ELSE "no")
    /\ UNCHANGED <<file, log, want, job, refreshes, alone>>

\* fn rejects the request's values: 400, nothing is committed.
Reject(r) ==
    /\ req[r].pc = "holding"
    /\ want[r].kind = "setting"
    /\ Answer(r, "no")
    /\ UNCHANGED <<file, log, want, job, refreshes, alone>>

-----------------------------------------------------------------------------
(* Commands of their own.                                                  *)

\* What a typed command does to the file.
Put(op, f) ==
    CASE op.kind = "allow" -> [f EXCEPT !.allow[op.dom] = op.as]
      [] op.kind = "creds" -> [f EXCEPT !.creds = "new"]
      [] op.kind \in {"gpause", "gresume"} -> [f EXCEPT !.gpause = op.kind = "gpause"]
      [] op.kind \in {"pause", "resume"} -> [f EXCEPT !.prof.paused = op.kind = "pause"]

\* AddAllowlistEntry looks for a duplicate among the plain entries; resuming
\* needs an active pause.
Conflict(op, f) ==
    \/ op.kind = "allow" /\ f.allow[op.dom] = "plain"
    \/ op.kind = "gresume" /\ ~f.gpause
    \/ op.kind = "resume" /\ ~f.prof.paused

\* The look at the cached configuration before the command is submitted.
Check(r) ==
    /\ want[r] \in Typed
    /\ req[r].pc = "idle"
    /\ Room
    /\ IF Conflict(want[r], file) THEN Answer(r, "no")
       ELSE Hold(r, [kind |-> "put", op |-> want[r]], "ok")
    /\ UNCHANGED <<file, log, want, job, refreshes, alone>>

\* UpdateProfile patches the cached profile and upserts all of it.
ReadProfile(r) ==
    /\ want[r] \in Patch
    /\ req[r].pc = "idle"
    /\ Room
    /\ Hold(r, [kind |-> "profile", prof |-> [file.prof EXCEPT !.name = "new"]], "ok")
    /\ UNCHANGED <<file, log, want, job, refreshes, alone>>

-----------------------------------------------------------------------------
(* The refresh scheduler of the leader.                                    *)

StartRefreshAny(l) ==       \* mutant: the row may be gone by the time it is read
    /\ refreshes < MaxRefresh
    /\ job[l].pc = "idle"
    /\ refreshes' = refreshes + 1
    /\ job' = [job EXCEPT ![l] = [pc |-> "downloading", prior |-> file.lists[l], status |-> "none"]]
    /\ UNCHANGED <<file, log, want, req, alone>>

StartRefresh(l) ==
    /\ refreshes < MaxRefresh
    /\ job[l].pc = "idle"
    /\ file.lists[l] # NoRow
    /\ refreshes' = refreshes + 1
    /\ job' = [job EXCEPT ![l] = [pc |-> "downloading", prior |-> file.lists[l], status |-> "none"]]
    /\ UNCHANGED <<file, log, want, req, alone>>

\* refreshOne submits the row it read, with the domains the download brought
\* if they are others, and else as it was but for its stamps.
FinishRefresh(l, status) ==
    LET prior == job[l].prior
        row == IF status = "ok" THEN [prior EXCEPT !.from = prior.url] ELSE prior
    IN
    /\ job[l].pc = "downloading"
    /\ status = "unchanged" => prior.from = prior.url
    /\ log' = Append(log, [cmd |-> [kind |-> "row", list |-> l, row |-> row], by |-> l])
    /\ job' = [job EXCEPT ![l].pc = "writing", ![l].status = status]
    /\ UNCHANGED <<file, want, req, refreshes, alone>>

\* Not the leader any more: the row is not submitted.
LoseRefresh(l) ==
    /\ job[l].pc = "downloading"
    /\ job' = [job EXCEPT ![l] = NoJob]
    /\ UNCHANGED <<file, log, want, req, refreshes, alone>>

-----------------------------------------------------------------------------
(* Raft.                                                                   *)

\* applyAsLeader hands the command to Raft ...
Submit(r) ==
    /\ req[r].pc = "holding"
    /\ log' = Append(log, [cmd |-> req[r].cmd, by |-> r])
    /\ req' = [req EXCEPT ![r].pc = "sent", ![r].cmd = NoCommand]
    /\ UNCHANGED <<file, want, job, refreshes, alone>>

\* ... unless this node is not the leader, or Raft does not take the entry in
\* time: the handler answers 5xx and nothing was submitted.
Decline(r) ==
    /\ req[r].pc = "holding"
    /\ Answer(r, "lost")
    /\ UNCHANGED <<file, log, want, job, refreshes, alone>>

\* The file after a command.
Done(cmd, f) ==
    CASE cmd.kind = "import" -> Import(f, cmd.conf)
      [] cmd.kind = "put" -> Put(cmd.op, f)
      [] cmd.kind = "profile" -> [f EXCEPT !.prof = cmd.prof]
      [] cmd.kind = "row" -> [f EXCEPT !.lists[cmd.list] = cmd.row]

\* No other write has read what it will write over, or is on its way.
NobodyElse(r) ==
    /\ Len(log) = 1
    /\ \A s \in Request \ {r} : req[s].pc \notin {"holding", "sent"}
    /\ \A l \in List : job[l].pc = "idle"

\* The oldest entry is applied, and whoever waits for it may go on.
Apply ==
    LET e == Head(log) IN
    /\ log # <<>>
    /\ file' = Done(e.cmd, file)
    /\ log' = Tail(log)
    /\ IF e.by \in Request /\ req[e.by].pc = "sent"
       THEN /\ req' = [req EXCEPT ![e.by].pc = "applied"]
            /\ alone' = IF req[e.by].says = "ok" /\ NobodyElse(e.by)
                        THEN alone \cup {e.by} ELSE alone
       ELSE UNCHANGED <<req, alone>>
    /\ job' = IF e.by \in List THEN [job EXCEPT ![e.by] = NoJob] ELSE job
    /\ UNCHANGED <<want, refreshes>>

\* The future's error is nil: the handler answers.
Answered(r) ==
    /\ req[r].pc = "applied"
    /\ Answer(r, req[r].says)
    /\ UNCHANGED <<file, log, want, job, refreshes, alone>>

\* Leadership lost: the futures of all entries fail.  The next leader has the
\* older part of them in its log, all or none, and applies what it has before
\* anything it is given itself.
LoseLeadership(kept) ==
    /\ log # <<>>
    /\ req' = [r \in Request |-> IF req[r].pc = "sent" THEN [Idle EXCEPT !.pc = "lost"] ELSE req[r]]
    /\ job' = [l \in List |-> IF job[l].pc = "writing" THEN NoJob ELSE job[l]]
    /\ log' = [i \in 1..kept |->
                 IF log[i].by \in List THEN [log[i] EXCEPT !.by = Nobody] ELSE log[i]]
    /\ UNCHANGED <<file, want, refreshes, alone>>

Next ==
    \/ \E r \in Request : \/ Fetch(r) \/ ReadCopy(r) \/ Reject(r) \/ Check(r) \/ ReadProfile(r)
                          \/ Submit(r) \/ Decline(r) \/ Answered(r)
    \/ \E l \in List : \/ StartRefresh(l) \/ LoseRefresh(l)
                       \/ \E s \in {"ok", "unchanged", "error"} : FinishRefresh(l, s)
    \/ Apply
    \/ \E kept \in 0..Len(log) : LoseLeadership(kept)

Spec == Init /\ [][Next]_vars

-----------------------------------------------------------------------------
(* Properties.                                                             *)

\* What a request asked for is in configuration f.
Holds(op, f) ==
    CASE op.kind \in {"create", "source"} -> f.lists[op.list].url = op.url
      [] op.kind = "enable" -> f.lists[op.list].on = op.on
      [] op.kind = "delete" -> f.lists[op.list] = NoRow
      [] op.kind = "refresh" -> f.lists[op.list].from = f.lists[op.list].url
      [] op.kind = "setting" -> f.setting = "new"
      [] op.kind = "archive" -> f.setting = "archived"
      [] op.kind = "unallow" -> f.allow[op.dom] # "plain"
      [] op.kind = "patch" -> f.prof.name = "new"
      [] OTHER -> Put(op, f) = f

\* The part of a configuration that an import carries.
Carried(f) ==
    [lists |-> f.lists, setting |-> f.setting, creds |-> f.creds,
     plain |-> {d \in Domain : f.allow[d] = "plain"}]

\* The promise, for the part an import carries: what becomes of a row that is
\* there, and of the configuration.
RowEffect(op, row) ==
    CASE op.kind = "source" -> [row EXCEPT !.url = op.url, !.from = NoUrl]
      [] op.kind = "enable" -> [row EXCEPT !.on = op.on]
      [] op.kind = "delete" -> NoRow
      [] op.kind = "refresh" -> [row EXCEPT !.from = row.url]

CarriedEffect(op, c) ==
    CASE op.kind = "creds" -> [c EXCEPT !.creds = "new"]
      [] op.kind = "allow" -> [c EXCEPT !.plain = @ \cup {op.dom}]
      [] op.kind = "unallow" -> [c EXCEPT !.plain = @ \ {op.dom}]
      [] op.kind = "archive" -> Carried([Fresh EXCEPT !.setting = "archived", !.creds = c.creds])
      [] op.kind = "setting" -> [c EXCEPT !.setting = "new"]
      [] op.kind = "create" ->
            [c EXCEPT !.lists[op.list] = [on |-> TRUE, url |-> op.url, from |-> op.url]]
      [] OTHER -> IF c.lists[op.list] = NoRow THEN c
                  ELSE [c EXCEPT !.lists[op.list] = RowEffect(op, c.lists[op.list])]

\* How far a request is: its effect is there when its entry was applied, and
\* a request that was given up is in doubt while its entry is in the log.
Stage == [r \in Request |->
    CASE req[r].pc = "applied" -> IF req[r].says = "ok" THEN "done" ELSE "open"
      [] req[r].pc \in {"ok", "no"} -> req[r].pc
      [] req[r].pc = "lost" -> IF InLog(r) THEN "doubt" ELSE "lost"
      [] OTHER -> "open"]

Promise == INSTANCE ConfigPromise
    WITH conf <- Carried(file), stage <- Stage,
         Effect <- CarriedEffect, Initials <- {Carried(f) : f \in Starts}

\* What an import carries, asked for by requests that take turns: one under
\* way at a time, those in doubt counted, and no scheduler.
CarriedOps == Locked \cup {op \in Typed : op.kind = "creds" \/ (op.kind = "allow" /\ op.as = "plain")}

TurnsNext == Next /\ (\A r, s \in UnderWay' : r = s) /\ UNCHANGED refreshes
TurnsSpec == Begin(CarriedOps) /\ [][TurnsNext]_vars

\* Then reading, editing and importing the whole configuration is a write of
\* one thing: TurnsSpec implements the promise of ConfigPromise.
KeepsPromise == Promise!Spec

\* The field a request is about.
Key(op) == CASE op \in Patch -> "name"
             [] op.kind \in {"pause", "resume"} -> "paused"
             [] op.kind \in {"gpause", "gresume"} -> "gpause"
             [] op.kind \in {"setting", "archive"} -> "setting"
             [] op.kind = "creds" -> "creds"
             [] op.kind \in {"allow", "unallow"} -> op.dom
             [] OTHER -> op.list

\* What imports of the configuration carry, and profiles; not a refresh, which
\* stores what the source it downloaded from served.
Lasting(op) ==
    /\ op.kind \notin {"gpause", "gresume", "refresh"}
    /\ op.kind = "allow" => op.as = "plain"

\* Only writes that cross undo each other.  What a request wrote while no
\* other write was under way stays written, whatever was given up before,
\* and however the later ones cross among themselves, are given up with
\* their entry in the log, or come from the scheduler: all they write back
\* was read when it was there.  Left out are later writes of the same thing
\* and archives, and the pauses and noted allowlist entries no import carries.
WritesAloneStay ==
    \A r \in alone :
        /\ Lasting(want[r])
        /\ \A s \in Request \ {r} : Key(want[s]) # Key(want[r]) /\ want[s].kind # "archive"
        => Holds(want[r], file)

\* What the scenario FS-AaDistributedWritesConvergeOnAllNodes and the comment
\* on WithWriteLock ("acquires the write lock") say: writes of different
\* things are all there in the end.
DistributedWritesKept ==
    \A r \in Request :
        /\ req[r].pc = "ok"
        /\ \A s \in Request \ {r} : Key(want[s]) # Key(want[r]) /\ want[s].kind # "archive"
        => Holds(want[r], file)

\* What automated-blocklist-refresh.md says ("If equal -> status =
\* unchanged, only the last_refresh_at is updated"): such a refresh leaves the
\* row alone.
UnchangedRefreshOnlyStamps ==
    [][\A l \in List :
         job[l].pc = "writing" /\ job[l].status = "unchanged" /\ job'[l].pc = "idle"
            => file'.lists[l] = file.lists[l]]_vars

\* What the comment on UpdateProfile says ("only present fields override"): a
\* patch of the name leaves the profile's pause alone.
PatchLeavesPause ==
    [][\A r \in Request :
         want[r] \in Patch /\ req[r].pc = "sent" /\ req'[r].pc = "applied"
            => file'.prof.paused = file.prof.paused]_vars

\* What the comment in ImportConfig says ("importing a backup must never lock
\* the current admin out of the node"): it keeps the credentials in force.
ArchiveKeepsCredentials ==
    [][\A r \in Request :
         want[r].kind = "archive" /\ req[r].pc = "sent" /\ req'[r].pc = "applied"
            => file'.creds = file.creds]_vars

=============================================================================
