--------------------------- MODULE StoreCommands ----------------------------
(***************************************************************************)
(* The command language of the replicated store: what one committed        *)
(* command does to a node's bbolt file (Store.applyTx and its helpers).    *)
(*                                                                         *)
(* The fifty command kinds fall into a few shapes, and one bucket of each  *)
(* shape is kept:                                                          *)
(*   lists     a keyed bucket, with a read-modify-write command of its     *)
(*             own, that a config import wipes and rewrites (blocklists;   *)
(*             allowlist and local DNS have the put and delete only)       *)
(*   toks      a keyed bucket no import touches (API tokens; likewise      *)
(*             profiles, devices, webhooks, DHCP and DNSCrypt rows)        *)
(*   binds     bindings of schedules to blocklists, deleted in cascade     *)
(*   prof,     profiles with their pause, and the pause history kept       *)
(*   hist      beside them                                                 *)
(*   audit     the audit log: a counter, and rows trimmed by age           *)
(*   ceiling,  two keys of the settings bucket, which an import rewrites:  *)
(*   gpause    the pause ceiling and the global pause                      *)
(***************************************************************************)
EXTENDS Integers, Sequences, FiniteSets

CONSTANTS List, Tok, Sched, Profile,
          Default,      \* the reserved profile that cannot be deleted
          HistCap,      \* pauseHistoryCap
          Retention,    \* AuditRetention, in seconds
          MaxStamp      \* bound on the time stamps in commands

ASSUME StoreAssumption ==
    /\ HistCap \in Nat \ {0}
    /\ Retention \in Nat \ {0}
    /\ MaxStamp \in Nat

Stamp == 0..MaxStamp
ListRow == {"absent", "on", "off"}
ProfRow == {"absent", "active", "paused"}

\* "none": never written; "sentinel": -1; "off": 0; "set": a positive ceiling.
Ceiling == {"none", "sentinel", "off", "set"}

Command ==
    [kind : {"list.put", "list.set"}, list : List, on : BOOLEAN]
        \cup [kind : {"list.delete"}, list : List]
        \cup [kind : {"tok.put", "tok.delete"}, tok : Tok]
        \cup [kind : {"bind.put", "bind.delete"}, sched : Sched, list : List]
        \cup [kind : {"sched.delete"}, sched : Sched]
        \cup [kind : {"prof.put", "prof.delete"}, prof : Profile]
        \cup [kind : {"pause.set", "pause.clear"}, prof : Profile]
        \cup [kind : {"gpause.set", "gpause.clear"}]
        \cup [kind : {"audit"}, at : Stamp]
        \cup [kind : {"settings"}, ceiling : {"off", "set"}]
        \cup [kind : {"import"}, lists : [List -> ListRow], ceiling : {"off", "set"}]

\* A bbolt file right after Store.init: empty buckets.
EmptyDb ==
    [lists |-> [l \in List |-> "absent"], toks |-> {}, binds |-> {},
     prof |-> [p \in Profile |-> "absent"], hist |-> [p \in Profile |-> << >>],
     audit |-> [seq |-> 0, rows |-> << >>], ceiling |-> "none", gpause |-> FALSE]

\* Whether the command succeeds; a failing one rolls its transaction back.
Accepts(db, c) ==
    CASE c.kind = "list.set" -> db.lists[c.list] # "absent"
      [] c.kind \in {"pause.set", "pause.clear"} -> db.prof[c.prof] # "absent"
      [] c.kind = "prof.delete" -> c.prof # Default
      [] OTHER -> TRUE

Row(on) == IF on THEN "on" ELSE "off"

ApplyListsToggling(lists, c) ==     \* mutant: list.set flips the row
    CASE c.kind = "list.put" -> [lists EXCEPT ![c.list] = Row(c.on)]
      [] c.kind = "list.set" -> [lists EXCEPT ![c.list] = Row(@ = "off")]
      [] c.kind = "list.delete" -> [lists EXCEPT ![c.list] = "absent"]
      [] c.kind = "import" -> c.lists
      [] OTHER -> lists

ApplyLists(lists, c) ==
    CASE c.kind \in {"list.put", "list.set"} -> [lists EXCEPT ![c.list] = Row(c.on)]
      [] c.kind = "list.delete" -> [lists EXCEPT ![c.list] = "absent"]
      [] c.kind = "import" -> c.lists
      [] OTHER -> lists

ApplyToks(toks, c) ==
    CASE c.kind = "tok.put" -> toks \cup {c.tok}
      [] c.kind = "tok.delete" -> toks \ {c.tok}
      [] OTHER -> toks

\* Deleting a schedule deletes every binding whose key starts with its id.
ApplyBinds(binds, c) ==
    CASE c.kind = "bind.put" -> binds \cup {<<c.sched, c.list>>}
      [] c.kind = "bind.delete" -> binds \ {<<c.sched, c.list>>}
      [] c.kind = "sched.delete" -> {b \in binds : b[1] # c.sched}
      [] OTHER -> binds

ApplyProfilesMerging(prof, c) ==    \* mutant: an upsert keeps a pause it finds
    CASE c.kind = "prof.put" ->
            [prof EXCEPT ![c.prof] = IF @ = "paused" THEN @ ELSE "active"]
      [] c.kind = "pause.clear" -> [prof EXCEPT ![c.prof] = "active"]
      [] c.kind = "prof.delete" -> [prof EXCEPT ![c.prof] = "absent"]
      [] c.kind = "pause.set" -> [prof EXCEPT ![c.prof] = "paused"]
      [] OTHER -> prof

\* A profile upsert writes the whole record, so it also drops a pause the
\* sender's copy did not have.
ApplyProfiles(prof, c) ==
    CASE c.kind \in {"prof.put", "pause.clear"} -> [prof EXCEPT ![c.prof] = "active"]
      [] c.kind = "prof.delete" -> [prof EXCEPT ![c.prof] = "absent"]
      [] c.kind = "pause.set" -> [prof EXCEPT ![c.prof] = "paused"]
      [] OTHER -> prof

\* The history of a profile, most recent first; an entry is open until the
\* pause it records is cleared.
CloseLatestOpen(h) ==
    IF \E i \in DOMAIN h : h[i] = "open"
    THEN LET i == CHOOSE i \in DOMAIN h : h[i] = "open" /\ \A k \in 1..(i - 1) : h[k] # "open"
         IN [h EXCEPT ![i] = "closed"]
    ELSE h

ApplyHistory(hist, c) ==
    CASE c.kind = "pause.set" ->
            LET h == <<"open">> \o hist[c.prof]
            IN [hist EXCEPT ![c.prof] = SubSeq(h, 1, IF Len(h) > HistCap THEN HistCap ELSE Len(h))]
      [] c.kind = "pause.clear" -> [hist EXCEPT ![c.prof] = CloseLatestOpen(@)]
      [] OTHER -> hist

\* Rows in key order.  The sweep stops at the first row that is new enough,
\* and is skipped while the cutoff is not positive.
ApplyAudit(audit, c) ==
    IF c.kind # "audit" THEN audit
    ELSE LET rows == Append(audit.rows, [seq |-> audit.seq + 1, at |-> c.at])
             cutoff == c.at - Retention
             keep == CHOOSE k \in 1..Len(rows) :
                        rows[k].at >= cutoff /\ \A m \in 1..(k - 1) : rows[m].at < cutoff
         IN [seq |-> audit.seq + 1,
             rows |-> IF cutoff <= 0 THEN rows ELSE SubSeq(rows, keep, Len(rows))]

\* importM1Config: a ceiling of 0 in the first import ever means "not
\* configured", in any later one "pausing disabled".
ApplyCeiling(old, c) ==
    CASE c.kind = "settings" -> c.ceiling
      [] c.kind = "import" -> IF old = "none" /\ c.ceiling = "off" THEN "sentinel" ELSE c.ceiling
      [] OTHER -> old

\* An import rewrites the settings bucket and does not carry the global pause.
ApplyGlobalPause(old, c) ==
    CASE c.kind = "gpause.set" -> TRUE
      [] c.kind \in {"gpause.clear", "import"} -> FALSE
      [] OTHER -> old

Effect(db, c) ==
    [lists |-> ApplyLists(db.lists, c), toks |-> ApplyToks(db.toks, c),
     binds |-> ApplyBinds(db.binds, c), prof |-> ApplyProfiles(db.prof, c),
     hist |-> ApplyHistory(db.hist, c), audit |-> ApplyAudit(db.audit, c),
     ceiling |-> ApplyCeiling(db.ceiling, c), gpause |-> ApplyGlobalPause(db.gpause, c)]

\* Store.Apply: the file after command c, in one transaction.
Apply(db, c) == IF Accepts(db, c) THEN Effect(db, c) ELSE db

-----------------------------------------------------------------------------
(* The keyed part of a file as single cells, and what a command is to one. *)

Key == [of : {"list"}, list : List] \cup [of : {"tok"}, tok : Tok]
    \cup [of : {"bind"}, sched : Sched, list : List] \cup [of : {"prof"}, prof : Profile]
    \cup [of : {"gpause"}]

Cell(d, k) ==
    IF k.of = "list" THEN d.lists[k.list]
    ELSE IF k.of = "prof" THEN d.prof[k.prof]
    ELSE IF \/ k.of = "tok" /\ k.tok \in d.toks
            \/ k.of = "bind" /\ <<k.sched, k.list>> \in d.binds
            \/ k.of = "gpause" /\ d.gpause
    THEN "present" ELSE "absent"

\* The command writes the cell whatever was in it ...
Overwrites(c, k) ==
    \/ k.of = "list" /\ \/ c.kind \in {"list.put", "list.delete"} /\ c.list = k.list
                        \/ c.kind = "import"
    \/ k.of = "tok" /\ c.kind \in {"tok.put", "tok.delete"} /\ c.tok = k.tok
    \/ k.of = "bind" /\ \/ /\ c.kind \in {"bind.put", "bind.delete"}
                           /\ c.sched = k.sched /\ c.list = k.list
                        \/ c.kind = "sched.delete" /\ c.sched = k.sched
    \/ k.of = "prof" /\ \/ c.kind = "prof.put" /\ c.prof = k.prof
                        \/ c.kind = "prof.delete" /\ c.prof = k.prof /\ c.prof # Default
    \/ k.of = "gpause" /\ c.kind \in {"gpause.set", "gpause.clear", "import"}

\* ... or only if there is something in it.
Sets(c, k) ==
    \/ k.of = "list" /\ c.kind = "list.set" /\ c.list = k.list
    \/ k.of = "prof" /\ c.kind \in {"pause.set", "pause.clear"} /\ c.prof = k.prof

=============================================================================
