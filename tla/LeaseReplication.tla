-------------------------- MODULE LeaseReplication --------------------------
(***************************************************************************)
(* One lease view for the whole cluster.  The leader's dhcp.Manager polls  *)
(* the DHCP source, and a poll that differs from the last one it handed to *)
(* Raft is committed as leases.replace.  Every node rebuilds its view from *)
(* its store after each apply of any command.  Only the leader runs the    *)
(* anti-spoof detector; each anomaly is shown at once and committed by a   *)
(* goroutine of its own.                                                   *)
(*                                                                         *)
(* A client is one Client-ID with one address, so an anomaly of the kind   *)
(* modelled (a known Client-ID with another MAC) is told by its client.    *)
(* Raft is one log of committed commands which each node applies in order. *)
(* A commit, and the error its caller may get, are steps of their own: a   *)
(* leader deposed in between sees an error for a command that is in.       *)
(***************************************************************************)
EXTENDS Integers, FiniteSets, Sequences

CONSTANTS Node, Client, Mac,
          None,
          MaxChange,   \* bound on changes of what the source reports
          MaxLoss,     \* bound on leaders losing leadership
          MaxFail,     \* bound on Raft applies refused while still leader
          MaxCrash,    \* bound on process restarts
          MaxOther     \* bound on commands that do not concern leases

ASSUME LeaseAssumption ==
    /\ None \notin Node \cup Mac /\ None \notin [Client -> Mac \cup {None}]
    /\ {MaxChange, MaxLoss, MaxFail, MaxCrash, MaxOther} \subseteq Nat

VARIABLES
    source,   \* what the DHCP source reports
    leader,   \* the node raft.IsLeader holds on, or None
    log,      \* the committed commands
    store,    \* store[n]: bucket dhcp_lease and the applied index
    mgr,      \* mgr[n]: dhcp.Manager
    poll,     \* poll[n]: its pollOnce
    sending,  \* sending[n]: anomalies its goroutines are still replicating
    missed,   \* a poll completed after the one that stamped the snapshot
    used      \* how much of each bound is used

vars == <<source, leader, log, store, mgr, poll, sending, missed, used>>

Leases == [Client -> Mac \cup {None}]
NoLeases == [c \in Client |-> None]
Anomaly == [client : Client, mac : Mac, nr : Nat]
Row == [a : Anomaly, acked : BOOLEAN]
Command == [kind : {"leases"}, leases : Leases, seen : Nat]
      \cup [kind : {"append", "ack"}, a : Anomaly]
      \cup [kind : {"other"}]

\* lastApplied starts as nil, which is as good as an empty snapshot.
Booted == [leases |-> None, asked |-> NoLeases, history |-> NoLeases, shown |-> {}]
\* "seen": how often the source had changed when the poll read it.
Waiting == [pc |-> "idle", got |-> NoLeases, seen |-> 0, at |-> 0]

Manager == [leases : Leases \cup {None}, asked : Leases, history : Leases,
            shown : SUBSET Row]
Poll == [pc : {"idle", "fetching", "replicating", "committed"}, got : Leases,
         seen : 0..MaxChange, at : Nat]
Used == [change : 0..MaxChange, loss : 0..MaxLoss, fail : 0..MaxFail,
         crash : 0..MaxCrash, other : 0..MaxOther, made : Nat]
Store == [leases : Leases \cup {None}, rows : SUBSET Row, applied : Nat]

TypeOK ==
    /\ source \in Leases /\ leader \in Node \cup {None}
    /\ log \in Seq(Command)
    /\ store \in [Node -> Store] /\ mgr \in [Node -> Manager] /\ poll \in [Node -> Poll]
    /\ \A n \in Node : {store[n].applied, poll[n].at} \subseteq 0..Len(log)
    /\ sending \in [Node -> SUBSET Anomaly]
    /\ missed \in BOOLEAN
    /\ used \in Used

Init ==
    /\ source \in [Client -> Mac]
    /\ leader = None
    /\ log = <<>>
    /\ store = [n \in Node |-> [leases |-> None, rows |-> {}, applied |-> 0]]
    /\ mgr = [n \in Node |-> Booted]
    /\ poll = [n \in Node |-> Waiting]
    /\ sending = [n \in Node |-> {}]
    /\ missed = FALSE
    /\ used = [change |-> 0, loss |-> 0, fail |-> 0, crash |-> 0, other |-> 0,
               made |-> 0]

Use(what) == used' = [used EXCEPT ![what] = @ + 1]

-----------------------------------------------------------------------------
(* The source and Raft.                                                    *)

SourceChanges ==
    /\ used.change < MaxChange
    /\ \E v \in Leases \ {source} : source' = v
    /\ Use("change")
    /\ UNCHANGED <<leader, log, store, mgr, poll, sending, missed>>

Elect(n) ==
    /\ leader = None
    /\ leader' = n
    /\ UNCHANGED <<source, log, store, mgr, poll, sending, missed, used>>

LoseLeadership ==
    /\ leader # None /\ used.loss < MaxLoss
    /\ leader' = None
    /\ Use("loss")
    /\ UNCHANGED <<source, log, store, mgr, poll, sending, missed>>

OtherCommand ==
    /\ leader # None /\ used.other < MaxOther
    /\ log' = Append(log, [kind |-> "other"])
    /\ Use("other")
    /\ UNCHANGED <<source, leader, store, mgr, poll, sending, missed>>

Acknowledge(a) ==
    /\ leader # None
    /\ [a |-> a, acked |-> FALSE] \in mgr[leader].shown
    /\ used.other < MaxOther
    /\ log' = Append(log, [kind |-> "ack", a |-> a])
    /\ Use("other")
    /\ UNCHANGED <<source, leader, store, mgr, poll, sending, missed>>

\* The row a command leaves behind: append upserts, ack needs the row there.
Rows(rows, cmd) ==
    CASE cmd.kind = "append" ->
             {r \in rows : r.a # cmd.a} \cup {[a |-> cmd.a, acked |-> FALSE]}
      [] cmd.kind = "ack" ->
             {r \in rows : r.a # cmd.a} \cup {[a |-> cmd.a, acked |-> TRUE]}
      [] OTHER -> rows

Rejected(rows, cmd) == cmd.kind = "ack" /\ \A r \in rows : r.a # cmd.a

\* Mutant: the manager is filled once, at boot.
MirrorOnce(m, s) ==
    [m EXCEPT !.leases = IF m.leases = None THEN s.leases ELSE @, !.shown = s.rows]

Mirror(m, s) ==
    [m EXCEPT !.leases = IF s.leases = None THEN @ ELSE s.leases,
              !.shown = s.rows]

\* One apply and its onApply, which a command the store rejects does not reach.
Apply(n) ==
    LET i == store[n].applied + 1
        cmd == log[i]
        s == store[n]
        t == IF Rejected(s.rows, cmd) THEN [s EXCEPT !.applied = i]
             ELSE [leases |-> IF cmd.kind = "leases" THEN cmd.leases ELSE s.leases,
                   rows |-> Rows(s.rows, cmd), applied |-> i]
    IN  /\ i \in DOMAIN log
        /\ store' = [store EXCEPT ![n] = t]
        /\ mgr' = IF Rejected(s.rows, cmd) THEN mgr
                  ELSE [mgr EXCEPT ![n] = Mirror(@, t)]
        /\ UNCHANGED <<source, leader, log, poll, sending, missed, used>>

\* Mutant: the manager is not primed at boot.
RestartUnprimed(n) ==
    /\ used.crash < MaxCrash
    /\ leader' = IF leader = n THEN None ELSE leader
    /\ store' = [store EXCEPT ![n].applied = 0]
    /\ mgr' = [mgr EXCEPT ![n] = Booted]
    /\ poll' = [poll EXCEPT ![n] = Waiting]
    /\ sending' = [sending EXCEPT ![n] = {}]
    /\ Use("crash")
    /\ UNCHANGED <<source, log, missed>>

\* The process restarts: its store is kept, Raft applies the log again from
\* the start, and the manager is primed from the store before that.
Restart(n) ==
    /\ used.crash < MaxCrash
    /\ leader' = IF leader = n THEN None ELSE leader
    /\ store' = [store EXCEPT ![n].applied = 0]
    /\ mgr' = [mgr EXCEPT ![n] = Mirror(Booted, store[n])]
    /\ poll' = [poll EXCEPT ![n] = Waiting]
    /\ sending' = [sending EXCEPT ![n] = {}]
    /\ Use("crash")
    /\ UNCHANGED <<source, log, missed>>

-----------------------------------------------------------------------------
(* pollOnce, run by the ticker and by Nudge.                               *)

\* The answer is what the source reports at some moment of the round trip.
BeginPoll(n) ==
    /\ poll[n].pc = "idle" /\ leader = n
    /\ poll' = [poll EXCEPT ![n] =
                  [@ EXCEPT !.pc = "fetching", !.got = source, !.seen = used.change]]
    /\ UNCHANGED <<source, leader, log, store, mgr, sending, missed, used>>

FetchFails(n) ==
    /\ poll[n].pc = "fetching"
    /\ poll' = [poll EXCEPT ![n] = Waiting]
    /\ UNCHANGED <<source, leader, log, store, mgr, sending, missed, used>>

Deposed(n) ==
    /\ poll[n].pc = "fetching" /\ leader # n
    /\ poll' = [poll EXCEPT ![n] = Waiting]
    /\ UNCHANGED <<source, leader, log, store, mgr, sending, missed, used>>

\* Mutant: a lease that is gone is taken for one with another MAC.
SpoofedWhenReleased(n, leases) ==
    {c \in Client : /\ mgr[n].history[c] # None
                    /\ leases[c] # mgr[n].history[c]
                    /\ \A r \in mgr[n].shown : r.a.client = c => r.acked}

\* A client known with another MAC, unless an open anomaly names it already.
Spoofed(n, leases) ==
    {c \in Client : /\ None \notin {leases[c], mgr[n].history[c]}
                    /\ leases[c] # mgr[n].history[c]
                    /\ \A r \in mgr[n].shown : r.a.client = c => r.acked}

Detected(n, leases) ==
    {[client |-> c, mac |-> leases[c], nr |-> used.made] : c \in Spoofed(n, leases)}

\* apply: detect, remember, show; a goroutine replicates each new anomaly.
ApplyLocally(n, leases, asked) ==
    LET new == Detected(n, leases)
    IN  /\ mgr' = [mgr EXCEPT ![n] =
                      [leases |-> leases, asked |-> asked,
                       history |-> [c \in Client |-> IF leases[c] = None
                                                     THEN @.history[c] ELSE leases[c]],
                       shown |-> @.shown \cup {[a |-> a, acked |-> FALSE] : a \in new}]]
        /\ sending' = [sending EXCEPT ![n] = @ \cup new]
        /\ used' = [used EXCEPT !.made = IF new = {} THEN @ ELSE @ + 1]

\* Nothing changed since the snapshot last handed to Raft, or nothing is reported to
\* a manager that has handed over none: no command.
Coalesce(n) ==
    /\ poll[n].pc = "fetching" /\ leader = n
    /\ poll[n].got = mgr[n].asked
    /\ ApplyLocally(n, poll[n].got, mgr[n].asked)
    /\ poll' = [poll EXCEPT ![n] = Waiting]
    /\ missed' = TRUE
    /\ UNCHANGED <<source, leader, log, store>>

\* Mutant: the leader shows a poll before it is replicated.
OfferShown(n) ==
    /\ poll[n].pc = "fetching" /\ leader = n
    /\ poll[n].got # mgr[n].asked
    /\ mgr' = [mgr EXCEPT ![n].asked = poll[n].got, ![n].leases = poll[n].got]
    /\ poll' = [poll EXCEPT ![n].pc = "replicating"]
    /\ UNCHANGED <<source, leader, log, store, sending, missed, used>>

\* lastApplied is set before the command is tried.
Offer(n) ==
    /\ poll[n].pc = "fetching" /\ leader = n
    /\ poll[n].got # mgr[n].asked
    /\ mgr' = [mgr EXCEPT ![n].asked = poll[n].got]
    /\ poll' = [poll EXCEPT ![n].pc = "replicating"]
    /\ UNCHANGED <<source, leader, log, store, sending, missed, used>>

Commit(n) ==
    /\ poll[n].pc = "replicating" /\ leader = n
    /\ log' = Append(log, [kind |-> "leases", leases |-> poll[n].got, seen |-> poll[n].seen])
    /\ poll' = [poll EXCEPT ![n] = [@ EXCEPT !.pc = "committed", !.at = Len(log) + 1]]
    /\ missed' = FALSE
    /\ UNCHANGED <<source, leader, store, mgr, sending, used>>

\* Not the leader, leadership lost on the way, or the apply queue stayed full.
ReplicateFails(n) ==
    /\ \/ poll[n].pc \in {"replicating", "committed"} /\ leader # n /\ UNCHANGED used
       \/ poll[n].pc = "replicating" /\ leader = n /\ used.fail < MaxFail /\ Use("fail")
    /\ poll' = [poll EXCEPT ![n] = Waiting]
    /\ UNCHANGED <<source, leader, log, store, mgr, sending, missed>>

FinishPoll(n) ==
    /\ poll[n].pc = "committed" /\ store[n].applied >= poll[n].at
    /\ ApplyLocally(n, poll[n].got, mgr[n].asked)
    /\ poll' = [poll EXCEPT ![n] = Waiting]
    /\ UNCHANGED <<source, leader, log, store, missed>>

\* Mutant: the goroutine looks its anomaly up in the list when its turn comes.
ReplicateListed(n, a) ==
    /\ a \in sending[n] /\ leader = n
    /\ log' = IF [a |-> a, acked |-> FALSE] \in mgr[n].shown
              THEN Append(log, [kind |-> "append", a |-> a]) ELSE log
    /\ sending' = [sending EXCEPT ![n] = @ \ {a}]
    /\ UNCHANGED <<source, leader, store, mgr, poll, missed, used>>

ReplicateAnomaly(n, a) ==
    /\ a \in sending[n] /\ leader = n
    /\ log' = Append(log, [kind |-> "append", a |-> a])
    /\ sending' = [sending EXCEPT ![n] = @ \ {a}]
    /\ UNCHANGED <<source, leader, store, mgr, poll, missed, used>>

AnomalyFails(n, a) ==
    /\ a \in sending[n]
    /\ \/ leader # n /\ UNCHANGED used
       \/ leader = n /\ used.fail < MaxFail /\ Use("fail")
    /\ sending' = [sending EXCEPT ![n] = @ \ {a}]
    /\ UNCHANGED <<source, leader, log, store, mgr, poll, missed>>

Next ==
    \/ SourceChanges \/ LoseLeadership \/ OtherCommand
    \/ \E n \in Node :
          \/ Elect(n) \/ Apply(n) \/ Restart(n)
          \/ BeginPoll(n) \/ FetchFails(n) \/ Deposed(n) \/ Coalesce(n)
          \/ Offer(n) \/ Commit(n) \/ ReplicateFails(n) \/ FinishPoll(n)
          \/ \E a \in sending[n] : ReplicateAnomaly(n, a) \/ AnomalyFails(n, a)
          \/ \E r \in mgr[n].shown : leader = n /\ Acknowledge(r.a)

\* The poll loop, the FSM goroutine and the anomaly goroutines keep running, a
\* leaderless cluster elects, and fetches do not fail for ever.
Fairness ==
    /\ \A n \in Node :
          /\ WF_vars(Apply(n))
          /\ WF_vars(BeginPoll(n))
          /\ WF_vars(Deposed(n))
          /\ SF_vars(Coalesce(n) \/ Offer(n))
          /\ WF_vars(Commit(n) \/ ReplicateFails(n))
          /\ WF_vars(FinishPoll(n))
          /\ WF_vars(\E a \in sending[n] : ReplicateAnomaly(n, a) \/ AnomalyFails(n, a))
    /\ WF_vars(\E n \in Node : Elect(n))

Spec == Init /\ [][Next]_vars /\ Fairness

-----------------------------------------------------------------------------
(* Properties.                                                             *)

Committed == {log[i].leases : i \in {j \in DOMAIN log : log[j].kind = "leases"}}

LastCommitted ==
    LET at == {i \in DOMAIN log : log[i].kind = "leases"}
    IN  IF at = {} THEN None
        ELSE log[CHOOSE i \in at : \A j \in at : j <= i].leases

\* No node, the polling leader included, serves leases the cluster has not
\* committed (manager.go pollOnce applies locally only after the replication);
\* it may serve none.
ServesCommitted == \A n \in Node : mgr[n].leases \in Committed \cup {None, NoLeases}

\* Across restarts, elections and failed polls, a node that has had a lease view
\* from the cluster never serves none again (SetDhcpManager primes the manager).
NeverEmptyAgain ==
    \A n \in Node : store[n].leases # None => mgr[n].leases # None

\* A poll that commits nothing found exactly what the cluster last committed:
\* the coalescer skips "unchanged since the last successful apply".
SkippedOnlyIfCommitted ==
    [][\A n \in Node : Coalesce(n) => poll[n].got = LastCommitted]_vars

\* Once the source has stopped changing, and reports some lease, every node ends up
\* serving what it reports (manager.go pollOnce, app.go onApply).  Of a source that
\* has become empty a leader that restarted since tells nobody.
SourceServedEverywhere ==
    <>[](source # NoLeases => \A n \in Node : mgr[n].leases = source)

\* A snapshot a leader means to replicate gets committed, is replaced by a newer
\* one, or leadership moves on ("the replication retry happens on the next tick").
OfferedIsCommitted ==
    \A n \in Node, v \in Leases :
        (leader = n /\ mgr[n].asked = v)
            ~> (v = LastCommitted \/ mgr[n].asked # v \/ leader # n)

\* Two nodes never poll the source at the same time.
OnePollAtATime ==
    \A n, o \in Node : poll[n].pc = "fetching" /\ poll[o].pc = "fetching" => n = o

\* The stamp of the served snapshot is that of the last completed poll.
LastPollReported == ~missed

\* An anomaly one node has shown and replicated without an error is shown by
\* all of them in the end (recordAnomaly's goroutine).
AnomaliesReachEveryNode ==
    \A n \in Node, c \in Client, m \in Mac, k \in 0..MaxChange :
        LET a == [client |-> c, mac |-> m, nr |-> k]
        IN  a \in sending[n] ~>
                \/ leader # n
                \/ \A o \in Node : \E r \in mgr[o].shown : r.a = a

\* No anomaly leaves a node's list: one is dropped by the retention sweep only.
AnomaliesLinger ==
    [][\A n \in Node : \A r \in mgr[n].shown :
          \E s \in mgr'[n].shown : s.a = r.a]_vars

\* The cluster's lease state is never replaced by what an earlier poll saw: a
\* poll whose leadership flipped on the way is left to the new leader.
PollsCommitInOrder ==
    \A i, j \in DOMAIN log :
        i < j /\ log[i].kind = "leases" /\ log[j].kind = "leases"
        => log[i].seen <= log[j].seen
=============================================================================
