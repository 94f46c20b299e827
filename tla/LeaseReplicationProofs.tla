----------------------- MODULE LeaseReplicationProofs -----------------------
(***************************************************************************)
(* Proofs about LeaseReplication and its two scenes, for every set of      *)
(* nodes, clients and MACs and every bound: the types; that a node which   *)
(* has had leases never serves none again; and that, as long as no         *)
(* replication fails, leases are served only once they are committed.      *)
(* The lemmas are about steps without the bounds on failures, which the    *)
(* two scenes set differently, and hold of both.                           *)
(***************************************************************************)
EXTENDS MCLeaseScenes, SequenceTheorems, TLAPS

-----------------------------------------------------------------------------
(* What the scenes share: their steps and types, however much may fail.    *)

\* Leadership is lost, a command that is no snapshot is committed, a poll or an
\* anomaly is given up: the actions of these names, without their bounds.
Loses ==
    /\ leader' = None
    /\ Use("loss")
    /\ UNCHANGED <<source, log, store, mgr, poll, sending, missed>>

Submits(cmd) ==
    /\ log' = Append(log, cmd)
    /\ Use("other")
    /\ UNCHANGED <<source, leader, store, mgr, poll, sending, missed>>

GivesUp(n) ==
    /\ UNCHANGED used \/ Use("fail")
    /\ poll' = [poll EXCEPT ![n] = Waiting]
    /\ UNCHANGED <<source, leader, log, store, mgr, sending, missed>>

Drops(n, a) ==
    /\ UNCHANGED used \/ Use("fail")
    /\ sending' = [sending EXCEPT ![n] = @ \ {a}]
    /\ UNCHANGED <<source, leader, log, store, mgr, poll, missed>>

Step ==
    \/ SourceChanges \/ Loses \/ \E cmd \in Command : Submits(cmd)
    \/ \E n \in Node :
          \/ Elect(n) \/ Apply(n) \/ Restart(n)
          \/ BeginPoll(n) \/ FetchFails(n) \/ Deposed(n) \/ Coalesce(n)
          \/ Offer(n) \/ Commit(n) \/ GivesUp(n) \/ FinishPoll(n)
          \/ \E a \in sending[n] : ReplicateAnomaly(n, a) \/ Drops(n, a)

Counters == [change : 0..MaxChange, loss : Nat, fail : Nat, crash : Nat, other : Nat,
             made : Nat]

Types ==
    /\ source \in Leases /\ leader \in Node \cup {None}
    /\ log \in Seq(Command)
    /\ store \in [Node -> Store] /\ mgr \in [Node -> Manager] /\ poll \in [Node -> Poll]
    /\ \A n \in Node : {store[n].applied, poll[n].at} \subseteq 0..Len(log)
    /\ sending \in [Node -> SUBSET Anomaly]
    /\ missed \in BOOLEAN
    /\ used \in Counters

-----------------------------------------------------------------------------
(* Types.                                                                  *)

\* The fields of a command, by its kind.
LEMMA CommandFields ==
    ASSUME NEW cmd \in Command
    PROVE  /\ cmd.kind = "leases" => cmd.leases \in Leases
           /\ cmd.kind \in {"append", "ack"} => cmd.a \in Anomaly
  BY DEF Command

\* A committed command leaves those before it as they are.
LEMMA AppendCommand ==
    ASSUME NEW s \in Seq(Command), NEW cmd \in Command
    PROVE  /\ Append(s, cmd) \in Seq(Command)
           /\ Len(Append(s, cmd)) = Len(s) + 1 /\ Len(s) \in Nat
           /\ DOMAIN Append(s, cmd) = 1..(Len(s) + 1) /\ DOMAIN s = 1..Len(s)
           /\ \A i \in DOMAIN s : Append(s, cmd)[i] = s[i]
           /\ Append(s, cmd)[Len(s) + 1] = cmd
  BY AppendProperties, LenProperties

\* A committed command keeps the types, if nothing else that has one changes.
LEMMA TypeCommit ==
    ASSUME Types, NEW cmd \in Command, log' = Append(log, cmd),
           UNCHANGED <<source, leader, store, mgr>>,
           poll' \in [Node -> Poll],
           \A n \in Node : poll'[n].at = poll[n].at \/ poll'[n].at = Len(log) + 1,
           sending' \in [Node -> SUBSET Anomaly], missed' \in BOOLEAN,
           used' \in Counters
    PROVE  Types'
  <1>1. /\ log' \in Seq(Command) /\ Len(log') = Len(log) + 1 /\ Len(log) \in Nat
    BY AppendCommand DEF Types
  <1>2. ASSUME NEW n \in Node
        PROVE  store'[n].applied \in 0..Len(log') /\ poll'[n].at \in 0..Len(log')
    <2>1. store[n].applied \in 0..Len(log) /\ poll[n].at \in 0..Len(log)
      BY DEF Types
    <2>2. 0..Len(log) \subseteq 0..Len(log') /\ Len(log) + 1 \in 0..Len(log')
      BY <1>1
    <2> QED
      BY <2>1, <2>2
  <1> QED
    BY <1>1, <1>2 DEF Types

\* What is counted.
LEMMA TypeUse ==
    ASSUME Types, LeaseAssumption
    PROVE  /\ used.change < MaxChange /\ Use("change") => used' \in Counters
           /\ \A what \in {"loss", "fail", "crash", "other"} :
                  Use(what) => used' \in Counters
  <1>1. used \in Counters /\ MaxChange \in Nat
    BY DEF Types, LeaseAssumption
  <1>2. used.change < MaxChange /\ Use("change") => used' \in Counters
    BY <1>1 DEF Use, Counters
  <1>3. ASSUME NEW what \in {"loss", "fail", "crash", "other"}, Use(what)
        PROVE  used' \in Counters
    <2>1. CASE what = "loss"
      BY <1>1, <1>3, <2>1 DEF Use, Counters
    <2>2. CASE what = "fail"
      BY <1>1, <1>3, <2>2 DEF Use, Counters
    <2>3. CASE what = "crash"
      BY <1>1, <1>3, <2>3 DEF Use, Counters
    <2>4. CASE what = "other"
      BY <1>1, <1>3, <2>4 DEF Use, Counters
    <2> QED
      BY <2>1, <2>2, <2>3, <2>4
  <1> QED
    BY <1>2, <1>3

\* What a poll that ends does to the manager, the goroutines and the counter.
LEMMA TypeApplyLocally ==
    ASSUME Types, NEW n \in Node, NEW leases \in Leases, NEW asked \in Leases,
           ApplyLocally(n, leases, asked)
    PROVE  /\ mgr' \in [Node -> Manager] /\ sending' \in [Node -> SUBSET Anomaly]
           /\ used' \in Counters
           /\ \A o \in Node : o # n => mgr'[o] = mgr[o]
           /\ mgr'[n].leases = leases /\ mgr'[n].asked = asked
  <1> DEFINE new == Detected(n, leases)
             h == [c \in Client |-> IF leases[c] = None THEN mgr[n].history[c] ELSE leases[c]]
             rows == mgr[n].shown \cup {[a |-> a, acked |-> FALSE] : a \in new}
             made == IF new = {} THEN used.made ELSE used.made + 1
  <1>1. /\ mgr' = [mgr EXCEPT ![n] = [leases |-> leases, asked |-> asked,
                                      history |-> h, shown |-> rows]]
        /\ sending' = [sending EXCEPT ![n] = sending[n] \cup new]
        /\ used' = [used EXCEPT !.made = made]
    BY DEF ApplyLocally
  <1>2. mgr[n] \in Manager /\ used \in Counters
    BY DEF Types
  <1>3. new \subseteq Anomaly
    <2>1. \A c \in Spoofed(n, leases) : c \in Client /\ leases[c] \in Mac
      BY DEF Spoofed, Leases
    <2>2. used.made \in Nat
      BY <1>2 DEF Counters
    <2> QED
      BY <2>1, <2>2 DEF Detected, Anomaly
  <1>4. h \in Leases
    <2>1. mgr[n].history \in Leases
      BY <1>2 DEF Manager
    <2> QED
      BY <2>1 DEF Leases
  <1>5. rows \in SUBSET Row
    <2>1. mgr[n].shown \in SUBSET Row
      BY <1>2 DEF Manager
    <2>2. \A x \in Anomaly : [a |-> x, acked |-> FALSE] \in Row
      BY DEF Row
    <2> HIDE DEF new
    <2>3. {[a |-> a, acked |-> FALSE] : a \in new} \in SUBSET Row
      BY <1>3, <2>2
    <2> QED
      BY <2>1, <2>3
  <1>6. made \in Nat
    BY <1>2 DEF Counters
  <1> HIDE DEF new, h, rows, made
  <1>7. [leases |-> leases, asked |-> asked, history |-> h, shown |-> rows] \in Manager
    BY <1>4, <1>5 DEF Manager
  <1>8. sending' \in [Node -> SUBSET Anomaly]
    BY <1>1, <1>3 DEF Types
  <1>9. used' \in Counters
    BY <1>1, <1>2, <1>6 DEF Counters
  <1>10. mgr \in [Node -> Manager]
    BY DEF Types
  <1> QED
    BY <1>1, <1>7, <1>8, <1>9, <1>10

\* The types hold at the start.
LEMMA TypeInit == LeaseAssumption /\ Init => Types
  <1> SUFFICES ASSUME LeaseAssumption, Init PROVE Types
    OBVIOUS
  <1>1. NoLeases \in Leases /\ source \in Leases
    BY DEF Init, NoLeases, Leases
  <1>2. Booted \in Manager
    BY <1>1 DEF Booted, Manager
  <1>3. MaxChange \in Nat /\ MaxLoss \in Nat /\ MaxFail \in Nat /\ MaxCrash \in Nat
        /\ MaxOther \in Nat
    BY DEF LeaseAssumption
  <1>4. Waiting \in Poll
    BY <1>1, <1>3 DEF Waiting, Poll
  <1>5. [leases |-> None, rows |-> {}, applied |-> 0] \in Store
    BY DEF Store
  <1>6. log \in Seq(Command) /\ Len(log) = 0
    BY DEF Init
  <1>7. used \in Counters
    BY <1>3 DEF Init, Counters
  <1>8. \A n \in Node : store[n].applied = 0 /\ poll[n].at = 0
    BY DEF Init, Waiting
  <1>9. /\ store \in [Node -> Store] /\ mgr \in [Node -> Manager] /\ poll \in [Node -> Poll]
        /\ sending \in [Node -> SUBSET Anomaly] /\ missed \in BOOLEAN
        /\ leader \in Node \cup {None}
    BY <1>2, <1>4, <1>5 DEF Init
  <1>10. \A n \in Node : {store[n].applied, poll[n].at} \subseteq 0..Len(log)
    BY <1>6, <1>8
  <1> QED
    BY <1>1, <1>6, <1>7, <1>9, <1>10 DEF Types

\* A command leaves well-formed rows.
LEMMA RowsType ==
    ASSUME NEW rows \in SUBSET Row, NEW cmd \in Command
    PROVE  Rows(rows, cmd) \in SUBSET Row
  <1>1. CASE cmd.kind = "append"
    <2>1. [a |-> cmd.a, acked |-> FALSE] \in Row
      BY <1>1, CommandFields DEF Row
    <2>2. Rows(rows, cmd) = {r \in rows : r.a # cmd.a} \cup {[a |-> cmd.a, acked |-> FALSE]}
      BY <1>1 DEF Rows
    <2> QED
      BY <2>1, <2>2
  <1>2. CASE cmd.kind = "ack"
    <2>1. [a |-> cmd.a, acked |-> TRUE] \in Row
      BY <1>2, CommandFields DEF Row
    <2>2. Rows(rows, cmd) = {r \in rows : r.a # cmd.a} \cup {[a |-> cmd.a, acked |-> TRUE]}
      BY <1>2 DEF Rows
    <2> QED
      BY <2>1, <2>2
  <1>3. CASE cmd.kind \notin {"append", "ack"}
    BY <1>3 DEF Rows
  <1> QED
    BY <1>1, <1>2, <1>3

\* An apply leaves a well-formed store and manager.
LEMMA TypeApply ==
    ASSUME Types, NEW n \in Node, Apply(n)
    PROVE  Types'
  <1> DEFINE i == store[n].applied + 1
             cmd == log[i]
             s == store[n]
             t == IF Rejected(s.rows, cmd) THEN [s EXCEPT !.applied = i]
                  ELSE [leases |-> IF cmd.kind = "leases" THEN cmd.leases ELSE s.leases,
                        rows |-> Rows(s.rows, cmd), applied |-> i]
  <1>1. /\ i \in DOMAIN log /\ store' = [store EXCEPT ![n] = t]
        /\ mgr' = IF Rejected(s.rows, cmd) THEN mgr ELSE [mgr EXCEPT ![n] = Mirror(@, t)]
        /\ UNCHANGED <<source, leader, log, poll, sending, missed, used>>
    BY DEF Apply
  <1>2. s \in Store /\ mgr[n] \in Manager
    BY DEF Types
  <1>3. Len(log) \in Nat /\ DOMAIN log = 1..Len(log) /\ cmd \in Command /\ i \in 1..Len(log)
    BY <1>1, LenProperties DEF Types
  <1>5. Rows(s.rows, cmd) \in SUBSET Row
    BY <1>2, <1>3, RowsType DEF Store
  <1>6. i \in Nat
    BY <1>3
  <1>7. t \in Store
    <2>1. CASE Rejected(s.rows, cmd)
      <3>1. t = [s EXCEPT !.applied = i]
        BY <2>1
      <3> QED
        BY <1>2, <1>6, <3>1 DEF Store
    <2>2. CASE ~Rejected(s.rows, cmd)
      <3>1. cmd.kind = "leases" => cmd.leases \in Leases
        BY <1>3, CommandFields
      <3> DEFINE l == IF cmd.kind = "leases" THEN cmd.leases ELSE s.leases
      <3>2. l \in Leases \cup {None}
        BY <1>2, <3>1 DEF Store
      <3>3. t = [leases |-> l, rows |-> Rows(s.rows, cmd), applied |-> i]
        BY <2>2
      <3> QED
        BY <1>5, <1>6, <3>2, <3>3 DEF Store
    <2> QED
      BY <2>1, <2>2
  <1>8. t.applied = i
    BY <1>2 DEF Store
  <1>9. mgr' \in [Node -> Manager]
    <2> HIDE DEF t
    <2>1. Mirror(mgr[n], t) \in Manager
      BY <1>2, <1>7 DEF Mirror, Manager, Store
    <2> QED
      BY <1>1, <2>1 DEF Types
  <1> HIDE DEF t, i, cmd
  <1>10. store' \in [Node -> Store] /\ \A o \in Node : store'[o].applied \in 0..Len(log)
    BY <1>1, <1>3, <1>7, <1>8 DEF Types
  <1> QED
    BY <1>1, <1>9, <1>10 DEF Types

\* A poll that changes its stage only.
LEMMA TypePoll ==
    ASSUME Types, NEW n \in Node, NEW p \in Poll, p.at \in 0..Len(log),
           poll' = [poll EXCEPT ![n] = p],
           mgr' \in [Node -> Manager], sending' \in [Node -> SUBSET Anomaly],
           missed' \in BOOLEAN, used' \in Counters,
           UNCHANGED <<source, leader, log, store>>
    PROVE  Types'
  BY DEF Types

\* A poll that waits, and a manager that boots, are typed.
LEMMA WaitingType ==
    ASSUME LeaseAssumption, NEW s \in Seq(Command)
    PROVE  Waiting \in Poll /\ Waiting.at \in 0..Len(s) /\ Booted \in Manager
  <1>1. NoLeases \in Leases /\ MaxChange \in Nat
    BY DEF NoLeases, Leases, LeaseAssumption
  <1>2. Len(s) \in Nat
    BY LenProperties
  <1> QED
    BY <1>1, <1>2 DEF Waiting, Poll, Booted, Manager

\* One step per action, and under it one per variable that the action changes.
LEMMA TypeNext == LeaseAssumption /\ Types /\ [Step]_vars => Types'
  <1> SUFFICES ASSUME LeaseAssumption, Types, [Step]_vars PROVE Types'
    OBVIOUS
  <1>0. /\ source \in Leases /\ log \in Seq(Command) /\ used \in Counters
        /\ store \in [Node -> Store] /\ mgr \in [Node -> Manager] /\ poll \in [Node -> Poll]
        /\ sending \in [Node -> SUBSET Anomaly] /\ missed \in BOOLEAN
        /\ leader \in Node \cup {None} /\ Len(log) \in Nat
    BY LenProperties DEF Types
  <1>w. Waiting \in Poll /\ Waiting.at \in 0..Len(log) /\ Booted \in Manager
    BY <1>0, WaitingType
  <1>1. CASE SourceChanges
    BY <1>1, TypeUse DEF SourceChanges, Types
  <1>2. CASE Loses
    BY <1>2, TypeUse DEF Loses, Types
  <1>3. ASSUME NEW cmd \in Command, Submits(cmd) PROVE Types'
    BY <1>0, <1>3, TypeUse, TypeCommit DEF Submits
  <1>4. ASSUME NEW n \in Node, Elect(n) PROVE Types'
    BY <1>4 DEF Elect, Types
  <1>5. ASSUME NEW n \in Node, Apply(n) PROVE Types'
    BY <1>5, TypeApply
  <1>6. ASSUME NEW n \in Node, Restart(n) PROVE Types'
    <2>1. /\ used' \in Counters
          /\ leader' \in Node \cup {None}
          /\ store' = [store EXCEPT ![n].applied = 0]
          /\ mgr' = [mgr EXCEPT ![n] = Mirror(Booted, store[n])]
          /\ poll' = [poll EXCEPT ![n] = Waiting]
          /\ sending' = [sending EXCEPT ![n] = {}]
          /\ UNCHANGED <<source, log, missed>>
      BY <1>0, <1>6, TypeUse DEF Restart
    <2>2. store[n] \in Store
      BY <1>0
    <2>3. Mirror(Booted, store[n]) \in Manager
      BY <1>w, <2>2 DEF Mirror, Manager, Store
    <2>4. store' \in [Node -> Store] /\ \A o \in Node : store'[o].applied \in 0..Len(log)
      <3>1. /\ [store[n] EXCEPT !.applied = 0] \in Store
            /\ [store[n] EXCEPT !.applied = 0].applied = 0
        BY <2>2 DEF Store
      <3>2. store' = [store EXCEPT ![n] = [store[n] EXCEPT !.applied = 0]]
        BY <2>1
      <3>3. \A o \in Node : store[o].applied \in 0..Len(log)
        BY DEF Types
      <3> QED
        BY <1>0, <3>1, <3>2, <3>3
    <2> QED
      BY <1>0, <1>w, <2>1, <2>3, <2>4 DEF Types
  <1>7. ASSUME NEW n \in Node, BeginPoll(n) PROVE Types'
    <2> DEFINE p == [poll[n] EXCEPT !.pc = "fetching", !.got = source, !.seen = used.change]
    <2>1. /\ poll' = [poll EXCEPT ![n] = p]
          /\ UNCHANGED <<source, leader, log, store, mgr, sending, missed, used>>
      BY <1>7 DEF BeginPoll
    <2>2. p \in Poll /\ p.at \in 0..Len(log)
      <3>1. /\ poll[n] \in Poll /\ poll[n].at \in 0..Len(log) /\ source \in Leases
            /\ used.change \in 0..MaxChange
        BY <1>0 DEF Counters, Types
      <3> QED
        BY <3>1 DEF Poll
    <2> HIDE DEF p
    <2> QED
      BY <1>0, <2>1, <2>2, TypePoll
  <1>8. ASSUME NEW n \in Node, FetchFails(n) \/ Deposed(n) PROVE Types'
    BY <1>0, <1>w, <1>8, TypePoll DEF FetchFails, Deposed
  <1>9. ASSUME NEW n \in Node, Coalesce(n) PROVE Types'
    <2>1. poll[n].got \in Leases /\ mgr[n].asked \in Leases
      BY <1>0 DEF Poll, Manager
    <2>2. ApplyLocally(n, poll[n].got, mgr[n].asked)
      BY <1>9 DEF Coalesce
    <2> QED
      BY <1>0, <1>w, <1>9, <2>1, <2>2, TypeApplyLocally, TypePoll DEF Coalesce
  <1>10. ASSUME NEW n \in Node, Offer(n) PROVE Types'
    <2> DEFINE p == [poll[n] EXCEPT !.pc = "replicating"]
               m == [mgr[n] EXCEPT !.asked = poll[n].got]
    <2>1. /\ poll' = [poll EXCEPT ![n] = p] /\ mgr' = [mgr EXCEPT ![n] = m]
          /\ UNCHANGED <<source, leader, log, store, sending, missed, used>>
      BY <1>10 DEF Offer
    <2>2. p \in Poll /\ p.at \in 0..Len(log)
      <3>1. poll[n] \in Poll /\ poll[n].at \in 0..Len(log)
        BY <1>0 DEF Types
      <3> QED
        BY <3>1 DEF Poll
    <2>3. m \in Manager
      <3>1. mgr[n] \in Manager /\ poll[n].got \in Leases
        BY <1>0 DEF Poll
      <3> QED
        BY <3>1 DEF Manager
    <2> HIDE DEF p, m
    <2> QED
      BY <1>0, <2>1, <2>2, <2>3, TypePoll
  <1>11. ASSUME NEW n \in Node, Commit(n) PROVE Types'
    <2> DEFINE cmd == [kind |-> "leases", leases |-> poll[n].got, seen |-> poll[n].seen]
               p == [poll[n] EXCEPT !.pc = "committed", !.at = Len(log) + 1]
    <2>1. /\ log' = Append(log, cmd) /\ poll' = [poll EXCEPT ![n] = p] /\ missed' = FALSE
          /\ UNCHANGED <<source, leader, store, mgr, sending, used>>
      BY <1>11 DEF Commit
    <2>2. cmd \in Command
      BY <1>0 DEF Poll, Command, LeaseAssumption
    <2>3. p \in Poll /\ p.at = Len(log) + 1
      <3>1. poll[n] \in Poll /\ Len(log) + 1 \in Nat
        BY <1>0
      <3> QED
        BY <3>1 DEF Poll
    <2> HIDE DEF p, cmd
    <2> QED
      BY <1>0, <2>1, <2>2, <2>3, TypeCommit
  <1>12. ASSUME NEW n \in Node, GivesUp(n) PROVE Types'
    BY <1>0, <1>w, <1>12, TypePoll, TypeUse DEF GivesUp
  <1>13. ASSUME NEW n \in Node, FinishPoll(n) PROVE Types'
    <2>1. poll[n].got \in Leases /\ mgr[n].asked \in Leases
      BY <1>0 DEF Poll, Manager
    <2>2. ApplyLocally(n, poll[n].got, mgr[n].asked)
      BY <1>13 DEF FinishPoll
    <2> QED
      BY <1>0, <1>w, <1>13, <2>1, <2>2, TypeApplyLocally, TypePoll DEF FinishPoll
  <1>14. ASSUME NEW n \in Node, NEW a \in sending[n], ReplicateAnomaly(n, a) PROVE Types'
    <2>1. a \in Anomaly
      BY <1>0
    <2>2. [kind |-> "append", a |-> a] \in Command
      BY <2>1 DEF Command
    <2>3. sending' \in [Node -> SUBSET Anomaly]
      BY <1>0, <1>14 DEF ReplicateAnomaly
    <2> QED
      BY <1>0, <1>14, <2>2, <2>3, TypeCommit DEF ReplicateAnomaly
  <1>15. ASSUME NEW n \in Node, NEW a \in sending[n], Drops(n, a) PROVE Types'
    <2>1. sending' \in [Node -> SUBSET Anomaly]
      BY <1>0, <1>15 DEF Drops
    <2>2. used' \in Counters
      BY <1>0, <1>15, TypeUse DEF Drops
    <2> QED
      BY <1>15, <2>1, <2>2 DEF Drops, Types
  <1>16. CASE UNCHANGED vars
    BY <1>16 DEF vars, Types
  <1> QED
    BY <1>1, <1>2, <1>3, <1>4, <1>5, <1>6, <1>7, <1>8, <1>9, <1>10, <1>11, <1>12, <1>13,
       <1>14, <1>15, <1>16 DEF Step

\* Types and the bound of each counter, in either scene.
LEMMA TypesOf ==
    /\ TypeOK <=> Types /\ used \in Used
    /\ Failing!TypeOK <=> Types /\ used \in Failing!Used
  <1>1. LeaseAssumption
    BY LeaseAssumption
  <1>2. Used \subseteq Counters
    BY <1>1 DEF Used, Counters, LeaseAssumption
  <1>3. Failing!Used \subseteq Counters
    BY <1>1 DEF Failing!Used, Counters, LeaseAssumption
  <1>4. TypeOK <=> Types /\ used \in Used
    BY <1>2 DEF TypeOK, Types
  <1>5. /\ Failing!Leases = Leases /\ Failing!Anomaly = Anomaly
        /\ Failing!Poll = Poll
    BY DEF Failing!Leases, Leases, Failing!Anomaly, Anomaly, Failing!Poll, Poll
  <1>6. Failing!Row = Row /\ Failing!Command = Command
    BY <1>5 DEF Failing!Row, Row, Failing!Command, Command
  <1>7. Failing!Manager = Manager /\ Failing!Store = Store
    BY <1>5, <1>6 DEF Failing!Manager, Manager, Failing!Store, Store
  <1>8. Failing!TypeOK <=> Types /\ used \in Failing!Used
    BY <1>3, <1>5, <1>6, <1>7 DEF Failing!TypeOK, Types
  <1> QED
    BY <1>4, <1>8

\* The counter of the anomalies seen is all a poll that ends adds to.
LEMMA LocalCount ==
    ASSUME NEW n, NEW leases, NEW asked, ApplyLocally(n, leases, asked)
    PROVE  /\ used \in Used => used' \in Used
           /\ used \in Failing!Used => used' \in Failing!Used
  <1> DEFINE made == IF Detected(n, leases) = {} THEN used.made ELSE used.made + 1
  <1>1. used' = [used EXCEPT !.made = made]
    BY DEF ApplyLocally
  <1>2. used.made \in Nat => made \in Nat
    OBVIOUS
  <1> HIDE DEF made
  <1>3. used \in Used => used' \in Used
    BY <1>1, <1>2 DEF Used
  <1>4. used \in Failing!Used => used' \in Failing!Used
    BY <1>1, <1>2 DEF Failing!Used
  <1> QED
    BY <1>3, <1>4

\* A step of the first scene is one of those above, and stays within its bounds.
LEMMA StepOfNext ==
    ASSUME LeaseAssumption, Types, used \in Used, [Next]_vars
    PROVE  [Step]_vars /\ used' \in Used
  <1>0. /\ MaxChange \in Nat /\ MaxLoss \in Nat /\ MaxFail \in Nat
        /\ MaxCrash \in Nat /\ MaxOther \in Nat
    BY DEF LeaseAssumption
  <1>1. CASE SourceChanges
    BY <1>0, <1>1 DEF SourceChanges, Use, Used, Step
  <1>2. CASE LoseLeadership
    BY <1>0, <1>2 DEF LoseLeadership, Loses, Use, Used, Step
  <1>3. CASE OtherCommand
    <2>1. [kind |-> "other"] \in Command
      BY DEF Command
    <2>2. Submits([kind |-> "other"]) /\ used.other < MaxOther /\ Use("other")
      BY <1>3 DEF OtherCommand, Submits
    <2>3. used' \in Used
      BY <1>0, <2>2 DEF Use, Used
    <2> QED
      BY <2>1, <2>2, <2>3 DEF Step
  <1>4. ASSUME NEW n \in Node, NEW r \in mgr[n].shown, Acknowledge(r.a)
        PROVE  [Step]_vars /\ used' \in Used
    <2>1. [kind |-> "ack", a |-> r.a] \in Command
      BY DEF Types, Manager, Row, Command
    <2>2. Submits([kind |-> "ack", a |-> r.a]) /\ used.other < MaxOther /\ Use("other")
      BY <1>4 DEF Acknowledge, Submits
    <2>3. used' \in Used
      BY <1>0, <2>2 DEF Use, Used
    <2> QED
      BY <2>1, <2>2, <2>3 DEF Step
  <1>5. ASSUME NEW n \in Node, Restart(n) PROVE [Step]_vars /\ used' \in Used
    <2>1. used.crash < MaxCrash /\ Use("crash")
      BY <1>5 DEF Restart
    <2>2. used' \in Used
      BY <1>0, <2>1 DEF Use, Used
    <2> QED
      BY <1>5, <2>2 DEF Step
  <1>6. ASSUME NEW n \in Node, ReplicateFails(n) PROVE [Step]_vars /\ used' \in Used
    <2>1. GivesUp(n)
      BY <1>6 DEF ReplicateFails, GivesUp
    <2>2. used' = used \/ (used.fail < MaxFail /\ Use("fail"))
      BY <1>6 DEF ReplicateFails
    <2>3. used' \in Used
      BY <1>0, <2>2 DEF Use, Used
    <2> QED
      BY <2>1, <2>3 DEF Step
  <1>7. ASSUME NEW n \in Node, NEW a \in sending[n], AnomalyFails(n, a)
        PROVE  [Step]_vars /\ used' \in Used
    <2>1. Drops(n, a)
      BY <1>7 DEF AnomalyFails, Drops
    <2>2. used' = used \/ (used.fail < MaxFail /\ Use("fail"))
      BY <1>7 DEF AnomalyFails
    <2>3. used' \in Used
      BY <1>0, <2>2 DEF Use, Used
    <2> QED
      BY <2>1, <2>3 DEF Step
  <1>8. ASSUME NEW n \in Node, Coalesce(n) \/ FinishPoll(n)
        PROVE  [Step]_vars /\ used' \in Used
    <2>1. ApplyLocally(n, poll[n].got, mgr[n].asked)
      BY <1>8 DEF Coalesce, FinishPoll
    <2>2. used' \in Used
      BY <2>1, LocalCount
    <2> QED
      BY <1>8, <2>2 DEF Step
  <1>9. ASSUME NEW n \in Node,
               \/ Elect(n) \/ Apply(n) \/ BeginPoll(n) \/ FetchFails(n) \/ Deposed(n)
               \/ Offer(n) \/ Commit(n)
        PROVE  [Step]_vars /\ used' \in Used
    <2>1. used' = used
      BY <1>9 DEF Elect, Apply, BeginPoll, FetchFails, Deposed, Offer, Commit
    <2> QED
      BY <1>9, <2>1 DEF Step
  <1>10. ASSUME NEW n \in Node, NEW a \in sending[n], ReplicateAnomaly(n, a)
         PROVE  [Step]_vars /\ used' \in Used
    <2>1. used' = used
      BY <1>10 DEF ReplicateAnomaly
    <2> QED
      BY <1>10, <2>1 DEF Step
  <1>11. CASE UNCHANGED vars
    BY <1>11 DEF vars
  <1> QED
    BY <1>1, <1>2, <1>3, <1>4, <1>5, <1>6, <1>7, <1>8, <1>9, <1>10, <1>11 DEF Next

\* So is a step of the second one, whose actions differ in three bounds only.
LEMMA StepOfFailing ==
    ASSUME LeaseAssumption, Types, used \in Failing!Used, [Failing!Next]_vars
    PROVE  [Step]_vars /\ used' \in Failing!Used
  <1>0. MaxChange \in Nat /\ MaxCrash \in Nat
    BY DEF LeaseAssumption
  <1>1. CASE Failing!SourceChanges
    <2>1. SourceChanges
      BY <1>1 DEF Failing!SourceChanges, Failing!Leases, Failing!Use, SourceChanges, Leases, Use
    <2>2. used.change < MaxChange /\ Use("change")
      BY <2>1 DEF SourceChanges
    <2>3. used' \in Failing!Used
      BY <1>0, <2>2 DEF Use, Failing!Used
    <2> QED
      BY <2>1, <2>3 DEF Step
  <1>2. CASE Failing!LoseLeadership
    <2>1. Loses /\ used.loss < 1
      BY <1>2 DEF Failing!LoseLeadership, Failing!Use, Loses, Use
    <2>2. used' \in Failing!Used
      BY <2>1 DEF Loses, Use, Failing!Used
    <2> QED
      BY <2>1, <2>2 DEF Step
  <1>3. ASSUME \/ Failing!OtherCommand
               \/ \E n \in Node : \E r \in mgr[n].shown : Failing!Acknowledge(r.a)
        PROVE  FALSE
    <2>1. used.other < 0
      BY <1>3 DEF Failing!OtherCommand, Failing!Acknowledge
    <2>2. used.other \in 0..0
      BY DEF Failing!Used
    <2> QED
      BY <2>1, <2>2
  <1>5. ASSUME NEW n \in Node, Failing!Restart(n)
        PROVE  [Step]_vars /\ used' \in Failing!Used
    <2>1. Restart(n)
      BY <1>5 DEF Failing!Restart, Failing!Mirror, Failing!Booted, Failing!NoLeases,
                  Failing!Waiting, Failing!Use, Restart, Mirror, Booted, NoLeases, Waiting, Use
    <2>2. used.crash < MaxCrash /\ Use("crash")
      BY <2>1 DEF Restart
    <2>3. used' \in Failing!Used
      BY <1>0, <2>2 DEF Use, Failing!Used
    <2> QED
      BY <2>1, <2>3 DEF Step
  <1>6. ASSUME NEW n \in Node, Failing!ReplicateFails(n)
        PROVE  [Step]_vars /\ used' \in Failing!Used
    <2>1. GivesUp(n) /\ (used' = used \/ (used.fail < 1 /\ Use("fail")))
      BY <1>6 DEF Failing!ReplicateFails, Failing!Waiting, Failing!NoLeases, Failing!Use,
                  GivesUp, Waiting, NoLeases, Use
    <2>2. used' \in Failing!Used
      BY <2>1 DEF Use, Failing!Used
    <2> QED
      BY <2>1, <2>2 DEF Step
  <1>7. ASSUME NEW n \in Node, NEW a \in sending[n], Failing!AnomalyFails(n, a)
        PROVE  [Step]_vars /\ used' \in Failing!Used
    <2>1. Drops(n, a) /\ (used' = used \/ (used.fail < 1 /\ Use("fail")))
      BY <1>7 DEF Failing!AnomalyFails, Failing!Use, Drops, Use
    <2>2. used' \in Failing!Used
      BY <2>1 DEF Use, Failing!Used
    <2> QED
      BY <2>1, <2>2 DEF Step
  <1>8. ASSUME NEW n \in Node, Failing!Coalesce(n) \/ Failing!FinishPoll(n)
        PROVE  [Step]_vars /\ used' \in Failing!Used
    <2>1. \A leases, asked :
              Failing!ApplyLocally(n, leases, asked) <=> ApplyLocally(n, leases, asked)
      BY DEF Failing!ApplyLocally, Failing!Detected, Failing!Spoofed,
             ApplyLocally, Detected, Spoofed
    <2>2. Failing!Waiting = Waiting
      BY DEF Failing!Waiting, Failing!NoLeases, Waiting, NoLeases
    <2>3. Coalesce(n) \/ FinishPoll(n)
      BY <1>8, <2>1, <2>2 DEF Failing!Coalesce, Failing!FinishPoll, Coalesce, FinishPoll
    <2>4. ApplyLocally(n, poll[n].got, mgr[n].asked)
      BY <2>3 DEF Coalesce, FinishPoll
    <2>5. used' \in Failing!Used
      BY <2>4, LocalCount
    <2> QED
      BY <2>3, <2>5 DEF Step
  <1>9. ASSUME NEW n \in Node, Failing!Apply(n)
        PROVE  [Step]_vars /\ used' \in Failing!Used
    <2>1. Apply(n)
      BY <1>9 DEF Failing!Apply, Failing!Rejected, Failing!Rows, Failing!Mirror,
                  Apply, Rejected, Rows, Mirror
    <2>2. used' = used
      BY <2>1 DEF Apply
    <2> QED
      BY <2>1, <2>2 DEF Step
  <1>10. ASSUME NEW n \in Node,
                \/ Failing!Elect(n) \/ Failing!BeginPoll(n) \/ Failing!FetchFails(n)
                \/ Failing!Deposed(n) \/ Failing!Offer(n) \/ Failing!Commit(n)
         PROVE  [Step]_vars /\ used' \in Failing!Used
    <2>1. Failing!Waiting = Waiting
      BY DEF Failing!Waiting, Failing!NoLeases, Waiting, NoLeases
    <2>2. \/ Elect(n) \/ BeginPoll(n) \/ FetchFails(n) \/ Deposed(n) \/ Offer(n) \/ Commit(n)
      BY <1>10, <2>1 DEF Failing!Elect, Failing!BeginPoll, Failing!FetchFails,
             Failing!Deposed, Failing!Offer, Failing!Commit,
             Elect, BeginPoll, FetchFails, Deposed, Offer, Commit
    <2>3. used' = used
      BY <2>2 DEF Elect, BeginPoll, FetchFails, Deposed, Offer, Commit
    <2> QED
      BY <2>2, <2>3 DEF Step
  <1>11. ASSUME NEW n \in Node, NEW a \in sending[n], Failing!ReplicateAnomaly(n, a)
         PROVE  [Step]_vars /\ used' \in Failing!Used
    <2>1. ReplicateAnomaly(n, a)
      BY <1>11 DEF Failing!ReplicateAnomaly, ReplicateAnomaly
    <2>2. used' = used
      BY <2>1 DEF ReplicateAnomaly
    <2> QED
      BY <2>1, <2>2 DEF Step
  <1>12. CASE UNCHANGED vars
    BY <1>12 DEF vars
  <1> QED
    BY <1>1, <1>2, <1>3, <1>5, <1>6, <1>7, <1>8, <1>9, <1>10, <1>11, <1>12
       DEF Failing!Next

\* The types, and the bounds of the scene at hand.
ScenesInv ==
    /\ Types
    /\ used \in IF scene = "follow" THEN Used ELSE Failing!Used

\* Each scene starts within its bounds.
LEMMA ScenesInitInv == LeaseAssumption /\ ScenesInit => ScenesInv
  <1> SUFFICES ASSUME LeaseAssumption, ScenesInit PROVE ScenesInv
    OBVIOUS
  <1>1. Types
    BY TypeInit DEF ScenesInit
  <1>2. used = [change |-> 0, loss |-> 0, fail |-> 0, crash |-> 0, other |-> 0, made |-> 0]
    BY DEF ScenesInit, Init
  <1>3. used \in Used /\ used \in Failing!Used
    BY <1>2 DEF LeaseAssumption, Used, Failing!Used
  <1> QED
    BY <1>1, <1>3 DEF ScenesInv

\* Both scenes take the steps above and stay within their bounds.
LEMMA ScenesStep ==
    ASSUME LeaseAssumption, ScenesInv, [ScenesNext]_<<vars, scene>>
    PROVE  ScenesInv' /\ [Step]_vars /\ UNCHANGED scene
           /\ (scene = "follow" => [Next]_vars)
  <1>1. /\ UNCHANGED scene
        /\ \/ UNCHANGED vars
           \/ scene = "follow" /\ Next
           \/ scene = "failing" /\ Failing!Next
    BY DEF ScenesNext
  <1>2. CASE scene = "follow"
    <2>1. [Next]_vars
      BY <1>1, <1>2
    <2>2. [Step]_vars /\ used' \in Used
      BY <1>2, <2>1, StepOfNext DEF ScenesInv
    <2>3. Types'
      BY <2>2, TypeNext DEF ScenesInv
    <2> QED
      BY <1>1, <1>2, <2>1, <2>2, <2>3 DEF ScenesInv
  <1>3. CASE scene # "follow"
    <2>1. [Failing!Next]_vars
      BY <1>1, <1>3
    <2>2. [Step]_vars /\ used' \in Failing!Used
      BY <1>3, <2>1, StepOfFailing DEF ScenesInv
    <2>3. Types'
      BY <2>2, TypeNext DEF ScenesInv
    <2> QED
      BY <1>1, <1>3, <2>2, <2>3 DEF ScenesInv
  <1> QED
    BY <1>2, <1>3

\* The variables keep their types, and the counters their bounds, in both scenes:
\* stages of a poll, rows and snapshots are well formed, and no index points past
\* the log.
THEOREM ScenesTyped == ScenesSpec => []ScenesTypeOK
  <1>1. ScenesInit => ScenesInv
    BY ScenesInitInv, LeaseAssumption
  <1>2. ScenesInv /\ [ScenesNext]_<<vars, scene>> => ScenesInv'
    BY ScenesStep, LeaseAssumption
  <1>3. ScenesInv => ScenesTypeOK
    BY TypesOf DEF ScenesInv, ScenesTypeOK
  <1> QED
    BY <1>1, <1>2, <1>3, PTL DEF ScenesSpec

-----------------------------------------------------------------------------
(* A node that has had leases serves some.                                 *)

\* Steps that leave what is stored alone, and do not take leases from a manager.
LEMMA KeepsServing ==
    ASSUME NeverEmptyAgain,
           \A n \in Node : /\ store'[n].leases = store[n].leases
                           /\ mgr'[n].leases = None => mgr[n].leases = None
    PROVE  NeverEmptyAgain'
  BY DEF NeverEmptyAgain

\* What the source has reported is a snapshot, if an empty one, and never nothing.
LEMMA SnapshotIsThere == LeaseAssumption => None \notin Leases
  BY DEF LeaseAssumption, Leases

\* A step shows a snapshot, keeps what is shown, or happens where none is stored.
LEMMA NeverEmptyNext ==
    ASSUME LeaseAssumption, Types, NeverEmptyAgain, [Step]_vars
    PROVE  NeverEmptyAgain'
  <1>0. /\ store \in [Node -> Store] /\ mgr \in [Node -> Manager] /\ poll \in [Node -> Poll]
        /\ log \in Seq(Command)
    BY DEF Types
  <1>n. \A n \in Node : poll[n].got # None
    BY <1>0, SnapshotIsThere DEF Poll
  <1>1. CASE UNCHANGED <<store, mgr>>
    BY <1>1, KeepsServing
  <1>2. ASSUME NEW n \in Node, Apply(n) PROVE NeverEmptyAgain'
    <2> DEFINE i == store[n].applied + 1
               cmd == log[i]
               s == store[n]
               kept == [s EXCEPT !.applied = i]
               t == [leases |-> IF cmd.kind = "leases" THEN cmd.leases ELSE s.leases,
                     rows |-> Rows(s.rows, cmd), applied |-> i]
    <2>1. /\ store' = [store EXCEPT ![n] = IF Rejected(s.rows, cmd) THEN kept ELSE t]
          /\ mgr' = IF Rejected(s.rows, cmd) THEN mgr
                    ELSE [mgr EXCEPT ![n] = Mirror(mgr[n], t)]
      BY <1>2 DEF Apply
    <2>2. kept.leases = s.leases
      BY <1>0 DEF Store
    <2> HIDE DEF kept, cmd, i
    <2>3. CASE Rejected(s.rows, cmd)
      BY <1>0, <2>1, <2>2, <2>3, KeepsServing
    <2>4. CASE ~Rejected(s.rows, cmd)
      <3>1. t.leases # None => Mirror(mgr[n], t).leases = t.leases
        BY <1>0 DEF Mirror, Manager
      <3> HIDE DEF t
      <3> QED
        BY <1>0, <2>1, <2>4, <3>1 DEF NeverEmptyAgain
    <2> QED
      BY <2>3, <2>4
  <1>3. ASSUME NEW n \in Node, Restart(n) PROVE NeverEmptyAgain'
    <2>1. /\ store' = [store EXCEPT ![n].applied = 0]
          /\ mgr' = [mgr EXCEPT ![n] = Mirror(Booted, store[n])]
      BY <1>3 DEF Restart
    <2>2. \A o \in Node : store'[o].leases = store[o].leases
      BY <1>0, <2>1 DEF Store
    <2>3. store[n].leases # None => Mirror(Booted, store[n]).leases = store[n].leases
      BY DEF Mirror, Booted
    <2> QED
      BY <1>0, <2>1, <2>2, <2>3 DEF NeverEmptyAgain
  <1>4. ASSUME NEW n \in Node, Coalesce(n) \/ FinishPoll(n) PROVE NeverEmptyAgain'
    <2>1. poll[n].got \in Leases /\ mgr[n].asked \in Leases
      BY <1>0 DEF Poll, Manager
    <2>2. ApplyLocally(n, poll[n].got, mgr[n].asked) /\ store' = store
      BY <1>4 DEF Coalesce, FinishPoll
    <2>3. mgr'[n].leases = poll[n].got /\ \A o \in Node : o # n => mgr'[o] = mgr[o]
      BY <2>1, <2>2, TypeApplyLocally
    <2> QED
      BY <1>n, <2>2, <2>3, KeepsServing
  <1>5. ASSUME NEW n \in Node, Offer(n) PROVE NeverEmptyAgain'
    <2>1. store' = store /\ mgr' = [mgr EXCEPT ![n].asked = poll[n].got]
      BY <1>5 DEF Offer
    <2>2. \A o \in Node : mgr'[o].leases = mgr[o].leases
      BY <1>0, <2>1 DEF Manager
    <2> QED
      BY <2>1, <2>2, KeepsServing
  <1>6. ASSUME \/ SourceChanges \/ Loses
               \/ \E cmd \in Command : Submits(cmd)
        PROVE  NeverEmptyAgain'
    BY <1>1, <1>6 DEF SourceChanges, Loses, Submits
  <1>7. ASSUME NEW n \in Node,
               \/ Elect(n) \/ BeginPoll(n) \/ FetchFails(n) \/ Deposed(n) \/ Commit(n)
               \/ GivesUp(n)
        PROVE  NeverEmptyAgain'
    BY <1>1, <1>7 DEF Elect, BeginPoll, FetchFails, Deposed, Commit, GivesUp
  <1>8. ASSUME NEW n \in Node, NEW a, ReplicateAnomaly(n, a) \/ Drops(n, a)
        PROVE  NeverEmptyAgain'
    BY <1>1, <1>8 DEF ReplicateAnomaly, Drops
  <1>9. CASE UNCHANGED vars
    BY <1>1, <1>9 DEF vars
  <1> QED
    BY <1>2, <1>3, <1>4, <1>5, <1>6, <1>7, <1>8, <1>9 DEF Step

\* Across restarts that replay the log, elections, refused and lost replications and
\* polls, a node whose store has a snapshot serves one (SetDhcpManager, onApply).
THEOREM NeverEmpty == ScenesSpec => []NeverEmptyAgain
  <1>1. ScenesInit => ScenesInv /\ NeverEmptyAgain
    BY ScenesInitInv, LeaseAssumption DEF ScenesInit, Init, NeverEmptyAgain
  <1>2. ScenesInv /\ NeverEmptyAgain /\ [ScenesNext]_<<vars, scene>>
        => ScenesInv' /\ NeverEmptyAgain'
    <2> SUFFICES ASSUME ScenesInv, NeverEmptyAgain, [ScenesNext]_<<vars, scene>>
                 PROVE  ScenesInv' /\ NeverEmptyAgain'
      OBVIOUS
    <2>1. ScenesInv' /\ [Step]_vars /\ Types
      BY ScenesStep, LeaseAssumption DEF ScenesInv
    <2> QED
      BY <2>1, NeverEmptyNext, LeaseAssumption
  <1> QED
    BY <1>1, <1>2, PTL DEF ScenesSpec

-----------------------------------------------------------------------------
(* What is served is committed, if nothing fails but processes.            *)

CommittedInv ==
    /\ \A n \in Node : /\ mgr[n].leases \in Committed \cup {None, NoLeases}
                      /\ store[n].leases \in Committed \cup {None}
    /\ \A n \in Node : poll[n].pc # "idle" => leader = n
    /\ \A n \in Node : IF poll[n].pc = "replicating" THEN mgr[n].asked = poll[n].got
                       ELSE mgr[n].asked \in Committed \cup {NoLeases}
    /\ \A n \in Node : poll[n].pc = "committed" => poll[n].got \in Committed

\* What is committed stays so, and the snapshot of a new command joins it.
LEMMA CommittedGrows ==
    ASSUME Types, NEW cmd \in Command, log' = Append(log, cmd)
    PROVE  /\ Committed \subseteq Committed'
           /\ cmd.kind = "leases" => cmd.leases \in Committed'
  <1>1. /\ DOMAIN log' = 1..(Len(log) + 1) /\ DOMAIN log = 1..Len(log) /\ Len(log) \in Nat
        /\ \A i \in DOMAIN log : log'[i] = log[i]
        /\ log'[Len(log) + 1] = cmd
    BY AppendCommand DEF Types
  <1>2. DOMAIN log \subseteq DOMAIN log' /\ Len(log) + 1 \in DOMAIN log'
    BY <1>1
  <1> QED
    BY <1>1, <1>2 DEF Committed

\* A snapshot that is applied is committed.
LEMMA CommittedEntry ==
    ASSUME NEW i \in DOMAIN log, log[i].kind = "leases"
    PROVE  log[i].leases \in Committed
  BY DEF Committed

\* Steps that at most commit something, and touch neither stores, managers nor polls.
LEMMA CommittedFrame ==
    ASSUME LeaseAssumption, CommittedInv, Committed \subseteq Committed',
           UNCHANGED <<store, mgr, poll>>, leader = None \/ leader' = leader
    PROVE  CommittedInv'
  <1>1. UNCHANGED store /\ UNCHANGED mgr /\ UNCHANGED poll
    OBVIOUS
  <1>2. \A n \in Node : /\ mgr'[n].leases \in Committed' \cup {None, NoLeases}
                         /\ store'[n].leases \in Committed' \cup {None}
    BY <1>1 DEF CommittedInv
  <1>3. \A n \in Node : poll'[n].pc # "idle" => leader' = n
    <2>1. \A n \in Node : poll[n].pc # "idle" => leader = n /\ n # None
      BY DEF CommittedInv, LeaseAssumption
    <2> QED
      BY <1>1, <2>1
  <1>4. \A n \in Node : IF poll'[n].pc = "replicating" THEN mgr'[n].asked = poll'[n].got
                         ELSE mgr'[n].asked \in Committed' \cup {NoLeases}
    BY <1>1 DEF CommittedInv
  <1>5. \A n \in Node : poll'[n].pc = "committed" => poll'[n].got \in Committed'
    BY <1>1 DEF CommittedInv
  <1> QED
    BY <1>2, <1>3, <1>4, <1>5 DEF CommittedInv

\* One step per action: what it shows was remembered, committed before, or is
\* committed by it.
LEMMA CommittedNext ==
    ASSUME LeaseAssumption, MaxLoss = 0, MaxFail = 0, TypeOK, CommittedInv, [Next]_vars
    PROVE  CommittedInv'
  <1>t. Types
    BY TypesOf
  <1>0. /\ store \in [Node -> Store] /\ mgr \in [Node -> Manager] /\ poll \in [Node -> Poll]
        /\ log \in Seq(Command) /\ used \in Used
    BY DEF TypeOK
  <1>n. \A n \in Node : poll[n].got # None
    BY <1>0, SnapshotIsThere DEF Poll
  <1>c. UNCHANGED log => Committed' = Committed
    BY DEF Committed
  <1>w. Waiting.pc = "idle" /\ Booted.asked = NoLeases /\ Booted.leases = None
    BY DEF Waiting, Booted
  <1>1. CASE UNCHANGED <<log, store, mgr, poll, leader>>
    BY <1>1, <1>c, CommittedFrame
  <1>2. ASSUME NEW n \in Node, Apply(n) PROVE CommittedInv'
    <2> DEFINE i == store[n].applied + 1
               cmd == log[i]
               s == store[n]
               kept == [s EXCEPT !.applied = i]
               t == [leases |-> IF cmd.kind = "leases" THEN cmd.leases ELSE s.leases,
                     rows |-> Rows(s.rows, cmd), applied |-> i]
    <2>1. /\ store' = [store EXCEPT ![n] = IF Rejected(s.rows, cmd) THEN kept ELSE t]
          /\ mgr' = IF Rejected(s.rows, cmd) THEN mgr
                    ELSE [mgr EXCEPT ![n] = Mirror(mgr[n], t)]
          /\ i \in DOMAIN log /\ UNCHANGED <<log, poll, leader>>
      BY <1>2 DEF Apply
    <2>2. kept.leases = s.leases
      BY <1>0 DEF Store
    <2>3. t.leases \in Committed \cup {None}
      BY <2>1, CommittedEntry DEF CommittedInv
    <2>4. /\ Mirror(mgr[n], t).leases \in Committed \cup {None, NoLeases}
          /\ Mirror(mgr[n], t).asked = mgr[n].asked
      <3> HIDE DEF t
      <3>1. mgr[n] \in Manager /\ mgr[n].leases \in Committed \cup {None, NoLeases}
        BY <1>0 DEF CommittedInv
      <3> QED
        BY <2>3, <3>1 DEF Mirror, Manager
    <2> HIDE DEF kept, t, cmd, i
    <2>5. \A o \in Node : /\ store'[o].leases \in Committed \cup {None}
                          /\ mgr'[o].leases \in Committed \cup {None, NoLeases}
                          /\ mgr'[o].asked = mgr[o].asked
      BY <1>0, <2>1, <2>2, <2>3, <2>4 DEF CommittedInv
    <2> QED
      BY <1>c, <2>1, <2>5 DEF CommittedInv
  <1>3. ASSUME NEW n \in Node, Restart(n) PROVE CommittedInv'
    <2>1. /\ store' = [store EXCEPT ![n].applied = 0]
          /\ mgr' = [mgr EXCEPT ![n] = Mirror(Booted, store[n])]
          /\ poll' = [poll EXCEPT ![n] = Waiting]
          /\ leader' = IF leader = n THEN None ELSE leader
          /\ UNCHANGED log
      BY <1>3 DEF Restart
    <2>2. \A o \in Node : store'[o].leases = store[o].leases
      BY <1>0, <2>1 DEF Store
    <2>3. /\ Mirror(Booted, store[n]).leases \in {store[n].leases, None}
          /\ Mirror(Booted, store[n]).asked = NoLeases
      BY DEF Mirror, Booted
    <2>4. \A o \in Node : poll'[o].pc # "idle" => o # n /\ poll'[o] = poll[o]
      BY <1>0, <1>w, <2>1
    <2>5. \A o \in Node : o # n => mgr'[o] = mgr[o] /\ poll'[o] = poll[o]
      BY <1>0, <2>1
    <2>6. poll'[n].pc = "idle" /\ mgr'[n] = Mirror(Booted, store[n])
      BY <1>0, <1>w, <2>1
    <2> QED
      BY <1>c, <2>1, <2>2, <2>3, <2>4, <2>5, <2>6 DEF CommittedInv
  <1>4. ASSUME NEW n \in Node, BeginPoll(n) PROVE CommittedInv'
    <2>1. /\ poll[n].pc = "idle" /\ leader = n
          /\ poll' = [poll EXCEPT ![n] = [poll[n] EXCEPT !.pc = "fetching", !.got = source,
                                                        !.seen = used.change]]
          /\ UNCHANGED <<leader, log, store, mgr>>
      BY <1>4 DEF BeginPoll
    <2>2. poll'[n].pc = "fetching" /\ \A o \in Node : o # n => poll'[o] = poll[o]
      BY <1>0, <2>1 DEF Poll
    <2> QED
      BY <1>c, <2>1, <2>2 DEF CommittedInv
  <1>5. ASSUME NEW n \in Node, FetchFails(n) \/ Deposed(n) PROVE CommittedInv'
    <2>1. /\ poll[n].pc = "fetching" /\ poll' = [poll EXCEPT ![n] = Waiting]
          /\ UNCHANGED <<leader, log, store, mgr>>
      BY <1>5 DEF FetchFails, Deposed
    <2>2. poll'[n].pc = "idle" /\ \A o \in Node : o # n => poll'[o] = poll[o]
      BY <1>0, <1>w, <2>1
    <2> QED
      BY <1>c, <2>1, <2>2 DEF CommittedInv
  <1>6. ASSUME NEW n \in Node, Coalesce(n) \/ FinishPoll(n) PROVE CommittedInv'
    <2>1. poll[n].got \in Leases /\ mgr[n].asked \in Leases
      BY <1>0 DEF Poll, Manager
    <2>2. /\ ApplyLocally(n, poll[n].got, mgr[n].asked)
          /\ poll' = [poll EXCEPT ![n] = Waiting]
          /\ UNCHANGED <<leader, log, store>>
          /\ poll[n].pc # "replicating"
          /\ poll[n].pc = "committed" \/ poll[n].got = mgr[n].asked
      BY <1>6 DEF Coalesce, FinishPoll
    <2>3. poll[n].got \in Committed \cup {NoLeases}
      BY <1>n, <2>2 DEF CommittedInv
    <2>4. /\ mgr'[n].leases = poll[n].got /\ mgr'[n].asked = mgr[n].asked
          /\ \A o \in Node : o # n => mgr'[o] = mgr[o]
      BY <1>t, <2>1, <2>2, TypeApplyLocally
    <2>5. poll'[n].pc = "idle" /\ \A o \in Node : o # n => poll'[o] = poll[o]
      BY <1>0, <1>w, <2>2
    <2> QED
      BY <1>c, <2>2, <2>3, <2>4, <2>5 DEF CommittedInv
  <1>7. ASSUME NEW n \in Node, Offer(n) PROVE CommittedInv'
    <2>1. /\ poll[n].pc = "fetching" /\ mgr' = [mgr EXCEPT ![n].asked = poll[n].got]
          /\ poll' = [poll EXCEPT ![n].pc = "replicating"]
          /\ UNCHANGED <<leader, log, store>>
      BY <1>7 DEF Offer
    <2>2. /\ mgr'[n].leases = mgr[n].leases /\ mgr'[n].asked = poll[n].got
          /\ poll'[n].pc = "replicating" /\ poll'[n].got = poll[n].got
      BY <1>0, <2>1 DEF Manager, Poll
    <2>3. \A o \in Node : o # n => mgr'[o] = mgr[o] /\ poll'[o] = poll[o]
      BY <1>0, <2>1
    <2> QED
      BY <1>c, <2>1, <2>2, <2>3 DEF CommittedInv
  <1>8. ASSUME NEW n \in Node, Commit(n) PROVE CommittedInv'
    <2> DEFINE cmd == [kind |-> "leases", leases |-> poll[n].got, seen |-> poll[n].seen]
    <2>1. /\ poll[n].pc = "replicating" /\ log' = Append(log, cmd)
          /\ poll' = [poll EXCEPT ![n] = [poll[n] EXCEPT !.pc = "committed",
                                                        !.at = Len(log) + 1]]
          /\ UNCHANGED <<leader, store, mgr>>
      BY <1>8 DEF Commit
    <2>2. cmd \in Command
      BY <1>0 DEF Poll, Command, LeaseAssumption
    <2>3. Committed \subseteq Committed' /\ poll[n].got \in Committed'
      BY <1>t, <2>1, <2>2, CommittedGrows
    <2>4. poll'[n].pc = "committed" /\ poll'[n].got = poll[n].got
      BY <1>0, <2>1 DEF Poll
    <2>5. \A o \in Node : o # n => poll'[o] = poll[o]
      BY <1>0, <2>1
    <2> QED
      BY <2>1, <2>3, <2>4, <2>5 DEF CommittedInv
  <1>9. ASSUME NEW n \in Node, ReplicateFails(n) PROVE FALSE
    <2>1. used.fail = 0
      BY <1>0 DEF Used
    <2> QED
      BY <1>9, <2>1 DEF ReplicateFails, CommittedInv
  <1>10. ASSUME LoseLeadership PROVE FALSE
    <2>1. used.loss = 0
      BY <1>0 DEF Used
    <2> QED
      BY <1>10, <2>1 DEF LoseLeadership
  <1>11. ASSUME NEW n \in Node, Elect(n) PROVE CommittedInv'
    BY <1>11, <1>c, CommittedFrame DEF Elect
  <1>12. ASSUME NEW cmd \in Command, log' = Append(log, cmd),
                UNCHANGED <<leader, store, mgr, poll>>
         PROVE  CommittedInv'
    BY <1>t, <1>12, CommittedGrows, CommittedFrame
  <1>13. CASE OtherCommand
    <2>1. [kind |-> "other"] \in Command
      BY DEF Command
    <2> QED
      BY <1>12, <1>13, <2>1 DEF OtherCommand
  <1>14. ASSUME NEW n \in Node, NEW a \in sending[n], ReplicateAnomaly(n, a)
         PROVE  CommittedInv'
    <2>1. [kind |-> "append", a |-> a] \in Command
      BY DEF Command, TypeOK
    <2> QED
      BY <1>12, <1>14, <2>1 DEF ReplicateAnomaly
  <1>15. ASSUME NEW n \in Node, NEW r \in mgr[n].shown, Acknowledge(r.a)
         PROVE  CommittedInv'
    <2>1. r.a \in Anomaly
      BY <1>0 DEF Manager, Row
    <2>2. [kind |-> "ack", a |-> r.a] \in Command
      BY <2>1 DEF Command
    <2> QED
      BY <1>12, <1>15, <2>2 DEF Acknowledge
  <1>16. CASE SourceChanges
    BY <1>1, <1>16 DEF SourceChanges
  <1>17. ASSUME NEW n \in Node, NEW a, AnomalyFails(n, a) PROVE CommittedInv'
    BY <1>1, <1>17 DEF AnomalyFails
  <1>18. CASE UNCHANGED vars
    BY <1>1, <1>18 DEF vars
  <1> QED
    BY <1>2, <1>3, <1>4, <1>5, <1>6, <1>7, <1>8, <1>9, <1>10, <1>11, <1>13, <1>14, <1>15,
       <1>16, <1>17, <1>18 DEF Next

\* While no leader is deposed and no apply refused, no node serves leases the cluster
\* has not committed (it may serve none), although processes stop and replay (manager.go, pollOnce).
THEOREM FollowedAreCommitted ==
    ASSUME MaxLoss = 0, MaxFail = 0
    PROVE  ScenesSpec => []FollowServesCommitted
  <1> DEFINE Inv == ScenesInv /\ (scene = "follow" => CommittedInv)
  <1>1. ScenesInit => Inv
    <2> SUFFICES ASSUME ScenesInit PROVE Inv
      OBVIOUS
    <2>1. \A n \in Node : /\ mgr[n].leases = None /\ mgr[n].asked = NoLeases
                          /\ store[n].leases = None /\ poll[n].pc = "idle"
      BY DEF ScenesInit, Init, Booted, Waiting
    <2> QED
      BY <2>1, ScenesInitInv, LeaseAssumption DEF CommittedInv
  <1>2. Inv /\ [ScenesNext]_<<vars, scene>> => Inv'
    <2> SUFFICES ASSUME Inv, [ScenesNext]_<<vars, scene>> PROVE Inv'
      OBVIOUS
    <2>1. ScenesInv' /\ UNCHANGED scene /\ (scene = "follow" => [Next]_vars)
      BY ScenesStep, LeaseAssumption
    <2>2. scene = "follow" => TypeOK
      BY TypesOf DEF ScenesInv
    <2>3. scene = "follow" => CommittedInv'
      BY <2>1, <2>2, CommittedNext, LeaseAssumption
    <2> QED
      BY <2>1, <2>3
  <1>3. Inv => FollowServesCommitted
    BY DEF CommittedInv, FollowServesCommitted, ServesCommitted
  <1> QED
    BY <1>1, <1>2, <1>3, PTL DEF ScenesSpec

=============================================================================
