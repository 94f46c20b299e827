----------------------------- MODULE Enrollment -----------------------------
(***************************************************************************)
(* Node enrolment: how a skoed cluster admits a new Raft voter against a   *)
(* single-use join token, and how it removes one.                          *)
(*                                                                         *)
(* A token is issued, and later consumed, by a command in the Raft log;    *)
(* every server applies the committed log to its own bbolt file, and after *)
(* a restart applies it again from the start onto whatever that file       *)
(* already holds.  The join handler (EnrollNode) is a sequence of separate *)
(* steps on the leader -- read the local token table, consume through      *)
(* Raft, AddVoter, record the member -- and between any two of them        *)
(* leadership may move, the server may restart, the joining node may time  *)
(* out and post the same token again, or another node may present it.      *)
(*                                                                         *)
(* Raft itself is the hashicorp library: external, modelled by what the    *)
(* code relies on (one committed log, applied in order by each server; an  *)
(* Apply that reports an error may or may not have been committed).        *)
(***************************************************************************)
EXTENDS Integers, Sequences, FiniteSets, TLC

CONSTANTS Node,         \* every node, in the cluster or wanting to join it
          Seed,         \* the node that bootstrapped the cluster
          Token,        \* the join tokens that may be issued
          MaxAttempts,  \* bound on the join requests one node posts
          TTL,          \* lifetime of a token
          MaxTime,      \* bound on the clock
          MaxLog,       \* bound on the committed log
          MaxRestarts,  \* bound on server restarts
          NoNode        \* "no leader known"

ASSUME EnrollAssumption ==
    /\ Seed \in Node
    /\ NoNode \notin Node
    /\ MaxAttempts \in Nat
    /\ TTL \in Nat
    /\ MaxTime \in Nat
    /\ MaxLog \in Nat
    /\ MaxRestarts \in Nat

VARIABLES
    now,       \* wall clock, shared: the code compares Unix seconds
    leader,    \* the node whose Raft state is Leader, or NoNode
    voters,    \* Raft configuration
    clog,      \* committed Raft log
    applied,   \* applied[s]: entries s has applied since it last started
    tokens,    \* tokens[s][t]: row of t in the bbolt file of s
    members,   \* members[s]: node ids in the members bucket of s
    boot,      \* boot[j]: bootstrap.token in the config file of j
    join,      \* join[j]: state of joinExistingCluster on j
    attempts,  \* attempts[j]: requests j has posted
    req,       \* req[<<j, a>>]: the handler of request a of node j
    removing,  \* nodes taken out of the configuration, row not yet removed
    selfreg,   \* state of registerSelfAfterLeader on the seed
    restarts   \* server restarts so far

raftVars == <<leader, voters, clog, applied>>
storeVars == <<tokens, members>>
clientVars == <<boot, join, attempts>>
vars == <<now, raftVars, storeVars, clientVars, req, removing, selfreg, restarts>>

Joiner == Node \ {Seed}
Request == Joiner \X (1..MaxAttempts)

TokenRow == [st : {"none", "issued", "consumed"}, exp : Nat]

Entry == [kind : {"token.create"}, token : Token, exp : Nat]
   \cup [kind : {"token.consume"}, token : Token, at : Nat, req : Request]
   \cup [kind : {"member.upsert", "member.remove"}, node : Node]

\* routed, checked, consuming, consumed, voter, recording: EnrollNode is at
\* that point; ok = HTTP 200, rejected = 4xx, error = 5xx or a lost reply.
Handling == {"routed", "checked", "consuming", "consumed", "voter", "recording"}
Replied == {"ok", "rejected", "error"}
Handler == [pc : {"none"} \cup Handling \cup Replied,
            srv : Node, idx : Nat, won : BOOLEAN]

TypeOK ==
    /\ now \in Nat
    /\ leader \in Node \cup {NoNode}
    /\ voters \subseteq Node
    /\ clog \in Seq(Entry)
    /\ applied \in [Node -> Nat]
    /\ \A s \in Node : applied[s] <= Len(clog)
    /\ tokens \in [Node -> [Token -> TokenRow]]
    /\ members \in [Node -> SUBSET Node]
    /\ boot \in [Joiner -> Token]
    /\ join \in [Joiner -> {"idle", "trying", "waiting", "enrolled", "fatal"}]
    /\ attempts \in [Joiner -> 0..MaxAttempts]
    /\ req \in [Request -> Handler]
    /\ removing \subseteq Node
    /\ selfreg \in {"pending", "done"}
    /\ restarts \in Nat

Init ==
    /\ now = 0
    /\ leader = Seed
    /\ voters = {Seed}
    /\ clog = << >>
    /\ applied = [s \in Node |-> 0]
    /\ tokens = [s \in Node |-> [t \in Token |-> [st |-> "none", exp |-> 0]]]
    /\ members = [s \in Node |-> {}]
    /\ boot \in [Joiner -> Token]
    /\ join = [j \in Joiner |-> "idle"]
    /\ attempts = [j \in Joiner |-> 0]
    /\ req = [r \in Request |-> [pc |-> "none", srv |-> Seed, idx |-> 0, won |-> FALSE]]
    /\ removing = {}
    /\ selfreg = "pending"
    /\ restarts = 0

-----------------------------------------------------------------------------
(* The replicated store: what one committed command does to a bbolt file.  *)

\* token.consume succeeds only on a row that exists, is unconsumed and, by
\* the timestamp in the command, unexpired.
ConsumeAcceptedTwice(row, e) ==     \* mutant: "consumed" is not looked at
    /\ row.st # "none"
    /\ e.at <= row.exp

ConsumeAccepted(row, e) ==
    /\ row.st = "issued"
    /\ e.at <= row.exp

ApplyToTokens(tab, e) ==
    CASE e.kind = "token.create" ->
            [tab EXCEPT ![e.token] = [st |-> "issued", exp |-> e.exp]]
      [] e.kind = "token.consume" ->
            IF ConsumeAccepted(tab[e.token], e)
            THEN [tab EXCEPT ![e.token].st = "consumed"] ELSE tab
      [] OTHER -> tab

ApplyToMembers(mem, e) ==
    CASE e.kind = "member.upsert" -> mem \cup {e.node}
      [] e.kind = "member.remove" -> mem \ {e.node}
      [] OTHER -> mem

\* The reply a waiting handler gets when its own entry, at index i, has been
\* applied on its server.
ResumeWinnersOnly(h, i, row) ==     \* mutant: a refusal wakes nobody
    CASE h.pc = "consuming" /\ h.idx = i /\ ConsumeAccepted(row, clog[i]) ->
            [h EXCEPT !.pc = "consumed", !.won = TRUE]
      [] h.pc = "recording" /\ h.idx = i -> [h EXCEPT !.pc = "ok"]
      [] OTHER -> h

Resume(h, i, row) ==
    CASE h.pc = "consuming" /\ h.idx = i ->
            IF ConsumeAccepted(row, clog[i])
            THEN [h EXCEPT !.pc = "consumed", !.won = TRUE]
            ELSE [h EXCEPT !.pc = "error"]
      [] h.pc = "recording" /\ h.idx = i -> [h EXCEPT !.pc = "ok"]
      [] OTHER -> h

\* Server s applies its next committed entry and wakes the handler that
\* submitted it, if that handler still waits on s.
ApplyEntry(s) ==
    LET i == applied[s] + 1
        e == clog[i]
        RowOf(r) == tokens[s][boot[r[1]]]
    IN /\ s \in voters
       /\ i <= Len(clog)
       /\ applied' = [applied EXCEPT ![s] = i]
       /\ tokens' = [tokens EXCEPT ![s] = ApplyToTokens(@, e)]
       /\ members' = [members EXCEPT ![s] = ApplyToMembers(@, e)]
       /\ req' = [r \in Request |->
                     IF req[r].srv = s THEN Resume(req[r], i, RowOf(r)) ELSE req[r]]
       /\ UNCHANGED <<now, leader, voters, clog, clientVars, removing, selfreg, restarts>>

Commit(e) ==
    /\ Len(clog) < MaxLog
    /\ clog' = Append(clog, e)

-----------------------------------------------------------------------------
(* Issuing a token.                                                        *)

Issued(t) == \E i \in 1..Len(clog) : clog[i].kind = "token.create" /\ clog[i].token = t

\* The plaintext is fresh random data: a token is created at most once.
CreateJoinToken(t) ==
    /\ leader # NoNode
    /\ ~Issued(t)
    /\ Commit([kind |-> "token.create", token |-> t, exp |-> now + TTL])
    /\ UNCHANGED <<now, leader, voters, applied, storeVars, clientVars, req,
                   removing, selfreg, restarts>>

-----------------------------------------------------------------------------
(* The joining node.                                                       *)

StartJoin(j) ==
    /\ join[j] = "idle"
    /\ join' = [join EXCEPT ![j] = "trying"]
    /\ UNCHANGED <<now, raftVars, storeVars, boot, attempts, req, removing,
                   selfreg, restarts>>

\* POST /api/v1/cluster/join.  Whichever node receives it forwards it to the
\* leader; without a leader the middleware answers 503.
Post(j) ==
    LET a == attempts[j] + 1 IN
    /\ join[j] = "trying"
    /\ a <= MaxAttempts
    /\ attempts' = [attempts EXCEPT ![j] = a]
    /\ join' = [join EXCEPT ![j] = "waiting"]
    /\ req' = [req EXCEPT ![<<j, a>>] =
                  IF leader = NoNode
                  THEN [@ EXCEPT !.pc = "error"]
                  ELSE [@ EXCEPT !.pc = "routed", !.srv = leader]]
    /\ UNCHANGED <<now, raftVars, storeVars, boot, removing, selfreg, restarts>>

\* 200 ends the join, a 4xx is fatal to the process, a 5xx is retried.
Receive(j) ==
    LET r == <<j, attempts[j]>> IN
    /\ join[j] = "waiting"
    /\ req[r].pc \in Replied
    /\ join' = [join EXCEPT ![j] = CASE req[r].pc = "ok" -> "enrolled"
                                     [] req[r].pc = "rejected" -> "fatal"
                                     [] OTHER -> "trying"]
    /\ UNCHANGED <<now, raftVars, storeVars, boot, attempts, req, removing,
                   selfreg, restarts>>

\* The client's 5 s timeout: it gives the request up and will post another,
\* while the handler on the leader goes on.
ClientTimeout(j) ==
    /\ join[j] = "waiting"
    /\ req[<<j, attempts[j]>>].pc \in Handling
    /\ join' = [join EXCEPT ![j] = "trying"]
    /\ UNCHANGED <<now, raftVars, storeVars, boot, attempts, req, removing,
                   selfreg, restarts>>

\* The 30 s deadline (or the bound on attempts) is over.
GiveUp(j) ==
    /\ join[j] = "trying"
    /\ attempts[j] >= 1
    /\ join' = [join EXCEPT ![j] = "fatal"]
    /\ UNCHANGED <<now, raftVars, storeVars, boot, attempts, req, removing,
                   selfreg, restarts>>

-----------------------------------------------------------------------------
(* EnrollNode, step by step, for request r.                                *)

SetPc(r, pc) == req' = [req EXCEPT ![r].pc = pc]

\* requireLeader and the pre-read of the server's own token row.
CheckToken(r) ==
    LET s == req[r].srv
        row == tokens[s][boot[r[1]]]
    IN /\ req[r].pc = "routed"
       /\ SetPc(r, IF leader = s /\ row.st = "issued" /\ now <= row.exp
                   THEN "checked" ELSE "rejected")
       /\ UNCHANGED <<now, raftVars, storeVars, clientVars, removing, selfreg, restarts>>

SubmitConsume(r) ==
    /\ req[r].pc = "checked"
    /\ leader = req[r].srv
    /\ Commit([kind |-> "token.consume", token |-> boot[r[1]], at |-> now, req |-> r])
    /\ req' = [req EXCEPT ![r].pc = "consuming", ![r].idx = Len(clog) + 1]
    /\ UNCHANGED <<now, leader, voters, applied, storeVars, clientVars,
                   removing, selfreg, restarts>>

AddVoter(r) ==
    /\ req[r].pc = "consumed"
    /\ leader = req[r].srv
    /\ voters' = voters \cup {r[1]}
    /\ SetPc(r, "voter")
    /\ UNCHANGED <<now, leader, clog, applied, storeVars, clientVars, removing,
                   selfreg, restarts>>

\* AddVoter reports a timeout or lost leadership although the change commits.
AddVoterUnconfirmed(r) ==
    /\ req[r].pc = "consumed"
    /\ leader = req[r].srv
    /\ voters' = voters \cup {r[1]}
    /\ SetPc(r, "error")
    /\ UNCHANGED <<now, leader, clog, applied, storeVars, clientVars, removing,
                   selfreg, restarts>>

SubmitMember(r) ==
    /\ req[r].pc = "voter"
    /\ leader = req[r].srv
    /\ Commit([kind |-> "member.upsert", node |-> r[1]])
    /\ req' = [req EXCEPT ![r].pc = "recording", ![r].idx = Len(clog) + 1]
    /\ UNCHANGED <<now, leader, voters, applied, storeVars, clientVars,
                   removing, selfreg, restarts>>

\* A Raft call of the handler returns an error: nothing was committed by the
\* call it is about to make, or leadership was lost while it waited for one
\* that was.
HandlerFails(r) ==
    /\ \/ req[r].pc \in {"checked", "consumed", "voter"}
       \/ req[r].pc \in {"consuming", "recording"} /\ leader # req[r].srv
    /\ SetPc(r, "error")
    /\ UNCHANGED <<now, raftVars, storeVars, clientVars, removing, selfreg, restarts>>

-----------------------------------------------------------------------------
(* Removing a node, and the seed registering itself.                       *)

RemoveServer(n) ==
    /\ leader \notin {NoNode, n}
    /\ n \in voters
    /\ voters' = voters \ {n}
    /\ removing' = removing \cup {n}
    /\ UNCHANGED <<now, leader, clog, applied, storeVars, clientVars, req,
                   selfreg, restarts>>

RemoveMemberRow(n) ==
    /\ n \in removing
    /\ leader # NoNode
    /\ Commit([kind |-> "member.remove", node |-> n])
    /\ removing' = removing \ {n}
    /\ UNCHANGED <<now, leader, voters, applied, storeVars, clientVars, req,
                   selfreg, restarts>>

\* The second Raft call of RemoveMember fails; nobody takes it up again.
RemoveMemberFails(n) ==
    /\ n \in removing
    /\ removing' = removing \ {n}
    /\ UNCHANGED <<now, raftVars, storeVars, clientVars, req, selfreg, restarts>>

RegisterSelf ==
    /\ selfreg = "pending"
    /\ leader = Seed
    /\ selfreg' = "done"
    /\ \/ Commit([kind |-> "member.upsert", node |-> Seed])
       \/ UNCHANGED clog   \* the Apply failed: the error is dropped
    /\ UNCHANGED <<now, leader, voters, applied, storeVars, clientVars, req,
                   removing, restarts>>

-----------------------------------------------------------------------------
(* The environment.                                                        *)

Tick ==
    /\ now < MaxTime
    /\ now' = now + 1
    /\ UNCHANGED <<raftVars, storeVars, clientVars, req, removing, selfreg, restarts>>

Elect(s) ==
    /\ s \in voters
    /\ leader # s
    /\ leader' = s
    /\ UNCHANGED <<now, voters, clog, applied, storeVars, clientVars, req,
                   removing, selfreg, restarts>>

LoseLeader ==
    /\ leader # NoNode
    /\ leader' = NoNode
    /\ UNCHANGED <<now, voters, clog, applied, storeVars, clientVars, req,
                   removing, selfreg, restarts>>

RestartFrom(s, i) ==
    /\ restarts < MaxRestarts
    /\ s \in voters
    /\ restarts' = restarts + 1
    /\ applied' = [applied EXCEPT ![s] = i]
    /\ leader' = IF leader = s THEN NoNode ELSE leader
    /\ req' = [r \in Request |-> IF req[r].srv = s /\ req[r].pc \in Handling
                                 THEN [req[r] EXCEPT !.pc = "error"] ELSE req[r]]
    /\ selfreg' = IF s = Seed THEN "done" ELSE selfreg
    \* with Raft state on disk the next boot does not join again
    /\ join' = [j \in Joiner |-> IF j = s /\ join[j] \in {"trying", "waiting"}
                                 THEN "fatal" ELSE join[j]]
    /\ UNCHANGED <<now, voters, clog, storeVars, boot, attempts, removing>>

\* Mutants: the log is taken as applied because the file is durable, or the
\* index of the next entry for that of the last.
RestartSkipsReplay(s) == RestartFrom(s, Len(clog))
RestartPastTheEnd(s) == RestartFrom(s, Len(clog) + 1)

\* Server s restarts: its handlers die, its bbolt file stays, and Raft will
\* apply the log to that file again from the first entry.
Restart(s) == RestartFrom(s, 0)

ClientStep(j) == StartJoin(j) \/ Post(j) \/ Receive(j) \/ ClientTimeout(j) \/ GiveUp(j)

HandlerStep(r) ==
    \/ CheckToken(r) \/ SubmitConsume(r) \/ AddVoter(r) \/ AddVoterUnconfirmed(r)
    \/ SubmitMember(r) \/ HandlerFails(r)

ServerStep(s) == ApplyEntry(s) \/ RemoveServer(s) \/ RemoveMemberRow(s)
                 \/ RemoveMemberFails(s) \/ Elect(s) \/ Restart(s)

Next ==
    \/ \E t \in Token : CreateJoinToken(t)
    \/ \E j \in Joiner : ClientStep(j)
    \/ \E r \in Request : HandlerStep(r)
    \/ \E s \in Node : ServerStep(s)
    \/ RegisterSelf
    \/ Tick
    \/ LoseLeader

Spec == Init /\ [][Next]_vars

\* The client goroutine, the HTTP handlers and Raft's apply loop all keep
\* running; nothing obliges the environment to elect, restart or tick.
FairSpec ==
    /\ Spec
    /\ \A j \in Joiner : WF_vars(ClientStep(j))
    /\ \A r \in Request : WF_vars(HandlerStep(r))
    /\ \A s \in Node : WF_vars(ApplyEntry(s))
    /\ WF_vars(RegisterSelf)

-----------------------------------------------------------------------------
(* Properties.                                                             *)

\* Single use: of all the requests that present a token -- from several
\* nodes, or retries of one node -- at most one passes the consume step of
\* EnrollNode, whatever stale row its server read first and however often
\* servers replay the log (the check inside FSM Apply, store.go).
TokenSingleUse ==
    \A r1, r2 \in Request :
        req[r1].won /\ req[r2].won /\ boot[r1[1]] = boot[r2[1]] => r1 = r2

\* The cluster never holds more voters besides the seed than tokens were
\* issued: each admission of EnrollNode is paid for by a token of its own.
NoMoreVotersThanTokens ==
    Cardinality(voters \ {Seed}) <= Cardinality({t \in Token : Issued(t)})

\* Two voters that have applied the whole log agree on every token row and
\* on the members bucket, also when one of them restarted and applied the
\* log a second time to a bbolt file that already held its effects.
CaughtUpServersAgree ==
    \A s1, s2 \in voters :
        applied[s1] = Len(clog) /\ applied[s2] = Len(clog)
            => tokens[s1] = tokens[s2] /\ members[s1] = members[s2]

\* Every join request is answered: EnrollNode never waits for ever on an
\* entry that was refused, or that its server lost leadership over.
JoinRequestAnswered ==
    \A r \in Request : req[r].pc \in Handling ~> req[r].pc \in Replied

\* What the YAML reference says of bootstrap.token ("Single-use; invalidated
\* after successful join"): a token is spent only by a join whose node did
\* become a voter.
TokenSpentOnlyBySuccessfulJoin ==
    \A r \in Request :
        req[r].won /\ req[r].pc = "error" => r[1] \in voters \cup removing

\* What registerSelfAfterLeader's comment says ("if it fails we'll retry on
\* next leader transition"): a seed that gains leadership again and again is
\* listed in the members bucket in the end.
SeedEventuallyListed ==
    []<>(leader = Seed) /\ []<>(leader # Seed) => <>(Seed \in members[Seed])

-----------------------------------------------------------------------------
(* The inductive invariant behind TokenSingleUse.  A bbolt file being      *)
(* replayed may hold rows "from the future", so a row says something about *)
(* a token only on a server that has (re)applied the token's creation; and *)
(* which consume entry wins is read off the log alone.                     *)

IsCreate(i, t) == clog[i].kind = "token.create" /\ clog[i].token = t
IsConsume(i, t) == clog[i].kind = "token.consume" /\ clog[i].token = t

\* Entry i consumes t in time: the FSM accepts the first such entry.
Timely(i, t) ==
    /\ IsConsume(i, t)
    /\ \E c \in 1..(i - 1) : IsCreate(c, t) /\ clog[i].at <= clog[c].exp

CreatedOnce ==
    \A t \in Token : \A i, k \in 1..Len(clog) : IsCreate(i, t) /\ IsCreate(k, t) => i = k

RowsAreIssued ==
    \A s \in Node, t \in Token : tokens[s][t].st # "none" => Issued(t)

CheckedIsIssued ==
    \A r \in Request : req[r].pc = "checked" => Issued(boot[r[1]])

ConsumeFollowsCreate ==
    \A t \in Token : \A i \in 1..Len(clog) :
        IsConsume(i, t) => \E c \in 1..(i - 1) : IsCreate(c, t)

RowTracksLog ==
    \A s \in Node, t \in Token : \A c \in 1..applied[s] :
        IsCreate(c, t) =>
            /\ tokens[s][t].exp = clog[c].exp
            /\ tokens[s][t].st = IF \E i \in 1..applied[s] : Timely(i, t)
                                 THEN "consumed" ELSE "issued"

WaiterOwnsEntry ==
    \A r \in Request : req[r].pc = "consuming" =>
        /\ req[r].idx \in 1..Len(clog)
        /\ IsConsume(req[r].idx, boot[r[1]])
        /\ clog[req[r].idx].req = r

WinnerIsFirst ==
    \A r \in Request : req[r].won =>
        \E i \in 1..Len(clog) :
            /\ Timely(i, boot[r[1]])
            /\ clog[i].req = r
            /\ \A k \in 1..(i - 1) : ~Timely(k, boot[r[1]])

EnrollInv ==
    /\ TypeOK
    /\ CreatedOnce
    /\ RowsAreIssued
    /\ CheckedIsIssued
    /\ ConsumeFollowsCreate
    /\ RowTracksLog
    /\ WaiterOwnsEntry
    /\ WinnerIsFirst

\* The addition behind NoMoreVotersThanTokens: a handler past the consume step
\* has won its token, and every voter but the seed has a handler that did.
PastConsumeWon ==
    \A r \in Request : req[r].pc \in {"consumed", "voter", "recording"} => req[r].won

VotersHavePaid ==
    \A n \in voters \ {Seed} : \E r \in Request : r[1] = n /\ req[r].won

AdmissionInv == EnrollInv /\ PastConsumeWon /\ VotersHavePaid

\* The addition behind CaughtUpServersAgree: what a members bucket says of a
\* node the (re)applied part of the log mentions is read off that part, every
\* row is of a node the log mentions, and a token that is not there has no row.
IsUpsert(i, n) == clog[i].kind = "member.upsert" /\ clog[i].node = n
IsRemove(i, n) == clog[i].kind = "member.remove" /\ clog[i].node = n
Mentioned(i, n) == IsUpsert(i, n) \/ IsRemove(i, n)

\* The first k entries end with n recorded.
RecordedBy(k, n) ==
    \E i \in 1..k : IsUpsert(i, n) /\ \A m \in (i + 1)..k : ~IsRemove(m, n)

MembersTrackLog ==
    \A s, n \in Node :
        (\E i \in 1..applied[s] : Mentioned(i, n))
            => (n \in members[s] <=> RecordedBy(applied[s], n))

MembersListed ==
    \A s \in Node : \A n \in members[s] : \E i \in 1..Len(clog) : Mentioned(i, n)

NoRowNoExpiry ==
    \A s \in Node, t \in Token : tokens[s][t].st = "none" => tokens[s][t].exp = 0

AgreementInv == EnrollInv /\ MembersTrackLog /\ MembersListed /\ NoRowNoExpiry

\* The joining nodes are interchangeable.
Symmetry == Permutations(Joiner)

=============================================================================
