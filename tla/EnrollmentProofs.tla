-------------------------- MODULE EnrollmentProofs --------------------------
(***************************************************************************)
(* Proofs about Enrollment, for every set of nodes and tokens and every    *)
(* bound.  First type correctness and the single use of a join token.      *)
(*                                                                         *)
(* Then, every admitted voter is paid for by a token of its own.  It rests *)
(* on the single use: distinct voters won distinct tokens, so sending a    *)
(* voter to the token in its config file maps voters into issued tokens    *)
(* one to one.  Nothing is assumed of the number of tokens: the issued     *)
(* ones are finitely many because the log is finite.                       *)
(*                                                                         *)
(* Last, servers that have applied the whole log agree on token rows and   *)
(* members, although any of them may have applied the log again to a file  *)
(* that already held its effects.  While it does so, what the file says of *)
(* a node or a token is only known from the moment the first entry about   *)
(* it has been applied again.                                              *)
(***************************************************************************)
EXTENDS Enrollment, SequenceTheorems, FiniteSetTheorems, TLAPS

-----------------------------------------------------------------------------
(* Facts about entries, rows and handlers.                                 *)

\* The fields a log entry has, by its kind.
LEMMA EntryFields ==
    ASSUME NEW e \in Entry
    PROVE  /\ e.kind = "token.create" => e.token \in Token /\ e.exp \in Nat
           /\ e.kind = "token.consume" =>
                 e.token \in Token /\ e.at \in Nat /\ e.req \in Request
           /\ e.kind \in {"member.upsert", "member.remove"} => e.node \in Node
           /\ e.kind \in {"token.create", "token.consume", "member.upsert", "member.remove"}
  BY DEF Entry

\* Applying an entry (store.go, applyTx) keeps the token bucket well formed.
LEMMA ApplyToTokensType ==
    ASSUME NEW tab \in [Token -> TokenRow], NEW e \in Entry
    PROVE  ApplyToTokens(tab, e) \in [Token -> TokenRow]
  <1>1. CASE e.kind = "token.create"
    BY <1>1, EntryFields DEF ApplyToTokens, TokenRow
  <1>2. CASE e.kind = "token.consume"
    BY <1>2, EntryFields DEF ApplyToTokens, TokenRow
  <1>3. CASE e.kind \notin {"token.create", "token.consume"}
    BY <1>3 DEF ApplyToTokens
  <1> QED
    BY <1>1, <1>2, <1>3

\* Applying an entry keeps the members bucket well formed.
LEMMA ApplyToMembersType ==
    ASSUME NEW mem \in SUBSET Node, NEW e \in Entry
    PROVE  ApplyToMembers(mem, e) \in SUBSET Node
  <1>1. CASE e.kind = "member.upsert"
    BY <1>1, EntryFields DEF ApplyToMembers
  <1>2. CASE e.kind = "member.remove"
    BY <1>2, EntryFields DEF ApplyToMembers
  <1>3. CASE e.kind \notin {"member.upsert", "member.remove"}
    BY <1>3 DEF ApplyToMembers
  <1> QED
    BY <1>1, <1>2, <1>3

\* Waking a handler moves its program counter and nothing else it can route by.
LEMMA ResumeType ==
    ASSUME NEW h \in Handler, NEW i \in Nat, NEW row \in TokenRow
    PROVE  Resume(h, i, row) \in Handler
  BY DEF Resume, Handler, Handling, Replied

\* Appending an entry keeps the committed prefix.
LEMMA AppendEntry ==
    ASSUME NEW s \in Seq(Entry), NEW e \in Entry
    PROVE  /\ Append(s, e) \in Seq(Entry)
           /\ Len(Append(s, e)) = Len(s) + 1
           /\ \A i \in 1..Len(s) : Append(s, e)[i] = s[i]
           /\ Append(s, e)[Len(s) + 1] = e
           /\ Len(s) \in Nat
  BY AppendProperties, LenProperties

\* The entries the handlers commit are entries.
LEMMA EntryKinds ==
    /\ \A t \in Token, x \in Nat : [kind |-> "token.create", token |-> t, exp |-> x] \in Entry
    /\ \A t \in Token, x \in Nat, r \in Request :
           [kind |-> "token.consume", token |-> t, at |-> x, req |-> r] \in Entry
    /\ \A n \in Node : [kind |-> "member.upsert", node |-> n] \in Entry
    /\ \A n \in Node : [kind |-> "member.remove", node |-> n] \in Entry
  BY DEF Entry

-----------------------------------------------------------------------------
(* Type correctness.                                                       *)

\* Initial states are well typed.
LEMMA InitType == Init => TypeOK
  <1> SUFFICES ASSUME Init PROVE TypeOK
    OBVIOUS
  <1> USE EnrollAssumption
  <1>1. << >> \in Seq(Entry) /\ Len(<< >>) = 0
    BY EmptySeq
  <1>2. [pc |-> "none", srv |-> Seed, idx |-> 0, won |-> FALSE] \in Handler
    BY DEF Handler
  <1> QED
    BY <1>1, <1>2 DEF Init, TypeOK, TokenRow

\* Every step keeps the state well typed.
LEMMA NextType == TypeOK /\ [Next]_vars => TypeOK'
  <1> SUFFICES ASSUME TypeOK, [Next]_vars PROVE TypeOK'
    OBVIOUS
  <1> USE EnrollAssumption
  <1>len. Len(clog) \in Nat
    BY LenProperties DEF TypeOK
  <1>own. ASSUME NEW r \in Request PROVE r[1] \in Joiner /\ r[1] \in Node /\ boot[r[1]] \in Token
    BY <1>own DEF Request, Joiner, TypeOK
  <1>pcs. Handling \subseteq ({"none"} \cup Handling \cup Replied) /\ "error" \in Replied
          /\ "ok" \in Replied /\ "rejected" \in Replied
          /\ {"routed", "checked", "consuming", "consumed", "voter", "recording"} \subseteq Handling
    BY DEF Handling, Replied
  \* a commit by one of the handlers
  <1>com. ASSUME NEW e \in Entry, Commit(e)
          PROVE  /\ clog' \in Seq(Entry)
                 /\ \A s \in Node : applied[s] <= Len(clog')
    BY <1>com, <1>len, AppendEntry DEF Commit, TypeOK
  \* a change of one handler's fields
  <1>set. ASSUME NEW r \in Request, NEW h \in Handler, req' = [req EXCEPT ![r] = h]
          PROVE  req' \in [Request -> Handler]
    BY <1>set DEF TypeOK
  <1>pc.  ASSUME NEW r \in Request, NEW pc \in {"none"} \cup Handling \cup Replied
          PROVE  [req EXCEPT ![r].pc = pc] \in [Request -> Handler]
    BY DEF TypeOK, Handler
  <1>idx. ASSUME NEW r \in Request, NEW pc \in {"none"} \cup Handling \cup Replied, NEW i \in Nat
          PROVE  [req EXCEPT ![r].pc = pc, ![r].idx = i] \in [Request -> Handler]
    <2>1. [req EXCEPT ![r].pc = pc, ![r].idx = i] =
             [req EXCEPT ![r] = [req[r] EXCEPT !.pc = pc, !.idx = i]]
      BY DEF TypeOK
    <2>2. [req[r] EXCEPT !.pc = pc, !.idx = i] \in Handler
      BY DEF TypeOK, Handler
    <2> QED
      BY <2>1, <2>2 DEF TypeOK
  <1>1. ASSUME NEW t \in Token, CreateJoinToken(t) PROVE TypeOK'
    <2>1. now + TTL \in Nat
      BY DEF TypeOK
    <2>2. clog' \in Seq(Entry) /\ \A s \in Node : applied[s] <= Len(clog')
      BY <1>1, <2>1, <1>com, EntryKinds DEF CreateJoinToken
    <2> QED
      BY <1>1, <2>2 DEF CreateJoinToken, TypeOK, storeVars, clientVars
  <1>2. ASSUME NEW j \in Joiner, ClientStep(j) PROVE TypeOK'
    <2>1. CASE StartJoin(j)
      BY <2>1 DEF StartJoin, TypeOK, raftVars, storeVars
    <2>2. CASE Post(j)
      <3>1. attempts[j] + 1 \in 1..MaxAttempts /\ attempts[j] + 1 \in 0..MaxAttempts
        BY <2>2 DEF Post, TypeOK
      <3>2. req' \in [Request -> Handler]
        <4>1. <<j, attempts[j] + 1>> \in Request
          BY <3>1 DEF Request
        <4> DEFINE r == <<j, attempts[j] + 1>>
        <4>2. req[r] \in Handler
          BY <4>1 DEF TypeOK
        <4>3. CASE leader = NoNode
          <5>1. [req[r] EXCEPT !.pc = "error"] \in Handler
            BY <4>2, <1>pcs DEF Handler
          <5>2. req' = [req EXCEPT ![r] = [req[r] EXCEPT !.pc = "error"]]
            BY <2>2, <4>3 DEF Post
          <5> QED
            BY <4>1, <5>1, <5>2, <1>set
        <4>4. CASE leader # NoNode
          <5>1. leader \in Node
            BY <4>4 DEF TypeOK
          <5>2. [req[r] EXCEPT !.pc = "routed", !.srv = leader] \in Handler
            BY <4>2, <5>1, <1>pcs DEF Handler
          <5>3. req' = [req EXCEPT ![r] = [req[r] EXCEPT !.pc = "routed", !.srv = leader]]
            BY <2>2, <4>4 DEF Post
          <5> QED
            BY <4>1, <5>2, <5>3, <1>set
        <4> QED
          BY <4>3, <4>4
      <3> QED
        BY <2>2, <3>1, <3>2 DEF Post, TypeOK, raftVars, storeVars
    <2>3. CASE Receive(j)
      <3>1. join' \in [Joiner -> {"idle", "trying", "waiting", "enrolled", "fatal"}]
        <4>1. PICK x \in {"enrolled", "fatal", "trying"} : join' = [join EXCEPT ![j] = x]
          BY <2>3 DEF Receive
        <4> QED
          BY <4>1 DEF TypeOK
      <3> QED
        BY <2>3, <3>1 DEF Receive, TypeOK, raftVars, storeVars
    <2>4. CASE ClientTimeout(j)
      BY <2>4 DEF ClientTimeout, TypeOK, raftVars, storeVars
    <2>5. CASE GiveUp(j)
      BY <2>5 DEF GiveUp, TypeOK, raftVars, storeVars
    <2> QED
      BY <1>2, <2>1, <2>2, <2>3, <2>4, <2>5 DEF ClientStep
  <1>3. ASSUME NEW r \in Request, HandlerStep(r) PROVE TypeOK'
    <2>1. CASE CheckToken(r)
      <3>1. req' \in [Request -> Handler]
        BY <2>1, <1>pc, <1>pcs DEF CheckToken, SetPc
      <3> QED
        BY <2>1, <3>1 DEF CheckToken, TypeOK, raftVars, storeVars, clientVars
    <2>2. CASE SubmitConsume(r)
      <3>1. clog' \in Seq(Entry) /\ \A s \in Node : applied[s] <= Len(clog')
        <4>1. now \in Nat
          BY DEF TypeOK
        <4> QED
          BY <2>2, <4>1, <1>own, <1>com, EntryKinds DEF SubmitConsume
      <3>2. req' \in [Request -> Handler]
        <4>1. Len(clog) + 1 \in Nat
          BY <1>len
        <4>2. "consuming" \in {"none"} \cup Handling \cup Replied
          BY <1>pcs
        <4>3. [req EXCEPT ![r].pc = "consuming", ![r].idx = Len(clog) + 1] \in [Request -> Handler]
          BY <1>idx, <4>1, <4>2
        <4> QED
          BY <2>2, <4>3 DEF SubmitConsume
      <3> QED
        BY <2>2, <3>1, <3>2 DEF SubmitConsume, TypeOK, storeVars, clientVars
    <2>3. CASE AddVoter(r)
      <3>1. req' \in [Request -> Handler]
        BY <2>3, <1>pc, <1>pcs DEF AddVoter, SetPc
      <3> QED
        BY <2>3, <3>1, <1>own DEF AddVoter, TypeOK, storeVars, clientVars
    <2>4. CASE AddVoterUnconfirmed(r)
      <3>1. req' \in [Request -> Handler]
        BY <2>4, <1>pc, <1>pcs DEF AddVoterUnconfirmed, SetPc
      <3> QED
        BY <2>4, <3>1, <1>own DEF AddVoterUnconfirmed, TypeOK, storeVars, clientVars
    <2>5. CASE SubmitMember(r)
      <3>1. clog' \in Seq(Entry) /\ \A s \in Node : applied[s] <= Len(clog')
        BY <2>5, <1>own, <1>com, EntryKinds DEF SubmitMember
      <3>2. req' \in [Request -> Handler]
        <4>1. Len(clog) + 1 \in Nat
          BY <1>len
        <4>2. "recording" \in {"none"} \cup Handling \cup Replied
          BY <1>pcs
        <4>3. [req EXCEPT ![r].pc = "recording", ![r].idx = Len(clog) + 1] \in [Request -> Handler]
          BY <1>idx, <4>1, <4>2
        <4> QED
          BY <2>5, <4>3 DEF SubmitMember
      <3> QED
        BY <2>5, <3>1, <3>2 DEF SubmitMember, TypeOK, storeVars, clientVars
    <2>6. CASE HandlerFails(r)
      <3>1. req' \in [Request -> Handler]
        BY <2>6, <1>pc, <1>pcs DEF HandlerFails, SetPc
      <3> QED
        BY <2>6, <3>1 DEF HandlerFails, TypeOK, raftVars, storeVars, clientVars
    <2> QED
      BY <1>3, <2>1, <2>2, <2>3, <2>4, <2>5, <2>6 DEF HandlerStep
  <1>4. ASSUME NEW s \in Node, ServerStep(s) PROVE TypeOK'
    <2>1. CASE ApplyEntry(s)
      <3> DEFINE i == applied[s] + 1
      <3>1. i \in Nat /\ i <= Len(clog) /\ clog[i] \in Entry
        BY <2>1, <1>len DEF ApplyEntry, TypeOK
      <3>2. applied' \in [Node -> Nat] /\ \A n \in Node : applied'[n] <= Len(clog')
        BY <2>1, <3>1 DEF ApplyEntry, TypeOK
      <3>3. tokens' \in [Node -> [Token -> TokenRow]]
        BY <2>1, <3>1, ApplyToTokensType DEF ApplyEntry, TypeOK
      <3>4. members' \in [Node -> SUBSET Node]
        BY <2>1, <3>1, ApplyToMembersType DEF ApplyEntry, TypeOK
      <3>5. req' \in [Request -> Handler]
        <4>1. ASSUME NEW r \in Request PROVE tokens[s][boot[r[1]]] \in TokenRow /\ req[r] \in Handler
          BY <1>own DEF TypeOK
        <4> QED
          BY <2>1, <3>1, <4>1, ResumeType DEF ApplyEntry
      <3> QED
        BY <2>1, <3>2, <3>3, <3>4, <3>5 DEF ApplyEntry, TypeOK, clientVars
    <2>2. CASE RemoveServer(s)
      BY <2>2 DEF RemoveServer, TypeOK, storeVars, clientVars
    <2>3. CASE RemoveMemberRow(s)
      <3>1. clog' \in Seq(Entry) /\ \A n \in Node : applied[n] <= Len(clog')
        BY <2>3, <1>com, EntryKinds DEF RemoveMemberRow
      <3> QED
        BY <2>3, <3>1 DEF RemoveMemberRow, TypeOK, storeVars, clientVars
    <2>4. CASE RemoveMemberFails(s)
      BY <2>4 DEF RemoveMemberFails, TypeOK, raftVars, storeVars, clientVars
    <2>5. CASE Elect(s)
      BY <2>5 DEF Elect, TypeOK, storeVars, clientVars
    <2>6. CASE Restart(s)
      <3>1. applied' \in [Node -> Nat] /\ \A n \in Node : applied'[n] <= Len(clog')
        BY <2>6, <1>len DEF Restart, RestartFrom, TypeOK
      <3>2. req' \in [Request -> Handler]
        <4>1. ASSUME NEW r \in Request
              PROVE  req[r] \in Handler /\ [req[r] EXCEPT !.pc = "error"] \in Handler
          BY <1>pcs DEF TypeOK, Handler
        <4> QED
          BY <2>6, <4>1 DEF Restart, RestartFrom
      <3>3. join' \in [Joiner -> {"idle", "trying", "waiting", "enrolled", "fatal"}]
        BY <2>6 DEF Restart, RestartFrom, TypeOK
      <3>4. leader' \in Node \cup {NoNode} /\ selfreg' \in {"pending", "done"} /\ restarts' \in Nat
        BY <2>6 DEF Restart, RestartFrom, TypeOK
      <3> QED
        BY <2>6, <3>1, <3>2, <3>3, <3>4 DEF Restart, RestartFrom, TypeOK, storeVars
    <2> QED
      BY <1>4, <2>1, <2>2, <2>3, <2>4, <2>5, <2>6 DEF ServerStep
  <1>5. CASE RegisterSelf
    <2>1. clog' \in Seq(Entry) /\ \A s \in Node : applied[s] <= Len(clog')
      <3>1. CASE Commit([kind |-> "member.upsert", node |-> Seed])
        BY <3>1, <1>com, EntryKinds
      <3>2. CASE UNCHANGED clog
        BY <3>2 DEF TypeOK
      <3> QED
        BY <1>5, <3>1, <3>2 DEF RegisterSelf
    <2> QED
      BY <1>5, <2>1 DEF RegisterSelf, TypeOK, storeVars, clientVars
  <1>6. CASE Tick
    BY <1>6 DEF Tick, TypeOK, raftVars, storeVars, clientVars
  <1>7. CASE LoseLeader
    BY <1>7 DEF LoseLeader, TypeOK, storeVars, clientVars
  <1>8. CASE UNCHANGED vars
    BY <1>8 DEF vars, raftVars, storeVars, clientVars, TypeOK
  <1> QED
    BY <1>1, <1>2, <1>3, <1>4, <1>5, <1>6, <1>7, <1>8 DEF Next

\* The state stays well typed: no reply, replay or restart ever produces a
\* token row, log index or handler state the code has no case for.
THEOREM TypeCorrect == Spec => []TypeOK
  BY InitType, NextType, PTL DEF Spec

-----------------------------------------------------------------------------
(* Single use of a join token.                                             *)

\* What a handler can become when its server applies entry i.
LEMMA ResumeFacts ==
    ASSUME NEW h \in Handler, NEW i \in Nat, NEW row \in TokenRow
    PROVE  /\ Resume(h, i, row).pc = "checked" => h.pc = "checked"
           /\ Resume(h, i, row).pc = "consuming" =>
                 h.pc = "consuming" /\ Resume(h, i, row).idx = h.idx
           /\ Resume(h, i, row).won =>
                 \/ h.won
                 \/ h.pc = "consuming" /\ h.idx = i /\ ConsumeAccepted(row, clog[i])
  <1>1. CASE h.pc = "consuming" /\ h.idx = i /\ ConsumeAccepted(row, clog[i])
    <2>1. Resume(h, i, row) = [h EXCEPT !.pc = "consumed", !.won = TRUE]
      BY <1>1 DEF Resume
    <2> QED
      BY <1>1, <2>1 DEF Handler
  <1>2. CASE h.pc = "consuming" /\ h.idx = i /\ ~ConsumeAccepted(row, clog[i])
    <2>1. Resume(h, i, row) = [h EXCEPT !.pc = "error"]
      BY <1>2 DEF Resume
    <2> QED
      BY <1>2, <2>1 DEF Handler
  <1>3. CASE h.pc = "recording" /\ h.idx = i
    <2>1. Resume(h, i, row) = [h EXCEPT !.pc = "ok"]
      BY <1>3 DEF Resume
    <2> QED
      BY <1>3, <2>1 DEF Handler
  <1>4. CASE ~(h.pc \in {"consuming", "recording"} /\ h.idx = i)
    BY <1>4 DEF Resume
  <1> QED
    BY <1>1, <1>2, <1>3, <1>4

\* Nothing said about an index of the log changes when the log grows.
LEMMA PrefixStable ==
    ASSUME TypeOK, NEW e \in Entry, clog' = Append(clog, e),
           NEW t, NEW i \in 1..Len(clog)
    PROVE  /\ IsCreate(i, t)' <=> IsCreate(i, t)
           /\ IsConsume(i, t)' <=> IsConsume(i, t)
           /\ Timely(i, t)' <=> Timely(i, t)
  <1>1. Len(clog) \in Nat /\ \A k \in 1..Len(clog) : clog'[k] = clog[k]
    BY AppendEntry DEF TypeOK
  <1> QED
    BY <1>1 DEF IsCreate, IsConsume, Timely

\* Steps that leave the log and the token rows alone.
LEMMA FrameStep ==
    ASSUME EnrollInv, TypeOK',
           UNCHANGED <<clog, applied, tokens, boot>>,
           \A r \in Request :
              /\ req'[r].pc = "checked" =>
                    req[r].pc = "checked" \/ Issued(boot[r[1]])
              /\ req'[r].pc = "consuming" =>
                    req[r].pc = "consuming" /\ req'[r].idx = req[r].idx
              /\ req'[r].won => req[r].won
    PROVE  EnrollInv'
  <1>1. CreatedOnce' /\ RowsAreIssued' /\ ConsumeFollowsCreate' /\ RowTracksLog'
    BY DEF EnrollInv, CreatedOnce, RowsAreIssued, ConsumeFollowsCreate, RowTracksLog,
           IsCreate, IsConsume, Timely, Issued
  <1>2. CheckedIsIssued'
    BY DEF EnrollInv, CheckedIsIssued, Issued
  <1>3. WaiterOwnsEntry'
    BY DEF EnrollInv, WaiterOwnsEntry, IsConsume
  <1>4. WinnerIsFirst'
    BY DEF EnrollInv, WinnerIsFirst, Timely, IsConsume, IsCreate
  <1> QED
    BY <1>1, <1>2, <1>3, <1>4 DEF EnrollInv

\* Steps that commit an entry: a creation of a token never created, a
\* consumption of a token already created, or a member command.
LEMMA CommitStep ==
    ASSUME EnrollInv, TypeOK', NEW e \in Entry,
           clog' = Append(clog, e),
           UNCHANGED <<applied, tokens, boot>>,
           e.kind = "token.create" => ~Issued(e.token),
           e.kind = "token.consume" => Issued(e.token),
           \A r \in Request :
              /\ req'[r].pc = "checked" => req[r].pc = "checked"
              /\ req'[r].pc = "consuming" =>
                    \/ req[r].pc = "consuming" /\ req'[r].idx = req[r].idx
                    \/ /\ req'[r].idx = Len(clog) + 1
                       /\ e.kind = "token.consume" /\ e.token = boot[r[1]] /\ e.req = r
              /\ req'[r].won => req[r].won
    PROVE  EnrollInv'
  <1>1. TypeOK
    BY DEF EnrollInv
  <1>n. PICK n \in Nat : n = Len(clog)
    BY <1>1, LenProperties DEF TypeOK
  <1>2. /\ n \in Nat /\ Len(clog') = n + 1
        /\ clog'[n + 1] = e /\ \A i \in 1..n : clog'[i] = clog[i]
    BY <1>1, <1>n, AppendEntry DEF TypeOK
  <1>3. \A s \in Node : applied[s] \in Nat /\ applied[s] <= n
    BY <1>1, <1>n DEF TypeOK
  <1>4. \A t \in Token : \A i \in 1..n :
            /\ IsCreate(i, t)' <=> IsCreate(i, t)
            /\ IsConsume(i, t)' <=> IsConsume(i, t)
            /\ Timely(i, t)' <=> Timely(i, t)
    BY <1>1, <1>n, PrefixStable
  <1>5. \A t \in Token : Issued(t) => Issued(t)'
    BY <1>2, <1>n DEF Issued
  <1>own. \A r \in Request : boot[r[1]] \in Token
    BY <1>1 DEF TypeOK, Request
  <1>6. CreatedOnce'
    <2> SUFFICES ASSUME NEW t \in Token, NEW i \in 1..(n + 1), NEW k \in 1..(n + 1),
                        IsCreate(i, t)', IsCreate(k, t)'
                 PROVE  i = k
      BY <1>2 DEF CreatedOnce
    <2>1. CASE i \in 1..n /\ k \in 1..n
      BY <2>1, <1>4, <1>n DEF EnrollInv, CreatedOnce
    <2>2. ASSUME NEW x \in 1..n, IsCreate(x, t)', IsCreate(n + 1, t)' PROVE FALSE
      <3>1. Issued(t)
        BY <2>2, <1>4, <1>n DEF IsCreate, Issued
      <3>2. e.kind = "token.create" /\ e.token = t
        BY <2>2, <1>2 DEF IsCreate
      <3> QED
        BY <3>1, <3>2
    <2>3. CASE i = n + 1 /\ k # n + 1
      BY <2>3, <2>2, <1>2
    <2>4. CASE k = n + 1 /\ i # n + 1
      BY <2>4, <2>2, <1>2
    <2> QED
      BY <2>1, <2>3, <2>4, <1>2
  <1>7. RowsAreIssued'
    BY <1>5 DEF EnrollInv, RowsAreIssued
  <1>8. CheckedIsIssued'
    BY <1>5, <1>own DEF EnrollInv, CheckedIsIssued
  <1>9. ConsumeFollowsCreate'
    <2> SUFFICES ASSUME NEW t \in Token, NEW i \in 1..(n + 1), IsConsume(i, t)'
                 PROVE  \E c \in 1..(i - 1) : IsCreate(c, t)'
      BY <1>2 DEF ConsumeFollowsCreate
    <2>1. CASE i \in 1..n
      <3>1. PICK c \in 1..(i - 1) : IsCreate(c, t)
        BY <2>1, <1>4, <1>n DEF EnrollInv, ConsumeFollowsCreate
      <3>2. c \in 1..n
        BY <2>1, <1>2
      <3> QED
        BY <3>1, <3>2, <1>4
    <2>2. CASE i = n + 1
      <3>1. e.kind = "token.consume" /\ e.token = t
        BY <2>2, <1>2 DEF IsConsume
      <3>2. PICK c \in 1..n : IsCreate(c, t)
        BY <3>1, <1>n DEF Issued, IsCreate
      <3>3. c \in 1..(i - 1)
        BY <2>2, <1>2
      <3> QED
        BY <3>2, <3>3, <1>4
    <2> QED
      BY <2>1, <2>2, <1>2
  <1>10. RowTracksLog'
    <2> SUFFICES ASSUME NEW s \in Node, NEW t \in Token, NEW c \in 1..applied'[s], IsCreate(c, t)'
                 PROVE  (/\ tokens[s][t].exp = clog[c].exp
                         /\ tokens[s][t].st = IF \E i \in 1..applied[s] : Timely(i, t)
                                              THEN "consumed" ELSE "issued")'
      BY Zenon DEF RowTracksLog
    <2> SUFFICES /\ tokens[s][t].exp = clog'[c].exp
                 /\ tokens[s][t].st = IF \E i \in 1..applied[s] : Timely(i, t)'
                                      THEN "consumed" ELSE "issued"
      OBVIOUS
    <2>0. c \in 1..applied[s]
      OBVIOUS
    <2>1. \A i \in 1..applied[s] : i \in 1..n
      BY <1>2, <1>3
    <2>2. IsCreate(c, t) /\ clog'[c] = clog[c]
      BY <2>0, <2>1, <1>2, <1>4
    <2>3. (\E i \in 1..applied[s] : Timely(i, t)') <=> (\E i \in 1..applied[s] : Timely(i, t))
      BY <2>1, <1>4
    <2> QED
      BY <2>2, <2>3 DEF EnrollInv, RowTracksLog
  <1>11. WaiterOwnsEntry'
    <2> SUFFICES ASSUME NEW r \in Request, req'[r].pc = "consuming"
                 PROVE  /\ req'[r].idx \in 1..(n + 1)
                        /\ clog'[req'[r].idx].kind = "token.consume"
                        /\ clog'[req'[r].idx].token = boot[r[1]]
                        /\ clog'[req'[r].idx].req = r
      BY <1>2 DEF WaiterOwnsEntry, IsConsume
    <2>1. CASE req[r].pc = "consuming" /\ req'[r].idx = req[r].idx
      <3>1. /\ req[r].idx \in 1..n
            /\ IsConsume(req[r].idx, boot[r[1]])
            /\ clog[req[r].idx].req = r
        BY <2>1, <1>n DEF EnrollInv, WaiterOwnsEntry
      <3> QED
        BY <2>1, <3>1, <1>2 DEF IsConsume
    <2>2. CASE /\ req'[r].idx = n + 1
               /\ e.kind = "token.consume" /\ e.token = boot[r[1]] /\ e.req = r
      BY <2>2, <1>2 DEF IsConsume
    <2> QED
      BY <2>1, <2>2, <1>n
  <1>12. WinnerIsFirst'
    <2> SUFFICES ASSUME NEW r \in Request, req'[r].won
                 PROVE  \E i \in 1..(n + 1) :
                          /\ Timely(i, boot[r[1]])'
                          /\ clog'[i].req = r
                          /\ \A k \in 1..(i - 1) : ~Timely(k, boot[r[1]])'
      BY <1>2 DEF WinnerIsFirst, Timely, IsConsume, IsCreate
    <2>1. PICK i \in 1..n : /\ Timely(i, boot[r[1]])
                            /\ clog[i].req = r
                            /\ \A k \in 1..(i - 1) : ~Timely(k, boot[r[1]])
      BY <1>n DEF EnrollInv, WinnerIsFirst
    <2>2. i \in 1..(n + 1) /\ \A k \in 1..(i - 1) : k \in 1..n
      BY <1>2
    <2>3. /\ Timely(i, boot[r[1]])'
          /\ \A k \in 1..(i - 1) : ~Timely(k, boot[r[1]])'
      BY <2>1, <2>2, <1>4, <1>own
    <2> QED
      BY <2>1, <2>2, <2>3, <1>2
  <1> QED
    BY <1>6, <1>7, <1>8, <1>9, <1>10, <1>11, <1>12 DEF EnrollInv

\* What one entry does to the row of one token.
LEMMA ApplyToRow ==
    ASSUME NEW tab \in [Token -> TokenRow], NEW e \in Entry, NEW t \in Token
    PROVE  /\ e.kind = "token.create" /\ e.token = t =>
                 /\ ApplyToTokens(tab, e)[t].st = "issued"
                 /\ ApplyToTokens(tab, e)[t].exp = e.exp
           /\ e.kind = "token.consume" /\ e.token = t =>
                 /\ ApplyToTokens(tab, e)[t].exp = tab[t].exp
                 /\ ApplyToTokens(tab, e)[t].st =
                       IF ConsumeAccepted(tab[t], e) THEN "consumed" ELSE tab[t].st
           /\ ~(e.kind \in {"token.create", "token.consume"} /\ e.token = t) =>
                 ApplyToTokens(tab, e)[t] = tab[t]
  <1>1. CASE e.kind = "token.create"
    <2>1. ApplyToTokens(tab, e) = [tab EXCEPT ![e.token] = [st |-> "issued", exp |-> e.exp]]
      BY <1>1 DEF ApplyToTokens
    <2> QED
      BY <1>1, <2>1
  <1>2. CASE e.kind = "token.consume" /\ ConsumeAccepted(tab[e.token], e)
    <2>1. ApplyToTokens(tab, e) = [tab EXCEPT ![e.token].st = "consumed"]
      BY <1>2 DEF ApplyToTokens
    <2> QED
      BY <1>2, <2>1 DEF TokenRow
  <1>3. CASE e.kind = "token.consume" /\ ~ConsumeAccepted(tab[e.token], e)
    <2>1. ApplyToTokens(tab, e) = tab
      BY <1>3 DEF ApplyToTokens
    <2> QED
      BY <1>3, <2>1
  <1>4. CASE e.kind \notin {"token.create", "token.consume"}
    <2>1. ApplyToTokens(tab, e) = tab
      BY <1>4 DEF ApplyToTokens
    <2> QED
      BY <1>4, <2>1
  <1> QED
    BY <1>1, <1>2, <1>3, <1>4

\* A server applies its next entry.  The row of a token follows the log from
\* the token's creation on, so the handler that is told "accepted" owns the
\* first timely consume entry of that token.
LEMMA ApplyStep ==
    ASSUME EnrollInv, TypeOK', NEW s \in Node, ApplyEntry(s)
    PROVE  EnrollInv'
  <1>1. TypeOK
    BY DEF EnrollInv
  <1>i. PICK i \in Nat : i = applied[s] + 1
    BY <1>1 DEF TypeOK
  <1>2. Len(clog) \in Nat /\ i \in 1..Len(clog) /\ applied[s] \in Nat /\ clog[i] \in Entry
    BY <1>1, <1>i, LenProperties DEF ApplyEntry, TypeOK
  <1> DEFINE e == clog[i]
  <1>3. /\ clog' = clog /\ boot' = boot
        /\ applied' = [applied EXCEPT ![s] = i]
        /\ tokens' = [tokens EXCEPT ![s] = ApplyToTokens(@, e)]
        /\ req' = [r \in Request |->
                      IF req[r].srv = s THEN Resume(req[r], i, tokens[s][boot[r[1]]]) ELSE req[r]]
    BY <1>i DEF ApplyEntry, clientVars
  <1>4. /\ tokens[s] \in [Token -> TokenRow]
        /\ tokens'[s] = ApplyToTokens(tokens[s], e)
        /\ applied'[s] = i
        /\ \A n \in Node \ {s} : tokens'[n] = tokens[n] /\ applied'[n] = applied[n]
    BY <1>1, <1>3 DEF TypeOK
  <1>own. \A r \in Request : boot[r[1]] \in Token
    BY <1>1 DEF TypeOK, Request
  <1>5. ASSUME NEW r \in Request
        PROVE  /\ req'[r].pc = "checked" => req[r].pc = "checked"
               /\ req'[r].pc = "consuming" =>
                     req[r].pc = "consuming" /\ req'[r].idx = req[r].idx
               /\ req'[r].won =>
                     \/ req[r].won
                     \/ /\ req[r].pc = "consuming" /\ req[r].idx = i
                        /\ ConsumeAccepted(tokens[s][boot[r[1]]], e)
    <2>1. req[r] \in Handler /\ tokens[s][boot[r[1]]] \in TokenRow
      BY <1>1, <1>4, <1>own DEF TypeOK
    <2>2. CASE req[r].srv = s
      <3>1. req'[r] = Resume(req[r], i, tokens[s][boot[r[1]]])
        BY <2>2, <1>3
      <3> QED
        BY <2>1, <3>1, <1>2, ResumeFacts
    <2>3. CASE req[r].srv # s
      BY <2>3, <1>3
    <2> QED
      BY <2>2, <2>3
  <1>6. CreatedOnce' /\ ConsumeFollowsCreate'
    BY <1>3 DEF EnrollInv, CreatedOnce, ConsumeFollowsCreate, IsCreate, IsConsume
  <1>7. \A k, t : /\ IsCreate(k, t)' <=> IsCreate(k, t)
                  /\ Timely(k, t)' <=> Timely(k, t)
    BY <1>3 DEF IsCreate, IsConsume, Timely
  <1>8. RowsAreIssued'
    <2> SUFFICES ASSUME NEW n \in Node, NEW t \in Token, tokens'[n][t].st # "none"
                 PROVE  Issued(t)
      BY <1>3 DEF RowsAreIssued, Issued
    <2>1. CASE n # s
      BY <2>1, <1>4 DEF EnrollInv, RowsAreIssued
    <2>2. CASE n = s /\ e.kind = "token.create" /\ e.token = t
      BY <2>2, <1>2 DEF Issued
    <2>3. CASE n = s /\ ~(e.kind = "token.create" /\ e.token = t)
      <3>1. tokens[s][t].st # "none"
        <4>1. CASE e.kind = "token.consume" /\ e.token = t
          BY <4>1, <2>3, <1>2, <1>4, ApplyToRow DEF ConsumeAccepted
        <4>2. CASE ~(e.kind = "token.consume" /\ e.token = t)
          BY <4>2, <2>3, <1>2, <1>4, ApplyToRow
        <4> QED
          BY <4>1, <4>2
      <3> QED
        BY <3>1 DEF EnrollInv, RowsAreIssued
    <2> QED
      BY <2>1, <2>2, <2>3
  <1>9. CheckedIsIssued'
    BY <1>3, <1>5 DEF EnrollInv, CheckedIsIssued, Issued
  <1>10. RowTracksLog'
    <2> SUFFICES ASSUME NEW n \in Node, NEW t \in Token, NEW c \in 1..applied'[n], IsCreate(c, t)
                 PROVE  /\ tokens'[n][t].exp = clog[c].exp
                        /\ tokens'[n][t].st = IF \E k \in 1..applied'[n] : Timely(k, t)
                                              THEN "consumed" ELSE "issued"
      BY <1>3, <1>7 DEF RowTracksLog
    <2>1. CASE n # s
      BY <2>1, <1>4 DEF EnrollInv, RowTracksLog
    <2>2. CASE n = s /\ e.kind = "token.create" /\ e.token = t
      <3>1. c = i
        BY <2>2, <1>2, <1>4 DEF EnrollInv, CreatedOnce, IsCreate
      <3>2. \A k \in 1..i : ~Timely(k, t)
        <4> SUFFICES ASSUME NEW k \in 1..i, Timely(k, t) PROVE FALSE
          OBVIOUS
        <4>1. PICK d \in 1..(k - 1) : IsCreate(d, t)
          BY DEF Timely
        <4>2. d = i
          BY <4>1, <2>2, <1>2 DEF EnrollInv, CreatedOnce, IsCreate
        <4> QED
          BY <4>2, <1>2
      <3> QED
        BY <2>2, <3>1, <3>2, <1>2, <1>4, ApplyToRow
    <2>3. CASE n = s /\ ~(e.kind = "token.create" /\ e.token = t)
      <3>1. c \in 1..applied[s]
        <4>1. c # i
          BY <2>3 DEF IsCreate
        <4> QED
          BY <4>1, <2>3, <1>2, <1>4, <1>i
      <3>2. /\ tokens[s][t].exp = clog[c].exp
            /\ tokens[s][t].st = IF \E k \in 1..applied[s] : Timely(k, t)
                                 THEN "consumed" ELSE "issued"
        BY <3>1 DEF EnrollInv, RowTracksLog
      <3>3. (\E k \in 1..applied'[n] : Timely(k, t)) <=>
               (\E k \in 1..applied[s] : Timely(k, t)) \/ Timely(i, t)
        BY <2>3, <1>2, <1>4, <1>i
      <3>4. CASE e.kind = "token.consume" /\ e.token = t
        <4>1. Timely(i, t) <=> e.at <= clog[c].exp
          <5>1. c \in 1..(i - 1) /\ c \in 1..Len(clog)
            BY <3>1, <1>2, <1>i
          <5>2. \A d \in 1..(i - 1) : IsCreate(d, t) => d = c
            BY <5>1, <1>2 DEF EnrollInv, CreatedOnce
          <5> QED
            BY <3>4, <5>1, <5>2 DEF Timely, IsConsume
        <4>2. /\ tokens'[s][t].exp = tokens[s][t].exp
              /\ tokens'[s][t].st = IF tokens[s][t].st = "issued" /\ e.at <= tokens[s][t].exp
                                    THEN "consumed" ELSE tokens[s][t].st
          BY <3>4, <1>2, <1>4, ApplyToRow DEF ConsumeAccepted
        <4> QED
          BY <2>3, <3>2, <3>3, <4>1, <4>2
      <3>5. CASE ~(e.kind = "token.consume" /\ e.token = t)
        <4>1. ~Timely(i, t)
          BY <3>5 DEF Timely, IsConsume
        <4>2. tokens'[s][t] = tokens[s][t]
          BY <3>5, <2>3, <1>2, <1>4, ApplyToRow
        <4> QED
          BY <2>3, <3>2, <3>3, <4>1, <4>2
      <3> QED
        BY <3>4, <3>5
    <2> QED
      BY <2>1, <2>2, <2>3
  <1>11. WaiterOwnsEntry'
    <2> SUFFICES ASSUME NEW r \in Request, req'[r].pc = "consuming"
                 PROVE  /\ req'[r].idx \in 1..Len(clog)
                        /\ IsConsume(req'[r].idx, boot[r[1]])
                        /\ clog[req'[r].idx].req = r
      BY <1>3 DEF WaiterOwnsEntry, IsConsume
    <2>1. req[r].pc = "consuming" /\ req'[r].idx = req[r].idx
      BY <1>5
    <2> QED
      BY <2>1 DEF EnrollInv, WaiterOwnsEntry
  <1>12. WinnerIsFirst'
    <2> SUFFICES ASSUME NEW r \in Request, req'[r].won
                 PROVE  \E k \in 1..Len(clog) :
                          /\ Timely(k, boot[r[1]])
                          /\ clog[k].req = r
                          /\ \A m \in 1..(k - 1) : ~Timely(m, boot[r[1]])
      <3>1. \A k, t : Timely(k, t)' <=> Timely(k, t)
        BY <1>7
      <3> QED
        BY <1>3, <3>1 DEF WinnerIsFirst
    <2>1. CASE req[r].won
      BY <2>1 DEF EnrollInv, WinnerIsFirst
    <2>2. CASE /\ req[r].pc = "consuming" /\ req[r].idx = i
               /\ ConsumeAccepted(tokens[s][boot[r[1]]], e)
      <3> DEFINE t == boot[r[1]]
      <3>1. IsConsume(i, t) /\ e.req = r
        BY <2>2 DEF EnrollInv, WaiterOwnsEntry
      <3>2. PICK c \in 1..(i - 1) : IsCreate(c, t)
        BY <3>1, <1>2, <1>own DEF EnrollInv, ConsumeFollowsCreate
      <3>3. c \in 1..applied[s] /\ \A m \in 1..(i - 1) : m \in 1..applied[s]
        BY <1>2, <1>i
      <3>4. /\ tokens[s][t].exp = clog[c].exp
            /\ tokens[s][t].st = IF \E m \in 1..applied[s] : Timely(m, t)
                                 THEN "consumed" ELSE "issued"
        BY <3>2, <3>3, <1>own DEF EnrollInv, RowTracksLog
      <3>5. tokens[s][t].st = "issued" /\ e.at <= tokens[s][t].exp
        BY <2>2 DEF ConsumeAccepted
      <3>6. \A m \in 1..(i - 1) : ~Timely(m, t)
        BY <3>3, <3>4, <3>5
      <3>7. Timely(i, t)
        BY <3>1, <3>2, <3>4, <3>5 DEF Timely
      <3> QED
        BY <3>1, <3>6, <3>7, <1>2
    <2> QED
      BY <2>1, <2>2, <1>5
  <1> QED
    BY <1>6, <1>8, <1>9, <1>10, <1>11, <1>12 DEF EnrollInv

\* With an empty log nothing is created, checked, waiting or won.
LEMMA InitInv == Init => EnrollInv
  <1> SUFFICES ASSUME Init PROVE EnrollInv
    OBVIOUS
  <1>1. TypeOK
    BY InitType
  <1>2. Len(clog) = 0 /\ \A s \in Node : applied[s] = 0
    BY EmptySeq DEF Init
  <1>3. /\ \A s \in Node, t \in Token : tokens[s][t].st = "none"
        /\ \A r \in Request : req[r].pc = "none" /\ req[r].won = FALSE
    BY DEF Init
  <1>4. CreatedOnce /\ ConsumeFollowsCreate
    BY <1>2 DEF CreatedOnce, ConsumeFollowsCreate
  <1>5. RowsAreIssued /\ RowTracksLog
    BY <1>2, <1>3 DEF RowsAreIssued, RowTracksLog
  <1>6. CheckedIsIssued /\ WaiterOwnsEntry /\ WinnerIsFirst
    BY <1>3 DEF CheckedIsIssued, WaiterOwnsEntry, WinnerIsFirst
  <1> QED
    BY <1>1, <1>4, <1>5, <1>6 DEF EnrollInv

\* Every step preserves the inductive invariant.
LEMMA NextInv == EnrollInv /\ [Next]_vars => EnrollInv'
  <1> SUFFICES ASSUME EnrollInv, [Next]_vars PROVE EnrollInv'
    OBVIOUS
  <1>1. TypeOK /\ TypeOK'
    BY NextType DEF EnrollInv
  <1>own. \A r \in Request : boot[r[1]] \in Token /\ r[1] \in Node /\ r[1] \in Joiner
    BY <1>1 DEF TypeOK, Request, Joiner
  <1>typ. req \in [Request -> Handler]
    BY <1>1 DEF TypeOK
  \* a handler moves to a state in which it neither is checked nor waits
  <1>set. ASSUME NEW r \in Request, NEW pc, pc \notin {"checked", "consuming"}, SetPc(r, pc)
          PROVE  \A q \in Request :
                   /\ req'[q].pc = "checked" => req[q].pc = "checked"
                   /\ req'[q].pc = "consuming" =>
                         req[q].pc = "consuming" /\ req'[q].idx = req[q].idx
                   /\ req'[q].won => req[q].won
    <2>1. req[r] \in Handler
      BY <1>typ
    <2>2. /\ req'[r] = [req[r] EXCEPT !.pc = pc]
          /\ \A q \in Request \ {r} : req'[q] = req[q]
      BY <1>set, <1>typ DEF SetPc
    <2>3. req'[r].pc = pc /\ req'[r].won = req[r].won
      BY <2>1, <2>2 DEF Handler
    <2> QED
      BY <2>2, <2>3, <1>set
  <1>2. ASSUME NEW t \in Token, CreateJoinToken(t) PROVE EnrollInv'
    <2> DEFINE e == [kind |-> "token.create", token |-> t, exp |-> now + TTL]
    <2>1. now + TTL \in Nat
      BY <1>1, EnrollAssumption DEF TypeOK
    <2>2. e \in Entry /\ e.kind = "token.create" /\ e.token = t
      BY <2>1, EntryKinds
    <2>3. clog' = Append(clog, e) /\ ~Issued(t) /\ req' = req
          /\ UNCHANGED <<applied, tokens, boot>>
      BY <1>2 DEF CreateJoinToken, Commit, storeVars, clientVars
    <2> HIDE DEF e
    <2> QED
      BY <2>2, <2>3, <1>1, CommitStep
  <1>3. ASSUME NEW j \in Joiner, ClientStep(j) PROVE EnrollInv'
    <2>1. CASE Post(j)
      <3> DEFINE r == <<j, attempts[j] + 1>>
      <3>1. r \in Request /\ req[r] \in Handler
        BY <2>1, <1>1, <1>typ DEF Post, TypeOK, Request
      <3>2. \A q \in Request \ {r} : req'[q] = req[q]
        BY <2>1, <3>1, <1>typ DEF Post
      <3>3. req'[r] = IF leader = NoNode THEN [req[r] EXCEPT !.pc = "error"]
                      ELSE [req[r] EXCEPT !.pc = "routed", !.srv = leader]
        BY <2>1, <3>1, <1>typ DEF Post
      <3>4. req'[r].pc \in {"error", "routed"} /\ req'[r].won = req[r].won
        BY <3>1, <3>3 DEF Handler
      <3>5. UNCHANGED <<clog, applied, tokens, boot>>
        BY <2>1 DEF Post, raftVars, storeVars
      <3> HIDE DEF r
      <3> QED
        BY <3>1, <3>2, <3>4, <3>5, <1>1, FrameStep
    <2>2. CASE StartJoin(j) \/ Receive(j) \/ ClientTimeout(j) \/ GiveUp(j)
      <3>1. UNCHANGED <<clog, applied, tokens, boot, req>>
        BY <2>2 DEF StartJoin, Receive, ClientTimeout, GiveUp, raftVars, storeVars
      <3> QED
        BY <3>1, <1>1, FrameStep
    <2> QED
      BY <1>3, <2>1, <2>2 DEF ClientStep
  <1>4. ASSUME NEW r \in Request, HandlerStep(r) PROVE EnrollInv'
    <2>0. req[r] \in Handler
      BY <1>typ
    <2>1. CASE CheckToken(r)
      <3> DEFINE s == req[r].srv
                 ok == leader = s /\ tokens[s][boot[r[1]]].st = "issued"
                       /\ now <= tokens[s][boot[r[1]]].exp
      <3>1. UNCHANGED <<clog, applied, tokens, boot>>
        BY <2>1 DEF CheckToken, raftVars, storeVars, clientVars
      <3>2. CASE ok
        <4>1. Issued(boot[r[1]])
          <5>1. s \in Node
            BY <2>0 DEF Handler
          <5> QED
            BY <3>2, <5>1, <1>own DEF EnrollInv, RowsAreIssued
        <4>2. req' = [req EXCEPT ![r].pc = "checked"]
          BY <2>1, <3>2 DEF CheckToken, SetPc
        <4>3. req'[r] = [req[r] EXCEPT !.pc = "checked"] /\ \A q \in Request \ {r} : req'[q] = req[q]
          BY <4>2, <1>typ
        <4>4. req'[r].pc = "checked" /\ req'[r].won = req[r].won
          BY <4>3, <2>0 DEF Handler
        <4> QED
          BY <3>1, <4>1, <4>3, <4>4, <1>1, FrameStep
      <3>3. CASE ~ok
        <4>1. SetPc(r, "rejected")
          BY <2>1, <3>3 DEF CheckToken
        <4> QED
          BY <3>1, <4>1, <1>set, <1>1, FrameStep
      <3> QED
        BY <3>2, <3>3
    <2>2. CASE SubmitConsume(r)
      <3> DEFINE e == [kind |-> "token.consume", token |-> boot[r[1]], at |-> now, req |-> r]
      <3>1. e \in Entry /\ e.kind = "token.consume" /\ e.token = boot[r[1]] /\ e.req = r
        <4>1. now \in Nat
          BY <1>1 DEF TypeOK
        <4> QED
          BY <4>1, <1>own, EntryKinds
      <3>2. /\ clog' = Append(clog, e)
            /\ UNCHANGED <<applied, tokens, boot>>
            /\ req[r].pc = "checked"
            /\ req' = [req EXCEPT ![r].pc = "consuming", ![r].idx = Len(clog) + 1]
        BY <2>2 DEF SubmitConsume, Commit, storeVars, clientVars
      <3>3. Issued(boot[r[1]])
        BY <3>2 DEF EnrollInv, CheckedIsIssued
      <3>4. /\ req'[r] = [req[r] EXCEPT !.pc = "consuming", !.idx = Len(clog) + 1]
            /\ \A q \in Request \ {r} : req'[q] = req[q]
        BY <3>2, <1>typ
      <3>5. req'[r].pc = "consuming" /\ req'[r].idx = Len(clog) + 1 /\ req'[r].won = req[r].won
        BY <3>4, <2>0 DEF Handler
      <3> HIDE DEF e
      <3> QED
        <4>1. e.kind = "token.create" => ~Issued(e.token)
          BY <3>1
        <4>2. e.kind = "token.consume" => Issued(e.token)
          BY <3>1, <3>3
        <4>3. ASSUME NEW q \in Request
              PROVE  /\ req'[q].pc = "checked" => req[q].pc = "checked"
                     /\ req'[q].pc = "consuming" =>
                           \/ req[q].pc = "consuming" /\ req'[q].idx = req[q].idx
                           \/ /\ req'[q].idx = Len(clog) + 1
                              /\ e.kind = "token.consume" /\ e.token = boot[q[1]] /\ e.req = q
                     /\ req'[q].won => req[q].won
          <5>1. CASE q = r
            BY <3>1, <3>5, <5>1
          <5>2. CASE q # r
            BY <3>4, <5>2
          <5> QED
            BY <5>1, <5>2
        <4> QED
          BY <3>1, <3>2, <4>1, <4>2, <4>3, <1>1, CommitStep
    <2>3. CASE AddVoter(r) \/ AddVoterUnconfirmed(r) \/ HandlerFails(r)
      <3>1. PICK pc \in {"voter", "error"} : SetPc(r, pc)
        BY <2>3 DEF AddVoter, AddVoterUnconfirmed, HandlerFails
      <3>2. UNCHANGED <<clog, applied, tokens, boot>>
        BY <2>3 DEF AddVoter, AddVoterUnconfirmed, HandlerFails, raftVars, storeVars, clientVars
      <3> QED
        BY <3>1, <3>2, <1>set, <1>1, FrameStep
    <2>4. CASE SubmitMember(r)
      <3> DEFINE e == [kind |-> "member.upsert", node |-> r[1]]
      <3>1. e \in Entry /\ e.kind = "member.upsert"
        BY <1>own, EntryKinds
      <3>2. /\ clog' = Append(clog, e)
            /\ UNCHANGED <<applied, tokens, boot>>
            /\ req' = [req EXCEPT ![r].pc = "recording", ![r].idx = Len(clog) + 1]
        BY <2>4 DEF SubmitMember, Commit, storeVars, clientVars
      <3>3. /\ req'[r] = [req[r] EXCEPT !.pc = "recording", !.idx = Len(clog) + 1]
            /\ \A q \in Request \ {r} : req'[q] = req[q]
        BY <3>2, <1>typ
      <3>4. req'[r].pc = "recording" /\ req'[r].won = req[r].won
        BY <3>3, <2>0 DEF Handler
      <3> HIDE DEF e
      <3> QED
        BY <3>1, <3>2, <3>3, <3>4, <1>1, CommitStep
    <2> QED
      BY <1>4, <2>1, <2>2, <2>3, <2>4 DEF HandlerStep
  <1>5. ASSUME NEW s \in Node, ServerStep(s) PROVE EnrollInv'
    <2>1. CASE ApplyEntry(s)
      BY <2>1, <1>1, ApplyStep
    <2>2. CASE RemoveServer(s) \/ RemoveMemberFails(s) \/ Elect(s)
      <3>1. UNCHANGED <<clog, applied, tokens, boot, req>>
        BY <2>2 DEF RemoveServer, RemoveMemberFails, Elect, raftVars, storeVars, clientVars
      <3> QED
        BY <3>1, <1>1, FrameStep
    <2>3. CASE RemoveMemberRow(s)
      <3> DEFINE e == [kind |-> "member.remove", node |-> s]
      <3>1. e \in Entry /\ e.kind = "member.remove"
        BY EntryKinds
      <3>2. clog' = Append(clog, e) /\ UNCHANGED <<applied, tokens, boot, req>>
        BY <2>3 DEF RemoveMemberRow, Commit, storeVars, clientVars
      <3> HIDE DEF e
      <3> QED
        BY <3>1, <3>2, <1>1, CommitStep
    <2>4. CASE Restart(s)
      <3>1. /\ UNCHANGED <<clog, tokens, boot>>
            /\ applied' = [applied EXCEPT ![s] = 0]
            /\ req' = [q \in Request |-> IF req[q].srv = s /\ req[q].pc \in Handling
                                         THEN [req[q] EXCEPT !.pc = "error"] ELSE req[q]]
        BY <2>4 DEF Restart, RestartFrom, storeVars
      <3>2. ASSUME NEW q \in Request
            PROVE  /\ req'[q].pc = "checked" => req[q].pc = "checked"
                   /\ req'[q].pc = "consuming" =>
                         req[q].pc = "consuming" /\ req'[q].idx = req[q].idx
                   /\ req'[q].won => req[q].won
        <4>1. req[q] \in Handler
          BY <1>typ
        <4> QED
          BY <3>1, <4>1 DEF Handler
      <3>3. CreatedOnce' /\ RowsAreIssued' /\ ConsumeFollowsCreate'
        BY <3>1 DEF EnrollInv, CreatedOnce, RowsAreIssued, ConsumeFollowsCreate,
                    IsCreate, IsConsume, Issued
      <3>4. CheckedIsIssued' /\ WaiterOwnsEntry' /\ WinnerIsFirst'
        BY <3>1, <3>2 DEF EnrollInv, CheckedIsIssued, WaiterOwnsEntry, WinnerIsFirst,
                          Issued, Timely, IsConsume, IsCreate
      <3>5. RowTracksLog'
        <4>1. applied'[s] = 0 /\ \A n \in Node \ {s} : applied'[n] = applied[n]
          BY <3>1, <1>1 DEF TypeOK
        <4>2. ASSUME NEW n \in Node, NEW t \in Token, NEW c \in 1..applied'[n], IsCreate(c, t)'
              PROVE  n # s /\ IsCreate(c, t) /\ c \in 1..applied[n]
          <5>1. n # s
            BY <4>1, <4>2
          <5> QED
            BY <5>1, <4>1, <4>2, <3>1 DEF IsCreate
        <4> SUFFICES ASSUME NEW n \in Node, NEW t \in Token, NEW c \in 1..applied'[n],
                            IsCreate(c, t)'
                     PROVE  /\ tokens[n][t].exp = clog[c].exp
                            /\ tokens[n][t].st = IF \E i \in 1..applied'[n] : Timely(i, t)
                                                 THEN "consumed" ELSE "issued"
          BY <3>1 DEF RowTracksLog, Timely, IsConsume, IsCreate
        <4>3. n # s /\ IsCreate(c, t) /\ c \in 1..applied[n] /\ applied'[n] = applied[n]
          BY <4>1, <4>2
        <4> QED
          BY <4>3 DEF EnrollInv, RowTracksLog
      <3> QED
        BY <3>3, <3>4, <3>5, <1>1 DEF EnrollInv
    <2> QED
      BY <1>5, <2>1, <2>2, <2>3, <2>4 DEF ServerStep
  <1>6. CASE RegisterSelf
    <2> DEFINE e == [kind |-> "member.upsert", node |-> Seed]
    <2>1. e \in Entry /\ e.kind = "member.upsert"
      BY EntryKinds, EnrollAssumption
    <2>2. UNCHANGED <<applied, tokens, boot, req>>
      BY <1>6 DEF RegisterSelf, storeVars, clientVars
    <2>3. CASE clog' = Append(clog, e)
      <3> HIDE DEF e
      <3> QED
        BY <2>1, <2>2, <2>3, <1>1, CommitStep
    <2>4. CASE UNCHANGED clog
      BY <2>2, <2>4, <1>1, FrameStep
    <2> QED
      BY <1>6, <2>3, <2>4 DEF RegisterSelf, Commit
  <1>7. CASE Tick \/ LoseLeader \/ UNCHANGED vars
    <2>1. UNCHANGED <<clog, applied, tokens, boot, req>>
      BY <1>7 DEF Tick, LoseLeader, vars, raftVars, storeVars, clientVars
    <2> QED
      BY <2>1, <1>1, FrameStep
  <1> QED
    BY <1>2, <1>3, <1>4, <1>5, <1>6, <1>7 DEF Next

\* Two requests that won one token own the same log entry.
LEMMA InvImpliesSingleUse == EnrollInv => TokenSingleUse
  <1> SUFFICES ASSUME EnrollInv, NEW r1 \in Request, NEW r2 \in Request,
                      req[r1].won, req[r2].won, boot[r1[1]] = boot[r2[1]]
               PROVE  r1 = r2
    BY DEF TokenSingleUse
  <1> DEFINE First(i, t) == Timely(i, t) /\ \A k \in 1..(i - 1) : ~Timely(k, t)
  <1>1. PICK i \in 1..Len(clog) : First(i, boot[r1[1]]) /\ clog[i].req = r1
    BY DEF EnrollInv, WinnerIsFirst
  <1>2. PICK k \in 1..Len(clog) : First(k, boot[r1[1]]) /\ clog[k].req = r2
    BY DEF EnrollInv, WinnerIsFirst
  <1>3. Len(clog) \in Nat
    BY LenProperties DEF EnrollInv, TypeOK
  <1>4. ~(i < k) /\ ~(k < i)
    BY <1>1, <1>2, <1>3
  <1> QED
    BY <1>1, <1>2, <1>3, <1>4

\* A join token admits at most one request: for any number of nodes, tokens,
\* retries, leader changes and replays, the consume step of EnrollNode
\* succeeds at most once per token.
THEOREM SingleUse == Spec => []TokenSingleUse
  BY InitInv, NextInv, InvImpliesSingleUse, PTL DEF Spec

-----------------------------------------------------------------------------
(* Who is a member.                                                        *)

Past == {"consumed", "voter", "recording"}

\* Winning is for ever, and a handler gets past the consume step by winning.
LEMMA ResumeKeepsWon ==
    ASSUME NEW h \in Handler, NEW i \in Nat, NEW row \in TokenRow
    PROVE  /\ h.won => Resume(h, i, row).won
           /\ Resume(h, i, row).pc \in Past => h.pc \in Past \/ Resume(h, i, row).won
  <1>1. CASE h.pc = "consuming" /\ h.idx = i /\ ConsumeAccepted(row, clog[i])
    <2>1. Resume(h, i, row) = [h EXCEPT !.pc = "consumed", !.won = TRUE]
      BY <1>1 DEF Resume
    <2> QED
      BY <2>1 DEF Handler
  <1>2. CASE h.pc = "consuming" /\ h.idx = i /\ ~ConsumeAccepted(row, clog[i])
    <2>1. Resume(h, i, row) = [h EXCEPT !.pc = "error"]
      BY <1>2 DEF Resume
    <2> QED
      BY <2>1 DEF Handler, Past
  <1>3. CASE h.pc = "recording" /\ h.idx = i
    <2>1. Resume(h, i, row) = [h EXCEPT !.pc = "ok"]
      BY <1>3 DEF Resume
    <2> QED
      BY <2>1 DEF Handler, Past
  <1>4. CASE ~(h.pc \in {"consuming", "recording"} /\ h.idx = i)
    BY <1>4 DEF Resume
  <1> QED
    BY <1>1, <1>2, <1>3, <1>4

\* What it takes for a step to preserve the two additions: no win is undone,
\* who is past the consume step was so or has just won, and who becomes a
\* voter has a handler that won.
LEMMA AdmissionStep ==
    ASSUME PastConsumeWon, VotersHavePaid,
           \A r \in Request :
              /\ req[r].won => req'[r].won
              /\ req'[r].pc \in Past => req[r].pc \in Past \/ req'[r].won,
           \A n \in voters' \ voters : \E r \in Request : r[1] = n /\ req[r].won
    PROVE  PastConsumeWon' /\ VotersHavePaid'
  <1>1. PastConsumeWon'
    BY DEF PastConsumeWon, Past
  <1>2. VotersHavePaid'
    BY DEF VotersHavePaid
  <1> QED
    BY <1>1, <1>2

\* A handler that changes its state, and nothing else of itself, keeps its win.
LEMMA PcStep ==
    ASSUME req \in [Request -> Handler], NEW r \in Request, NEW h,
           req' = [req EXCEPT ![r] = h], h.won = req[r].won,
           h.pc \in Past => req[r].pc \in Past
    PROVE  \A q \in Request : /\ req[q].won => req'[q].won
                              /\ req'[q].pc \in Past => req[q].pc \in Past \/ req'[q].won
  OBVIOUS

\* Nobody has been admitted at the start.
LEMMA AdmissionInit == Init => AdmissionInv
  <1> SUFFICES ASSUME Init PROVE AdmissionInv
    OBVIOUS
  <1>1. \A r \in Request : req[r].pc = "none"
    BY DEF Init
  <1>2. PastConsumeWon /\ VotersHavePaid
    BY <1>1 DEF Init, PastConsumeWon, VotersHavePaid
  <1> QED
    BY <1>2, InitInv DEF AdmissionInv

\* The steps of EnrollNode: AddVoter is the only one that admits a node.
LEMMA AdmissionHandler ==
    ASSUME AdmissionInv, NEW r \in Request, HandlerStep(r)
    PROVE  PastConsumeWon' /\ VotersHavePaid'
  <1>1. PastConsumeWon /\ VotersHavePaid /\ req \in [Request -> Handler]
    BY DEF AdmissionInv, EnrollInv, TypeOK
  <1>2. req[r] \in Handler
    BY <1>1
  <1>3. CASE AddVoter(r) \/ AddVoterUnconfirmed(r)
    <2>1. PICK pc \in {"voter", "error"} : req' = [req EXCEPT ![r].pc = pc]
      BY <1>3 DEF AddVoter, AddVoterUnconfirmed, SetPc
    <2>2. voters' = voters \cup {r[1]} /\ req[r].pc = "consumed"
      BY <1>3 DEF AddVoter, AddVoterUnconfirmed
    <2>3. req[r].won
      BY <1>1, <2>2 DEF PastConsumeWon
    <2>4. \A q \in Request : /\ req[q].won => req'[q].won
                             /\ req'[q].pc \in Past => req[q].pc \in Past \/ req'[q].won
      BY <1>1, <1>2, <2>1, <2>2, PcStep DEF Handler, Past
    <2> QED
      BY <1>1, <2>2, <2>3, <2>4, AdmissionStep
  <1>4. CASE CheckToken(r) \/ HandlerFails(r)
    <2>1. PICK pc \in {"checked", "rejected", "error"} : req' = [req EXCEPT ![r].pc = pc]
      BY <1>4 DEF CheckToken, HandlerFails, SetPc
    <2>2. voters' = voters
      BY <1>4 DEF CheckToken, HandlerFails, raftVars
    <2>3. \A q \in Request : /\ req[q].won => req'[q].won
                             /\ req'[q].pc \in Past => req[q].pc \in Past \/ req'[q].won
      BY <1>1, <1>2, <2>1, PcStep DEF Handler, Past
    <2> QED
      BY <1>1, <2>2, <2>3, AdmissionStep
  <1>5. CASE SubmitConsume(r)
    <2>1. req' = [req EXCEPT ![r].pc = "consuming", ![r].idx = Len(clog) + 1]
          /\ voters' = voters
      BY <1>5 DEF SubmitConsume
    <2>2. \A q \in Request : /\ req[q].won => req'[q].won
                             /\ req'[q].pc \in Past => req[q].pc \in Past \/ req'[q].won
      BY <1>1, <1>2, <2>1 DEF Handler, Past
    <2> QED
      BY <1>1, <2>1, <2>2, AdmissionStep
  <1>6. CASE SubmitMember(r)
    <2>1. req' = [req EXCEPT ![r].pc = "recording", ![r].idx = Len(clog) + 1]
          /\ voters' = voters /\ req[r].pc = "voter"
      BY <1>6 DEF SubmitMember
    <2>2. \A q \in Request : /\ req[q].won => req'[q].won
                             /\ req'[q].pc \in Past => req[q].pc \in Past \/ req'[q].won
      BY <1>1, <1>2, <2>1 DEF Handler, Past
    <2> QED
      BY <1>1, <2>1, <2>2, AdmissionStep
  <1> QED
    BY <1>3, <1>4, <1>5, <1>6 DEF HandlerStep

\* Every step preserves the strengthened invariant.
LEMMA AdmissionNext == AdmissionInv /\ [Next]_vars => AdmissionInv'
  <1> SUFFICES ASSUME AdmissionInv, [Next]_vars PROVE PastConsumeWon' /\ VotersHavePaid'
    BY NextInv DEF AdmissionInv
  <1>1. PastConsumeWon /\ VotersHavePaid /\ TypeOK
    BY DEF AdmissionInv, EnrollInv
  <1>2. req \in [Request -> Handler]
    BY <1>1 DEF TypeOK
  <1>3. ASSUME UNCHANGED req, voters' \subseteq voters
        PROVE  PastConsumeWon' /\ VotersHavePaid'
    BY <1>1, <1>3, AdmissionStep
  <1>4. CASE \E t \in Token : CreateJoinToken(t)
    BY <1>3, <1>4 DEF CreateJoinToken
  <1>5. ASSUME NEW j \in Joiner, ClientStep(j)
        PROVE  PastConsumeWon' /\ VotersHavePaid'
    <2>1. CASE Post(j)
      <3> DEFINE r == <<j, attempts[j] + 1>>
      <3>1. r \in Request /\ req[r] \in Handler
        BY <2>1, <1>1, <1>2 DEF Post, TypeOK, Request
      <3>2. /\ req' = [req EXCEPT ![r] = IF leader = NoNode
                                        THEN [req[r] EXCEPT !.pc = "error"]
                                        ELSE [req[r] EXCEPT !.pc = "routed", !.srv = leader]]
            /\ voters' = voters
        BY <2>1, <3>1, <1>2 DEF Post, raftVars
      <3> HIDE DEF r
      <3>3. \A q \in Request : /\ req[q].won => req'[q].won
                               /\ req'[q].pc \in Past => req[q].pc \in Past \/ req'[q].won
        BY <3>1, <3>2, <1>2 DEF Handler, Past
      <3> QED
        BY <1>1, <3>2, <3>3, AdmissionStep
    <2>2. CASE StartJoin(j) \/ Receive(j) \/ ClientTimeout(j) \/ GiveUp(j)
      <3>1. UNCHANGED <<req, voters>>
        BY <2>2 DEF StartJoin, Receive, ClientTimeout, GiveUp, raftVars
      <3> QED
        BY <3>1, <1>3
    <2> QED
      BY <1>5, <2>1, <2>2 DEF ClientStep
  <1>6. ASSUME NEW r \in Request, HandlerStep(r)
        PROVE  PastConsumeWon' /\ VotersHavePaid'
    BY <1>6, AdmissionHandler
  <1>7. ASSUME NEW s \in Node, ServerStep(s)
        PROVE  PastConsumeWon' /\ VotersHavePaid'
    <2>1. CASE ApplyEntry(s)
      <3> DEFINE row(q) == tokens[s][boot[q[1]]]
                 i == applied[s] + 1
      <3>1. /\ req' = [q \in Request |-> IF req[q].srv = s THEN Resume(req[q], i, row(q))
                                         ELSE req[q]]
            /\ voters' = voters
        BY <2>1 DEF ApplyEntry
      <3>2. i \in Nat /\ \A q \in Request : row(q) \in TokenRow
        BY <1>1 DEF TypeOK, Request
      <3> HIDE DEF row, i
      <3>3. \A q \in Request : /\ req[q].won => req'[q].won
                               /\ req'[q].pc \in Past => req[q].pc \in Past \/ req'[q].won
        <4> SUFFICES ASSUME NEW q \in Request
                     PROVE  /\ req[q].won => req'[q].won
                            /\ req'[q].pc \in Past => req[q].pc \in Past \/ req'[q].won
          OBVIOUS
        <4>1. req[q] \in Handler
          BY <1>2
        <4>2. req'[q] = IF req[q].srv = s THEN Resume(req[q], i, row(q)) ELSE req[q]
          BY <3>1
        <4> QED
          BY <4>1, <4>2, <3>2, ResumeKeepsWon
      <3> QED
        BY <1>1, <3>1, <3>3, AdmissionStep
    <2>2. CASE Restart(s)
      <3>1. /\ req' = [q \in Request |-> IF req[q].srv = s /\ req[q].pc \in Handling
                                         THEN [req[q] EXCEPT !.pc = "error"] ELSE req[q]]
            /\ voters' = voters
        BY <2>2 DEF Restart, RestartFrom
      <3>2. \A q \in Request : /\ req[q].won => req'[q].won
                               /\ req'[q].pc \in Past => req[q].pc \in Past \/ req'[q].won
        BY <1>2, <3>1 DEF Handler, Past
      <3> QED
        BY <1>1, <3>1, <3>2, AdmissionStep
    <2>3. CASE RemoveServer(s) \/ RemoveMemberRow(s) \/ RemoveMemberFails(s) \/ Elect(s)
      <3>1. UNCHANGED req /\ voters' \subseteq voters
        BY <2>3 DEF RemoveServer, RemoveMemberRow, RemoveMemberFails, Elect, raftVars
      <3> QED
        BY <3>1, <1>3
    <2> QED
      BY <1>7, <2>1, <2>2, <2>3 DEF ServerStep
  <1>8. CASE RegisterSelf \/ Tick \/ LoseLeader \/ UNCHANGED vars
    <2>1. UNCHANGED <<req, voters>>
      BY <1>8 DEF RegisterSelf, Tick, LoseLeader, vars, raftVars
    <2> QED
      BY <2>1, <1>3
  <1> QED
    BY <1>4, <1>5, <1>6, <1>7, <1>8 DEF Next

\* The tokens the log has issued are finitely many: each has an entry of its own.
LEMMA IssuedFinite == TypeOK => IsFiniteSet({t \in Token : Issued(t)})
  <1> SUFFICES ASSUME TypeOK PROVE IsFiniteSet({t \in Token : Issued(t)})
    OBVIOUS
  <1> DEFINE I == {t \in Token : Issued(t)}
             f == [t \in I |-> CHOOSE i \in 1..Len(clog) : IsCreate(i, t)]
  <1>1. Len(clog) \in Nat
    BY LenProperties DEF TypeOK
  <1>2. \A t \in I : f[t] \in 1..Len(clog) /\ IsCreate(f[t], t)
    BY DEF Issued, IsCreate
  <1>3. \A t, u \in I : f[t] = f[u] => t = u
    BY <1>2 DEF IsCreate
  <1>4. f \in Injection(I, 1..Len(clog))
    <2>1. f \in [I -> 1..Len(clog)] /\ DOMAIN f = I
      BY <1>2
    <2> QED
      BY <1>3, <2>1 DEF Injection, IsInjective
  <1>5. IsFiniteSet(1..Len(clog))
    BY <1>1, FS_Interval
  <1> HIDE DEF f
  <1> QED
    BY <1>4, <1>5, FS_Injection

\* A voter's token is issued, and no two voters share one.
LEMMA InvImpliesPaid == AdmissionInv => NoMoreVotersThanTokens
  <1> SUFFICES ASSUME AdmissionInv PROVE NoMoreVotersThanTokens
    OBVIOUS
  <1> DEFINE V == voters \ {Seed}
             I == {t \in Token : Issued(t)}
             g == [n \in V |-> boot[n]]
  <1>1. TypeOK /\ TokenSingleUse /\ VotersHavePaid /\ WinnerIsFirst
    BY InvImpliesSingleUse DEF AdmissionInv, EnrollInv
  <1>2. ASSUME NEW n \in V
        PROVE  boot[n] \in I
    <2>1. PICK r \in Request : r[1] = n /\ req[r].won
      BY <1>1 DEF VotersHavePaid
    <2>2. PICK i \in 1..Len(clog) : Timely(i, boot[n])
      BY <1>1, <2>1 DEF WinnerIsFirst
    <2>3. Len(clog) \in Nat
      BY <1>1, LenProperties DEF TypeOK
    <2>4. Issued(boot[n])
      BY <2>2, <2>3 DEF Timely, IsCreate, Issued
    <2>5. boot[n] \in Token
      BY <1>1 DEF TypeOK, Joiner
    <2> QED
      BY <2>4, <2>5
  <1>3. ASSUME NEW n \in V, NEW m \in V, boot[n] = boot[m]
        PROVE  n = m
    <2>1. PICK r \in Request : r[1] = n /\ req[r].won
      BY <1>1 DEF VotersHavePaid
    <2>2. PICK q \in Request : q[1] = m /\ req[q].won
      BY <1>1 DEF VotersHavePaid
    <2>3. r = q
      BY <1>1, <1>3, <2>1, <2>2 DEF TokenSingleUse
    <2> QED
      BY <2>1, <2>2, <2>3
  <1>4. g \in Injection(V, I)
    <2>1. g \in [V -> I] /\ DOMAIN g = V
      BY <1>2
    <2> QED
      BY <1>3, <2>1 DEF Injection, IsInjective
  <1>5. IsFiniteSet(I)
    BY <1>1, IssuedFinite
  <1> HIDE DEF g, V, I
  <1>6. Cardinality(V) <= Cardinality(I)
    BY <1>4, <1>5, FS_Injection
  <1> QED
    BY <1>6 DEF V, I, NoMoreVotersThanTokens

\* The cluster never has more voters besides the seed than tokens were issued:
\* for any number of nodes, retries with one token, errors of AddVoter after
\* which the change is in, leader changes, removals and replays.
THEOREM VotersPaid == Spec => []NoMoreVotersThanTokens
  BY AdmissionInit, AdmissionNext, InvImpliesPaid, PTL DEF Spec

-----------------------------------------------------------------------------
(* Servers that have caught up agree.                                        *)

Additions == MembersTrackLog /\ MembersListed /\ NoRowNoExpiry

\* Steps that leave log and files alone.
LEMMA AgreeFrame ==
    ASSUME Additions, UNCHANGED <<clog, applied, tokens, members>>
    PROVE  Additions'
  BY DEF Additions, MembersTrackLog, MembersListed, NoRowNoExpiry, RecordedBy,
         Mentioned, IsUpsert, IsRemove

\* A committed entry is ahead of every server.
LEMMA AgreeCommit ==
    ASSUME TypeOK, Additions, NEW e \in Entry, clog' = Append(clog, e),
           UNCHANGED <<applied, tokens, members>>
    PROVE  Additions'
  <1>1. /\ Len(clog) \in Nat /\ Len(clog') = Len(clog) + 1
        /\ \A i \in 1..Len(clog) : clog'[i] = clog[i]
    BY AppendEntry DEF TypeOK
  <1>2. \A n : \A i \in 1..Len(clog) :
            /\ IsUpsert(i, n)' <=> IsUpsert(i, n)
            /\ IsRemove(i, n)' <=> IsRemove(i, n)
            /\ Mentioned(i, n)' <=> Mentioned(i, n)
    BY <1>1 DEF IsUpsert, IsRemove, Mentioned
  <1>3. MembersTrackLog'
    <2> SUFFICES ASSUME NEW s \in Node, NEW n \in Node, \E i \in 1..applied[s] : Mentioned(i, n)'
                 PROVE  n \in members[s] <=> RecordedBy(applied[s], n)'
      BY DEF MembersTrackLog, RecordedBy
    <2>1. applied[s] \in Nat /\ applied[s] <= Len(clog)
      BY DEF TypeOK
    <2>2. \A i \in 1..applied[s] : i \in 1..Len(clog)
      BY <2>1, <1>1
    <2>3. \E i \in 1..applied[s] : Mentioned(i, n)
      BY <1>2, <2>2
    <2>4. RecordedBy(applied[s], n)' <=> RecordedBy(applied[s], n)
      <3>1. \A i \in 1..applied[s] : \A m \in (i + 1)..applied[s] : m \in 1..Len(clog)
        BY <2>1, <1>1
      <3> QED
        BY <1>2, <2>2, <3>1 DEF RecordedBy
    <2> QED
      BY <2>3, <2>4 DEF Additions, MembersTrackLog
  <1>4. MembersListed'
    <2> SUFFICES ASSUME NEW s \in Node, NEW n \in members[s]
                 PROVE  \E i \in 1..Len(clog') : Mentioned(i, n)'
      BY DEF MembersListed
    <2>1. PICK i \in 1..Len(clog) : Mentioned(i, n)
      BY DEF Additions, MembersListed
    <2> QED
      BY <1>1, <1>2, <2>1
  <1>5. NoRowNoExpiry'
    BY DEF Additions, NoRowNoExpiry
  <1> QED
    BY <1>3, <1>4, <1>5 DEF Additions

\* A restarted server has applied nothing again yet.
LEMMA AgreeRestart ==
    ASSUME TypeOK, Additions, NEW s \in Node, Restart(s)
    PROVE  Additions'
  <1>1. UNCHANGED <<clog, tokens, members>> /\ applied' = [applied EXCEPT ![s] = 0]
    BY DEF Restart, RestartFrom, storeVars
  <1>2. applied'[s] = 0 /\ \A q \in Node \ {s} : applied'[q] = applied[q]
    BY <1>1 DEF TypeOK
  <1>3. MembersTrackLog'
    <2> SUFFICES ASSUME NEW q \in Node, NEW n \in Node,
                        \E i \in 1..applied'[q] : Mentioned(i, n)
                 PROVE  n \in members[q] <=> RecordedBy(applied'[q], n)
      BY <1>1 DEF MembersTrackLog, RecordedBy, Mentioned, IsUpsert, IsRemove
    <2>1. q # s
      BY <1>2
    <2> QED
      BY <1>2, <2>1 DEF Additions, MembersTrackLog
  <1>4. MembersListed' /\ NoRowNoExpiry'
    BY <1>1 DEF Additions, MembersListed, NoRowNoExpiry, Mentioned, IsUpsert, IsRemove
  <1> QED
    BY <1>3, <1>4 DEF Additions

\* What applying one entry does to the members bucket.
LEMMA ApplyToMember ==
    ASSUME NEW mem \in SUBSET Node, NEW e \in Entry, NEW n \in Node
    PROVE  n \in ApplyToMembers(mem, e) <=>
               \/ e.kind = "member.upsert" /\ e.node = n
               \/ n \in mem /\ ~(e.kind = "member.remove" /\ e.node = n)
  <1>1. CASE e.kind = "member.upsert"
    <2>1. ApplyToMembers(mem, e) = mem \cup {e.node}
      BY <1>1 DEF ApplyToMembers
    <2> QED
      BY <1>1, <2>1
  <1>2. CASE e.kind = "member.remove"
    <2>1. ApplyToMembers(mem, e) = mem \ {e.node}
      BY <1>2 DEF ApplyToMembers
    <2> QED
      BY <1>2, <2>1
  <1>3. CASE e.kind \notin {"member.upsert", "member.remove"}
    <2>1. ApplyToMembers(mem, e) = mem
      BY <1>3 DEF ApplyToMembers
    <2> QED
      BY <1>3, <2>1
  <1> QED
    BY <1>1, <1>2, <1>3

\* How "recorded" moves by one entry.
LEMMA RecordedNext ==
    ASSUME NEW k \in Nat, NEW n
    PROVE  RecordedBy(k + 1, n) <=>
               \/ IsUpsert(k + 1, n)
               \/ RecordedBy(k, n) /\ ~IsRemove(k + 1, n)
  <1>1. ASSUME IsUpsert(k + 1, n) PROVE RecordedBy(k + 1, n)
    BY <1>1 DEF RecordedBy
  <1>2. ASSUME RecordedBy(k, n), ~IsRemove(k + 1, n) PROVE RecordedBy(k + 1, n)
    <2>1. PICK i \in 1..k : IsUpsert(i, n) /\ \A m \in (i + 1)..k : ~IsRemove(m, n)
      BY <1>2 DEF RecordedBy
    <2>2. \A m \in (i + 1)..(k + 1) : m = k + 1 \/ m \in (i + 1)..k
      OBVIOUS
    <2> QED
      BY <1>2, <2>1, <2>2 DEF RecordedBy
  <1>3. ASSUME RecordedBy(k + 1, n), ~IsUpsert(k + 1, n)
        PROVE  RecordedBy(k, n) /\ ~IsRemove(k + 1, n)
    <2>1. PICK i \in 1..(k + 1) : IsUpsert(i, n) /\ \A m \in (i + 1)..(k + 1) : ~IsRemove(m, n)
      BY <1>3 DEF RecordedBy
    <2>2. i \in 1..k
      BY <1>3, <2>1
    <2>3. k + 1 \in (i + 1)..(k + 1) /\ \A m \in (i + 1)..k : m \in (i + 1)..(k + 1)
      BY <2>2
    <2> QED
      BY <2>1, <2>2, <2>3 DEF RecordedBy
  <1> QED
    BY <1>1, <1>2, <1>3

\* A server applies its next entry, for the first time or again.
LEMMA AgreeApply ==
    ASSUME TypeOK, Additions, NEW s \in Node, ApplyEntry(s)
    PROVE  Additions'
  <1>1. PICK k \in Nat : k = applied[s]
    BY DEF TypeOK
  <1>2. k + 1 \in 1..Len(clog) /\ clog[k + 1] \in Entry /\ Len(clog) \in Nat
    BY <1>1, LenProperties DEF ApplyEntry, TypeOK
  <1> DEFINE e == clog[k + 1]
  <1>3. /\ clog' = clog
        /\ applied' = [applied EXCEPT ![s] = k + 1]
        /\ tokens' = [tokens EXCEPT ![s] = ApplyToTokens(@, e)]
        /\ members' = [members EXCEPT ![s] = ApplyToMembers(@, e)]
    BY <1>1 DEF ApplyEntry
  <1>4. /\ applied'[s] = k + 1
        /\ tokens'[s] = ApplyToTokens(tokens[s], e)
        /\ members'[s] = ApplyToMembers(members[s], e)
        /\ \A q \in Node \ {s} : /\ applied'[q] = applied[q]
                                 /\ tokens'[q] = tokens[q] /\ members'[q] = members[q]
    BY <1>3 DEF TypeOK
  <1>5. \A n \in Node : n \in members'[s] <=>
            IsUpsert(k + 1, n) \/ (n \in members[s] /\ ~IsRemove(k + 1, n))
    BY <1>2, <1>4, ApplyToMember DEF TypeOK, IsUpsert, IsRemove
  <1>6. MembersTrackLog'
    <2> SUFFICES ASSUME NEW q \in Node, NEW n \in Node,
                        \E i \in 1..applied'[q] : Mentioned(i, n)
                 PROVE  n \in members'[q] <=> RecordedBy(applied'[q], n)
      BY <1>3 DEF MembersTrackLog, RecordedBy, Mentioned, IsUpsert, IsRemove
    <2>1. CASE q # s
      BY <1>4, <2>1 DEF Additions, MembersTrackLog
    <2>2. CASE q = s /\ \E i \in 1..k : Mentioned(i, n)
      <3>1. n \in members[s] <=> RecordedBy(k, n)
        BY <1>1, <2>2 DEF Additions, MembersTrackLog
      <3> QED
        BY <1>4, <1>5, <2>2, <3>1, RecordedNext
    <2>3. CASE q = s /\ ~\E i \in 1..k : Mentioned(i, n)
      <3>1. Mentioned(k + 1, n)
        BY <1>4, <2>3
      <3>2. ~RecordedBy(k, n)
        BY <2>3 DEF RecordedBy, Mentioned
      <3>3. IsUpsert(k + 1, n) <=> ~IsRemove(k + 1, n)
        BY <3>1 DEF Mentioned, IsUpsert, IsRemove
      <3> QED
        BY <1>4, <1>5, <2>3, <3>2, <3>3, RecordedNext
    <2> QED
      BY <2>1, <2>2, <2>3
  <1>7. MembersListed'
    <2> SUFFICES ASSUME NEW q \in Node, NEW n \in members'[q]
                 PROVE  \E i \in 1..Len(clog) : Mentioned(i, n)
      BY <1>3 DEF MembersListed, Mentioned, IsUpsert, IsRemove
    <2>1. CASE n \in members[q]
      BY <2>1 DEF Additions, MembersListed
    <2>2. CASE n \notin members[q]
      <3>1. q = s
        BY <1>4, <2>2
      <3>2. members'[s] \in SUBSET Node
        BY <1>2, <1>4, ApplyToMembersType DEF TypeOK
      <3>3. IsUpsert(k + 1, n)
        BY <1>5, <2>2, <3>1, <3>2
      <3> QED
        BY <1>2, <3>3 DEF Mentioned
    <2> QED
      BY <2>1, <2>2
  <1>8. NoRowNoExpiry'
    <2> SUFFICES ASSUME NEW q \in Node, NEW t \in Token, tokens'[q][t].st = "none"
                 PROVE  tokens'[q][t].exp = 0
      BY DEF NoRowNoExpiry
    <2>1. CASE q # s
      BY <1>4, <2>1 DEF Additions, NoRowNoExpiry
    <2>2. CASE q = s
      <3>1. tokens[s] \in [Token -> TokenRow]
        BY DEF TypeOK
      <3>2. tokens'[s][t].exp = tokens[s][t].exp /\ tokens[s][t].st = "none"
        BY <1>2, <1>4, <2>2, <3>1, ApplyToRow
      <3> QED
        BY <2>2, <3>2 DEF Additions, NoRowNoExpiry
    <2> QED
      BY <2>1, <2>2
  <1> QED
    BY <1>6, <1>7, <1>8 DEF Additions

\* Nor is anybody listed.
LEMMA AgreementInit == Init => AgreementInv
  <1> SUFFICES ASSUME Init PROVE AgreementInv
    OBVIOUS
  <1>1. Additions
    BY DEF Init, Additions, MembersTrackLog, MembersListed, NoRowNoExpiry
  <1> QED
    BY <1>1, InitInv DEF AgreementInv, Additions

\* Every step preserves the strengthened invariant.
LEMMA AgreementNext == AgreementInv /\ [Next]_vars => AgreementInv'
  <1> SUFFICES ASSUME AgreementInv, [Next]_vars PROVE Additions'
    BY NextInv DEF AgreementInv, Additions
  <1>1. Additions /\ TypeOK
    BY DEF AgreementInv, EnrollInv, Additions
  <1>2. ASSUME NEW e \in Entry, Commit(e), UNCHANGED <<applied, tokens, members>>
        PROVE  Additions'
    BY <1>1, <1>2, AgreeCommit DEF Commit
  <1>3. CASE \E t \in Token : CreateJoinToken(t)
    <2>1. PICK t \in Token : CreateJoinToken(t)
      BY <1>3
    <2>2. now + TTL \in Nat
      BY <1>1, EnrollAssumption DEF TypeOK
    <2> QED
      BY <1>2, <2>1, <2>2, EntryKinds DEF CreateJoinToken, storeVars
  <1>4. ASSUME NEW j \in Joiner, ClientStep(j) PROVE Additions'
    <2>1. UNCHANGED <<clog, applied, tokens, members>>
      BY <1>4 DEF ClientStep, StartJoin, Post, Receive, ClientTimeout, GiveUp,
                  raftVars, storeVars
    <2> QED
      BY <1>1, <2>1, AgreeFrame
  <1>5. ASSUME NEW r \in Request, HandlerStep(r) PROVE Additions'
    <2>0. boot[r[1]] \in Token /\ r[1] \in Node /\ now \in Nat
      BY <1>1 DEF TypeOK, Request, Joiner
    <2>1. CASE SubmitConsume(r)
      BY <1>2, <2>0, <2>1, EntryKinds DEF SubmitConsume, storeVars
    <2>2. CASE SubmitMember(r)
      BY <1>2, <2>0, <2>2, EntryKinds DEF SubmitMember, storeVars
    <2>3. CASE CheckToken(r) \/ AddVoter(r) \/ AddVoterUnconfirmed(r) \/ HandlerFails(r)
      <3>1. UNCHANGED <<clog, applied, tokens, members>>
        BY <2>3 DEF CheckToken, AddVoter, AddVoterUnconfirmed, HandlerFails,
                    raftVars, storeVars
      <3> QED
        BY <1>1, <3>1, AgreeFrame
    <2> QED
      BY <1>5, <2>1, <2>2, <2>3 DEF HandlerStep
  <1>6. ASSUME NEW s \in Node, ServerStep(s) PROVE Additions'
    <2>1. CASE ApplyEntry(s)
      BY <1>1, <2>1, AgreeApply
    <2>2. CASE Restart(s)
      BY <1>1, <2>2, AgreeRestart
    <2>3. CASE RemoveMemberRow(s)
      BY <1>2, <2>3, EntryKinds DEF RemoveMemberRow, storeVars
    <2>4. CASE RemoveServer(s) \/ RemoveMemberFails(s) \/ Elect(s)
      <3>1. UNCHANGED <<clog, applied, tokens, members>>
        BY <2>4 DEF RemoveServer, RemoveMemberFails, Elect, raftVars, storeVars
      <3> QED
        BY <1>1, <3>1, AgreeFrame
    <2> QED
      BY <1>6, <2>1, <2>2, <2>3, <2>4 DEF ServerStep
  <1>7. CASE RegisterSelf
    <2>1. UNCHANGED <<applied, tokens, members>>
      BY <1>7 DEF RegisterSelf, storeVars
    <2>2. CASE Commit([kind |-> "member.upsert", node |-> Seed])
      BY <1>2, <2>1, <2>2, EntryKinds, EnrollAssumption
    <2>3. CASE UNCHANGED clog
      BY <1>1, <2>1, <2>3, AgreeFrame
    <2> QED
      BY <1>7, <2>2, <2>3 DEF RegisterSelf
  <1>8. CASE Tick \/ LoseLeader \/ UNCHANGED vars
    <2>1. UNCHANGED <<clog, applied, tokens, members>>
      BY <1>8 DEF Tick, LoseLeader, vars, raftVars, storeVars
    <2> QED
      BY <1>1, <2>1, AgreeFrame
  <1> QED
    BY <1>3, <1>4, <1>5, <1>6, <1>7, <1>8 DEF Next

\* With the whole log applied, rows and members are functions of the log.
LEMMA InvImpliesAgreement == AgreementInv => CaughtUpServersAgree
  <1> SUFFICES ASSUME AgreementInv, NEW s1 \in voters, NEW s2 \in voters,
                      applied[s1] = Len(clog), applied[s2] = Len(clog)
               PROVE  tokens[s1] = tokens[s2] /\ members[s1] = members[s2]
    BY DEF CaughtUpServersAgree
  <1>1. TypeOK /\ RowsAreIssued /\ RowTracksLog
        /\ MembersTrackLog /\ MembersListed /\ NoRowNoExpiry
    BY DEF AgreementInv, EnrollInv
  <1>2. /\ s1 \in Node /\ s2 \in Node
        /\ tokens[s1] \in [Token -> TokenRow] /\ tokens[s2] \in [Token -> TokenRow]
        /\ members[s1] \subseteq Node /\ members[s2] \subseteq Node
    BY <1>1 DEF TypeOK
  <1>3. ASSUME NEW t \in Token PROVE tokens[s1][t] = tokens[s2][t]
    <2>1. tokens[s1][t] \in TokenRow /\ tokens[s2][t] \in TokenRow
      BY <1>2
    <2>2. tokens[s1][t].st = tokens[s2][t].st /\ tokens[s1][t].exp = tokens[s2][t].exp
      <3>1. CASE Issued(t)
        <4>1. PICK c \in 1..Len(clog) : IsCreate(c, t)
          BY <3>1 DEF Issued, IsCreate
        <4> QED
          BY <1>1, <1>2, <4>1 DEF RowTracksLog
      <3>2. CASE ~Issued(t)
        <4>1. tokens[s1][t].st = "none" /\ tokens[s2][t].st = "none"
          BY <1>1, <1>2, <3>2 DEF RowsAreIssued
        <4> QED
          BY <1>1, <1>2, <4>1 DEF NoRowNoExpiry
      <3> QED
        BY <3>1, <3>2
    <2> QED
      BY <2>1, <2>2 DEF TokenRow
  <1>4. ASSUME NEW n \in Node PROVE n \in members[s1] <=> n \in members[s2]
    <2>1. CASE \E i \in 1..Len(clog) : Mentioned(i, n)
      BY <1>1, <1>2, <2>1 DEF MembersTrackLog
    <2>2. CASE ~\E i \in 1..Len(clog) : Mentioned(i, n)
      BY <1>1, <1>2, <2>2 DEF MembersListed
    <2> QED
      BY <2>1, <2>2
  <1> QED
    BY <1>2, <1>3, <1>4

\* Any two servers that have applied the whole log hold the same token rows and
\* members, however often either restarted in the middle of it and applied it
\* again to the file it had (fsm.go, store.go applyTx).
THEOREM CaughtUpAgree == Spec => []CaughtUpServersAgree
  BY AgreementInit, AgreementNext, InvImpliesAgreement, PTL DEF Spec

=============================================================================
