----------------------------- MODULE PagesProofs -----------------------------
(* What the views of the web UI do with the answers of the node, proved for    *)
(* any set of names, any number of calls under way and any number of writes:   *)
(* MixNothingUp, DoOneThing and ShowTheNode.                                   *)
(*                                                                             *)
(* The argument has three parts.  The calls under way tell themselves apart,   *)
(* and while none has crossed another, what changes the node is under way      *)
(* alone (CallsInv): this is proved once, of the operators of Page that send,  *)
(* answer, refuse and end a call.  Each view then has an invariant of its own, *)
(* XInv, which relates its marks, dialogs and rows to the calls it has sent,   *)
(* with XStart, XKeep and XShow: it holds when the view is mounted, every step *)
(* of the view keeps it, and it says what the view promises.  At last, the     *)
(* view that is mounted stays mounted, so that the views hold side by side.    *)
EXTENDS SequenceTheorems, FiniteSetTheorems, TLAPS, MCPages

-----------------------------------------------------------------------------
(* Calls: what the operators of Page do to the calls under way, whichever view *)
(* uses them.                                                                  *)

\* A call under way is a record; two calls of the same wrapper and argument differ in
\* their ids.
CallOK(c) ==
    c \in [id : 1..MaxCalls, op : Endpoint, arg : {c.arg},
           at : {"sent", "ok", "failed"}, data : {c.data}]

Told(S) == \A c, d \in S : c # d /\ c.op = d.op /\ c.arg = d.arg => c.id # d.id

GoodCalls(S) == IsFiniteSet(S) /\ (\A c \in S : CallOK(c)) /\ Told(S)

\* Without crossed, what changes the node is under way alone, and calls that are
\* under way together read the same; but the pauses are read all at once.
Apart ==
    ~crossed => \A c, d \in calls :
                   c # d => /\ ~Mutates(c.op) /\ ~Mutates(d.op)
                            /\ c.arg = d.arg \/ page = "profilepause"

CallsInv ==
    /\ GoodCalls(calls) /\ Apart
    /\ writes \in 0..Writable /\ crossed \in BOOLEAN

\* A call is sent while those of rest are under way; what becomes of c.
SentOne(rest, op, arg) ==
    \E d : /\ calls' = rest \cup {d} /\ d \notin rest
           /\ d.op = op /\ d.arg = arg /\ d.at = "sent" /\ d.data = None

MovedOne(c, at, data) ==
    \E d : /\ calls' = (calls \ {c}) \cup {d} /\ d \notin calls \ {c}
           /\ d.id = c.id /\ d.op = c.op /\ d.arg = c.arg /\ d.at = at /\ d.data = data

\* There is an id left for a call while fewer than MaxCalls are under way.
LEMMA IdIsLeft ==
    ASSUME NEW rest, IsFiniteSet(rest), Cardinality(rest) < MaxCalls, NEW op, NEW arg
    PROVE  \E i \in 1..MaxCalls : \A c \in rest : c.op = op /\ c.arg = arg => c.id # i
  <1> DEFINE used == {c.id : c \in rest}
             all == 1..MaxCalls
             f == [c \in rest |-> c.id]
  <1>1. MaxCalls \in Nat \ {0}
    BY PageAssumption
  <1>2. IsFiniteSet(all) /\ Cardinality(all) = MaxCalls
    BY <1>1, FS_Interval
  <1>3. f \in Surjection(rest, used)
    BY DEF Surjection
  <1>4. IsFiniteSet(used) /\ Cardinality(used) <= Cardinality(rest)
    BY <1>3, FS_Surjection
  <1>5. SUFFICES ASSUME all \subseteq used PROVE FALSE
    OBVIOUS
  <1>6. Cardinality(all) <= Cardinality(used)
    BY <1>4, <1>5, FS_Subset
  <1>7. Cardinality(rest) \in Nat /\ Cardinality(used) \in Nat
    BY <1>4, FS_CardinalityType
  <1> QED
    BY <1>1, <1>2, <1>4, <1>6, <1>7

\* Fewer calls are as good.
LEMMA FewerAreGood ==
    ASSUME NEW S, GoodCalls(S), NEW T \in SUBSET S
    PROVE  GoodCalls(T)
  BY FS_Subset DEF GoodCalls, Told

\* What Adds makes of the calls: one more, told from the others.
LEMMA AddsOne ==
    ASSUME CallsInv, page' = page, NEW rest \in SUBSET calls, NEW op \in Endpoint, NEW arg,
           Adds(rest, op, arg)
    PROVE  SentOne(rest, op, arg) /\ GoodCalls(calls') /\ (writes \in 0..Writable)'
  <1> DEFINE Free(i) == \A c \in rest : c.op = op /\ c.arg = arg => c.id # i
             d == Call(CHOOSE i \in 1..MaxCalls : Free(i), op, arg)
  <1>1. GoodCalls(rest)
    BY FewerAreGood DEF CallsInv
  <1>2. \E i \in 1..MaxCalls : Free(i)
    BY <1>1, IdIsLeft DEF Adds, GoodCalls
  <1>3. PICK i \in 1..MaxCalls : Free(i) /\ d = Call(i, op, arg)
    <2> HIDE DEF Free
    <2> QED
      BY <1>2
  <1>4. calls' = rest \cup {d}
    BY DEF Adds
  <1> HIDE DEF d
  <1>5. /\ CallOK(d) /\ d.id = i /\ d.op = op /\ d.arg = arg /\ d.at = "sent"
        /\ d.data = None
    BY <1>3 DEF Call, CallOK
  <1>6. d \notin rest /\ Told(calls')
    BY <1>1, <1>3, <1>4, <1>5 DEF GoodCalls, Told
  <1>7. IsFiniteSet(calls')
    BY <1>1, <1>4, FS_AddElement DEF GoodCalls
  <1>8. (writes \in 0..Writable)'
    <2>1. Writable \in Nat /\ Writable' = Writable
      BY PageAssumption DEF Writable
    <2>2. writes \in 0..Writable
      BY DEF CallsInv
    <2>3. writes' = writes + (IF Mutates(op) THEN 1 ELSE 0) /\ writes' <= Writable
      BY DEF Adds
    <2> QED
      BY <2>1, <2>2, <2>3
  <1> QED
    BY <1>1, <1>4, <1>5, <1>6, <1>7, <1>8 DEF SentOne, GoodCalls

\* A call that what the view shows depends on, while those of rest are under way.
LEMMA SendsKeeps ==
    ASSUME CallsInv, page' = page, NEW rest \in SUBSET calls, NEW op \in Endpoint, NEW arg,
           Sends(rest, op, arg)
    PROVE  SentOne(rest, op, arg) /\ CallsInv'
  <1>1. SentOne(rest, op, arg) /\ GoodCalls(calls') /\ (writes \in 0..Writable)'
    BY AddsOne DEF Sends
  <1>2. crossed' = ((crossed /\ (Mutates(op) \/ rest # {})) \/ Crosses(rest, op, arg))
    BY DEF Sends
  <1>3. Apart'
    BY <1>1, <1>2 DEF SentOne, Apart, Crosses, CallsInv
  <1> QED
    BY <1>1, <1>2, <1>3 DEF CallsInv

\* One that it does not depend on.
LEMMA AddsAsideKeeps ==
    ASSUME CallsInv, page' = page, NEW rest \in SUBSET calls, NEW op \in Endpoint, NEW arg,
           AddsAside(rest, op, arg)
    PROVE  SentOne(rest, op, arg) /\ CallsInv'
  <1>1. SentOne(rest, op, arg) /\ GoodCalls(calls') /\ (writes \in 0..Writable)'
    BY AddsOne DEF AddsAside
  <1>2. crossed' = (crossed \/ Crosses(rest, op, arg))
    BY DEF AddsAside
  <1>3. Apart'
    BY <1>1, <1>2 DEF SentOne, Apart, Crosses, CallsInv
  <1> QED
    BY <1>1, <1>2, <1>3 DEF CallsInv

\* The handler that awaited c is done.
LEMMA DoneKeeps ==
    ASSUME CallsInv, page' = page, NEW c \in calls, calls' = calls \ {c}, writes' = writes,
           crossed' \in BOOLEAN, crossed => crossed'
    PROVE  CallsInv'
  <1>1. GoodCalls(calls')
    BY FewerAreGood DEF CallsInv
  <1>2. Apart'
    BY DEF Apart, CallsInv
  <1> QED
    BY <1>1, <1>2 DEF CallsInv, Writable

\* The view goes on with the same calls under way, or counts them as crossed.
LEMMA SameCallsKeep ==
    ASSUME CallsInv, page' = page, calls' = calls, writes' = writes,
           crossed' \in BOOLEAN, crossed => crossed'
    PROVE  CallsInv'
  BY DEF CallsInv, Apart, Writable

\* A call that is answered, refused or fails keeps what tells it from the others.
LEMMA MovedKeeps ==
    ASSUME CallsInv, page' = page, NEW c \in calls, NEW at \in {"sent", "ok", "failed"},
           NEW data, writes' = writes, crossed' \in BOOLEAN, crossed => crossed',
           \/ calls' = (calls \ {c}) \cup {[c EXCEPT !.at = at, !.data = data]}
           \/ calls' = (calls \ {c}) \cup {[c EXCEPT !.at = at]} /\ data = c.data
    PROVE  MovedOne(c, at, data) /\ CallsInv'
  <1> DEFINE d == [id |-> c.id, op |-> c.op, arg |-> c.arg, at |-> at, data |-> data]
  <1>1. CallOK(c) /\ GoodCalls(calls \ {c})
    BY FewerAreGood DEF CallsInv, GoodCalls
  <1>2. calls' = (calls \ {c}) \cup {d}
    <2> DEFINE R(t, e) == [id : {c.id}, op : {c.op}, arg : {c.arg}, at : {t}, data : {e}]
    <2>1. c \in R(c.at, c.data)
      BY <1>1 DEF CallOK
    <2>2. /\ [c EXCEPT !.at = at, !.data = data] \in R(at, data)
          /\ [c EXCEPT !.at = at] \in R(at, c.data)
      BY <2>1
    <2>3. \A e \in R(at, data) : e = d
      OBVIOUS
    <2> QED
      BY <2>2, <2>3
  <1>3. /\ CallOK(d) /\ d.id = c.id /\ d.op = c.op /\ d.arg = c.arg /\ d.at = at
        /\ d.data = data
    BY <1>1 DEF CallOK
  <1> HIDE DEF d
  <1>4. d \notin calls \ {c} /\ Told(calls')
    BY <1>2, <1>3 DEF CallsInv, GoodCalls, Told
  <1>5. IsFiniteSet(calls')
    BY <1>1, <1>2, FS_AddElement DEF GoodCalls
  <1>6. Apart'
    BY <1>2, <1>3, <1>4 DEF Apart, CallsInv
  <1>7. (writes \in 0..Writable)'
    BY DEF CallsInv, Writable
  <1> QED
    BY <1>1, <1>2, <1>3, <1>4, <1>5, <1>6, <1>7 DEF CallsInv, GoodCalls, MovedOne

\* A call whose state alone changes.
LEMMA MarkedCall ==
    ASSUME NEW c, CallOK(c), NEW at \in {"sent", "ok", "failed"},
           NEW d, d = [c EXCEPT !.at = at]
    PROVE  /\ CallOK(d) /\ d.id = c.id /\ d.op = c.op /\ d.arg = c.arg
           /\ d.at = at /\ d.data = c.data
  <1>1. /\ d.id = c.id /\ d.op = c.op /\ d.arg = c.arg /\ d.at = at /\ d.data = c.data
        /\ d \in [id : 1..MaxCalls, op : Endpoint, arg : {c.arg},
                  at : {"sent", "ok", "failed"}, data : {c.data}]
    BY DEF CallOK
  <1> QED
    BY <1>1 DEF CallOK

\* The node answers c.
LEMMA AnswersKeeps ==
    ASSUME CallsInv, page' = page, NEW c \in calls, NEW data, Answers(c, data)
    PROVE  MovedOne(c, "ok", data) /\ CallsInv' /\ crossed' = crossed
  BY MovedKeeps DEF Answers, CallsInv

\* It refuses c.
LEMMA RefusesKeeps ==
    ASSUME CallsInv, page' = page, NEW c \in calls, Refuses(c)
    PROVE  MovedOne(c, "failed", c.data) /\ CallsInv' /\ srv' = srv /\ crossed' = crossed
  BY MovedKeeps DEF Refuses, CallsInv

\* The call fails on its way.
LEMMA FailsKeeps ==
    ASSUME CallsInv, NEW c \in calls, Fails(c)
    PROVE  /\ MovedOne(c, "failed", None) /\ CallsInv' /\ c.at \in {"sent", "ok"}
           /\ page' = page /\ ui' = ui /\ srv' = srv
           /\ crossed' = (crossed \/ ~Mutates(c.op) \/ c.at = "ok")
  BY MovedKeeps DEF Fails, CallsInv

\* The one call of a view that is mounted.
LEMMA FirstCall ==
    ASSUME NEW op \in Endpoint, NEW arg, calls = {Call(1, op, arg)}, writes = 0,
           crossed = FALSE
    PROVE  /\ CallsInv
           /\ \A c \in calls : /\ c.op = op /\ c.arg = arg /\ c.at = "sent"
                               /\ c.data = None
  <1>1. 1 \in 1..MaxCalls /\ 0 \in 0..Writable
    BY PageAssumption DEF Writable
  <1>2. CallOK(Call(1, op, arg))
    BY <1>1 DEF CallOK, Call
  <1>3. GoodCalls(calls)
    BY <1>2, FS_Singleton DEF GoodCalls, Told
  <1>4. Apart
    BY DEF Apart
  <1>5. \A c \in calls : c.op = op /\ c.arg = arg /\ c.at = "sent" /\ c.data = None
    BY DEF Call
  <1> QED
    BY <1>1, <1>3, <1>4, <1>5 DEF CallsInv

\* The view is started anew, and asks for one thing.
LEMMA OnlyCallKeeps ==
    ASSUME CallsInv, page' = page, NEW op \in Endpoint, NEW arg,
           calls' = {Call(1, op, arg)}, writes' = writes, crossed' \in BOOLEAN
    PROVE  /\ CallsInv'
           /\ \A c \in calls' : /\ c.id = 1 /\ c.op = op /\ c.arg = arg /\ c.at = "sent"
                                /\ c.data = None
  <1>1. 1 \in 1..MaxCalls
    BY PageAssumption
  <1>2. CallOK(Call(1, op, arg))
    BY <1>1 DEF CallOK, Call
  <1>3. GoodCalls(calls')
    BY <1>2, FS_Singleton DEF GoodCalls, Told
  <1>4. Apart' /\ (writes \in 0..Writable)'
    BY DEF Apart, CallsInv, Writable
  <1>5. \A c \in calls' : /\ c.id = 1 /\ c.op = op /\ c.arg = arg /\ c.at = "sent"
                          /\ c.data = None
    BY DEF Call
  <1> QED
    BY <1>3, <1>4, <1>5 DEF CallsInv

\* Calls become f of themselves at once and keep what tells them from each other.
LEMMA MappedKeep ==
    ASSUME CallsInv, page' = page, writes' = writes, crossed' \in BOOLEAN,
           crossed => crossed',
           NEW f, f = [c \in calls |-> f[c]], calls' = {f[c] : c \in calls},
           \A c \in calls : /\ CallOK(f[c])
                            /\ f[c].id = c.id /\ f[c].op = c.op /\ f[c].arg = c.arg
    PROVE  CallsInv'
  <1>1. IsFiniteSet(calls')
    <2>1. f \in Surjection(calls, calls')
      BY DEF Surjection
    <2> QED
      BY <2>1, FS_Surjection DEF CallsInv, GoodCalls
  <1>2. GoodCalls(calls') /\ Apart'
    BY <1>1 DEF CallsInv, GoodCalls, Told, Apart
  <1> QED
    BY <1>2 DEF CallsInv, Writable

\* At most one is what a cardinality of at most one says.
LEMMA AtMostOne ==
    ASSUME NEW S, IsFiniteSet(S), \A c, d \in S : c = d
    PROVE  Cardinality(S) = (IF S = {} THEN 0 ELSE 1)
  <1>1. CASE S = {}
    BY <1>1, FS_EmptySet
  <1>2. CASE S # {}
    <2>1. PICK x : S = {x}
      BY <1>2
    <2> QED
      BY <2>1, FS_Singleton
  <1> QED
    BY <1>1, <1>2

\* Good calls are typed ones.
LEMMA InvTypesCalls == CallsInv => TypedCalls
  BY DEF CallsInv, GoodCalls, CallOK, Told, TypedCalls, CallShape

\* Calls of one wrapper are finitely many.
LEMMA PendingFinite ==
    ASSUME CallsInv, NEW op
    PROVE  IsFiniteSet(Pending(op))
  BY FS_Subset DEF CallsInv, GoodCalls, Pending

-----------------------------------------------------------------------------
(* Rows with ids: the node.                                                    *)

RowStore == [rows : [Item -> Value \cup {None}], used : SUBSET Item]
StoreInv == srv \in RowStore /\ Ids(srv.rows) \subseteq srv.used

\* A view is mounted over one row.
LEMMA FirstStore == srv \in OneRow => StoreInv
  BY PageAssumption DEF OneRow, StoreInv, RowStore, NoRows, Ids, Value

\* The store of the invariant is of the type the views state.
LEMMA StoreTyped == StoreInv => StoreType
  BY DEF StoreInv, RowStore, StoreType, RowsType

\* What the node did when it answered c, which lists, creates, updates or deletes.
ListedRows(c) ==
    MovedOne(c, "ok", [rows |-> srv.rows]) /\ srv' = srv
MadeRow(c) ==
    \E i \in Item \ srv.used :
       /\ srv'.rows = [srv.rows EXCEPT ![i] = c.arg.value] /\ i \in srv'.used
       /\ MovedOne(c, "ok", [id |-> i, value |-> c.arg.value])
MissedRow(c) ==
    c.arg.id \notin Ids(srv.rows) /\ MovedOne(c, "failed", c.data) /\ srv' = srv
WroteRow(c) ==
    /\ c.arg.id \in Ids(srv.rows)
    /\ srv'.rows = [srv.rows EXCEPT ![c.arg.id] = c.arg.value]
    /\ MovedOne(c, "ok", [id |-> c.arg.id, value |-> c.arg.value])
CutRow(c) ==
    /\ c.arg.id \in Ids(srv.rows)
    /\ srv'.rows = [srv.rows EXCEPT ![c.arg.id] = None]
    /\ MovedOne(c, "ok", None)

ServedOne(c, list, create, update, delete) ==
    \/ c.op \in list /\ ListedRows(c)
    \/ c.op \in create /\ MadeRow(c)
    \/ c.op \in update \cup delete /\ MissedRow(c)
    \/ c.op \in update /\ WroteRow(c)
    \/ c.op \in delete /\ CutRow(c)

\* The node answers a call about rows, and its store stays one.
LEMMA ServesRowsKeeps ==
    ASSUME CallsInv, StoreInv, NEW c \in calls,
           NEW list, NEW create, NEW update, NEW delete,
           c.op \in create \cup update => c.arg.value \in Value,
           ServesRows(c, list, create, update, delete)
    PROVE  /\ CallsInv' /\ StoreInv' /\ page' = page /\ ui' = ui /\ crossed' = crossed
           /\ srv.used \subseteq srv'.used /\ c.at = "sent"
           /\ ServedOne(c, list, create, update, delete)
  <1> USE DEF ServedOne, ListedRows, MadeRow, MissedRow, WroteRow, CutRow
  <1>0. /\ page' = page /\ ui' = ui /\ c.at = "sent" /\ None \notin Value
        /\ srv \in RowStore /\ Ids(srv.rows) \subseteq srv.used
    BY PageAssumption DEF ServesRows, StoreInv
  <1>1. CASE c.op \in list /\ Answers(c, [rows |-> srv.rows]) /\ UNCHANGED srv
    BY <1>0, <1>1, AnswersKeeps DEF StoreInv
  <1>2. CASE /\ c.op \in create
             /\ \E i \in Item \ srv.used :
                   /\ srv' = [rows |-> [srv.rows EXCEPT ![i] = c.arg.value],
                              used |-> srv.used \cup {i}]
                   /\ Answers(c, [id |-> i, value |-> c.arg.value])
    <2>1. PICK i \in Item \ srv.used :
                   /\ srv' = [rows |-> [srv.rows EXCEPT ![i] = c.arg.value],
                              used |-> srv.used \cup {i}]
                   /\ Answers(c, [id |-> i, value |-> c.arg.value])
      BY <1>2
    <2>2. /\ CallsInv' /\ crossed' = crossed
          /\ MovedOne(c, "ok", [id |-> i, value |-> c.arg.value])
      BY <1>0, <2>1, AnswersKeeps
    <2>3. StoreInv' /\ srv.used \subseteq srv'.used /\ i \in srv'.used
      BY <1>0, <1>2, <2>1 DEF StoreInv, RowStore, Ids
    <2> QED
      BY <1>0, <1>2, <2>1, <2>2, <2>3
  <1>3. CASE c.op \in update \cup delete /\ c.arg.id \notin Ids(srv.rows) /\ Refuses(c)
    BY <1>0, <1>3, RefusesKeeps DEF StoreInv
  <1>4. CASE /\ c.op \in update /\ c.arg.id \in Ids(srv.rows)
             /\ srv' = [srv EXCEPT !.rows[c.arg.id] = c.arg.value]
             /\ Answers(c, [id |-> c.arg.id, value |-> c.arg.value])
    <2>1. /\ srv' = [srv EXCEPT !.rows = [srv.rows EXCEPT ![c.arg.id] = c.arg.value]]
          /\ c.arg.id \in Item
      BY <1>4 DEF Ids
    <2>2. /\ CallsInv' /\ crossed' = crossed
          /\ MovedOne(c, "ok", [id |-> c.arg.id, value |-> c.arg.value])
      BY <1>0, <1>4, AnswersKeeps
    <2>3. /\ srv'.rows = [srv.rows EXCEPT ![c.arg.id] = c.arg.value] /\ srv'.used = srv.used
          /\ srv' \in RowStore
      BY <1>0, <1>4, <2>1 DEF RowStore
    <2>4. Ids(srv'.rows) \subseteq srv'.used
      BY <1>0, <1>4, <2>1, <2>3 DEF RowStore, Ids
    <2> QED
      BY <1>0, <1>4, <2>2, <2>3, <2>4 DEF StoreInv
  <1>5. CASE /\ c.op \in delete /\ c.arg.id \in Ids(srv.rows)
             /\ srv' = [srv EXCEPT !.rows[c.arg.id] = None] /\ Answers(c, None)
    <2>1. /\ srv' = [srv EXCEPT !.rows = [srv.rows EXCEPT ![c.arg.id] = None]]
          /\ c.arg.id \in Item
      BY <1>5 DEF Ids
    <2>2. CallsInv' /\ crossed' = crossed /\ MovedOne(c, "ok", None)
      BY <1>0, <1>5, AnswersKeeps
    <2>3. /\ srv'.rows = [srv.rows EXCEPT ![c.arg.id] = None] /\ srv'.used = srv.used
          /\ srv' \in RowStore
      BY <1>0, <2>1 DEF RowStore
    <2>4. Ids(srv'.rows) \subseteq srv'.used
      BY <1>0, <2>1, <2>3 DEF RowStore, Ids
    <2> QED
      BY <1>0, <1>5, <2>2, <2>3, <2>4 DEF StoreInv
  <1> QED
    BY <1>1, <1>2, <1>3, <1>4, <1>5 DEF ServesRows


\* Whatever the node did, c is answered or refused; only what changes the node and is
\* answered changed it.
LEMMA ServedMoves ==
    ASSUME NEW c, NEW list, NEW create, NEW update, NEW delete,
           ServedOne(c, list, create, update, delete)
    PROVE  \E at, data :
              /\ MovedOne(c, at, data)
              /\ \/ c.op \in list /\ at = "ok" /\ data = [rows |-> srv.rows] /\ srv' = srv
                 \/ /\ c.op \in create \cup update \cup delete /\ at \in {"ok", "failed"}
                    /\ at = "failed" => srv' = srv
  <1>1. CASE c.op \in list /\ ListedRows(c)
    BY <1>1 DEF ListedRows
  <1>2. CASE c.op \in create /\ MadeRow(c)
    BY <1>2 DEF MadeRow
  <1>3. CASE c.op \in update \cup delete /\ MissedRow(c)
    BY <1>3 DEF MissedRow
  <1>4. CASE c.op \in update /\ WroteRow(c)
    BY <1>4 DEF WroteRow
  <1>5. CASE c.op \in delete /\ CutRow(c)
    BY <1>5 DEF CutRow
  <1> QED
    BY <1>1, <1>2, <1>3, <1>4, <1>5 DEF ServedOne

\* A call that is sent without crossing is under way alone, or reads what those it is
\* under way with read.
LEMMA SendsAlone ==
    ASSUME NEW rest, NEW op, NEW arg, Sends(rest, op, arg)
    PROVE  /\ ~crossed' => \/ rest = {} /\ (Mutates(op) => ~crossed)
                           \/ /\ ~crossed /\ ~Mutates(op)
                              /\ \A e \in rest : ~Mutates(e.op) /\ e.arg = arg
           /\ Mutates(op) /\ ~crossed' => rest = {} /\ ~crossed
  BY DEF Sends, Crosses
-----------------------------------------------------------------------------
(* Sequences: what the views make of the lists they show.                      *)

\* The n-th member of a finite set of numbers is one of them, and each is the n-th for
\* one n.
LEMMA AscendingIs ==
    ASSUME NEW S \in SUBSET Nat, IsFiniteSet(S)
    PROVE  /\ Cardinality(S) \in Nat
           /\ Ascending(S) \in [1..Cardinality(S) -> S]
           /\ \A n \in 1..Cardinality(S) : Cardinality({m \in S : m <= Ascending(S)[n]}) = n
           /\ \A m, n \in 1..Cardinality(S) : Ascending(S)[m] = Ascending(S)[n] => m = n
           /\ \A k \in S : \E n \in 1..Cardinality(S) : Ascending(S)[n] = k
  <1> DEFINE upTo(k) == {m \in S : m <= k}
             all == 1..Cardinality(S)
             rank == [k \in S |-> Cardinality(upTo(k))]
  <1>1. Cardinality(S) \in Nat /\ IsFiniteSet(all) /\ Cardinality(all) = Cardinality(S)
    BY FS_CardinalityType, FS_Interval
  <1>2. \A k \in S : IsFiniteSet(upTo(k)) /\ Cardinality(upTo(k)) \in all
    <2> SUFFICES ASSUME NEW k \in S
                 PROVE  IsFiniteSet(upTo(k)) /\ Cardinality(upTo(k)) \in all
      OBVIOUS
    <2>1. upTo(k) \in SUBSET S /\ k \in upTo(k)
      OBVIOUS
    <2> HIDE DEF upTo
    <2>2. IsFiniteSet(upTo(k)) /\ Cardinality(upTo(k)) <= Cardinality(S)
      BY <2>1, FS_Subset
    <2>3. Cardinality(upTo(k)) \in Nat /\ Cardinality(upTo(k)) # 0
      BY <2>1, <2>2, FS_CardinalityType, FS_EmptySet
    <2> QED
      BY <1>1, <2>2, <2>3
  <1>3. \A k, l \in S : k < l => Cardinality(upTo(k)) # Cardinality(upTo(l))
    <2> SUFFICES ASSUME NEW k \in S, NEW l \in S, k < l
                 PROVE  Cardinality(upTo(k)) # Cardinality(upTo(l))
      OBVIOUS
    <2>0. k \in Nat /\ l \in Nat /\ \A m \in S : m \in Nat
      OBVIOUS
    <2>1. \A m \in S : m <= k => m <= l
      BY <2>0
    <2>2. l <= l /\ ~(l <= k)
      BY <2>0
    <2>3. upTo(k) \in SUBSET upTo(l) /\ l \in upTo(l) /\ l \notin upTo(k)
      BY <2>1, <2>2
    <2> HIDE DEF upTo
    <2> QED
      BY <1>2, <2>3, FS_Subset
  <1>4. rank \in Injection(S, all)
    <2>1. rank \in [S -> all]
      BY <1>2
    <2>2. \A k, l \in S : k # l => k < l \/ l < k
      OBVIOUS
    <2>3. \A k, l \in S : rank[k] = rank[l] => k = l
      <3> HIDE DEF upTo
      <3> QED
        BY <1>3, <2>2
    <2> HIDE DEF rank, all
    <2> QED
      BY <2>1, <2>3 DEF Injection, IsInjective
  <1>5. \A n \in all : \E k \in S : rank[k] = n
    <2> HIDE DEF rank, all
    <2>1. rank \in Surjection(S, all)
      BY <1>1, <1>4, FS_Injection
    <2> QED
      BY <2>1 DEF Surjection
  <1>6. \A n \in all : Ascending(S)[n] \in S /\ rank[Ascending(S)[n]] = n
    BY <1>5 DEF Ascending
  <1>7. Ascending(S) \in [all -> S]
    BY <1>6 DEF Ascending
  <1>8. \A k \in S : rank[k] \in all /\ \A l \in S : rank[l] = rank[k] => l = k
    BY <1>4 DEF Injection, IsInjective
  <1>9. \A n \in all : Cardinality({m \in S : m <= Ascending(S)[n]}) = n
    <2> TAKE n \in all
    <2> DEFINE k == Ascending(S)[n]
    <2>1. k \in S /\ rank[k] = n
      BY <1>6
    <2> HIDE DEF k
    <2>2. Cardinality({m \in S : m <= k}) = n
      BY <2>1
    <2> QED
      BY <2>2 DEF k
  <1> HIDE DEF rank
  <1> QED
    BY <1>1, <1>6, <1>7, <1>8, <1>9

\* The entries that s, of n entries, has at some places and no others.
OfPlaces(t, n, s, places) ==
    \E m \in 0..n :
       /\ DOMAIN t = 1..m /\ t = [i \in 1..m |-> t[i]]
       /\ \A i \in 1..m : \E k \in places : t[i] = s[k]
       /\ \A k \in places : \E i \in 1..m : t[i] = s[k]
       /\ \A i, j \in 1..m : i # j =>
             \E k, l \in places : k # l /\ t[i] = s[k] /\ t[j] = s[l]
       /\ \A k, l \in places : k # l =>
             \E i, j \in 1..m : i # j /\ t[i] = s[k] /\ t[j] = s[l]

\* Kept has them.
LEMMA KeptIs ==
    ASSUME NEW n \in Nat, NEW s, DOMAIN s = 1..n, NEW places \in SUBSET (1..n)
    PROVE  OfPlaces(Kept(s, places), n, s, places)
  <1>1. IsFiniteSet(1..n) /\ Cardinality(1..n) = n
    BY FS_Interval
  <1>2. IsFiniteSet(places) /\ Cardinality(places) <= n /\ places \in SUBSET Nat
    <2> DEFINE all == 1..n
    <2>1. IsFiniteSet(all) /\ Cardinality(all) = n /\ places \in SUBSET all
      BY <1>1
    <2>2. places \in SUBSET Nat
      OBVIOUS
    <2> HIDE DEF all
    <2> QED
      BY <2>1, <2>2, FS_Subset
  <1> DEFINE m == Cardinality(places)
             f == Ascending(places)
  <1>3. /\ m \in 0..n /\ f \in [1..m -> places]
        /\ \A i, j \in 1..m : f[i] = f[j] => i = j
        /\ \A k \in places : \E i \in 1..m : f[i] = k
    BY <1>2, AscendingIs
  <1>4. Kept(s, places) = [i \in 1..m |-> s[f[i]]]
    BY DEF Kept
  <1> HIDE DEF m, f
  <1> DEFINE t == Kept(s, places)
  <1>5. DOMAIN t = 1..m /\ t = [i \in 1..m |-> t[i]] /\ \A i \in 1..m : t[i] = s[f[i]]
    BY <1>4
  <1>6. \A k, l \in places : k # l => \E i, j \in 1..m : i # j /\ t[i] = s[k] /\ t[j] = s[l]
    <2> HIDE DEF t
    <2> QED
      BY <1>3, <1>5
  <1> HIDE DEF t
  <1>7. \A i \in 1..m : \E k \in places : t[i] = s[k]
    BY <1>3, <1>5
  <1>8. \A k \in places : \E i \in 1..m : t[i] = s[k]
    BY <1>3, <1>5
  <1>9. \A i, j \in 1..m : i # j => \E k, l \in places : k # l /\ t[i] = s[k] /\ t[j] = s[l]
    BY <1>3, <1>5
  <1>10. OfPlaces(t, n, s, places)
    BY <1>3, <1>5, <1>6, <1>7, <1>8, <1>9 DEF OfPlaces
  <1> QED
    BY <1>10 DEF t

\* A sequence that a set is put into has each of its members once.
LEMMA SetToSeqIs ==
    ASSUME NEW S, IsFiniteSet(S)
    PROVE  /\ Cardinality(S) \in Nat /\ SetToSeq(S) \in [1..Cardinality(S) -> S]
           /\ \A k, l \in 1..Cardinality(S) : SetToSeq(S)[k] = SetToSeq(S)[l] => k = l
           /\ \A i \in S : \E k \in 1..Cardinality(S) : SetToSeq(S)[k] = i
  <1> DEFINE n == Cardinality(S)
             all == 1..n
             f == SetToSeq(S)
  <1>1. n \in Nat /\ ExistsBijection(all, S)
    BY FS_CardinalityType
  <1>2. \E g \in [all -> S] : IsInjective(g)
    BY <1>1 DEF ExistsBijection, Bijection, Injection
  <1>3. f \in [all -> S] /\ IsInjective(f)
    BY <1>2 DEF SetToSeq
  <1>4. IsFiniteSet(all) /\ Cardinality(all) = n
    BY <1>1, FS_Interval
  <1>5. f \in Injection(all, S)
    BY <1>3 DEF Injection
  <1> HIDE DEF f, n, all
  <1>6. Cardinality(all) = Cardinality(S)
    BY <1>4 DEF n
  <1>7. f \in Surjection(all, S)
    BY <1>5, <1>6, FS_Injection
  <1>8. \A i \in S : \E k \in all : f[k] = i
    BY <1>7 DEF Surjection
  <1>9. \A k, l \in all : f[k] = f[l] => k = l
    BY <1>3 DEF IsInjective
  <1> QED
    BY <1>1, <1>3, <1>8, <1>9 DEF f, all, n
-----------------------------------------------------------------------------
(* The tester.                                                                 *)

TestDomainUi ==
    [domain : DomainField, profiles : BOOLEAN, result : TestDomainResponse \cup {None},
     loading : BOOLEAN, error : BOOLEAN]

\* The test under way is the only one, and nothing else is shown meanwhile.
TestDomainCall(c) ==
    \/ c.op = "listProfiles"
    \/ /\ c.op = "testDomain" /\ c.arg \in [domain : Value]
       /\ c.at = "ok" => c.data \in TestDomainResponse
       /\ ui.loading /\ ~ui.error /\ ui.result = None

TestDomainInv ==
    /\ page = "testdomain" /\ CallsInv /\ ui \in TestDomainUi
    /\ \A c \in calls : TestDomainCall(c)
    /\ \A c, d \in Pending("testDomain") : c = d
    /\ ui.error => ui.result = None

\* Nothing was asked yet.
LEMMA TestDomainStart == TestDomainInit => TestDomainInv
  <1> SUFFICES ASSUME TestDomainInit PROVE TestDomainInv
    OBVIOUS
  <1>1. CallsInv
    BY FirstCall DEF TestDomainInit, Endpoint, Reads, ConfigurationCalls
  <1>2. \A c \in calls : c.op = "listProfiles"
    BY DEF TestDomainInit, Call
  <1>3. ui \in TestDomainUi /\ ~ui.error /\ page = "testdomain"
    BY DEF TestDomainInit, TestDomainUi, DomainField
  <1> QED
    BY <1>1, <1>2, <1>3 DEF TestDomainInv, TestDomainCall, Pending

\* Every step of the view and of the node keeps it.
LEMMA TestDomainKeep == TestDomainInv /\ TestDomainNext => TestDomainInv'
  <1> SUFFICES ASSUME TestDomainInv, TestDomainNext PROVE TestDomainInv'
    OBVIOUS
  <1> USE DEF TestDomainInv
  <1>1. ASSUME NEW v \in DomainField, TestDomainType(v) PROVE TestDomainInv'
    <2>1. CallsInv' /\ calls' = calls /\ page' = page
      BY <1>1, SameCallsKeep DEF TestDomainType, Local, CallsInv
    <2>2. ui' \in TestDomainUi /\ ui' = [ui EXCEPT !.domain = v]
      BY <1>1 DEF TestDomainType, TestDomainUi
    <2> QED
      BY <2>1, <2>2 DEF TestDomainCall, TestDomainUi, Pending
  <1>2. CASE Submit
    <2>1. /\ page' = page /\ ui.domain \in Value /\ ~ui.loading
          /\ Sends(calls, "testDomain", [domain |-> ui.domain])
      BY <1>2 DEF Submit, TestDomainTestOffered, Asks, DomainField, TestDomainUi
    <2>2. SentOne(calls, "testDomain", [domain |-> ui.domain]) /\ CallsInv'
      BY <2>1, SendsKeeps DEF Endpoint, Changes, ClientAndAuditCalls
    <2>3. /\ ui' = [ui EXCEPT !.error = FALSE, !.result = None, !.loading = TRUE]
          /\ ui' \in TestDomainUi
      BY <1>2 DEF Submit, TestDomainUi
    <2>4. \A c \in calls : c.op = "listProfiles"
      BY <2>1 DEF TestDomainCall
    <2> QED
      BY <2>1, <2>2, <2>3, <2>4 DEF TestDomainCall, TestDomainUi, Pending, SentOne
  <1>3. ASSUME NEW c \in calls, TestDomainMounted(c) PROVE TestDomainInv'
    <2>1. CallsInv' /\ calls' = calls \ {c} /\ page' = page
      BY <1>3, DoneKeeps DEF TestDomainMounted, Done, CallsInv
    <2>2. ui' \in TestDomainUi /\ ui' = [ui EXCEPT !.profiles = (c.at = "ok")]
      BY <1>3 DEF TestDomainMounted, TestDomainUi
    <2> QED
      BY <2>1, <2>2 DEF TestDomainCall, TestDomainUi, Pending
  <1>4. ASSUME NEW c \in calls, Tested(c) PROVE TestDomainInv'
    <2>1. CallsInv' /\ calls' = calls \ {c} /\ page' = page /\ c \in Pending("testDomain")
      BY <1>4, DoneKeeps DEF Tested, Done, CallsInv, Pending, Ended, Ok, Failed
    <2>a. c.at = "ok" => c.data \in TestDomainResponse \cup {None}
      BY <2>1 DEF TestDomainCall, Pending
    <2>b. ui.result \in TestDomainResponse \cup {None}
      BY DEF TestDomainUi
    <2>2. /\ ui' \in TestDomainUi
          /\ ui' = [ui EXCEPT !.loading = FALSE, !.error = (c.at = "failed"),
                              !.result = IF c.at = "ok" THEN c.data ELSE ui.result]
      <3> DEFINE r == IF c.at = "ok" THEN c.data ELSE ui.result
      <3>1. r \in TestDomainResponse \cup {None}
        BY <2>a, <2>b
      <3>2. ui' = [ui EXCEPT !.loading = FALSE, !.error = (c.at = "failed"), !.result = r]
        BY <1>4 DEF Tested
      <3> HIDE DEF r
      <3>3. ui' \in TestDomainUi
        BY <3>1, <3>2 DEF TestDomainUi
      <3> QED
        BY <3>2, <3>3 DEF r
    <2>3. \A d \in calls' : d.op = "listProfiles"
      BY <2>1 DEF Pending, TestDomainCall
    <2> QED
      BY <2>1, <2>2, <2>3 DEF TestDomainCall, TestDomainUi, Pending
  <1>5. ASSUME NEW c \in calls, TestDomainServes(c) PROVE TestDomainInv'
    <2>1. /\ page' = page /\ ui' = ui
          /\ \/ MovedOne(c, "ok", None) /\ CallsInv' /\ c.op = "listProfiles"
             \/ /\ c.op = "testDomain" /\ CallsInv'
                /\ \E r \in Reasons :
                      MovedOne(c, "ok", [domain |-> c.arg.domain, reason |-> r])
             \/ c.op = "testDomain" /\ MovedOne(c, "failed", c.data) /\ CallsInv'
      BY <1>5, AnswersKeeps, RefusesKeeps DEF TestDomainServes
    <2>2. \A r \in Reasons : c.op = "testDomain" =>
             [domain |-> c.arg.domain, reason |-> r] \in TestDomainResponse
      BY DEF TestDomainCall, TestDomainResponse
    <2> QED
      BY <2>1, <2>2 DEF MovedOne, TestDomainCall, Pending
  <1>6. ASSUME NEW c \in calls, Fails(c) PROVE TestDomainInv'
    BY <1>6, FailsKeeps DEF MovedOne, TestDomainCall, Pending
  <1> QED
    BY <1>1, <1>2, <1>3, <1>4, <1>5, <1>6 DEF TestDomainNext

\* What the run checks of this view.
LEMMA TestDomainShow ==
    ASSUME TestDomainInv
    PROVE  TestDomainTypeOK /\ OneOutcome
  <1> USE DEF TestDomainInv
  <1>1. TypedCalls
    BY InvTypesCalls
  <1>2. TestDomainTypeOK
    BY <1>1 DEF TestDomainTypeOK, TestDomainUi
  <1>3. Cardinality(Pending("testDomain")) <= 1
    BY PendingFinite, AtMostOne
  <1> QED
    BY <1>2, <1>3 DEF OneOutcome, Pending, TestDomainCall

-----------------------------------------------------------------------------
(* The API tokens.                                                             *)

TokensUi ==
    [rows : [Item -> APIToken \cup {None}], deleteTarget : Item \cup {None},
     renameTarget : Item \cup {None}, minted : Item \cup {None},
     loading : BOOLEAN, showCreate : BOOLEAN, creating : BOOLEAN,
     renaming : BOOLEAN, deleting : BOOLEAN]

\* What a call carries, and its answer.
TokensCall(c) ==
    \/ /\ c.op = "listTokens" /\ c.arg = None
       /\ c.at = "ok" => c.data.rows \in [Item -> APIToken \cup {None}]
                         /\ Ids(c.data.rows) \subseteq srv.used
    \/ /\ c.op = "createToken" /\ c.arg.value \in Value
       /\ c.at = "ok" => c.data.id \in srv.used \cap Item /\ c.data.value \in Value
    \/ /\ c.op = "renameToken" /\ c.arg.value \in Value
       /\ c.at = "ok" => c.data.id \in Item /\ c.data.value \in Value
    \/ c.op = "deleteToken" /\ c.arg.id \in Item /\ ui.deleting

\* What is listed or in a dialog was made by the node.
TokensTyped ==
    /\ page = "tokens" /\ CallsInv /\ StoreInv /\ ui \in TokensUi
    /\ \A c \in calls : TokensCall(c)
    /\ \A c, d \in Pending("deleteToken") : c = d
    /\ Ids(ui.rows) \cup ({ui.deleteTarget} \ {None}) \subseteq srv.used
    /\ ui.minted # None => ~ui.showCreate

\* How far the list is from what the node stores, while nothing crosses.
TokensLead(c) ==
    /\ c.op = "listTokens" => c.at # "failed" /\ (c.at = "ok" => c.data.rows = srv.rows)
    /\ c.op # "listTokens" /\ c.at # "ok" => ui.rows = srv.rows
    /\ c.op = "createToken" /\ c.at = "ok" =>
          /\ srv.rows = [ui.rows EXCEPT ![c.data.id] = c.data.value]
          /\ c.data.id # ui.deleteTarget /\ c.data.id \notin Ids(ui.rows)
    /\ c.op = "renameToken" /\ c.at = "ok" =>
          /\ srv.rows = [ui.rows EXCEPT ![c.data.id] = c.data.value]
          /\ c.data.id \in Ids(ui.rows)
    /\ c.op = "deleteToken" => c.arg.id = ui.deleteTarget
    /\ c.op = "deleteToken" /\ c.at = "ok" => srv.rows = [ui.rows EXCEPT ![c.arg.id] = None]

TokensLeads ==
    ~crossed => /\ \A c \in calls : TokensLead(c)
                /\ calls = {} => ui.rows = srv.rows

\* A secret is shown over the list that has its token.
TokensMinted ==
    ~crossed /\ ui.minted # None =>
        /\ ui.minted \in Ids(ui.rows) /\ ui.minted # ui.deleteTarget
        /\ \A c \in calls : c.op \in {"renameToken", "deleteToken"}

TokensInv == TokensTyped /\ TokensLeads /\ TokensMinted

\* The calls of the view; only the list leaves the tokens as they are.
LEMMA TokensOps ==
    /\ {"listTokens", "createToken", "renameToken", "deleteToken"} \subseteq Endpoint
    /\ ~Mutates("listTokens") /\ Mutates("createToken") /\ Mutates("renameToken")
    /\ Mutates("deleteToken")
  BY DEF Endpoint, Mutates, Reads, Changes, AccountAndListCalls, ConfigurationCalls,
         ClientAndAuditCalls, PauseAndWebhookCalls, TokenAndDeviceCalls, OtherCalls

\* The list is asked for, nothing is listed yet.
LEMMA TokensStart == TokensInit => TokensInv
  <1> SUFFICES ASSUME TokensInit PROVE TokensInv
    OBVIOUS
  <1>1. /\ CallsInv
        /\ \A c \in calls : c.op = "listTokens" /\ c.arg = None /\ c.at = "sent"
    BY FirstCall, TokensOps DEF TokensInit
  <1>2. StoreInv /\ calls # {}
    BY FirstStore DEF TokensInit
  <1>3. /\ page = "tokens" /\ ui \in TokensUi /\ Ids(ui.rows) = {} /\ ui.deleteTarget = None
        /\ ui.minted = None
    BY DEF TokensInit, TokensUi, NoRows, Ids
  <1>4. TokensTyped
    BY <1>1, <1>2, <1>3 DEF TokensTyped, TokensCall, Pending
  <1>5. TokensLeads /\ TokensMinted
    BY <1>1, <1>2, <1>3 DEF TokensLeads, TokensLead, TokensMinted
  <1> QED
    BY <1>4, <1>5 DEF TokensInv

\* Every step of the view and of the node keeps it.
LEMMA TokensKeep == TokensInv /\ TokensNext => TokensInv'
  <1> SUFFICES ASSUME TokensInv, TokensNext PROVE TokensInv'
    OBVIOUS
  <1>0. /\ TokensTyped /\ TokensLeads /\ TokensMinted /\ None \notin Value
        /\ page = "tokens" /\ CallsInv /\ StoreInv /\ ui \in TokensUi /\ None \notin Item
        /\ Apart
    BY PageAssumption DEF TokensInv, TokensTyped, CallsInv
  <1> USE DEF TokensTyped, TokensCall, TokensLeads, TokensLead, TokensMinted
  <1>1. ASSUME NEW i \in Item, OpenRename(i) PROVE TokensInv'
    <2>1. CallsInv' /\ calls' = calls /\ page' = page /\ srv' = srv /\ crossed' = crossed
      BY <1>0, <1>1, SameCallsKeep DEF OpenRename, Local, CallsInv
    <2>2. ui' \in TokensUi /\ ui' = [ui EXCEPT !.renameTarget = i]
      BY <1>0, <1>1 DEF OpenRename, TokensUi
    <2>3. ui'.rows = ui.rows /\ ui'.deleteTarget = ui.deleteTarget /\ ui'.minted = ui.minted
          /\ ui'.deleting = ui.deleting /\ ui'.showCreate = ui.showCreate
      BY <1>0, <2>2 DEF TokensUi
    <2> QED
      BY <1>0, <2>1, <2>2, <2>3 DEF TokensInv, StoreInv, Pending
  <1>2. ASSUME NEW i \in Item, TokensConfirmDelete(i) PROVE TokensInv'
    <2>1. CallsInv' /\ calls' = calls /\ page' = page /\ srv' = srv /\ crossed' = crossed
      BY <1>0, <1>2, SameCallsKeep DEF TokensConfirmDelete, Local, CallsInv
    <2>2. /\ ui' \in TokensUi /\ ui' = [ui EXCEPT !.deleteTarget = i]
          /\ i \in Ids(ui.rows) /\ ui.minted = None /\ ui.deleteTarget = None
      BY <1>0, <1>2 DEF TokensConfirmDelete, TokensUi, TokensRows, TokensCovered
    <2>3. ui'.rows = ui.rows /\ ui'.deleteTarget = i /\ ui'.minted = None
          /\ ui'.deleting = ui.deleting
      BY <1>0, <2>2 DEF TokensUi
    <2> QED
      BY <1>0, <2>1, <2>2, <2>3 DEF TokensInv, StoreInv, Pending
  <1>3. CASE TokensRefresh
    <2>1. ui.minted = None /\ page' = page /\ srv' = srv /\ Sends(calls, "listTokens", None)
      BY <1>3 DEF TokensRefresh, TokensRefreshOffered, TokensCovered, Asks
    <2>2. CallsInv' /\ SentOne(calls, "listTokens", None)
      BY <1>0, <2>1, SendsKeeps, TokensOps
    <2>3. ui' = [ui EXCEPT !.loading = TRUE] /\ ui' \in TokensUi
      BY <1>0, <1>3 DEF TokensRefresh, TokensUi
    <2>4. ui'.rows = ui.rows /\ ui'.deleteTarget = ui.deleteTarget /\ ui'.minted = None
          /\ ui'.deleting = ui.deleting
      BY <1>0, <2>1, <2>3 DEF TokensUi
    <2>5. ~crossed' => calls = {} \/ (~crossed /\ \A c \in calls : c.op = "listTokens")
      BY <1>0, <2>1, TokensOps DEF Sends, Crosses
    <2> QED
      BY <1>0, <2>1, <2>2, <2>3, <2>4, <2>5 DEF TokensInv, StoreInv, SentOne, Pending
  <1>4. CASE TokensOpenCreate
    <2>1. CallsInv' /\ calls' = calls /\ page' = page /\ srv' = srv /\ crossed' = crossed
      BY <1>0, <1>4, SameCallsKeep DEF TokensOpenCreate, Local, CallsInv
    <2>2. ui' \in TokensUi /\ ui' = [ui EXCEPT !.showCreate = TRUE]
      BY <1>0, <1>4 DEF TokensOpenCreate, TokensUi
    <2>3. /\ ui'.rows = ui.rows /\ ui'.deleteTarget = ui.deleteTarget
          /\ ui'.minted = None /\ ui.minted = None /\ ui'.deleting = ui.deleting
      BY <1>0, <1>4, <2>2 DEF TokensUi, TokensOpenCreate, TokensCovered
    <2>4. TokensTyped'
      BY <1>0, <2>1, <2>2, <2>3 DEF StoreInv, Pending
    <2>5. TokensLeads' /\ TokensMinted'
      BY <1>0, <2>1, <2>3
    <2> QED
      BY <2>4, <2>5 DEF TokensInv
  <1>5. CASE TokensSubmitCreate
    <2>1. PICK v \in Value : Sends(calls, "createToken", [value |-> v])
      BY <1>5 DEF TokensSubmitCreate, Asks, APIToken
    <2>2. page' = page /\ srv' = srv /\ ui' = [ui EXCEPT !.creating = TRUE] /\ ui.showCreate
      BY <1>5 DEF TokensSubmitCreate, TokensCreateOffered
    <2>3. CallsInv' /\ SentOne(calls, "createToken", [value |-> v])
      BY <1>0, <2>1, <2>2, SendsKeeps, TokensOps
    <2>4. /\ ui' \in TokensUi /\ ui'.rows = ui.rows /\ ui'.deleteTarget = ui.deleteTarget
          /\ ui'.minted = None /\ ui'.deleting = ui.deleting
      BY <1>0, <2>2 DEF TokensUi
    <2>5. ~crossed' => calls = {} /\ ~crossed
      BY <1>0, <2>1, TokensOps DEF Sends, Crosses
    <2>6. TokensTyped'
      BY <1>0, <2>2, <2>3, <2>4 DEF StoreInv, SentOne, Pending
    <2>7. TokensLeads' /\ TokensMinted'
      BY <1>0, <2>2, <2>3, <2>4, <2>5 DEF SentOne
    <2> QED
      BY <2>6, <2>7 DEF TokensInv
  <1>6. CASE SubmitRename
    <2>1. PICK v \in Value :
            Sends(calls, "renameToken", [id |-> ui.renameTarget, value |-> v])
      BY <1>6 DEF SubmitRename, Asks, APIToken
    <2>2. page' = page /\ srv' = srv /\ ui' = [ui EXCEPT !.renaming = TRUE]
      BY <1>6 DEF SubmitRename
    <2>3. CallsInv' /\ SentOne(calls, "renameToken", [id |-> ui.renameTarget, value |-> v])
      BY <1>0, <2>1, <2>2, SendsKeeps, TokensOps
    <2>4. /\ ui' \in TokensUi /\ ui'.rows = ui.rows /\ ui'.deleteTarget = ui.deleteTarget
          /\ ui'.minted = ui.minted /\ ui'.deleting = ui.deleting
          /\ ui'.showCreate = ui.showCreate
      BY <1>0, <2>2 DEF TokensUi
    <2>5. ~crossed' => calls = {} /\ ~crossed
      BY <1>0, <2>1, TokensOps DEF Sends, Crosses
    <2> QED
      BY <1>0, <2>2, <2>3, <2>4, <2>5 DEF TokensInv, StoreInv, SentOne, Pending
  <1>7. CASE TokensDoDelete
    <2>1. /\ Sends(calls, "deleteToken", [id |-> ui.deleteTarget])
          /\ page' = page /\ srv' = srv /\ ui' = [ui EXCEPT !.deleting = TRUE]
          /\ ~ui.deleting /\ ui.deleteTarget # None
      BY <1>7 DEF TokensDoDelete, Asks, RevokeOffered
    <2>2. CallsInv' /\ SentOne(calls, "deleteToken", [id |-> ui.deleteTarget])
      BY <1>0, <2>1, SendsKeeps, TokensOps
    <2>3. /\ ui' \in TokensUi /\ ui'.rows = ui.rows /\ ui'.deleteTarget = ui.deleteTarget
          /\ ui'.minted = ui.minted /\ ui'.deleting /\ ui.deleteTarget \in Item
          /\ ui'.showCreate = ui.showCreate
      BY <1>0, <2>1 DEF TokensUi
    <2>4. Pending("deleteToken") = {}
      BY <1>0, <2>1 DEF Pending
    <2>5. ~crossed' => calls = {} /\ ~crossed
      BY <1>0, <2>1, TokensOps DEF Sends, Crosses
    <2> QED
      BY <1>0, <2>1, <2>2, <2>3, <2>4, <2>5 DEF TokensInv, StoreInv, SentOne, Pending
  <1>8. CASE TokensCloseDialog
    <2>1. /\ page' = page /\ srv' = srv /\ calls' = calls
          /\ crossed' = (crossed \/ (ui.deleteTarget # None /\ ui.deleting))
          /\ ui.deleting \in BOOLEAN /\ crossed \in BOOLEAN
      BY <1>0, <1>8 DEF TokensCloseDialog, TokensUi, CallsInv
    <2>2. CallsInv'
      BY <1>0, <1>8, <2>1, SameCallsKeep DEF TokensCloseDialog
    <2>3. /\ ui' \in TokensUi /\ ui'.rows = ui.rows /\ ui'.deleting = ui.deleting
          /\ ui'.deleteTarget = ui.deleteTarget \/ ui'.deleteTarget = None
          /\ ui.deleteTarget # None => ui'.deleteTarget = None
          /\ ui'.minted = ui.minted \/ ui'.minted = None
          /\ ui'.showCreate => ui.showCreate
      BY <1>0, <1>8 DEF TokensCloseDialog, TokensUi
    <2>4. TokensTyped'
      BY <1>0, <2>1, <2>2, <2>3 DEF StoreInv, Pending
    <2>5. ~crossed' => ~crossed /\ (ui.deleteTarget = None \/ Pending("deleteToken") = {})
      BY <1>0, <2>1 DEF Pending
    <2>6. \A c \in calls : c.op = "createToken" /\ c.at = "ok" => c.data.id # None
      BY <1>0
    <2>7. TokensLeads'
      BY <1>0, <2>1, <2>3, <2>5, <2>6 DEF Pending
    <2>8. TokensMinted'
      BY <1>0, <2>1, <2>3, <2>5 DEF Pending
    <2> QED
      BY <2>4, <2>7, <2>8 DEF TokensInv
  <1>9. ASSUME NEW c \in calls, TokensRefreshed(c) PROVE TokensInv'
    <2>1. /\ calls' = calls \ {c} /\ page' = page /\ srv' = srv /\ crossed' = crossed
          /\ CallsInv' /\ c.op = "listTokens" /\ c.at \in {"ok", "failed"}
      BY <1>0, <1>9, DoneKeeps DEF TokensRefreshed, Done, CallsInv, Ended, Ok, Failed
    <2>2. PICK rows \in [Item -> APIToken \cup {None}] :
             /\ rows = IF c.at = "ok" THEN c.data.rows ELSE ui.rows
             /\ ui' = [ui EXCEPT !.loading = FALSE, !.rows = rows]
             /\ Ids(rows) \subseteq srv.used
      BY <1>0, <1>9, <2>1 DEF TokensRefreshed, TokensUi
    <2>3. /\ ui' \in TokensUi /\ ui'.rows = rows /\ ui'.deleteTarget = ui.deleteTarget
          /\ ui'.minted = ui.minted /\ ui'.deleting = ui.deleting
          /\ ui'.showCreate = ui.showCreate
      BY <1>0, <2>2 DEF TokensUi
    <2>4. ~crossed => rows = srv.rows /\ \A d \in calls : d.op = "listTokens"
      BY <1>0, <2>1, <2>2, TokensOps DEF Apart
    <2> QED
      BY <1>0, <2>1, <2>2, <2>3, <2>4 DEF TokensInv, StoreInv, Pending
  <1>10. ASSUME NEW c \in calls, TokensCreated(c) PROVE TokensInv'
    <2>1. /\ calls' = calls \ {c} /\ page' = page /\ srv' = srv /\ crossed' = crossed
          /\ CallsInv' /\ c.op = "createToken" /\ c.at \in {"ok", "failed"}
          /\ ~crossed => calls' = {}
      BY <1>0, <1>10, DoneKeeps, TokensOps
         DEF TokensCreated, Done, CallsInv, Ended, Ok, Failed, Apart
    <2>2. CASE c.at = "failed"
      <3>1. ui' = [ui EXCEPT !.creating = FALSE]
        BY <1>10, <2>2 DEF TokensCreated
      <3>2. /\ ui' \in TokensUi /\ ui'.rows = ui.rows /\ ui'.minted = ui.minted
            /\ ui'.deleteTarget = ui.deleteTarget /\ ui'.deleting = ui.deleting
            /\ ui'.showCreate = ui.showCreate
        BY <1>0, <3>1 DEF TokensUi
      <3> QED
        BY <1>0, <2>1, <2>2, <3>2 DEF TokensInv, StoreInv, Pending
    <2>3. CASE c.at = "ok"
      <3>1. c.data.id \in srv.used \cap Item /\ c.data.value \in Value
        BY <1>0, <2>1, <2>3
      <3>2. ui' = [ui EXCEPT !.creating = FALSE, !.showCreate = FALSE, !.minted = c.data.id,
                             !.rows = [ui.rows EXCEPT ![c.data.id] = c.data.value]]
        BY <1>10, <2>3 DEF TokensCreated
      <3>3. /\ ui' \in TokensUi /\ ui'.rows = [ui.rows EXCEPT ![c.data.id] = c.data.value]
            /\ ui'.minted = c.data.id /\ ui'.deleteTarget = ui.deleteTarget
            /\ ui'.deleting = ui.deleting /\ ~ui'.showCreate
        BY <1>0, <3>1, <3>2 DEF TokensUi, APIToken
      <3>4. Ids(ui'.rows) = Ids(ui.rows) \cup {c.data.id}
        BY <1>0, <3>1, <3>3 DEF TokensUi, Ids
      <3>5. ~crossed => c.data.id # ui.deleteTarget /\ ui'.rows = srv.rows
        BY <1>0, <2>1, <2>3, <3>3
      <3>6. TokensTyped'
        BY <1>0, <2>1, <3>1, <3>3, <3>4 DEF StoreInv, Pending
      <3>7. TokensLeads' /\ TokensMinted'
        BY <2>1, <3>3, <3>4, <3>5
      <3> QED
        BY <3>6, <3>7 DEF TokensInv
    <2> QED
      BY <2>1, <2>2, <2>3
  <1>11. ASSUME NEW c \in calls, Renamed(c) PROVE TokensInv'
    <2>1. /\ calls' = calls \ {c} /\ page' = page /\ srv' = srv /\ crossed' = crossed
          /\ CallsInv' /\ c.op = "renameToken" /\ c.at \in {"ok", "failed"}
          /\ ~crossed => calls' = {}
      BY <1>0, <1>11, DoneKeeps, TokensOps
         DEF Renamed, Done, CallsInv, Ended, Ok, Failed, Apart
    <2>2. CASE c.at = "failed"
      <3>1. ui' = [ui EXCEPT !.renaming = FALSE]
        BY <1>11, <2>2 DEF Renamed
      <3>2. /\ ui' \in TokensUi /\ ui'.rows = ui.rows /\ ui'.minted = ui.minted
            /\ ui'.deleteTarget = ui.deleteTarget /\ ui'.deleting = ui.deleting
            /\ ui'.showCreate = ui.showCreate
        BY <1>0, <3>1 DEF TokensUi
      <3> QED
        BY <1>0, <2>1, <2>2, <3>2 DEF TokensInv, StoreInv, Pending
    <2>3. CASE c.at = "ok"
      <3> DEFINE rows == IF c.data.id \in Ids(ui.rows)
                         THEN [ui.rows EXCEPT ![c.data.id] = c.data.value] ELSE ui.rows
      <3>1. c.data.id \in Item /\ c.data.value \in Value
        BY <1>0, <2>1, <2>3
      <3>2. ui' = [ui EXCEPT !.renaming = FALSE, !.renameTarget = None, !.rows = rows]
        BY <1>11, <2>3 DEF Renamed
      <3>3. rows \in [Item -> APIToken \cup {None}] /\ Ids(rows) = Ids(ui.rows)
        BY <1>0, <3>1 DEF TokensUi, APIToken, Ids
      <3>4. ~crossed => rows = srv.rows
        BY <1>0, <2>1, <2>3
      <3> HIDE DEF rows
      <3>5. /\ ui' \in TokensUi /\ ui'.rows = rows /\ ui'.minted = ui.minted
            /\ ui'.deleteTarget = ui.deleteTarget /\ ui'.deleting = ui.deleting
            /\ ui'.showCreate = ui.showCreate
        BY <1>0, <3>2, <3>3 DEF TokensUi
      <3> QED
        BY <1>0, <2>1, <2>3, <3>3, <3>4, <3>5 DEF TokensInv, StoreInv, Pending
    <2> QED
      BY <2>1, <2>2, <2>3
  <1>12. ASSUME NEW c \in calls, Revoked(c) PROVE TokensInv'
    <2> DEFINE rows == IF c.at = "ok" /\ ui.deleteTarget # None
                       THEN [ui.rows EXCEPT ![ui.deleteTarget] = None] ELSE ui.rows
    <2>1. /\ calls' = calls \ {c} /\ page' = page /\ srv' = srv /\ crossed' = crossed
          /\ CallsInv' /\ c.op = "deleteToken" /\ c.at \in {"ok", "failed"}
          /\ ~crossed => calls' = {}
      BY <1>0, <1>12, DoneKeeps, TokensOps
         DEF Revoked, Done, CallsInv, Ended, Ok, Failed, Apart
    <2>2. ui' = [ui EXCEPT !.deleting = FALSE, !.deleteTarget = None, !.rows = rows]
      BY <1>12 DEF Revoked
    <2>3. /\ rows \in [Item -> APIToken \cup {None}] /\ Ids(rows) \subseteq Ids(ui.rows)
          /\ ui.minted # ui.deleteTarget /\ ui.minted \in Ids(ui.rows)
                => ui.minted \in Ids(rows)
      BY <1>0 DEF TokensUi, Ids
    <2>6. ~crossed => rows = srv.rows
      <3>1. ~crossed => TokensLead(c)
        BY <1>0
      <3>2. c.arg.id # None
        BY <1>0, <2>1
      <3> QED
        BY <2>1, <3>1, <3>2
    <2> HIDE DEF rows
    <2>4. /\ ui' \in TokensUi /\ ui'.rows = rows /\ ui'.minted = ui.minted
          /\ ui'.deleteTarget = None /\ ui'.showCreate = ui.showCreate
      BY <1>0, <2>2, <2>3 DEF TokensUi
    <2>5. Pending("deleteToken")' = {}
      BY <1>0, <2>1 DEF Pending
    <2> QED
      BY <1>0, <2>1, <2>3, <2>4, <2>5, <2>6 DEF TokensInv, StoreInv, Pending
  <1>13. ASSUME NEW c \in calls, TokensServes(c) PROVE TokensInv'
    <2>1. /\ CallsInv' /\ StoreInv' /\ page' = page /\ ui' = ui /\ crossed' = crossed
          /\ srv.used \subseteq srv'.used /\ c.at = "sent"
      BY <1>0, <1>13, ServesRowsKeeps DEF TokensServes
    <2>2. CASE c.op = "listTokens" /\ ListedRows(c)
      <3>1. /\ [rows |-> srv.rows].rows = srv.rows
            /\ srv.rows \in [Item -> APIToken \cup {None}] /\ Ids(srv.rows) \subseteq srv.used
        BY <1>0 DEF StoreInv, RowStore, APIToken
      <3> QED
        BY <1>0, <2>1, <2>2, <3>1 DEF ListedRows, TokensInv, MovedOne, Pending
    <2>3. CASE c.op = "createToken" /\ MadeRow(c)
      <3>1. PICK i \in Item \ srv.used :
                     /\ srv'.rows = [srv.rows EXCEPT ![i] = c.arg.value]
                     /\ i \in srv'.used
                     /\ MovedOne(c, "ok", [id |-> i, value |-> c.arg.value])
        BY <2>3 DEF MadeRow
      <3>2. ~crossed => ui.rows = srv.rows /\ calls = {c}
        BY <1>0, <2>1, <2>3, TokensOps DEF Apart
      <3>3. i # ui.deleteTarget /\ i \notin Ids(ui.rows) /\ c.arg.value \in Value
        BY <1>0, <2>3, <3>1
      <3>4. TokensTyped'
        BY <1>0, <2>1, <2>3, <3>1, <3>3 DEF MovedOne, Pending
      <3>5. TokensLeads'
        BY <1>0, <2>1, <2>3, <3>1, <3>2, <3>3 DEF MovedOne
      <3>6. TokensMinted'
        BY <1>0, <2>1, <2>3, <3>1 DEF MovedOne
      <3> QED
        BY <3>4, <3>5, <3>6 DEF TokensInv
    <2>4. CASE c.op \in {"renameToken", "deleteToken"} /\ MissedRow(c)
      <3>1. TokensTyped'
        BY <1>0, <2>1, <2>4 DEF MissedRow, MovedOne, Pending
      <3>4. ~crossed => calls = {c}
        BY <1>0, <2>4, TokensOps DEF Apart
      <3>2. TokensLeads'
        BY <1>0, <2>1, <2>4, <3>4 DEF MissedRow, MovedOne
      <3>3. TokensMinted'
        BY <1>0, <2>1, <2>4 DEF MissedRow, MovedOne
      <3> QED
        BY <3>1, <3>2, <3>3 DEF TokensInv
    <2>5. CASE c.op = "renameToken" /\ WroteRow(c)
      <3>1. ~crossed => ui.rows = srv.rows /\ calls = {c}
        BY <1>0, <2>1, <2>5, TokensOps DEF WroteRow, Apart
      <3>2. c.arg.value \in Value /\ c.arg.id \in Item
        BY <1>0, <2>5 DEF WroteRow, Ids
      <3>3. TokensTyped'
        BY <1>0, <2>1, <2>5, <3>2 DEF WroteRow, MovedOne, Pending
      <3>4. TokensLeads' /\ TokensMinted'
        BY <1>0, <2>1, <2>5, <3>1, <3>2 DEF WroteRow, MovedOne
      <3> QED
        BY <3>3, <3>4 DEF TokensInv
    <2>6. CASE c.op = "deleteToken" /\ CutRow(c)
      <3>1. ~crossed => ui.rows = srv.rows /\ calls = {c}
        BY <1>0, <2>1, <2>6, TokensOps DEF CutRow, Apart
      <3>2. TokensTyped'
        BY <1>0, <2>1, <2>6 DEF CutRow, MovedOne, Pending
      <3>4. ~crossed => TokensLead(c)
        BY <1>0
      <3>3. TokensLeads' /\ TokensMinted'
        BY <1>0, <2>1, <2>6, <3>1, <3>4 DEF CutRow, MovedOne
      <3> QED
        BY <3>2, <3>3 DEF TokensInv
    <2> QED
      <3>1. c.op \in {"createToken"} \cup {"renameToken"} => c.arg.value \in Value
        BY <1>0
      <3>2. ServesRows(c, {"listTokens"}, {"createToken"}, {"renameToken"}, {"deleteToken"})
        BY <1>13 DEF TokensServes
      <3> HIDE DEF TokensTyped, TokensCall, TokensLeads, TokensLead, TokensMinted
      <3>3. ServedOne(c, {"listTokens"}, {"createToken"}, {"renameToken"}, {"deleteToken"})
        BY <1>0, <3>1, <3>2, ServesRowsKeeps
      <3> QED
        BY <2>2, <2>3, <2>4, <2>5, <2>6, <3>3 DEF ServedOne
  <1>14. ASSUME NEW c \in calls, Fails(c) PROVE TokensInv'
    <2>1. /\ MovedOne(c, "failed", None) /\ CallsInv' /\ page' = page /\ ui' = ui
          /\ srv' = srv /\ c.at \in {"sent", "ok"}
          /\ crossed' = (crossed \/ ~Mutates(c.op) \/ c.at = "ok")
      BY <1>0, <1>14, FailsKeeps
    <2>2. TokensTyped'
      BY <1>0, <2>1 DEF MovedOne, Pending, StoreInv
    <2>3. ~crossed' => ~crossed /\ c.op # "listTokens" /\ c.at = "sent"
      BY <2>1, TokensOps
    <2>6. ~crossed' => calls = {c} /\ ui.rows = srv.rows /\ TokensLead(c)
      BY <1>0, <2>3, TokensOps DEF Apart
    <2>4. TokensLeads'
      BY <2>1, <2>3, <2>6 DEF MovedOne
    <2>5. TokensMinted'
      BY <1>0, <2>1, <2>3 DEF MovedOne
    <2> QED
      BY <2>2, <2>4, <2>5 DEF TokensInv
  <1> QED
    BY <1>1, <1>2, <1>3, <1>4, <1>5, <1>6, <1>7, <1>8, <1>9, <1>10, <1>11, <1>12, <1>13,
       <1>14 DEF TokensNext

\* What the run checks of this view.
LEMMA TokensShow ==
    ASSUME TokensInv
    PROVE  TokensTypeOK /\ ListsTokens /\ SecretIsOfToken
  <1> USE DEF TokensInv, TokensTyped
  <1>1. TypedCalls /\ StoreType
    BY InvTypesCalls, StoreTyped
  <1>2. TokensTypeOK
    BY <1>1 DEF TokensTypeOK, TokensUi
  <1> QED
    BY <1>2 DEF ListsTokens, SecretIsOfToken, Settled, TokensLeads, TokensMinted

-----------------------------------------------------------------------------
(* The names the cluster answers.                                              *)

LocalDnsUi ==
    [entries : SUBSET Item, row : [Item -> LocalDNSEntry], busyRows : SUBSET Item,
     editingId : Item \cup {None}, editSnapshot : LocalDNSEntry \cup {None},
     pendingDelete : Item \cup {None}, loading : BOOLEAN, showCreate : BOOLEAN,
     submitting : BOOLEAN, deleting : BOOLEAN]

\* What a call carries, and its answer.
LocalDnsCall(c) ==
    \/ /\ c.op = "listLocalDNS" /\ c.arg = None
       /\ c.at = "ok" => c.data.rows \in [Item -> Value \cup {None}]
    \/ /\ c.op = "createLocalDNS" /\ c.arg.value \in Value
       /\ c.at = "ok" => c.data \in LocalDNSEntry
    \/ /\ c.op = "updateLocalDNS" /\ c.arg.row \in Item /\ c.arg.id \in Item
       /\ c.arg.value \in Value /\ (c.at = "ok" => c.data \in LocalDNSEntry)
    \/ c.op = "deleteLocalDNS" /\ c.arg.row \in Item /\ c.arg.id \in Item

LocalDnsTyped ==
    /\ page = "localdns" /\ CallsInv /\ StoreInv /\ ui \in LocalDnsUi
    /\ \A c \in calls : LocalDnsCall(c)
    /\ \A c, d \in calls : c.op = "listLocalDNS" /\ d.op = "listLocalDNS" => c = d

RecordSaving(c) == c.op = "updateLocalDNS"

\* While nothing crosses, rows are themselves, those that are saved are busy, and the
\* row in the edit is as it was when the edit began until it is saved.
LocalDnsRowsOwn ==
    ~crossed =>
        /\ \A i \in Item : ui.row[i].id = i
        /\ \A i \in Item : i \in ui.busyRows <=> \E c \in calls : RecordSaving(c) /\ c.arg.id = i
        /\ ui.loading => ui.editingId = None
        /\ ui.entries \subseteq srv.used
        /\ ui.editingId # None =>
              /\ ui.editingId \in srv.used
              /\ (\A c \in calls : ~RecordSaving(c)) => ui.editSnapshot = ui.row[ui.editingId]

\* The table shows what the node stores, but for one row.
ShownBut(i) ==
    \A r \in ui.entries : r # i => ui.row[r].value = srv.rows[r]

\* How far the table is from what the node stores, while nothing crosses.
LocalDnsLead(c) ==
    /\ c.op = "listLocalDNS" =>
          c.at # "failed" /\ ui.loading /\ (c.at = "ok" => c.data.rows = srv.rows)
    /\ c.op = "createLocalDNS" /\ c.at # "ok" => ui.entries = Ids(srv.rows) /\ ShownBut(None)
    /\ c.op = "createLocalDNS" /\ c.at = "ok" =>
          /\ ui.entries \cup {c.data.id} = Ids(srv.rows) /\ ShownBut(c.data.id)
          /\ c.data.value = srv.rows[c.data.id] /\ c.data.id \notin ui.entries
          /\ c.data.id # ui.editingId
    /\ c.op = "deleteLocalDNS" => c.arg.row = c.arg.id
    /\ c.op = "deleteLocalDNS" /\ c.at # "ok" => ui.entries = Ids(srv.rows) /\ ShownBut(None)
    /\ c.op = "deleteLocalDNS" /\ c.at = "ok" =>
          ui.entries \ {c.arg.id} = Ids(srv.rows) /\ ShownBut(c.arg.id)
    /\ RecordSaving(c) =>
          /\ c.arg.row = c.arg.id /\ ui.editingId = c.arg.id
          /\ ui.entries = Ids(srv.rows) /\ ShownBut(c.arg.id) /\ c.arg.id \in ui.entries
    /\ RecordSaving(c) /\ c.at # "ok" => ui.editSnapshot = Entry(c.arg.id, srv.rows[c.arg.id])
    /\ RecordSaving(c) /\ c.at = "ok" => c.data = Entry(c.arg.id, srv.rows[c.arg.id])

LocalDnsLeads ==
    ~crossed => /\ \A c \in calls : LocalDnsLead(c)
                /\ calls = {} => ui.entries = Ids(srv.rows) /\ ShownBut(None)

LocalDnsInv == LocalDnsTyped /\ LocalDnsRowsOwn /\ LocalDnsLeads

\* The calls of the view; only the list leaves the records as they are.
LEMMA LocalDnsOps ==
    /\ {"listLocalDNS", "createLocalDNS", "updateLocalDNS", "deleteLocalDNS"} \subseteq Endpoint
    /\ ~Mutates("listLocalDNS") /\ Mutates("createLocalDNS") /\ Mutates("updateLocalDNS")
    /\ Mutates("deleteLocalDNS")
  BY DEF Endpoint, Mutates, Reads, Changes, AccountAndListCalls, ConfigurationCalls,
         ClientAndAuditCalls, PauseAndWebhookCalls, TokenAndDeviceCalls, OtherCalls

\* The list is asked for, no row is in an editor.
LEMMA LocalDnsStart == LocalDnsInit => LocalDnsInv
  <1> SUFFICES ASSUME LocalDnsInit PROVE LocalDnsInv
    OBVIOUS
  <1>1. /\ CallsInv
        /\ \A c \in calls : c.op = "listLocalDNS" /\ c.arg = None /\ c.at = "sent"
        /\ \A c, d \in calls : c = d
    BY FirstCall, LocalDnsOps DEF LocalDnsInit
  <1>2. StoreInv /\ calls # {}
    BY FirstStore DEF LocalDnsInit
  <1>3. /\ page = "localdns" /\ ui \in LocalDnsUi /\ ui.editingId = None /\ ui.busyRows = {}
        /\ ui.entries = {} /\ ui.loading /\ \A i \in Item : ui.row[i].id = i
    BY DEF LocalDnsInit, LocalDnsUi, Entry, LocalDNSEntry, Value
  <1>4. LocalDnsTyped
    BY <1>1, <1>2, <1>3 DEF LocalDnsTyped, LocalDnsCall
  <1>5. LocalDnsRowsOwn /\ LocalDnsLeads
    BY <1>1, <1>2, <1>3 DEF LocalDnsRowsOwn, LocalDnsLeads, LocalDnsLead, RecordSaving
  <1> QED
    BY <1>4, <1>5 DEF LocalDnsInv

\* A step of the dialogs and of the edit, with the same calls under way.
LEMMA LocalDnsDialogs ==
    ASSUME LocalDnsInv, page' = page, srv' = srv, calls' = calls, writes' = writes,
           ui' \in LocalDnsUi, ui'.entries = ui.entries, ui'.row = ui.row,
           ui'.busyRows = ui.busyRows, ui'.loading = ui.loading,
           crossed' \in BOOLEAN, crossed => crossed',
           ~crossed' =>
              \/ ui'.editingId = ui.editingId /\ ui'.editSnapshot = ui.editSnapshot
              \/ ui'.editingId = None /\ \A c \in calls : ~RecordSaving(c)
              \/ /\ ~ui.loading /\ ui.editingId = None /\ ui'.editingId \in ui.entries
                 /\ ui'.editSnapshot = ui.row[ui'.editingId]
    PROVE  LocalDnsInv'
  <1>0. LocalDnsTyped /\ LocalDnsRowsOwn /\ LocalDnsLeads /\ None \notin Item
    BY PageAssumption DEF LocalDnsInv
  <1>1. LocalDnsTyped'
    BY <1>0, SameCallsKeep DEF LocalDnsTyped, LocalDnsCall, StoreInv
  <1>2. CASE ui'.editingId = ui.editingId /\ ui'.editSnapshot = ui.editSnapshot
    BY <1>0, <1>1, <1>2
       DEF LocalDnsInv, LocalDnsRowsOwn, LocalDnsLeads, LocalDnsLead, ShownBut, RecordSaving
  <1>3. CASE ui'.editingId = None /\ \A c \in calls : ~RecordSaving(c)
    <2>1. \A c \in calls : c.op = "createLocalDNS" /\ c.at = "ok" => c.data.id # None
      BY <1>0 DEF LocalDnsTyped, LocalDnsCall, LocalDNSEntry
    <2> QED
      BY <1>0, <1>1, <1>3, <2>1
         DEF LocalDnsInv, LocalDnsRowsOwn, LocalDnsLeads, LocalDnsLead, ShownBut, RecordSaving
  <1>4. CASE /\ ~ui.loading /\ ui.editingId = None /\ ui'.editingId \in ui.entries
             /\ ui'.editSnapshot = ui.row[ui'.editingId]
    <2>1. CASE ~crossed'
      <3>1. /\ \A c \in calls : LocalDnsLead(c) /\ ~RecordSaving(c)
            /\ ui'.editingId \in srv.used
        BY <1>0, <1>4, <2>1 DEF LocalDnsLeads, LocalDnsLead, LocalDnsRowsOwn, LocalDnsTyped,
                                LocalDnsUi
      <3>2. LocalDnsRowsOwn'
        BY <1>0, <1>4, <2>1, <3>1 DEF LocalDnsRowsOwn, RecordSaving
      <3>3. LocalDnsLeads'
        BY <1>0, <1>4, <2>1, <3>1 DEF LocalDnsLeads, LocalDnsLead, ShownBut, RecordSaving
      <3> QED
        BY <1>1, <3>2, <3>3 DEF LocalDnsInv
    <2> QED
      BY <1>1, <2>1 DEF LocalDnsInv, LocalDnsRowsOwn, LocalDnsLeads
  <1> QED
    BY <1>1, <1>2, <1>3, <1>4 DEF LocalDnsInv, LocalDnsRowsOwn, LocalDnsLeads

\* Every step of the view and of the node keeps it.
LEMMA LocalDnsKeep == LocalDnsInv /\ LocalDnsNext => LocalDnsInv'
  <1> SUFFICES ASSUME LocalDnsInv, LocalDnsNext PROVE LocalDnsInv'
    OBVIOUS
  <1>0. /\ LocalDnsTyped /\ LocalDnsRowsOwn /\ LocalDnsLeads /\ None \notin Value
        /\ page = "localdns" /\ CallsInv /\ StoreInv /\ ui \in LocalDnsUi
        /\ None \notin Item /\ Apart /\ crossed \in BOOLEAN
        /\ \A c \in calls : LocalDnsCall(c) /\ (~crossed => LocalDnsLead(c))
    BY PageAssumption DEF LocalDnsInv, LocalDnsTyped, CallsInv, LocalDnsLeads
  <1>1. ASSUME NEW r \in Item, StartEdit(r) PROVE LocalDnsInv'
    <2>1. /\ ui' = [ui EXCEPT !.editingId = ui.row[r].id, !.editSnapshot = ui.row[r]]
          /\ r \in ui.entries /\ ~ui.loading /\ ui.editingId = None /\ Local
      BY <1>1 DEF StartEdit, LocalDnsEditOffered, LocalDnsRows
    <2>2. ui.row[r] \in LocalDNSEntry /\ ui.row[r].id \in Item
      BY <1>0 DEF LocalDnsUi, LocalDNSEntry
    <2>3. /\ ui' \in LocalDnsUi /\ ui'.editingId = ui.row[r].id
          /\ ui'.editSnapshot = ui.row[r] /\ ui'.entries = ui.entries /\ ui'.row = ui.row
          /\ ui'.busyRows = ui.busyRows /\ ui'.loading = ui.loading
      BY <1>0, <2>1, <2>2 DEF LocalDnsUi
    <2>4. ~crossed => ui.row[r].id = r
      BY <1>0 DEF LocalDnsRowsOwn
    <2> QED
      BY <1>0, <2>1, <2>3, <2>4, LocalDnsDialogs DEF Local
  <1>2. CASE CancelEdit
    <2>1. PICK r \in LocalDnsSaveOffered : TRUE
      BY <1>2 DEF CancelEdit
    <2>2. r \in Item /\ ui.editingId = ui.row[r].id /\ ui.row[r].id \notin ui.busyRows
      BY <1>0, <2>1 DEF LocalDnsSaveOffered, LocalDnsRows, InEdit, Busy, LocalDnsUi
    <2>3. ~crossed => \A c \in calls : ~RecordSaving(c)
      BY <1>0, <2>2 DEF LocalDnsRowsOwn, LocalDnsLead
    <2>4. /\ ui' = [ui EXCEPT !.editingId = None, !.editSnapshot = None] /\ Local
      BY <1>2 DEF CancelEdit
    <2>5. /\ ui' \in LocalDnsUi /\ ui'.editingId = None /\ ui'.entries = ui.entries
          /\ ui'.row = ui.row /\ ui'.busyRows = ui.busyRows /\ ui'.loading = ui.loading
      BY <1>0, <2>4 DEF LocalDnsUi
    <2> QED
      BY <1>0, <2>3, <2>4, <2>5, LocalDnsDialogs DEF Local
  <1>3. ASSUME NEW r \in Item, LocalDnsAskDelete(r) PROVE LocalDnsInv'
    <2>1. /\ ui' \in LocalDnsUi /\ ui'.editingId = ui.editingId
          /\ ui'.editSnapshot = ui.editSnapshot /\ ui'.entries = ui.entries
          /\ ui'.row = ui.row /\ ui'.busyRows = ui.busyRows /\ ui'.loading = ui.loading
      BY <1>0, <1>3 DEF LocalDnsAskDelete, LocalDnsUi
    <2> QED
      BY <1>0, <1>3, <2>1, LocalDnsDialogs DEF LocalDnsAskDelete, Local
  <1>4. CASE LocalDnsCloseDelete \/ LocalDnsOpenCreate \/ LocalDnsCloseCreate
    <2>1. /\ Local
          /\ \/ ui' = [ui EXCEPT !.pendingDelete = None]
             \/ ui' = [ui EXCEPT !.showCreate = TRUE]
             \/ ui' = [ui EXCEPT !.showCreate = FALSE]
      BY <1>4 DEF LocalDnsCloseDelete, LocalDnsOpenCreate, LocalDnsCloseCreate
    <2>2. /\ ui' \in LocalDnsUi /\ ui'.editingId = ui.editingId
          /\ ui'.editSnapshot = ui.editSnapshot /\ ui'.entries = ui.entries
          /\ ui'.row = ui.row /\ ui'.busyRows = ui.busyRows /\ ui'.loading = ui.loading
      BY <1>0, <2>1 DEF LocalDnsUi
    <2> QED
      BY <1>0, <2>1, <2>2, LocalDnsDialogs DEF Local
  <1>5. CASE LocalDnsOnKey
    <2>1. /\ UNCHANGED <<page, srv, calls, writes>>
          /\ \/ /\ \/ ui' = [ui EXCEPT !.pendingDelete = None]
                   \/ ui' = [ui EXCEPT !.showCreate = FALSE]
                /\ crossed' = crossed
             \/ /\ ui' = [ui EXCEPT !.editingId = None, !.editSnapshot = None]
                /\ ui.editingId # None
                /\ crossed' = (crossed \/ ui.editingId \in ui.busyRows)
      BY <1>5 DEF LocalDnsOnKey
    <2>2. CASE /\ \/ ui' = [ui EXCEPT !.pendingDelete = None]
                  \/ ui' = [ui EXCEPT !.showCreate = FALSE]
               /\ crossed' = crossed
      <3>1. /\ ui' \in LocalDnsUi /\ ui'.editingId = ui.editingId
            /\ ui'.editSnapshot = ui.editSnapshot /\ ui'.entries = ui.entries
            /\ ui'.row = ui.row /\ ui'.busyRows = ui.busyRows /\ ui'.loading = ui.loading
        BY <1>0, <2>2 DEF LocalDnsUi
      <3> QED
        BY <1>0, <2>1, <2>2, <3>1, LocalDnsDialogs
    <2>3. CASE /\ ui' = [ui EXCEPT !.editingId = None, !.editSnapshot = None]
               /\ ui.editingId # None
               /\ crossed' = (crossed \/ ui.editingId \in ui.busyRows)
      <3>1. /\ ui' \in LocalDnsUi /\ ui'.editingId = None /\ ui'.entries = ui.entries
            /\ ui'.row = ui.row /\ ui'.busyRows = ui.busyRows /\ ui'.loading = ui.loading
            /\ ui.editingId \in Item
        BY <1>0, <2>3 DEF LocalDnsUi
      <3>2. ~crossed' => \A c \in calls : ~RecordSaving(c)
        BY <1>0, <2>3, <3>1 DEF LocalDnsRowsOwn, LocalDnsLead
      <3> QED
        BY <1>0, <2>1, <2>3, <3>1, <3>2, LocalDnsDialogs
    <2> QED
      BY <2>1, <2>2, <2>3
  <1>6. ASSUME NEW r \in Item, SaveEdit(r) PROVE LocalDnsInv'
    <2> DEFINE i == ui.row[r].id
    <2>1. PICK v \in Value :
            /\ ui' = [ui EXCEPT !.row[r].value = v, !.busyRows = @ \cup {i}]
            /\ Sends(calls, "updateLocalDNS", [row |-> r, id |-> i, value |-> v])
      BY <1>6 DEF SaveEdit, Asks
    <2>2. /\ page' = page /\ srv' = srv /\ r \in ui.entries /\ ui.editingId = i
          /\ ui.row[r] \in LocalDNSEntry /\ i \in Item /\ ~ui.loading
      BY <1>0, <1>6 DEF SaveEdit, LocalDnsSaveOffered, LocalDnsRows, InEdit, LocalDnsUi,
                        LocalDNSEntry
    <2>3. CallsInv' /\ SentOne(calls, "updateLocalDNS", [row |-> r, id |-> i, value |-> v])
      BY <1>0, <2>1, <2>2, SendsKeeps, LocalDnsOps
    <2> DEFINE row == [ui.row EXCEPT ![r] = Entry(i, v)]
    <2>4. [ui.row[r] EXCEPT !.value = v] = Entry(i, v)
      BY <2>2 DEF LocalDNSEntry, Entry
    <2>5. ui' = [ui EXCEPT !.row = row, !.busyRows = ui.busyRows \cup {i}]
      BY <2>1, <2>4
    <2>6. row \in [Item -> LocalDNSEntry] /\ row[r] = Entry(i, v)
          /\ \A k \in Item : k # r => row[k] = ui.row[k]
      BY <1>0, <2>2 DEF LocalDnsUi, LocalDNSEntry, Entry
    <2> HIDE DEF row, i
    <2>7. /\ ui' \in LocalDnsUi /\ ui'.row = row /\ ui'.busyRows = ui.busyRows \cup {i}
          /\ ui'.entries = ui.entries /\ ui'.editingId = ui.editingId
          /\ ui'.editSnapshot = ui.editSnapshot /\ ui'.loading = ui.loading
      BY <1>0, <2>2, <2>5, <2>6 DEF LocalDnsUi
    <2>8. ~crossed' => calls = {} /\ ~crossed /\ i = r
      BY <1>0, <2>1, LocalDnsOps DEF Sends, Crosses, LocalDnsRowsOwn, i
    <2>9. LocalDnsTyped'
      BY <1>0, <2>2, <2>3, <2>7 DEF LocalDnsTyped, LocalDnsCall, SentOne, StoreInv
    <2>10. LocalDnsRowsOwn'
      BY <1>0, <2>2, <2>3, <2>6, <2>7, <2>8
         DEF LocalDnsRowsOwn, RecordSaving, SentOne, Entry, LocalDnsUi
    <2>11. ~crossed' => ui.entries = Ids(srv.rows) /\ ShownBut(None)
                        /\ ui.editSnapshot = ui.row[r]
      BY <1>0, <2>2, <2>8 DEF LocalDnsLeads, LocalDnsRowsOwn
    <2>12. ~crossed' => ui.editSnapshot = Entry(r, srv.rows[r])
      BY <1>0, <2>2, <2>8, <2>11 DEF LocalDnsRowsOwn, ShownBut, LocalDNSEntry, Entry, i
    <2>13. ASSUME ~crossed', NEW d \in calls' PROVE LocalDnsLead(d)'
      <3>1. d.op = "updateLocalDNS" /\ d.arg.row = r /\ d.arg.id = r /\ d.at = "sent"
        BY <2>3, <2>8, <2>13 DEF SentOne
      <3>2. ShownBut(r)' /\ ui'.entries = Ids(srv.rows)
        BY <1>0, <2>2, <2>6, <2>7, <2>11, <2>13 DEF ShownBut, LocalDnsUi
      <3> QED
        BY <2>2, <2>7, <2>8, <2>12, <2>13, <3>1, <3>2 DEF LocalDnsLead, RecordSaving
    <2>14. LocalDnsLeads'
      BY <2>3, <2>13 DEF LocalDnsLeads, SentOne
    <2> QED
      BY <2>9, <2>10, <2>14 DEF LocalDnsInv
  <1>7. CASE LocalDnsConfirmDelete
    <2> DEFINE i == ui.row[ui.pendingDelete].id
    <2>1. /\ Sends(calls, "deleteLocalDNS", [row |-> ui.pendingDelete, id |-> i])
          /\ page' = page /\ srv' = srv /\ ui' = [ui EXCEPT !.deleting = TRUE]
          /\ ui.pendingDelete \in Item /\ i \in Item
      BY <1>0, <1>7 DEF LocalDnsConfirmDelete, LocalDnsDeleteOffered, Asks, LocalDnsUi,
                        LocalDNSEntry
    <2>2. ~crossed' => calls = {} /\ ~crossed /\ i = ui.pendingDelete
      BY <1>0, <2>1, LocalDnsOps DEF Sends, Crosses, LocalDnsRowsOwn
    <2> HIDE DEF i
    <2>3. CallsInv' /\ SentOne(calls, "deleteLocalDNS", [row |-> ui.pendingDelete, id |-> i])
      BY <1>0, <2>1, SendsKeeps, LocalDnsOps
    <2>4. /\ ui' \in LocalDnsUi /\ ui'.row = ui.row /\ ui'.busyRows = ui.busyRows
          /\ ui'.entries = ui.entries /\ ui'.editingId = ui.editingId
          /\ ui'.editSnapshot = ui.editSnapshot /\ ui'.loading = ui.loading
      BY <1>0, <2>1 DEF LocalDnsUi
    <2>5. LocalDnsTyped'
      BY <1>0, <2>1, <2>3, <2>4 DEF LocalDnsTyped, LocalDnsCall, SentOne, StoreInv
    <2>6. LocalDnsRowsOwn'
      BY <1>0, <2>1, <2>2, <2>3, <2>4 DEF LocalDnsRowsOwn, RecordSaving, SentOne
    <2>7. LocalDnsLeads'
      BY <1>0, <2>1, <2>2, <2>3, <2>4
         DEF LocalDnsLeads, LocalDnsLead, RecordSaving, SentOne, ShownBut
    <2> QED
      BY <2>5, <2>6, <2>7 DEF LocalDnsInv
  <1>8. CASE LocalDnsSubmitCreate
    <2>1. PICK v \in Value : Sends(calls, "createLocalDNS", [value |-> v])
      BY <1>8 DEF LocalDnsSubmitCreate, Asks
    <2>2. page' = page /\ srv' = srv /\ ui' = [ui EXCEPT !.submitting = TRUE]
      BY <1>8 DEF LocalDnsSubmitCreate
    <2>3. ~crossed' => calls = {} /\ ~crossed
      BY <1>0, <2>1, LocalDnsOps DEF Sends, Crosses
    <2>4. CallsInv' /\ SentOne(calls, "createLocalDNS", [value |-> v])
      BY <1>0, <2>1, <2>2, SendsKeeps, LocalDnsOps
    <2>5. /\ ui' \in LocalDnsUi /\ ui'.row = ui.row /\ ui'.busyRows = ui.busyRows
          /\ ui'.entries = ui.entries /\ ui'.editingId = ui.editingId
          /\ ui'.editSnapshot = ui.editSnapshot /\ ui'.loading = ui.loading
      BY <1>0, <2>2 DEF LocalDnsUi
    <2>6. LocalDnsTyped'
      BY <1>0, <2>2, <2>4, <2>5 DEF LocalDnsTyped, LocalDnsCall, SentOne, StoreInv
    <2>7. LocalDnsRowsOwn'
      BY <1>0, <2>2, <2>3, <2>4, <2>5 DEF LocalDnsRowsOwn, RecordSaving, SentOne
    <2>8. LocalDnsLeads'
      BY <1>0, <2>2, <2>3, <2>4, <2>5
         DEF LocalDnsLeads, LocalDnsLead, RecordSaving, SentOne, ShownBut
    <2> QED
      BY <2>6, <2>7, <2>8 DEF LocalDnsInv
  <1>9. ASSUME NEW c \in calls, LocalDnsRefreshed(c) PROVE LocalDnsInv'
    <2>1. /\ calls' = calls \ {c} /\ page' = page /\ srv' = srv /\ crossed' = crossed
          /\ CallsInv' /\ c.op = "listLocalDNS" /\ c.at \in {"ok", "failed"}
      BY <1>0, <1>9, DoneKeeps DEF LocalDnsRefreshed, Done, CallsInv, Ended, Ok, Failed
    <2>2. CASE c.at = "failed"
      <3>1. /\ ui' \in LocalDnsUi /\ crossed
        BY <1>0, <1>9, <2>1, <2>2 DEF LocalDnsRefreshed, LocalDnsUi, LocalDnsLead
      <3> QED
        BY <1>0, <2>1, <3>1 DEF LocalDnsInv, LocalDnsTyped, LocalDnsCall, LocalDnsRowsOwn,
                                LocalDnsLeads, StoreInv
    <2>3. CASE c.at = "ok"
      <3> DEFINE ids == Ids(c.data.rows)
                 row == [i \in Item |-> IF i \in ids THEN Entry(i, c.data.rows[i])
                                        ELSE ui.row[i]]
      <3>1. ui' = [ui EXCEPT !.loading = FALSE, !.entries = ids, !.row = row]
        BY <1>9, <2>3 DEF LocalDnsRefreshed
      <3>2. c.data.rows \in [Item -> Value \cup {None}]
        BY <1>0, <2>1, <2>3 DEF LocalDnsCall
      <3>3. /\ ids \subseteq Item /\ row \in [Item -> LocalDNSEntry]
            /\ \A i \in ids : row[i] = Entry(i, c.data.rows[i])
            /\ \A i \in Item : row[i].id = i \/ row[i] = ui.row[i]
        BY <1>0, <3>2 DEF Ids, Entry, LocalDNSEntry, LocalDnsUi
      <3>4. ~crossed => /\ ids = Ids(srv.rows) /\ c.data.rows = srv.rows
                        /\ calls' = {} /\ ui.loading
        BY <1>0, <2>1, <2>3, LocalDnsOps DEF LocalDnsTyped, LocalDnsLead, LocalDnsCall, Apart
      <3>7. ~crossed => (\A i \in Item : row[i].id = i) /\ ui.editingId = None
        BY <1>0, <3>3, <3>4 DEF LocalDnsRowsOwn
      <3>5. \A i \in ids : row[i].value = c.data.rows[i]
        BY <3>3 DEF Entry
      <3> HIDE DEF ids, row
      <3>6. /\ ui' \in LocalDnsUi /\ ui'.row = row /\ ui'.busyRows = ui.busyRows
            /\ ui'.entries = ids /\ ui'.editingId = ui.editingId
            /\ ui'.editSnapshot = ui.editSnapshot
        BY <1>0, <3>1, <3>3 DEF LocalDnsUi
      <3>8. LocalDnsTyped'
        BY <1>0, <2>1, <3>6 DEF LocalDnsTyped, LocalDnsCall, StoreInv
      <3>9. LocalDnsRowsOwn'
        BY <1>0, <2>1, <3>4, <3>6, <3>7 DEF LocalDnsRowsOwn, RecordSaving, StoreInv
      <3>10. LocalDnsLeads'
        BY <1>0, <2>1, <3>4, <3>5, <3>6, <3>7 DEF LocalDnsLeads, ShownBut
      <3> QED
        BY <3>8, <3>9, <3>10 DEF LocalDnsInv
    <2> QED
      BY <2>1, <2>2, <2>3
  <1>10. ASSUME NEW c \in calls, SavedEdit(c) PROVE LocalDnsInv'
    <2> DEFINE r == c.arg.row
               now == IF c.at = "ok" THEN c.data
                      ELSE IF ui.editSnapshot # None THEN ui.editSnapshot ELSE ui.row[r]
               row == [ui.row EXCEPT ![r] = now]
               end(x) == IF c.at = "ok" THEN None ELSE x
    <2>1. /\ calls' = calls \ {c} /\ page' = page /\ srv' = srv /\ crossed' = crossed
          /\ CallsInv' /\ RecordSaving(c) /\ c.at \in {"ok", "failed"}
          /\ ~crossed => calls' = {}
      BY <1>0, <1>10, DoneKeeps, LocalDnsOps
         DEF SavedEdit, Done, CallsInv, Ended, Ok, Failed, Apart, RecordSaving
    <2>2. ui' = [ui EXCEPT !.row = row, !.busyRows = ui.busyRows \ {now.id},
                           !.editingId = end(ui.editingId),
                           !.editSnapshot = end(ui.editSnapshot)]
      BY <1>10 DEF SavedEdit
    <2>3. r \in Item /\ now \in LocalDNSEntry /\ LocalDnsCall(c)
      BY <1>0, <2>1 DEF LocalDnsCall, RecordSaving, LocalDnsUi
    <2>4. /\ row \in [Item -> LocalDNSEntry] /\ row[r] = now
          /\ \A k \in Item : k # r => row[k] = ui.row[k]
          /\ end(ui.editingId) \in Item \cup {None}
          /\ end(ui.editSnapshot) \in LocalDNSEntry \cup {None}
      BY <1>0, <2>3 DEF LocalDnsUi
    <2>5. ~crossed => /\ now = Entry(r, srv.rows[r]) /\ ui.editingId = r /\ c.arg.id = r
                      /\ ui.entries = Ids(srv.rows) /\ ShownBut(r) /\ r \in ui.entries
                      /\ end(ui.editingId) # None => end(ui.editSnapshot) = now
      <3>1. SUFFICES ASSUME ~crossed
                     PROVE  /\ now = Entry(r, srv.rows[r]) /\ ui.editingId = r /\ c.arg.id = r
                            /\ ui.entries = Ids(srv.rows) /\ ShownBut(r) /\ r \in ui.entries
                            /\ end(ui.editingId) # None => end(ui.editSnapshot) = now
        OBVIOUS
      <3>2. LocalDnsLead(c) /\ RecordSaving(c)
        BY <1>0, <2>1, <3>1
      <3>3. c.at # "ok" => ui.editSnapshot = Entry(r, srv.rows[r])
        BY <3>2 DEF LocalDnsLead
      <3>4. srv.rows[r] \in Value
        BY <1>0, <2>3, <3>2 DEF LocalDnsLead, Ids, StoreInv, RowStore
      <3>5. Entry(r, srv.rows[r]) # None
        BY <2>3, <3>4, LocalDnsAssumption DEF Entry, LocalDNSEntry
      <3> QED
        BY <3>2, <3>3, <3>5 DEF LocalDnsLead
    <2>6. ~crossed => now.id = r /\ now.value = srv.rows[r]
      BY <2>5 DEF Entry
    <2>7. end(ui.editingId) \in {None, ui.editingId}
      OBVIOUS
    <2> HIDE DEF now, row, end
    <2>8. /\ ui' \in LocalDnsUi /\ ui'.row = row /\ ui'.busyRows = ui.busyRows \ {now.id}
          /\ ui'.entries = ui.entries /\ ui'.editingId = end(ui.editingId)
          /\ ui'.editSnapshot = end(ui.editSnapshot) /\ ui'.loading = ui.loading
      BY <1>0, <2>2, <2>4 DEF LocalDnsUi
    <2>9. LocalDnsTyped'
      BY <1>0, <2>1, <2>8 DEF LocalDnsTyped, LocalDnsCall, StoreInv
    <2>10. LocalDnsRowsOwn'
      <3>1. SUFFICES ASSUME ~crossed PROVE LocalDnsRowsOwn'
        BY <2>1 DEF LocalDnsRowsOwn
      <3>2. \A i \in Item : row[i].id = i
        BY <1>0, <2>4, <2>6, <3>1 DEF LocalDnsRowsOwn
      <3>3. ui'.busyRows = {}
        BY <1>0, <2>1, <2>5, <2>6, <2>8, <3>1 DEF LocalDnsRowsOwn, LocalDnsUi, Apart,
                                                  RecordSaving
      <3>4. ui'.loading => ui'.editingId = None
        BY <1>0, <2>3, <2>5, <2>8, <3>1 DEF LocalDnsRowsOwn
      <3>5. ui'.editingId # None =>
               ui'.editingId \in srv.used /\ ui'.editSnapshot = row[ui'.editingId]
        BY <1>0, <2>4, <2>5, <2>7, <2>8, <3>1 DEF LocalDnsRowsOwn
      <3> QED
        BY <1>0, <2>1, <2>8, <3>1, <3>2, <3>3, <3>4, <3>5 DEF LocalDnsRowsOwn
    <2>11. LocalDnsLeads'
      BY <1>0, <2>1, <2>4, <2>5, <2>6, <2>8 DEF LocalDnsLeads, ShownBut, LocalDnsUi
    <2> QED
      BY <2>9, <2>10, <2>11 DEF LocalDnsInv
  <1>11. ASSUME NEW c \in calls, LocalDnsDeleted(c) PROVE LocalDnsInv'
    <2>1. /\ calls' = calls \ {c} /\ page' = page /\ srv' = srv /\ crossed' = crossed
          /\ CallsInv' /\ c.op = "deleteLocalDNS" /\ c.at \in {"ok", "failed"}
          /\ ~crossed => calls' = {} /\ LocalDnsLead(c)
      BY <1>0, <1>11, DoneKeeps, LocalDnsOps
         DEF LocalDnsDeleted, Done, CallsInv, Ended, Ok, Failed, Apart
    <2>2. PICK entries \in SUBSET ui.entries :
            /\ \/ ui' = [ui EXCEPT !.deleting = FALSE] /\ entries = ui.entries
               \/ ui' = [ui EXCEPT !.deleting = FALSE, !.pendingDelete = None,
                                   !.entries = entries]
            /\ c.at = "failed" => entries = ui.entries
            /\ c.at = "ok" =>
                  entries = {r \in ui.entries : ui.row[r].id # ui.row[c.arg.row].id}
      <3>1. CASE c.at = "failed"
        BY <1>11, <3>1 DEF LocalDnsDeleted
      <3>2. CASE c.at = "ok"
        <4> DEFINE entries == {r \in ui.entries : ui.row[r].id # ui.row[c.arg.row].id}
        <4>1. ui' = [ui EXCEPT !.deleting = FALSE, !.pendingDelete = None,
                               !.entries = entries]
          BY <1>11, <3>2 DEF LocalDnsDeleted
        <4>2. entries \in SUBSET ui.entries
          OBVIOUS
        <4> QED
          BY <3>2, <4>1, <4>2
      <3> QED
        BY <2>1, <3>1, <3>2
    <2>3. /\ ui' \in LocalDnsUi /\ ui'.row = ui.row /\ ui'.busyRows = ui.busyRows
          /\ ui'.entries = entries /\ ui'.editingId = ui.editingId
          /\ ui'.editSnapshot = ui.editSnapshot /\ ui'.loading = ui.loading
      BY <1>0, <2>2 DEF LocalDnsUi
    <2>4. ~crossed /\ c.at = "ok" => entries = ui.entries \ {c.arg.id}
      BY <1>0, <2>1, <2>2 DEF LocalDnsRowsOwn, LocalDnsLead, LocalDnsUi, LocalDnsCall
    <2>5. LocalDnsTyped'
      BY <1>0, <2>1, <2>3 DEF LocalDnsTyped, LocalDnsCall, StoreInv
    <2>6. LocalDnsRowsOwn'
      BY <1>0, <2>1, <2>2, <2>3 DEF LocalDnsRowsOwn, RecordSaving
    <2>7. LocalDnsLeads'
      BY <2>1, <2>2, <2>3, <2>4 DEF LocalDnsLeads, LocalDnsLead, ShownBut
    <2> QED
      BY <2>5, <2>6, <2>7 DEF LocalDnsInv
  <1>12. ASSUME NEW c \in calls, LocalDnsCreated(c) PROVE LocalDnsInv'
    <2>1. /\ calls' = calls \ {c} /\ page' = page /\ srv' = srv /\ crossed' = crossed
          /\ CallsInv' /\ c.op = "createLocalDNS" /\ c.at \in {"ok", "failed"}
          /\ ~crossed => calls' = {} /\ LocalDnsLead(c)
      BY <1>0, <1>12, DoneKeeps, LocalDnsOps
         DEF LocalDnsCreated, Done, CallsInv, Ended, Ok, Failed, Apart
    <2>2. CASE c.at = "failed"
      <3>1. ui' = [ui EXCEPT !.submitting = FALSE]
        BY <1>12, <2>2 DEF LocalDnsCreated
      <3>2. /\ ui' \in LocalDnsUi /\ ui'.row = ui.row /\ ui'.busyRows = ui.busyRows
            /\ ui'.entries = ui.entries /\ ui'.editingId = ui.editingId
            /\ ui'.editSnapshot = ui.editSnapshot /\ ui'.loading = ui.loading
        BY <1>0, <3>1 DEF LocalDnsUi
      <3>3. LocalDnsTyped'
        BY <1>0, <2>1, <3>2 DEF LocalDnsTyped, LocalDnsCall, StoreInv
      <3>4. LocalDnsRowsOwn'
        BY <1>0, <2>1, <3>2 DEF LocalDnsRowsOwn, RecordSaving
      <3>5. LocalDnsLeads'
        BY <2>1, <2>2, <3>2 DEF LocalDnsLeads, LocalDnsLead, ShownBut
      <3> QED
        BY <3>3, <3>4, <3>5 DEF LocalDnsInv
    <2>3. CASE c.at = "ok"
      <3> DEFINE i == c.data.id
                 row == [ui.row EXCEPT ![i] = c.data]
      <3>1. ui' = [ui EXCEPT !.submitting = FALSE, !.showCreate = FALSE,
                             !.entries = ui.entries \cup {i}, !.row = row]
        BY <1>12, <2>3 DEF LocalDnsCreated
      <3>2. i \in Item /\ c.data \in LocalDNSEntry
        BY <1>0, <2>1, <2>3 DEF LocalDnsCall, LocalDNSEntry
      <3>3. row \in [Item -> LocalDNSEntry] /\ row[i] = c.data
            /\ \A k \in Item : k # i => row[k] = ui.row[k]
        BY <1>0, <3>2 DEF LocalDnsUi
      <3> HIDE DEF row
      <3>4. /\ ui' \in LocalDnsUi /\ ui'.row = row /\ ui'.busyRows = ui.busyRows
            /\ ui'.entries = ui.entries \cup {i} /\ ui'.editingId = ui.editingId
            /\ ui'.editSnapshot = ui.editSnapshot /\ ui'.loading = ui.loading
        BY <1>0, <3>1, <3>2, <3>3 DEF LocalDnsUi
      <3>5. LocalDnsTyped'
        BY <1>0, <2>1, <3>4 DEF LocalDnsTyped, LocalDnsCall, StoreInv
      <3>6. LocalDnsRowsOwn'
        BY <1>0, <2>1, <2>3, <3>3, <3>4
           DEF LocalDnsRowsOwn, LocalDnsLead, RecordSaving, StoreInv, LocalDnsUi
      <3>7. LocalDnsLeads'
        BY <1>0, <2>1, <2>3, <3>3, <3>4 DEF LocalDnsLeads, LocalDnsLead, ShownBut, LocalDnsUi
      <3> QED
        BY <3>5, <3>6, <3>7 DEF LocalDnsInv
    <2> QED
      BY <2>1, <2>2, <2>3
  <1>13. ASSUME NEW c \in calls, LocalDnsServes(c) PROVE LocalDnsInv'
    <2>1. /\ CallsInv' /\ StoreInv' /\ page' = page /\ ui' = ui /\ crossed' = crossed
          /\ srv.used \subseteq srv'.used /\ c.at = "sent"
          /\ ServedOne(c, {"listLocalDNS"}, {"createLocalDNS"}, {"updateLocalDNS"},
                       {"deleteLocalDNS"})
      <3>1. c.op \in {"createLocalDNS"} \cup {"updateLocalDNS"} => c.arg.value \in Value
        BY <1>0 DEF LocalDnsCall
      <3>2. ServesRows(c, {"listLocalDNS"}, {"createLocalDNS"}, {"updateLocalDNS"},
                       {"deleteLocalDNS"})
        BY <1>13 DEF LocalDnsServes
      <3> QED
        BY <1>0, <3>1, <3>2, ServesRowsKeeps
    <2>2. ~crossed /\ c.op # "listLocalDNS" => calls = {c} /\ LocalDnsLead(c)
      BY <1>0, <2>1, LocalDnsOps DEF Apart, LocalDnsCall
    <2>3. (\E at, data : MovedOne(c, at, data)) => LocalDnsRowsOwn'
      BY <1>0, <2>1 DEF MovedOne, LocalDnsRowsOwn, RecordSaving, Apart, LocalDnsUi
    <2>4. CASE c.op = "listLocalDNS" /\ ListedRows(c)
      <3>1. MovedOne(c, "ok", [rows |-> srv.rows]) /\ srv' = srv
        BY <2>4 DEF ListedRows
      <3>2. srv.rows \in [Item -> Value \cup {None}]
        BY <1>0 DEF StoreInv, RowStore
      <3>3. LocalDnsTyped'
        BY <1>0, <2>1, <2>4, <3>1, <3>2 DEF MovedOne, LocalDnsTyped, LocalDnsCall
      <3>4. LocalDnsLeads'
        BY <1>0, <2>1, <2>4, <3>1
           DEF MovedOne, LocalDnsLeads, LocalDnsLead, RecordSaving, ShownBut
      <3> QED
        BY <2>3, <3>1, <3>3, <3>4 DEF LocalDnsInv
    <2>5. CASE c.op = "createLocalDNS" /\ MadeRow(c)
      <3>1. PICK i \in Item \ srv.used :
                     /\ srv'.rows = [srv.rows EXCEPT ![i] = c.arg.value] /\ i \in srv'.used
                     /\ MovedOne(c, "ok", [id |-> i, value |-> c.arg.value])
        BY <2>5 DEF MadeRow
      <3>2. /\ c.arg.value \in Value /\ [id |-> i, value |-> c.arg.value] \in LocalDNSEntry
            /\ srv.rows \in [Item -> Value \cup {None}] /\ Ids(srv.rows) \subseteq srv.used
        BY <1>0, <2>5 DEF LocalDnsCall, LocalDNSEntry, StoreInv, RowStore
      <3>3. LocalDnsTyped'
        BY <1>0, <2>1, <2>5, <3>1, <3>2 DEF MovedOne, LocalDnsTyped, LocalDnsCall
      <3>4. Ids(srv'.rows) = Ids(srv.rows) \cup {i}
        BY <1>0, <3>1, <3>2 DEF Ids
      <3>5. LocalDnsLeads'
        BY <1>0, <2>1, <2>2, <2>5, <3>1, <3>2, <3>4
           DEF MovedOne, LocalDnsLeads, LocalDnsLead, LocalDnsRowsOwn, RecordSaving, ShownBut,
               LocalDnsUi
      <3> QED
        BY <2>3, <3>1, <3>3, <3>5 DEF LocalDnsInv
    <2>6. CASE c.op \in {"updateLocalDNS", "deleteLocalDNS"} /\ MissedRow(c)
      <3>1. MovedOne(c, "failed", c.data) /\ srv' = srv
        BY <2>6 DEF MissedRow
      <3>2. LocalDnsTyped'
        BY <1>0, <2>1, <2>6, <3>1 DEF MovedOne, LocalDnsTyped, LocalDnsCall
      <3>3. LocalDnsLeads'
        BY <1>0, <2>1, <2>2, <2>6, <3>1
           DEF MovedOne, LocalDnsLeads, LocalDnsLead, RecordSaving, ShownBut
      <3> QED
        BY <2>3, <3>1, <3>2, <3>3 DEF LocalDnsInv
    <2>7. CASE c.op = "updateLocalDNS" /\ WroteRow(c)
      <3>1. /\ c.arg.id \in Ids(srv.rows)
            /\ srv'.rows = [srv.rows EXCEPT ![c.arg.id] = c.arg.value]
            /\ MovedOne(c, "ok", [id |-> c.arg.id, value |-> c.arg.value])
        BY <2>7 DEF WroteRow
      <3>2. /\ c.arg.value \in Value /\ c.arg.id \in Item
            /\ [id |-> c.arg.id, value |-> c.arg.value] \in LocalDNSEntry
            /\ srv.rows \in [Item -> Value \cup {None}]
        BY <1>0, <2>7 DEF LocalDnsCall, LocalDNSEntry, StoreInv, RowStore
      <3>3. LocalDnsTyped'
        BY <1>0, <2>1, <2>7, <3>1, <3>2 DEF MovedOne, LocalDnsTyped, LocalDnsCall
      <3>4. Ids(srv'.rows) = Ids(srv.rows)
        BY <1>0, <3>1, <3>2 DEF Ids
      <3>5. LocalDnsLeads'
        BY <1>0, <2>1, <2>2, <2>7, <3>1, <3>2, <3>4
           DEF MovedOne, LocalDnsLeads, LocalDnsLead, RecordSaving, ShownBut, LocalDnsUi, Entry
      <3> QED
        BY <2>3, <3>1, <3>3, <3>5 DEF LocalDnsInv
    <2>8. CASE c.op = "deleteLocalDNS" /\ CutRow(c)
      <3>1. /\ c.arg.id \in Ids(srv.rows)
            /\ srv'.rows = [srv.rows EXCEPT ![c.arg.id] = None]
            /\ MovedOne(c, "ok", None)
        BY <2>8 DEF CutRow
      <3>2. c.arg.id \in Item /\ srv.rows \in [Item -> Value \cup {None}]
        BY <1>0, <2>8 DEF LocalDnsCall, StoreInv, RowStore
      <3>3. LocalDnsTyped'
        BY <1>0, <2>1, <2>8, <3>1 DEF MovedOne, LocalDnsTyped, LocalDnsCall
      <3>4. Ids(srv'.rows) = Ids(srv.rows) \ {c.arg.id}
        BY <1>0, <3>1, <3>2 DEF Ids
      <3>5. LocalDnsLeads'
        BY <1>0, <2>1, <2>2, <2>8, <3>1, <3>2, <3>4
           DEF MovedOne, LocalDnsLeads, LocalDnsLead, RecordSaving, ShownBut, LocalDnsUi
      <3> QED
        BY <2>3, <3>1, <3>3, <3>5 DEF LocalDnsInv
    <2> QED
      BY <2>1, <2>4, <2>5, <2>6, <2>7, <2>8 DEF ServedOne
  <1>14. ASSUME NEW c \in calls, Fails(c) PROVE LocalDnsInv'
    <2>1. /\ MovedOne(c, "failed", None) /\ CallsInv' /\ page' = page /\ ui' = ui
          /\ srv' = srv /\ c.at \in {"sent", "ok"}
          /\ crossed' = (crossed \/ ~Mutates(c.op) \/ c.at = "ok")
      BY <1>0, <1>14, FailsKeeps
    <2>2. ~crossed' => /\ ~crossed /\ c.op # "listLocalDNS" /\ c.at = "sent"
                       /\ calls = {c} /\ LocalDnsLead(c)
      BY <1>0, <2>1, LocalDnsOps DEF Apart
    <2>3. LocalDnsTyped'
      BY <1>0, <2>1 DEF MovedOne, LocalDnsTyped, LocalDnsCall, StoreInv
    <2>4. LocalDnsRowsOwn'
      BY <1>0, <2>1, <2>2 DEF MovedOne, LocalDnsRowsOwn, RecordSaving
    <2>5. LocalDnsLeads'
      BY <2>1, <2>2 DEF MovedOne, LocalDnsLeads, LocalDnsLead, RecordSaving, ShownBut
    <2> QED
      BY <2>3, <2>4, <2>5 DEF LocalDnsInv
  <1> QED
    BY <1>1, <1>2, <1>3, <1>4, <1>5, <1>6, <1>7, <1>8, <1>9, <1>10, <1>11, <1>12, <1>13,
       <1>14 DEF LocalDnsNext

\* What the run checks of this view.
LEMMA LocalDnsShow ==
    ASSUME LocalDnsInv
    PROVE  LocalDnsTypeOK /\ LocalDnsShowsStored /\ RowsStayThemselves
  <1> USE DEF LocalDnsInv, LocalDnsTyped
  <1>1. TypedCalls /\ StoreType
    BY InvTypesCalls, StoreTyped
  <1>2. LocalDnsTypeOK
    BY <1>1 DEF LocalDnsTypeOK, LocalDnsUi
  <1>3. RowsStayThemselves
    <2>1. SUFFICES ASSUME ~crossed
                   PROVE  ui.busyRows = {c.arg.id : c \in Pending("updateLocalDNS")}
      BY DEF RowsStayThemselves, LocalDnsRowsOwn, LocalDnsUi
    <2>2. \A c \in Pending("updateLocalDNS") : c.arg.id \in Item
      BY DEF Pending, LocalDnsCall
    <2> QED
      BY <2>1, <2>2 DEF LocalDnsRowsOwn, Pending, RecordSaving, LocalDnsUi
  <1>4. LocalDnsShowsStored
    <2>1. SUFFICES ASSUME Settled PROVE
              /\ {ui.row[r].id : r \in ui.entries} = LocalDnsStored
              /\ \A r \in ui.entries : ui.row[r].value = srv.rows[ui.row[r].id]
      BY DEF LocalDnsShowsStored
    <2>2. /\ \A r \in Item : ui.row[r].id = r
          /\ ui.entries = Ids(srv.rows) /\ ShownBut(None) /\ None \notin Item
          /\ ui.entries \subseteq Item
      BY <2>1, PageAssumption DEF Settled, LocalDnsRowsOwn, LocalDnsLeads, LocalDnsUi
    <2>3. \A r \in ui.entries : ui.row[r].id = r
      BY <2>2
    <2>4. {ui.row[r].id : r \in ui.entries} = ui.entries
      BY <2>3
    <2> QED
      BY <2>2, <2>3, <2>4 DEF ShownBut, LocalDnsStored
  <1> QED
    BY <1>2, <1>3, <1>4
-----------------------------------------------------------------------------
(* The query log.                                                              *)

\* A page of the log: no entry twice.
LogPage == {s \in Seq(QueryLogEntry) : Len(s) <= PageSize /\ IsInjective(s)}
LogOffset == 0..(QueryLogLogBound + 1)

QueryLogUi ==
    [scope : Scopes, offset : LogOffset, entries : LogPage \cup {None},
     total : 0..QueryLogLogBound, liveTail : BOOLEAN, polling : BOOLEAN, mounted : BOOLEAN]
QueryLogArg == [scope : Scopes, offset : LogOffset, prepend : BOOLEAN, then : BOOLEAN]
LogAnswer == [entries : LogPage, total : 0..QueryLogLogBound]

QueryLogTyped ==
    /\ page = "querylog" /\ CallsInv /\ ui \in QueryLogUi /\ srv \in [log : 0..QueryLogLogBound]
    /\ \A c \in calls : /\ c.op = "getQueryLog" /\ c.arg \in QueryLogArg
                        /\ c.at = "ok" => c.data \in LogAnswer

\* While nothing crosses, what is asked for is what the toolbar says, and what is merged
\* is merged into the page as it is stored.
LogShown ==
    LET listing == QueryLogListing(srv.log, ui.scope, ui.offset)
    IN ui.entries = listing.entries /\ ui.total = listing.total

QueryLogLead(c) ==
    /\ c.at # "failed" /\ c.arg.scope = ui.scope /\ c.arg.offset = ui.offset
    /\ c.at = "ok" => c.data = QueryLogListing(srv.log, ui.scope, ui.offset)
    /\ c.arg.prepend => LogShown

QueryLogLeads ==
    ~crossed => (\A c \in calls : QueryLogLead(c)) /\ (calls = {} => LogShown)

QueryLogInv == QueryLogTyped /\ QueryLogLeads

\* The view only reads.
LEMMA QueryLogOps == "getQueryLog" \in Endpoint /\ ~Mutates("getQueryLog")
  BY DEF Endpoint, Mutates, Reads, Changes, AccountAndListCalls, ConfigurationCalls,
         ClientAndAuditCalls, PauseAndWebhookCalls, TokenAndDeviceCalls, OtherCalls

\* Cutting a page out of a list repeats nothing.
LEMMA SliceIs ==
    ASSUME NEW s \in Seq(QueryLogEntry), IsInjective(s), NEW from \in Nat \ {0}, NEW to \in Nat,
           to <= from + PageSize - 1
    PROVE  Slice(s, from, to) \in LogPage
  <1> DEFINE end == Min({to, Len(s)})
             cut == SubSeq(s, from, end)
  <1>1. Len(s) \in Nat /\ DOMAIN s = 1..Len(s)
    OBVIOUS
  <1>2. end \in Nat /\ end <= to /\ end <= Len(s)
    <2>1. \E x \in {to, Len(s)} : \A y \in {to, Len(s)} : x <= y
      BY <1>1
    <2> QED
      BY <1>1, <2>1 DEF Min
  <1> HIDE DEF end
  <1>3. /\ cut \in Seq(QueryLogEntry) /\ Len(cut) = (IF from <= end THEN end - from + 1 ELSE 0)
        /\ \A i \in 1..Len(cut) : cut[i] = s[from + i - 1] /\ from + i - 1 \in 1..Len(s)
    BY <1>1, <1>2
  <1>4. Len(cut) <= PageSize
    BY <1>2, <1>3 DEF PageSize
  <1>5. IsInjective(cut)
    <2> HIDE DEF cut
    <2>0. DOMAIN cut = 1..Len(cut)
      BY <1>3
    <2> SUFFICES ASSUME NEW i \in 1..Len(cut), NEW j \in 1..Len(cut), cut[i] = cut[j]
                 PROVE  i = j
      BY <2>0 DEF IsInjective
    <2>1. from + i - 1 = from + j - 1
      BY <1>1, <1>3 DEF IsInjective
    <2> QED
      BY <1>3, <2>1
  <1> QED
    BY <1>3, <1>4, <1>5 DEF Slice, LogPage, end

\* What the node answers.
LEMMA ListingIs ==
    ASSUME NEW n \in 0..QueryLogLogBound, NEW q \in Scopes, NEW offset \in LogOffset
    PROVE  QueryLogListing(n, q, offset) \in LogAnswer
  <1> DEFINE M == QueryLogMatching(n, q)
             s == NewestFirst(n, q)
  <1>1. M \in SUBSET (1..QueryLogLogBound) /\ M \in SUBSET Nat
    <2>1. M \in SUBSET (1..n)
      BY DEF QueryLogMatching
    <2>2. \A e \in 1..n : e \in 1..QueryLogLogBound /\ e \in Nat
      BY DEF QueryLogLogBound
    <2> HIDE DEF M
    <2> QED
      BY <2>1, <2>2
  <1>2. /\ IsFiniteSet(1..QueryLogLogBound)
        /\ Cardinality(1..QueryLogLogBound) = QueryLogLogBound
    <2>1. 1 \in Int /\ QueryLogLogBound \in Int /\ ~(1 > QueryLogLogBound)
          /\ QueryLogLogBound - 1 + 1 = QueryLogLogBound
      BY DEF QueryLogLogBound
    <2> QED
      BY <2>1, FS_Interval
  <1>3. IsFiniteSet(M) /\ Cardinality(M) \in Nat /\ Cardinality(M) <= QueryLogLogBound
    <2> HIDE DEF M
    <2>1. IsFiniteSet(M) /\ Cardinality(M) <= QueryLogLogBound
      <3> DEFINE all == 1..QueryLogLogBound
      <3> HIDE DEF all
      <3>1. M \in SUBSET all /\ IsFiniteSet(all) /\ Cardinality(all) = QueryLogLogBound
        BY <1>1, <1>2 DEF all
      <3> QED
        BY <3>1, FS_Subset
    <2> QED
      BY <2>1, FS_CardinalityType
  <1>4. /\ Ascending(M) \in [1..Cardinality(M) -> M]
        /\ \A i, j \in 1..Cardinality(M) : Ascending(M)[i] = Ascending(M)[j] => i = j
    <2> HIDE DEF M
    <2> QED
      BY <1>1, <1>3, AscendingIs
  <1>5. /\ s \in Seq(QueryLogEntry) /\ Len(s) = Cardinality(M)
        /\ \A i \in 1..Len(s) : s[i] = Ascending(M)[Cardinality(M) - i + 1]
    <2> DEFINE k == Cardinality(M)
               f == Ascending(M)
    <2>1. k \in Nat /\ f \in [1..k -> QueryLogEntry] /\ s = Reverse(f)
      BY <1>1, <1>3, <1>4 DEF NewestFirst, QueryLogEntry, QueryLogEntries
    <2> HIDE DEF k, f, s
    <2>2. f \in Seq(QueryLogEntry) /\ Len(f) = k
      BY <2>1
    <2>3. s = [i \in 1..k |-> f[k - i + 1]]
      BY <2>1, <2>2 DEF Reverse
    <2>4. s \in [1..k -> QueryLogEntry]
      BY <2>1, <2>3
    <2>5. s \in Seq(QueryLogEntry) /\ Len(s) = k
      BY <2>1, <2>4
    <2> QED
      BY <2>3, <2>5 DEF k, f
  <1>6. IsInjective(s)
    <2> HIDE DEF s, M
    <2> SUFFICES ASSUME NEW i \in 1..Len(s), NEW j \in 1..Len(s), s[i] = s[j]
                 PROVE  i = j
      BY <1>5 DEF IsInjective
    <2> DEFINE k == Cardinality(M)
    <2>0. k \in Nat /\ i \in 1..k /\ j \in 1..k
      BY <1>3, <1>5
    <2>1. k - i + 1 \in 1..k /\ k - j + 1 \in 1..k
      BY <2>0
    <2>2. k - i + 1 = k - j + 1
      BY <1>4, <1>5, <2>1
    <2> QED
      BY <2>0, <2>2
  <1>7. Slice(s, offset + 1, offset + PageSize) \in LogPage
    <2> HIDE DEF s
    <2>1. /\ offset + 1 \in Nat \ {0} /\ offset + PageSize \in Nat
          /\ offset + PageSize <= (offset + 1) + PageSize - 1
      BY DEF LogOffset, PageSize, QueryLogLogBound
    <2> QED
      BY <1>5, <1>6, <2>1, SliceIs
  <1>8. Len(s) \in 0..QueryLogLogBound
    BY <1>3, <1>5 DEF QueryLogLogBound
  <1> QED
    BY <1>7, <1>8 DEF QueryLogListing, LogAnswer

\* Merging a page into another lists nothing twice.
LEMMA MergedIs ==
    ASSUME NEW new \in LogPage, NEW old \in LogPage
    PROVE  Merged(new, old) \in LogPage
  <1> DEFINE places == {k \in DOMAIN old : old[k] \notin Range(new)}
             rest == Kept(old, places)
             both == new \o rest
  <1>1. /\ new \in Seq(QueryLogEntry) /\ old \in Seq(QueryLogEntry) /\ Len(old) \in Nat
        /\ DOMAIN old = 1..Len(old) /\ DOMAIN new = 1..Len(new) /\ Len(new) \in Nat
        /\ IsInjective(new) /\ IsInjective(old)
    BY DEF LogPage
  <1>2. PICK m \in 0..Len(old) :
             /\ DOMAIN rest = 1..m
             /\ rest = [i \in 1..m |-> rest[i]]
             /\ \A i \in 1..m : \E k \in places : rest[i] = old[k]
             /\ \A i, j \in 1..m : i # j =>
                   \E k, l \in places : k # l /\ rest[i] = old[k] /\ rest[j] = old[l]
    <2>1. places \in SUBSET (1..Len(old))
      BY <1>1
    <2> HIDE DEF places
    <2>2. OfPlaces(Kept(old, places), Len(old), old, places)
      BY <1>1, <2>1, KeptIs
    <2> QED
      BY <2>2 DEF OfPlaces
  <1>3. /\ \A k \in places : old[k] \in QueryLogEntry /\ k \in DOMAIN old
        /\ \A k \in places : \A i \in 1..Len(new) : old[k] # new[i]
    BY <1>1 DEF Range
  <1> HIDE DEF places, rest
  <1>4. \A i, j \in 1..m : i # j => rest[i] # rest[j]
    BY <1>1, <1>2, <1>3 DEF IsInjective
  <1>5. \A i \in 1..m : rest[i] \in QueryLogEntry /\ \A j \in 1..Len(new) : rest[i] # new[j]
    BY <1>2, <1>3
  <1>6. rest \in Seq(QueryLogEntry) /\ Len(rest) = m
    <2>1. rest \in [1..m -> QueryLogEntry] /\ m \in Nat
      BY <1>2, <1>5
    <2> QED
      BY <2>1
  <1>7. /\ both \in Seq(QueryLogEntry) /\ Len(both) = Len(new) + m
        /\ \A i \in 1..Len(both) :
              both[i] = IF i <= Len(new) THEN new[i] ELSE rest[i - Len(new)]
    BY <1>1, <1>6
  <1>8. IsInjective(both)
    <2> HIDE DEF both
    <2>1. DOMAIN both = 1..Len(both)
      BY <1>7
    <2> SUFFICES ASSUME NEW i \in 1..Len(both), NEW j \in 1..Len(both), both[i] = both[j]
                 PROVE  i = j
      BY <2>1 DEF IsInjective
    <2>2. /\ i > Len(new) => i - Len(new) \in 1..m
          /\ j > Len(new) => j - Len(new) \in 1..m
          /\ i <= Len(new) => i \in 1..Len(new)
          /\ j <= Len(new) => j \in 1..Len(new)
          /\ i - Len(new) = j - Len(new) => i = j
          /\ i > Len(new) \/ i <= Len(new)
          /\ j > Len(new) \/ j <= Len(new)
      BY <1>1, <1>7
    <2>3. CASE i <= Len(new) /\ j <= Len(new)
      BY <1>1, <1>7, <2>2, <2>3 DEF IsInjective
    <2>4. CASE i > Len(new) /\ j > Len(new)
      <3>1. rest[i - Len(new)] = rest[j - Len(new)]
        BY <1>1, <1>7, <2>4
      <3> QED
        BY <1>4, <2>2, <2>4, <3>1
    <2>5. CASE i <= Len(new) /\ j > Len(new)
      <3>1. new[i] = rest[j - Len(new)]
        BY <1>1, <1>7, <2>5
      <3> QED
        BY <1>5, <2>2, <2>5, <3>1
    <2>6. CASE i > Len(new) /\ j <= Len(new)
      <3>1. new[j] = rest[i - Len(new)]
        BY <1>1, <1>7, <2>6
      <3> QED
        BY <1>5, <2>2, <2>6, <3>1
    <2> QED
      BY <2>2, <2>3, <2>4, <2>5, <2>6
  <1>9. Slice(both, 1, PageSize) \in LogPage
    <2> HIDE DEF both
    <2>1. 1 \in Nat \ {0} /\ PageSize \in Nat /\ PageSize <= 1 + PageSize - 1
      BY DEF PageSize
    <2> QED
      BY <1>7, <1>8, <2>1, SliceIs
  <1> QED
    BY <1>9 DEF Merged, rest, places

\* What is merged into itself stays as it is.
LEMMA MergedSame ==
    ASSUME NEW s \in LogPage
    PROVE  Merged(s, s) = s
  <1> DEFINE places == {k \in DOMAIN s : s[k] \notin Range(s)}
             rest == Kept(s, places)
  <1>1. s \in Seq(QueryLogEntry) /\ Len(s) \in Nat /\ Len(s) <= PageSize
    BY DEF LogPage
  <1>2. places = {}
    BY DEF Range
  <1>3. Cardinality({}) = 0
    BY FS_EmptySet
  <1>4. rest \in [1..0 -> QueryLogEntry]
    BY <1>2, <1>3 DEF Kept
  <1>5. s \o rest = s
    <2>1. rest \in Seq(QueryLogEntry) /\ Len(rest) = 0
      BY <1>4
    <2> HIDE DEF rest
    <2>2. rest = << >>
      BY <2>1, EmptySeq
    <2> QED
      BY <1>1, <2>2, ConcatEmptySeq
  <1>6. Min({PageSize, Len(s)}) = Len(s)
    <2>1. \E x \in {PageSize, Len(s)} : \A y \in {PageSize, Len(s)} : x <= y
      BY <1>1 DEF PageSize
    <2> QED
      BY <1>1, <2>1 DEF Min, PageSize
  <1>7. SubSeq(s, 1, Len(s)) = s
    BY <1>1
  <1> QED
    BY <1>5, <1>6, <1>7 DEF Merged, Slice

\* The first page is asked for.
LEMMA QueryLogStart == QueryLogInit => QueryLogInv
  <1> SUFFICES ASSUME QueryLogInit PROVE QueryLogInv
    OBVIOUS
  <1>1. PICK q \in {"local", "cluster"} :
          /\ ui = [scope |-> q, offset |-> 0, entries |-> None, total |-> 0,
                   liveTail |-> TRUE, polling |-> FALSE, mounted |-> TRUE]
          /\ calls = {Call(1, "getQueryLog", QueryLogAsked(q, 0, FALSE, TRUE))}
    BY DEF QueryLogInit
  <1>2. /\ CallsInv /\ calls # {}
        /\ \A c \in calls : /\ c.op = "getQueryLog" /\ c.at = "sent"
                            /\ c.arg = QueryLogAsked(q, 0, FALSE, TRUE)
    BY <1>1, FirstCall, QueryLogOps DEF QueryLogInit
  <1>3. /\ QueryLogAsked(q, 0, FALSE, TRUE) \in QueryLogArg
        /\ QueryLogAsked(q, 0, FALSE, TRUE).scope = ui.scope
        /\ QueryLogAsked(q, 0, FALSE, TRUE).offset = ui.offset
        /\ ~QueryLogAsked(q, 0, FALSE, TRUE).prepend
    BY <1>1 DEF QueryLogAsked, QueryLogArg, Scopes, LogOffset, QueryLogLogBound
  <1>4. page = "querylog" /\ ui \in QueryLogUi /\ srv \in [log : 0..QueryLogLogBound]
    BY <1>1 DEF QueryLogInit, QueryLogUi, Scopes, LogOffset, QueryLogLogBound
  <1> QED
    BY <1>2, <1>3, <1>4 DEF QueryLogInv, QueryLogTyped, QueryLogLeads, QueryLogLead

\* What is asked for from now on, and what that makes of the calls.
LEMMA QueryLogGoesKeep ==
    ASSUME QueryLogInv, NEW q \in Scopes, NEW offset \in LogOffset, QueryLogGoes(q, offset)
    PROVE  QueryLogInv'
  <1> DEFINE arg == QueryLogAsked(q, offset, FALSE, TRUE)
  <1>0. QueryLogTyped /\ QueryLogLeads /\ page = "querylog" /\ CallsInv /\ ui \in QueryLogUi
    BY DEF QueryLogInv, QueryLogTyped
  <1>1. /\ arg \in QueryLogArg /\ arg.scope = q /\ arg.offset = offset /\ arg.prepend = FALSE
        /\ page' = page /\ srv' = srv /\ Sends(calls, "getQueryLog", arg)
    BY DEF QueryLogGoes, Asks, QueryLogAsked, QueryLogArg
  <1>2. /\ ui' \in QueryLogUi /\ ui'.scope = q /\ ui'.offset = offset
    BY <1>0 DEF QueryLogGoes, QueryLogUi
  <1> HIDE DEF arg
  <1>3. SentOne(calls, "getQueryLog", arg) /\ CallsInv'
    BY <1>0, <1>1, SendsKeeps, QueryLogOps
  <1>4. ~crossed' => \A c \in calls : ~crossed /\ c.arg = arg
    BY <1>1 DEF Sends, Crosses
  <1>5. QueryLogTyped'
    BY <1>0, <1>1, <1>2, <1>3 DEF QueryLogTyped, SentOne
  <1>6. QueryLogLeads'
    <2> SUFFICES ASSUME ~crossed'
                 PROVE  (\A c \in calls : QueryLogLead(c))' /\ calls' # {}
      BY DEF QueryLogLeads
    <2>1. \A c \in calls : c.at # "failed" /\ c.arg = arg /\ ~c.arg.prepend
                           /\ (c.at = "ok" => c.data = QueryLogListing(srv.log, q, offset))
      BY <1>0, <1>1, <1>4 DEF QueryLogLeads, QueryLogLead
    <2> QED
      BY <1>1, <1>2, <1>3, <2>1 DEF SentOne, QueryLogLead
  <1> QED
    BY <1>5, <1>6 DEF QueryLogInv

\* Every step of the query log keeps all of it.
LEMMA QueryLogKeep == QueryLogInv /\ QueryLogNext => QueryLogInv'
  <1> SUFFICES ASSUME QueryLogInv, QueryLogNext PROVE QueryLogInv'
    OBVIOUS
  <1>0. /\ QueryLogTyped /\ QueryLogLeads /\ page = "querylog" /\ CallsInv /\ ui \in QueryLogUi
        /\ srv \in [log : 0..QueryLogLogBound] /\ crossed \in BOOLEAN
        /\ \A c \in calls : /\ c.op = "getQueryLog" /\ c.arg \in QueryLogArg
                            /\ c.at = "ok" => c.data \in LogAnswer
    BY DEF QueryLogInv, QueryLogTyped, CallsInv
  <1>1. CASE Poll
    <2> DEFINE arg == QueryLogAsked(ui.scope, ui.offset, CanLiveTailPrepend, FALSE)
    <2>1. /\ arg \in QueryLogArg /\ arg.scope = ui.scope /\ arg.offset = ui.offset
          /\ page' = page /\ srv' = srv /\ ui' = ui
          /\ \/ arg.prepend /\ AddsAside(calls, "getQueryLog", arg)
             \/ ~arg.prepend /\ Sends(calls, "getQueryLog", arg)
      BY <1>0, <1>1 DEF Poll, Asks, AsksAside, QueryLogAsked, QueryLogArg, QueryLogUi,
                        CanLiveTailPrepend
    <2> HIDE DEF arg
    <2>2. SentOne(calls, "getQueryLog", arg) /\ CallsInv'
      BY <1>0, <2>1, SendsKeeps, AddsAsideKeeps, QueryLogOps
    <2>3. ~crossed' => /\ calls # {} \/ arg.prepend => ~crossed
                       /\ \A c \in calls : c.arg = arg
      BY <2>1 DEF Sends, AddsAside, Crosses
    <2>4. ~crossed' /\ arg.prepend => LogShown
      BY <1>0, <2>3 DEF QueryLogLeads, QueryLogLead
    <2>5. QueryLogTyped'
      BY <1>0, <2>1, <2>2 DEF QueryLogTyped, SentOne
    <2>6. QueryLogLeads'
      BY <1>0, <2>1, <2>2, <2>3, <2>4 DEF QueryLogLeads, QueryLogLead, LogShown, SentOne
    <2> QED
      BY <2>5, <2>6 DEF QueryLogInv
  <1>2. CASE ToggleLiveTail \/ Leave
    <2>1. /\ page' = page /\ srv' = srv /\ calls' = calls /\ crossed' = crossed /\ CallsInv'
      BY <1>0, <1>2, SameCallsKeep DEF ToggleLiveTail, Leave, Local
    <2>2. /\ ui' \in QueryLogUi /\ ui'.scope = ui.scope /\ ui'.offset = ui.offset
          /\ ui'.entries = ui.entries /\ ui'.total = ui.total
      BY <1>0, <1>2 DEF ToggleLiveTail, Leave, QueryLogUi
    <2>3. QueryLogTyped'
      BY <1>0, <2>1, <2>2 DEF QueryLogTyped
    <2>4. QueryLogLeads'
      BY <1>0, <2>1, <2>2 DEF QueryLogLeads, QueryLogLead, LogShown
    <2> QED
      BY <2>3, <2>4 DEF QueryLogInv
  <1>3. CASE ApplyFilters \/ PrevPage \/ QueryLogNextPage
    <2>1. /\ ui.scope \in Scopes /\ ui.offset \in LogOffset /\ 0 \in LogOffset
          /\ ui.total \in 0..QueryLogLogBound
      BY <1>0 DEF QueryLogUi, LogOffset, QueryLogLogBound
    <2>2. Max({0, ui.offset - PageSize}) \in LogOffset
      <3> DEFINE S == {0, ui.offset - PageSize}
      <3>1. \E x \in S : \A y \in S : x >= y
        BY <2>1 DEF LogOffset, PageSize, QueryLogLogBound
      <3>2. Max(S) \in S /\ \A y \in S : Max(S) >= y
        BY <3>1 DEF Max
      <3>3. ui.offset - PageSize \in Int /\ ui.offset - PageSize <= QueryLogLogBound + 1
        BY <2>1 DEF LogOffset, PageSize, QueryLogLogBound
      <3> QED
        BY <3>2, <3>3 DEF LogOffset, QueryLogLogBound
    <2>3. HasNext => ui.offset + PageSize \in LogOffset
      <3>1. ui.entries = None \/ Len(ui.entries) \in Nat
        BY <1>0 DEF QueryLogUi, LogPage
      <3> DEFINE n == IF ui.entries = None THEN 0 ELSE Len(ui.entries)
      <3>2. n \in Nat /\ (HasNext <=> ui.offset + n < ui.total)
        BY <3>1 DEF HasNext
      <3> HIDE DEF n
      <3> QED
        BY <2>1, <3>2 DEF LogOffset, PageSize, QueryLogLogBound
    <2> QED
      BY <1>3, <2>1, <2>2, <2>3, QueryLogGoesKeep
         DEF ApplyFilters, PrevPage, QueryLogNextPage
  <1>4. CASE Logs
    <2>1. /\ page' = page /\ ui' = ui /\ calls' = calls /\ crossed' = TRUE /\ CallsInv'
      BY <1>0, <1>4, SameCallsKeep DEF Logs
    <2>2. srv' \in [log : 0..QueryLogLogBound]
      BY <1>0, <1>4 DEF Logs, QueryLogLogBound
    <2> QED
      BY <1>0, <2>1, <2>2 DEF QueryLogInv, QueryLogTyped, QueryLogLeads
  <1>5. ASSUME NEW c \in calls, Fetched(c) PROVE QueryLogInv'
    <2>1. /\ calls' = calls \ {c} /\ page' = page /\ srv' = srv /\ crossed' = crossed
          /\ CallsInv' /\ c.at \in {"ok", "failed"}
      BY <1>0, <1>5, DoneKeeps DEF Fetched, Done, Ended, Ok, Failed
    <2> DEFINE entries == IF c.at = "failed"
                          THEN IF ui.entries = None THEN << >> ELSE ui.entries
                          ELSE IF c.arg.prepend /\ ui.entries \notin {None, << >>}
                          THEN Merged(c.data.entries, ui.entries) ELSE c.data.entries
               total == IF c.at = "ok" THEN c.data.total ELSE ui.total
               polling == IF c.arg.then THEN ui.polling \/ ui.liveTail ELSE ui.polling
    <2>2. << >> \in LogPage
      BY EmptySeq DEF LogPage, IsInjective, PageSize
    <2>3. /\ c.at = "ok" => c.data.entries \in LogPage /\ c.data.total \in 0..QueryLogLogBound
          /\ ui.entries \in LogPage \cup {None} /\ ui.total \in 0..QueryLogLogBound
          /\ ui.polling \in BOOLEAN /\ ui.liveTail \in BOOLEAN
      BY <1>0 DEF LogAnswer, QueryLogUi
    <2>4. entries \in LogPage /\ total \in 0..QueryLogLogBound /\ polling \in BOOLEAN
      BY <2>1, <2>2, <2>3, MergedIs
    <2>5. ui' = [ui EXCEPT !.total = total, !.entries = entries, !.polling = polling]
      BY <1>5 DEF Fetched
    <2>6. ~crossed => /\ c.at = "ok" /\ c.data = QueryLogListing(srv.log, ui.scope, ui.offset)
                      /\ c.arg.prepend => ui.entries = c.data.entries
      BY <1>0, <2>1 DEF QueryLogLeads, QueryLogLead, LogShown
    <2>7. ~crossed => entries = c.data.entries /\ total = c.data.total
      BY <2>3, <2>6, MergedSame
    <2> HIDE DEF entries, total, polling
    <2>8. /\ ui' \in QueryLogUi /\ ui'.scope = ui.scope /\ ui'.offset = ui.offset
          /\ ui'.entries = entries /\ ui'.total = total
      BY <1>0, <2>4, <2>5 DEF QueryLogUi
    <2>9. QueryLogTyped'
      BY <1>0, <2>1, <2>8 DEF QueryLogTyped
    <2>10. ~crossed => LogShown'
      BY <2>1, <2>6, <2>7, <2>8 DEF LogShown
    <2>11. QueryLogLeads'
      BY <1>0, <2>1, <2>8, <2>10 DEF QueryLogLeads, QueryLogLead
    <2> QED
      BY <2>9, <2>11 DEF QueryLogInv
  <1>6. ASSUME NEW c \in calls, QueryLogServes(c) PROVE QueryLogInv'
    <2> DEFINE data == QueryLogListing(srv.log, c.arg.scope, c.arg.offset)
    <2>1. page' = page /\ ui' = ui /\ srv' = srv /\ Answers(c, data) /\ data \in LogAnswer
      BY <1>0, <1>6, ListingIs DEF QueryLogServes, QueryLogArg
    <2> HIDE DEF data
    <2>2. MovedOne(c, "ok", data) /\ CallsInv' /\ crossed' = crossed
      BY <1>0, <2>1, AnswersKeeps
    <2>3. ~crossed => data = QueryLogListing(srv.log, ui.scope, ui.offset)
      BY <1>0 DEF data, QueryLogLeads, QueryLogLead
    <2>4. QueryLogTyped'
      BY <1>0, <2>1, <2>2 DEF QueryLogTyped, MovedOne
    <2>5. QueryLogLeads'
      BY <1>0, <2>1, <2>2, <2>3 DEF QueryLogLeads, QueryLogLead, LogShown, MovedOne
    <2> QED
      BY <2>4, <2>5 DEF QueryLogInv
  <1>7. ASSUME NEW c \in calls, Fails(c) PROVE QueryLogInv'
    <2>1. /\ MovedOne(c, "failed", None) /\ CallsInv' /\ page' = page /\ ui' = ui /\ srv' = srv
          /\ crossed'
      BY <1>0, <1>7, FailsKeeps, QueryLogOps
    <2> QED
      BY <1>0, <2>1 DEF QueryLogInv, QueryLogTyped, QueryLogLeads, MovedOne
  <1> QED
    BY <1>1, <1>2, <1>3, <1>4, <1>5, <1>6, <1>7 DEF QueryLogNext

\* What the invariant says of the page.
LEMMA QueryLogShow == QueryLogInv => QueryLogTypeOK /\ ShowsLog /\ NothingTwice
  <1> SUFFICES ASSUME QueryLogInv PROVE QueryLogTypeOK /\ ShowsLog /\ NothingTwice
    OBVIOUS
  <1>0. QueryLogTyped /\ QueryLogLeads /\ ui \in QueryLogUi /\ TypedCalls
    BY InvTypesCalls DEF QueryLogInv, QueryLogTyped
  <1>1. ui.entries # None => /\ Range(ui.entries) \subseteq QueryLogEntries
                             /\ Len(ui.entries) <= PageSize
                             /\ IsInjective(ui.entries)
    BY <1>0 DEF QueryLogUi, LogPage, Range, QueryLogEntry
  <1>2. QueryLogTypeOK
    BY <1>0, <1>1 DEF QueryLogTypeOK, QueryLogTyped, QueryLogUi, LogOffset
  <1>3. ShowsLog
    BY <1>0 DEF ShowsLog, Settled, QueryLogLeads, LogShown, QueryLogListing
  <1> QED
    BY <1>1, <1>2, <1>3 DEF NothingTwice
-----------------------------------------------------------------------------
(* Who is signed in.                                                           *)

SessionUi ==
    [route : Route \cup {None}, to : Route \cup {None}, token : Nat \cup {None},
     user : BOOLEAN, isSetup : BOOLEAN, loading : BOOLEAN, mine : SessionKeys \cup {None}]

SessionHandlers ==
    [cred : Credential, of : SessionKeys \cup {None}, at : {"checked", "set"}]

SessionStore ==
    [mem : Credential \cup {None}, kept : Credential \cup {None}, sessions : SUBSET Nat,
     issued : Nat, doing : SUBSET SessionHandlers]

Probes == {"healthLiveness", "listBlocklists"}
OfForms == {"login", "setupCredentials", "changePassword"}
Hashing == {"setupCredentials", "changePassword"}

\* What a call carries, and its answer.
SessionCall(c) ==
    \/ c.op \in Probes /\ c.arg = None
    \/ /\ c.op = "login" /\ c.arg \in [cred : Credential, from : {"login", "setup"}]
       /\ c.at = "ok" => c.data.token \in 1..srv.issued
    \/ c.op = "setupCredentials" /\ c.arg \in [cred : Credential]
    \/ /\ c.op = "changePassword"
       /\ c.arg \in [old : Credential, cred : Credential, token : Nat]
    \/ c.op = "logout" /\ c.arg \in [token : Nat] /\ c.arg.token \in 1..srv.issued

\* A view is on, or the first probe is under way and nothing else.
SessionTyped ==
    /\ page = "session" /\ CallsInv /\ ui \in SessionUi /\ srv \in SessionStore
    /\ srv.sessions \subseteq 1..srv.issued
    /\ \A c \in calls : SessionCall(c)
    /\ (ui.route = None) # (ui.to = None)
    /\ \A c \in calls : c.op \in Probes <=> ui.route = None
    /\ \A c, d \in calls : c.op \in Probes /\ d.op \in Probes => c = d

\* The browser holds a token that was issued, and no answer brings one that is held, was
\* sent with a log-out or comes with another answer.
SessionTokens ==
    /\ ui.route = "shell" => ui.user
    /\ ui.user <=> ui.token # None
    /\ ui.token # None => ui.token \in 1..srv.issued
    /\ \A c \in Ok("logout") : c.arg.token \notin srv.sessions
    /\ \A c \in Ok("login") : /\ c.data.token # ui.token
                              /\ \A d \in Pending("logout") : c.data.token # d.arg.token
                              /\ \A d \in Ok("login") : c # d => c.data.token # d.data.token

\* What a form waits for is under way.
SessionForm ==
    /\ ui.loading => \E c \in calls : c.op \in OfForms /\ SessionKey(c) = ui.mine
    /\ ~ui.loading => ui.mine = None

\* One handler is at work for a call, and none on a memory without a credential that it
\* has put there.
SessionDoing ==
    /\ \A h \in srv.doing : h.of # None =>
          \E c \in calls : SessionKey(c) = h.of /\ c.at = "sent" /\ c.op \in Hashing
    /\ \A h, g \in srv.doing : h.of = g.of /\ h.of # None => h = g
    /\ (\E h \in srv.doing : h.at = "set") => srv.mem # None
    /\ Ok("setupCredentials") # {} => srv.kept # None

\* A token was issued to a call that counts as one that writes.
LoginsSent == {c \in calls : c.op = "login" /\ c.at = "sent"}
SessionCount == srv.issued + Cardinality(LoginsSent) <= writes

SessionInv ==
    SessionTyped /\ SessionTokens /\ SessionForm /\ SessionDoing /\ SessionCount

\* The calls of the session, and which of them may change the node.
LEMMA SessionOps ==
    /\ Probes \cup OfForms \cup Hashing \cup {"logout"} \subseteq Endpoint
    /\ Mutates("login") /\ ~Mutates("healthLiveness") /\ ~Mutates("listBlocklists")
  BY DEF Endpoint, Mutates, Reads, Changes, AccountAndListCalls, ConfigurationCalls,
         ClientAndAuditCalls, PauseAndWebhookCalls, TokenAndDeviceCalls, OtherCalls,
         Probes, OfForms, Hashing

\* A key tells a call from the others, and from nothing.
LEMMA SessionKeysTell ==
    ASSUME SessionTyped
    PROVE  /\ \A c \in calls : SessionKey(c) \in SessionKeys /\ SessionKey(c) # None
           /\ \A c, d \in calls : SessionKey(c) = SessionKey(d) => c = d
  <1>1. \A c \in calls : c.arg \in SessionArg
    BY DEF SessionTyped, SessionCall, SessionArg
  <1>2. \A c \in calls : c.op \in Endpoint /\ c.id \in Nat
    BY DEF SessionTyped, CallsInv, GoodCalls, CallOK
  <1>3. \A c \in calls : SessionKey(c) \in SessionKeys
    BY <1>1, <1>2 DEF SessionKey, SessionKeys
  <1>4. \A c, d \in calls : SessionKey(c) = SessionKey(d) => c = d
    BY DEF SessionKey, SessionTyped, CallsInv, GoodCalls, Told
  <1> QED
    BY <1>3, <1>4, SessionAssumption

\* Where the router ends up: in the shell only who is signed in, and with refs of the
\* view's own unless it was there before.
LEMMA SessionArrives ==
    ASSUME NEW u \in SessionUi, NEW to \in Route
    PROVE  /\ Arrives(u, to) \in SessionUi
           /\ Arrives(u, to).route = SessionGoes(to, u) /\ SessionGoes(to, u) \in Route
           /\ SessionGoes(to, u) = "shell" => u.user
           /\ to = "login" => SessionGoes(to, u) = "login"
           /\ Arrives(u, to).to = u.to /\ Arrives(u, to).token = u.token
           /\ Arrives(u, to).user = u.user
           /\ Arrives(u, to) = u \/ (~Arrives(u, to).loading /\ Arrives(u, to).mine = None)
  <1>1. /\ SessionGoes(to, u) \in Route
        /\ SessionGoes(to, u) = "shell" => u.user
        /\ to = "login" => SessionGoes(to, u) = "login"
    BY DEF SessionGoes, Route
  <1>2. CASE SessionGoes(to, u) = u.route
    BY <1>1, <1>2 DEF Arrives
  <1>3. CASE SessionGoes(to, u) # u.route
    <2>1. Arrives(u, to) = [u EXCEPT !.route = SessionGoes(to, u), !.loading = FALSE,
                                     !.mine = None]
      BY <1>3 DEF Arrives, Mounts
    <2> QED
      BY <1>1, <2>1 DEF SessionUi
  <1> QED
    BY <1>2, <1>3

\* The probe is under way and nobody is signed in.
LEMMA SessionStart == SessionInit => SessionInv
  <1> SUFFICES ASSUME SessionInit PROVE SessionInv
    OBVIOUS
  <1>1. /\ CallsInv /\ calls = {Call(1, "healthLiveness", None)}
        /\ \A c \in calls : c.op = "healthLiveness" /\ c.arg = None /\ c.at = "sent"
    BY FirstCall, SessionOps DEF SessionInit, Probes
  <1>2. /\ page = "session" /\ ui \in SessionUi /\ ui.route = None /\ ui.to \in Route
        /\ ~ui.loading /\ ui.mine = None /\ ui.token = None /\ ui.user = FALSE
    BY DEF SessionInit, SessionUi
  <1>3. /\ srv \in SessionStore /\ srv.sessions = {} /\ srv.issued = 0 /\ srv.doing = {}
    BY DEF SessionInit, SessionStore, Credential, Value
  <1>4. SessionTyped
    BY <1>1, <1>2, <1>3, SessionAssumption DEF SessionTyped, SessionCall, Probes
  <1>5. SessionTokens /\ SessionForm /\ SessionDoing
    BY <1>1, <1>2, <1>3, SessionAssumption
       DEF SessionTokens, SessionForm, SessionDoing, Ok, Pending, Route
  <1>6. LoginsSent = {} /\ writes = 0
    BY <1>1 DEF LoginsSent, SessionInit
  <1>7. SessionCount
    BY <1>3, <1>6, FS_EmptySet DEF SessionCount
  <1> QED
    BY <1>4, <1>5, <1>7 DEF SessionInv

\* No token is issued and no login sent.
LEMMA SessionCountKeeps ==
    ASSUME CallsInv, CallsInv', SessionCount, srv \in SessionStore, srv'.issued = srv.issued,
           writes' >= writes, LoginsSent' \subseteq LoginsSent
    PROVE  SessionCount'
  <1>1. IsFiniteSet(LoginsSent)
    BY FS_Subset DEF CallsInv, GoodCalls, LoginsSent
  <1>2. Cardinality(LoginsSent') <= Cardinality(LoginsSent) /\ IsFiniteSet(LoginsSent')
    BY <1>1, FS_Subset
  <1>3. Cardinality(LoginsSent) \in Nat /\ Cardinality(LoginsSent') \in Nat
    BY <1>1, <1>2, FS_CardinalityType
  <1>4. writes \in Nat /\ writes' \in Nat /\ srv.issued \in Nat
    BY PageAssumption DEF CallsInv, Writable, SessionStore
  <1> QED
    BY <1>2, <1>3, <1>4 DEF SessionCount

\* The form waits for the call that is new.
LEMMA SessionWaits ==
    ASSUME NEW u \in SessionUi, NEW rest \in SUBSET calls, NEW d, calls' = rest \cup {d},
           d \notin calls, SessionKey(d) \in SessionKeys
    PROVE  /\ Waits(u) \in SessionUi /\ Waits(u).loading /\ Waits(u).mine = SessionKey(d)
           /\ Waits(u).route = u.route /\ Waits(u).to = u.to
           /\ Waits(u).token = u.token /\ Waits(u).user = u.user
  <1>1. (CHOOSE c \in calls' : c \notin calls) = d
    OBVIOUS
  <1>2. Waits(u) = [u EXCEPT !.loading = TRUE, !.mine = SessionKey(d)]
    BY <1>1 DEF Waits
  <1> QED
    BY <1>2 DEF SessionUi

\* A form or the log-out button sends a call, by itself or after the setup.
LEMMA SessionSendsKeep ==
    ASSUME SessionInv, page' = page, srv' = srv, ui.route # None,
           NEW op \in OfForms \cup {"logout"}, NEW arg, SessionCall(Call(1, op, arg)),
           op = "logout" => arg.token = ui.token,
           NEW rest \in SUBSET calls, Sends(rest, op, arg),
           \A c \in calls \ rest : c.op = "setupCredentials" /\ c.at = "ok" /\ op = "login",
           \/ op \in OfForms /\ ui' = Waits(ui)
           \/ /\ ui' \in SessionUi /\ ui'.route = ui.route /\ ui'.to = ui.to
              /\ ui'.token = ui.token /\ ui'.user = ui.user /\ ui'.loading = ui.loading
              /\ ui'.mine = ui.mine
              /\ \A c \in calls \ rest : SessionKey(c) # ui.mine
    PROVE  SessionInv'
  <1>0. /\ SessionTyped /\ SessionTokens /\ SessionForm /\ SessionDoing /\ SessionCount
        /\ CallsInv /\ ui \in SessionUi /\ srv \in SessionStore /\ op \in Endpoint
    BY SessionOps DEF SessionInv, SessionTyped
  <1>1. SentOne(rest, op, arg) /\ CallsInv'
    BY <1>0, SendsKeeps
  <1>2. PICK d : /\ calls' = rest \cup {d} /\ d \notin rest /\ d.op = op /\ d.arg = arg
                 /\ d.at = "sent"
    BY <1>1 DEF SentOne
  <1>3. d \notin calls /\ SessionCall(d)
    BY <1>2 DEF SessionCall, Call, OfForms
  <1>4. SessionKey(d) \in SessionKeys
    <2>1. d.arg \in SessionArg
      BY <1>3 DEF SessionCall, SessionArg
    <2>2. d.op \in Endpoint /\ d.id \in Nat
      BY <1>1, <1>2 DEF CallsInv, GoodCalls, CallOK
    <2> QED
      BY <2>1, <2>2 DEF SessionKey, SessionKeys
  <1>5. /\ ui' \in SessionUi /\ ui'.route = ui.route /\ ui'.to = ui.to
        /\ ui'.token = ui.token /\ ui'.user = ui.user
        /\ \/ ui'.loading /\ ui'.mine = SessionKey(d) /\ op \in OfForms
           \/ /\ ui'.loading = ui.loading /\ ui'.mine = ui.mine
              /\ \A c \in calls \ rest : SessionKey(c) # ui.mine
    BY <1>0, <1>2, <1>3, <1>4, SessionWaits
  <1>6. SessionTyped'
    BY <1>0, <1>1, <1>2, <1>3, <1>5
       DEF SessionTyped, SessionCall, OfForms, Probes
  <1>7. SessionTokens'
    BY <1>0, <1>2, <1>5 DEF SessionTokens, Ok, Pending
  <1>8. SessionForm'
    BY <1>0, <1>2, <1>5 DEF SessionForm, SessionKey
  <1>9. SessionDoing'
    BY <1>0, <1>2, <1>5 DEF SessionDoing, SessionKey, Ok
  <1>10. SessionCount'
    <2>1. writes' = writes + (IF Mutates(op) THEN 1 ELSE 0) /\ writes \in Nat
      BY <1>0, PageAssumption DEF Sends, Adds, CallsInv, Writable
    <2>2. CASE op # "login"
      BY <1>0, <1>1, <1>2, <2>1, <2>2, SessionCountKeeps DEF LoginsSent
    <2>3. CASE op = "login"
      <3>1. LoginsSent' = LoginsSent \cup {d} /\ d \notin LoginsSent
        BY <1>2, <1>3, <2>3 DEF LoginsSent
      <3>2. IsFiniteSet(LoginsSent)
        BY <1>0, FS_Subset DEF CallsInv, GoodCalls, LoginsSent
      <3>3. Cardinality(LoginsSent') = Cardinality(LoginsSent) + 1
        BY <3>1, <3>2, FS_AddElement
      <3>4. Cardinality(LoginsSent) \in Nat /\ srv.issued \in Nat
        BY <1>0, <3>2, FS_CardinalityType DEF SessionStore
      <3> QED
        BY <1>0, <2>1, <2>3, <3>3, <3>4, SessionOps DEF SessionCount
    <2> QED
      BY <2>2, <2>3
  <1> QED
    BY <1>6, <1>7, <1>8, <1>9, <1>10 DEF SessionInv

\* A call has ended, and the view makes of it what it may.
LEMMA SessionDoneKeeps ==
    ASSUME SessionInv, page' = page, srv' = srv, NEW c \in calls, c.at \in {"ok", "failed"},
           Done(c), ui' \in SessionUi, ui'.route # None, ui'.to = None,
           ui.route = None => c.op \in Probes,
           ui'.route = "shell" => ui'.user, ui'.user <=> ui'.token # None,
           \/ ui'.token \in {ui.token, None}
           \/ c.op = "login" /\ c.at = "ok" /\ ui'.token = c.data.token,
           \/ ~ui'.loading /\ ui'.mine = None
           \/ ui'.loading = ui.loading /\ ui'.mine = ui.mine /\ ui.mine # SessionKey(c)
    PROVE  SessionInv'
  <1>0. /\ SessionTyped /\ SessionTokens /\ SessionForm /\ SessionDoing /\ SessionCount
        /\ CallsInv /\ ui \in SessionUi /\ srv \in SessionStore
    BY DEF SessionInv, SessionTyped
  <1>1. /\ calls' = calls \ {c} /\ writes' = writes /\ crossed' = crossed /\ CallsInv'
    BY <1>0, DoneKeeps DEF Done, CallsInv
  <1>2. SessionTyped'
    BY <1>0, <1>1 DEF SessionTyped, SessionCall
  <1>3. SessionTokens'
    <2>1. \A d \in Ok("login") : d.data.token \in 1..srv.issued
      BY <1>0 DEF SessionTyped, SessionCall, Probes, Ok
    <2>2. \A d \in Ok("login") : d.data.token # None
      BY <1>0, <2>1, SessionAssumption DEF SessionStore
    <2>3. /\ Ok("login")' = Ok("login") \ {c} /\ Ok("logout")' \subseteq Ok("logout")
          /\ Pending("logout")' \subseteq Pending("logout")
      BY <1>1 DEF Ok, Pending
    <2>4. ui'.token # None => ui'.token \in 1..srv.issued
      BY <1>0, <2>1 DEF SessionTokens, Ok
    <2>5. \A d \in Ok("login") \ {c} : d.data.token # ui'.token
      BY <1>0, <2>2 DEF SessionTokens, Ok
    <2> QED
      BY <1>0, <2>3, <2>4, <2>5 DEF SessionTokens
  <1>4. SessionForm'
    BY <1>0, <1>1 DEF SessionForm
  <1>5. SessionDoing'
    BY <1>0, <1>1 DEF SessionDoing, Ok
  <1>6. SessionCount'
    <2>1. writes \in Nat
      BY <1>0, PageAssumption DEF CallsInv, Writable
    <2> QED
      BY <1>0, <1>1, <2>1, SessionCountKeeps DEF LoginsSent
  <1> QED
    BY <1>2, <1>3, <1>4, <1>5, <1>6 DEF SessionInv

\* What the browser does keeps it: routes, forms, answers.
LEMMA SessionBrowserKeeps ==
    ASSUME SessionInv,
           \/ \E to \in Route : Visit(to) \/ Reload(to)
           \/ \E cred \in Credential :
                 \/ SignIn(cred) \/ SetUp(cred)
                 \/ \E old \in Credential : ChangePassword(old, cred)
           \/ Logout
           \/ \E c \in calls : \/ ProbesOn(c) \/ Probed(c) \/ SignedIn(c) \/ SetUpDone(c)
                               \/ PasswordChanged(c) \/ LoggedOut(c)
    PROVE  SessionInv'
  <1>0. /\ SessionTyped /\ SessionTokens /\ SessionForm /\ SessionDoing /\ SessionCount
        /\ CallsInv /\ ui \in SessionUi /\ srv \in SessionStore
        /\ None \notin Route
    BY SessionAssumption DEF SessionInv, SessionTyped
  <1>a. writes \in Nat
    BY <1>0, PageAssumption DEF CallsInv, Writable
  <1>b. \A c \in calls : SessionKey(c) \in SessionKeys /\ SessionKey(c) # None
    BY <1>0, SessionKeysTell
  <1>1. ASSUME NEW to \in Route, Visit(to) PROVE SessionInv'
    <2>1. ui.route # None /\ Local
      BY <1>1 DEF Visit
    <2>2. /\ ui' \in SessionUi /\ ui'.route # None /\ ui'.to = ui.to
          /\ ui'.token = ui.token /\ ui'.user = ui.user
          /\ ui'.route = "shell" => ui.user
          /\ \/ ui'.loading = ui.loading /\ ui'.mine = ui.mine
             \/ ~ui'.loading /\ ui'.mine = None
      <3>1. CASE ui' = Arrives(ui, to)
        BY <1>0, <3>1, SessionArrives
      <3>2. CASE SessionGoes(to, ui) = "shell" /\ ui' = Mounts(ui, "shell")
        <4>1. ui.user
          BY <1>0, <3>2, SessionArrives
        <4>2. ui' = [ui EXCEPT !.route = "shell", !.loading = FALSE, !.mine = None]
          BY <3>2 DEF Mounts
        <4> QED
          BY <1>0, <4>1, <4>2 DEF SessionUi, Route
      <3> QED
        BY <1>1, <3>1, <3>2 DEF Visit
    <2>3. CallsInv'
      BY <1>0, <2>1, SameCallsKeep DEF Local, CallsInv
    <2>4. SessionTyped'
      BY <1>0, <2>1, <2>2, <2>3 DEF SessionTyped, SessionCall, Local
    <2>5. SessionTokens' /\ SessionForm' /\ SessionDoing'
      BY <1>0, <2>1, <2>2 DEF SessionTokens, SessionForm, SessionDoing, Local, Ok, Pending
    <2>6. SessionCount'
      BY <1>0, <2>1 DEF SessionCount, LoginsSent, Local
    <2> QED
      BY <2>4, <2>5, <2>6 DEF SessionInv
  <1>2. ASSUME NEW to \in Route, Reload(to) PROVE SessionInv'
    <2>1. /\ ui' = [Mounts(ui, None) EXCEPT !.to = to, !.user = ui.token # None,
                                            !.isSetup = FALSE]
          /\ srv' = [srv EXCEPT !.doing = {[h EXCEPT !.of = None] : h \in srv.doing}]
          /\ calls' = {Call(1, "healthLiveness", None)} /\ crossed' = TRUE
          /\ page' = page /\ writes' = writes
      BY <1>2 DEF Reload
    <2>2. /\ CallsInv'
          /\ \A c \in calls' : c.op = "healthLiveness" /\ c.arg = None
          /\ \A c, d \in calls' : c = d
      BY <1>0, <2>1, OnlyCallKeeps, SessionOps DEF Probes
    <2>3. /\ Mounts(ui, None) \in SessionUi /\ Mounts(ui, None).route = None
          /\ ~Mounts(ui, None).loading /\ Mounts(ui, None).mine = None
          /\ Mounts(ui, None).token = ui.token
      BY <1>0 DEF Mounts, SessionUi
    <2>4. /\ ui' \in SessionUi /\ ui'.route = None /\ ui'.to = to /\ ~ui'.loading
          /\ ui'.mine = None /\ ui'.token = ui.token /\ ui'.user = (ui.token # None)
      <3> DEFINE u == Mounts(ui, None)
      <3>1. u \in SessionUi /\ ui' = [u EXCEPT !.to = to, !.user = ui.token # None,
                                               !.isSetup = FALSE]
        BY <2>1, <2>3
      <3> HIDE DEF u
      <3> QED
        BY <2>3, <3>1 DEF SessionUi, u
    <2> DEFINE doing == {[h EXCEPT !.of = None] : h \in srv.doing}
    <2>5. /\ \A h \in doing : /\ h \in SessionHandlers /\ h.of = None
                              /\ \E g \in srv.doing : h.at = g.at
      BY <1>0 DEF SessionStore, SessionHandlers
    <2>6. srv' = [srv EXCEPT !.doing = doing]
      BY <2>1
    <2> HIDE DEF doing
    <2>7. /\ srv' \in SessionStore /\ srv'.doing = doing /\ srv'.mem = srv.mem
          /\ srv'.kept = srv.kept /\ srv'.issued = srv.issued /\ srv'.sessions = srv.sessions
      BY <1>0, <2>5, <2>6 DEF SessionStore
    <2>8. SessionTyped'
      BY <1>0, <2>1, <2>2, <2>4, <2>7 DEF SessionTyped, SessionCall, Probes
    <2>9. SessionTokens'
      BY <1>0, <2>2, <2>4, <2>7 DEF SessionTokens, Ok, Pending, Route
    <2>10. SessionForm'
      BY <2>4 DEF SessionForm
    <2>11. SessionDoing'
      BY <1>0, <2>2, <2>5, <2>7 DEF SessionDoing, Ok
    <2>12. SessionCount'
      <3>1. LoginsSent' = {}
        BY <2>2 DEF LoginsSent
      <3> QED
        BY <1>0, <1>a, <2>1, <2>2, <2>7, <3>1, SessionCountKeeps
    <2> QED
      BY <2>8, <2>9, <2>10, <2>11, <2>12 DEF SessionInv
  <1>3. ASSUME NEW cred \in Credential, SignIn(cred) PROVE SessionInv'
    <2>1. /\ page' = page /\ srv' = srv /\ ui.route # None /\ ui' = Waits(ui)
          /\ Sends(calls, "login", [cred |-> cred, from |-> "login"])
      BY <1>0, <1>3 DEF SignIn, Asks, Route
    <2>2. SessionCall(Call(1, "login", [cred |-> cred, from |-> "login"]))
      BY DEF SessionCall, Call
    <2> QED
      BY <2>1, <2>2, SessionSendsKeep DEF OfForms
  <1>4. ASSUME NEW cred \in Credential, SetUp(cred) PROVE SessionInv'
    <2>1. /\ page' = page /\ srv' = srv /\ ui.route # None /\ ui' = Waits(ui)
          /\ Sends(calls, "setupCredentials", [cred |-> cred])
      BY <1>0, <1>4 DEF SetUp, Asks, Route
    <2>2. SessionCall(Call(1, "setupCredentials", [cred |-> cred]))
      BY DEF SessionCall, Call
    <2> QED
      BY <2>1, <2>2, SessionSendsKeep DEF OfForms
  <1>5. ASSUME NEW cred \in Credential, NEW old \in Credential, ChangePassword(old, cred)
        PROVE  SessionInv'
    <2> DEFINE arg == [old |-> old, cred |-> cred, token |-> ui.token]
    <2>1. /\ page' = page /\ srv' = srv /\ ui.route # None /\ ui' = Waits(ui)
          /\ Sends(calls, "changePassword", arg) /\ ui.route = "shell"
      BY <1>0, <1>5 DEF ChangePassword, Asks, Route
    <2>2. ui.token \in Nat
      BY <1>0, <2>1 DEF SessionTokens, SessionStore
    <2>3. SessionCall(Call(1, "changePassword", arg))
      BY <2>2 DEF SessionCall, Call
    <2> HIDE DEF arg
    <2> QED
      BY <2>1, <2>3, SessionSendsKeep DEF OfForms
  <1>6. CASE Logout
    <2> DEFINE arg == [token |-> ui.token]
    <2>1. /\ page' = page /\ srv' = srv /\ ui.route # None /\ ui' = ui
          /\ Sends(calls, "logout", arg) /\ ui.route = "shell"
      BY <1>0, <1>6 DEF Logout, Asks, Route
    <2>2. ui.token \in 1..srv.issued /\ srv.issued \in Nat
      BY <1>0, <2>1 DEF SessionTokens, SessionStore
    <2>3. SessionCall(Call(1, "logout", arg)) /\ arg.token = ui.token
      BY <2>2 DEF SessionCall, Call
    <2> HIDE DEF arg
    <2> QED
      BY <1>0, <2>1, <2>3, SessionSendsKeep
  <1>7. ASSUME NEW c \in calls, ProbesOn(c) PROVE SessionInv'
    <2>1. /\ page' = page /\ ui' = ui /\ srv' = srv /\ c.op = "healthLiveness"
          /\ Sends(calls \ {c}, "listBlocklists", None)
      BY <1>7 DEF ProbesOn, Then, Ok
    <2>2. SentOne(calls \ {c}, "listBlocklists", None) /\ CallsInv'
      BY <1>0, <2>1, SendsKeeps, SessionOps DEF Probes
    <2>3. PICK d : /\ calls' = (calls \ {c}) \cup {d} /\ d.op = "listBlocklists"
                   /\ d.arg = None /\ d.at = "sent"
      BY <2>2 DEF SentOne
    <2>4. calls = {c}
      BY <1>0, <2>1 DEF SessionTyped, Probes
    <2>5. SessionTyped'
      BY <1>0, <2>1, <2>2, <2>3, <2>4 DEF SessionTyped, SessionCall, Probes
    <2>6. SessionTokens' /\ SessionForm' /\ SessionDoing'
      BY <1>0, <2>1, <2>3, <2>4
         DEF SessionTokens, SessionForm, SessionDoing, Ok, Pending, OfForms, Hashing
    <2>7. SessionCount'
      <3>1. writes' = writes + (IF Mutates("listBlocklists") THEN 1 ELSE 0)
        BY <2>1 DEF Sends, Adds
      <3>2. LoginsSent' = {}
        BY <2>3, <2>4 DEF LoginsSent
      <3> QED
        BY <1>0, <1>a, <2>1, <2>2, <3>1, <3>2, SessionCountKeeps
    <2> QED
      BY <2>5, <2>6, <2>7 DEF SessionInv
  <1>8. ASSUME NEW c \in calls, Probed(c) PROVE SessionInv'
    <2> DEFINE u == [ui EXCEPT !.to = None, !.isSetup = c.op = "listBlocklists"]
    <2>1. /\ page' = page /\ srv' = srv /\ c.op \in Probes /\ c.at \in {"ok", "failed"}
          /\ Done(c) /\ ui' = Arrives(u, ui.to)
      BY <1>8 DEF Probed, Failed, Ended, Ok, Probes
    <2>2. ui.route = None /\ ui.to \in Route
      BY <1>0, <2>1 DEF SessionTyped, SessionUi
    <2>3. /\ u \in SessionUi /\ u.route = None /\ u.to = None /\ u.token = ui.token
          /\ u.user = ui.user
      BY <1>0, <2>2 DEF SessionUi
    <2> HIDE DEF u
    <2>4. /\ ui' \in SessionUi /\ ui'.route \in Route /\ ui'.to = None
          /\ ui'.token = ui.token /\ ui'.user = ui.user
          /\ ui'.route = "shell" => ui.user
          /\ ~ui'.loading /\ ui'.mine = None
      BY <1>0, <2>1, <2>2, <2>3, SessionArrives
    <2>5. ui'.user <=> ui'.token # None
      BY <1>0, <2>4 DEF SessionTokens
    <2> QED
      BY <1>0, <2>1, <2>4, <2>5, SessionDoneKeeps
  <1>c. \A c \in calls : /\ Released(ui, c) \in SessionUi
                         /\ Released(ui, c).route = ui.route /\ Released(ui, c).to = ui.to
                         /\ Released(ui, c).token = ui.token /\ Released(ui, c).user = ui.user
                         /\ \/ ~Released(ui, c).loading /\ Released(ui, c).mine = None
                            \/ /\ Released(ui, c).loading = ui.loading
                               /\ Released(ui, c).mine = ui.mine
                               /\ ui.mine # SessionKey(c)
    BY <1>0 DEF Released, SessionUi
  <1>9. ASSUME NEW c \in calls, SignedIn(c) PROVE SessionInv'
    <2>1. /\ page' = page /\ srv' = srv /\ c.op = "login" /\ c.at \in {"ok", "failed"}
          /\ Done(c)
      BY <1>9 DEF SignedIn, Failed, Ended, Ok
    <2>2. ui.route # None /\ ui.to = None /\ SessionCall(c)
      BY <1>0, <2>1 DEF SessionTyped, Probes
    <2>3. CASE c.at = "failed"
      <3>1. ui' = Released(ui, c)
        BY <1>9, <2>3 DEF SignedIn
      <3>2. ui.user <=> ui.token # None
        BY <1>0 DEF SessionTokens
      <3>3. ui.route = "shell" => ui.user
        BY <1>0 DEF SessionTokens
      <3> QED
        BY <1>c, <2>1, <2>2, <3>1, <3>2, <3>3, SessionDoneKeeps
    <2>4. CASE c.at = "ok"
      <3> DEFINE u == [Released(ui, c) EXCEPT !.token = c.data.token, !.user = TRUE,
                            !.isSetup = @ \/ c.arg.from = "setup"]
      <3>1. ui' = Arrives(u, "shell")
        BY <1>9, <2>4 DEF SignedIn
      <3>2. c.data.token \in Nat /\ c.data.token # None
        BY <1>0, <2>1, <2>2, <2>4, SessionAssumption DEF SessionCall, Probes, SessionStore
      <3>3. /\ u \in SessionUi /\ u.token = c.data.token /\ u.user /\ u.to = None
            /\ u.route = ui.route
            /\ \/ ~u.loading /\ u.mine = None
               \/ u.loading = ui.loading /\ u.mine = ui.mine /\ ui.mine # SessionKey(c)
        <4> DEFINE w == Released(ui, c)
        <4>1. w \in SessionUi /\ w.to = None /\ w.route = ui.route
              /\ \/ ~w.loading /\ w.mine = None
                 \/ w.loading = ui.loading /\ w.mine = ui.mine /\ ui.mine # SessionKey(c)
          BY <1>c, <2>2
        <4> HIDE DEF w
        <4>2. u = [w EXCEPT !.token = c.data.token, !.user = TRUE,
                            !.isSetup = w.isSetup \/ c.arg.from = "setup"]
          BY DEF w
        <4> HIDE DEF u
        <4> QED
          BY <3>2, <4>1, <4>2 DEF SessionUi
      <3> HIDE DEF u
      <3>4. /\ ui' \in SessionUi /\ ui'.route \in Route /\ ui'.to = None
            /\ ui'.token = c.data.token /\ ui'.user
            /\ \/ ~ui'.loading /\ ui'.mine = None
               \/ ui'.loading = ui.loading /\ ui'.mine = ui.mine /\ ui.mine # SessionKey(c)
        <4>1. "shell" \in Route
          BY DEF Route
        <4> QED
          BY <3>1, <3>3, <4>1, SessionArrives
      <3> QED
        BY <1>0, <2>1, <2>2, <2>4, <3>2, <3>4, SessionDoneKeeps
    <2> QED
      BY <2>1, <2>3, <2>4
  <1>10. ASSUME NEW c \in calls, SetUpDone(c) PROVE SessionInv'
    <2>1. /\ page' = page /\ srv' = srv /\ c.op = "setupCredentials"
          /\ c.at \in {"ok", "failed"}
      BY <1>10 DEF SetUpDone, Failed, Ended, Ok
    <2>2. /\ ui.route # None /\ ui.to = None /\ SessionCall(c)
          /\ ui.route = "shell" => ui.user
          /\ ui.user <=> ui.token # None
      BY <1>0, <2>1 DEF SessionTyped, SessionTokens, Probes
    <2>3. CASE c.at = "failed"
      <3>1. ui' = Released(ui, c) /\ Done(c)
        BY <1>10, <2>3 DEF SetUpDone
      <3> QED
        BY <1>c, <2>1, <2>2, <3>1, SessionDoneKeeps
    <2>4. CASE c.at = "ok"
      <3> DEFINE arg == [cred |-> c.arg.cred, from |-> "setup"]
      <3>1. /\ Sends(calls \ {c}, "login", arg)
            /\ \/ ui' = Waits(ui)
               \/ ui' = Released(ui, c) /\ ui.mine # SessionKey(c)
        BY <1>10, <2>4 DEF SetUpDone, Then
      <3>2. SessionCall(Call(1, "login", arg))
        BY <2>1, <2>2 DEF SessionCall, Call, Probes
      <3>3. ui' = Waits(ui) \/ (ui' = ui /\ ui.mine # SessionKey(c))
        BY <3>1 DEF Released
      <3> HIDE DEF arg
      <3> QED
        BY <1>0, <2>1, <2>2, <2>4, <3>1, <3>2, <3>3, SessionSendsKeep DEF OfForms
    <2> QED
      BY <2>1, <2>3, <2>4
  <1>11. ASSUME NEW c \in calls, PasswordChanged(c) PROVE SessionInv'
    <2>1. /\ page' = page /\ srv' = srv /\ c.op = "changePassword"
          /\ c.at \in {"ok", "failed"} /\ Done(c) /\ ui' = Released(ui, c)
      BY <1>11 DEF PasswordChanged, Failed, Ended, Ok
    <2>2. /\ ui.route # None /\ ui.to = None
          /\ ui.route = "shell" => ui.user
          /\ ui.user <=> ui.token # None
      BY <1>0, <2>1 DEF SessionTyped, SessionTokens, Probes
    <2> QED
      BY <1>c, <2>1, <2>2, SessionDoneKeeps
  <1>12. ASSUME NEW c \in calls, LoggedOut(c) PROVE SessionInv'
    <2> DEFINE u == [ui EXCEPT !.token = None, !.user = FALSE]
    <2>1. /\ page' = page /\ srv' = srv /\ c.op = "logout"
          /\ c.at \in {"ok", "failed"} /\ Done(c) /\ ui' = Arrives(u, "login")
      BY <1>12 DEF LoggedOut, Failed, Ended, Ok
    <2>2. ui.route # None /\ ui.to = None
      BY <1>0, <2>1 DEF SessionTyped, Probes
    <2>3. /\ u \in SessionUi /\ u.token = None /\ ~u.user /\ u.to = None
          /\ u.loading = ui.loading /\ u.mine = ui.mine
      BY <1>0, <2>2 DEF SessionUi
    <2> HIDE DEF u
    <2>4. /\ ui' \in SessionUi /\ ui'.route = "login" /\ ui'.to = None /\ ui'.token = None
          /\ ~ui'.user
          /\ \/ ~ui'.loading /\ ui'.mine = None
             \/ ui'.loading = ui.loading /\ ui'.mine = ui.mine
      <3>1. "login" \in Route
        BY DEF Route
      <3> QED
        BY <2>1, <2>3, <3>1, SessionArrives
    <2>5. ui.mine # SessionKey(c)
      <3>1. \A d \in calls : SessionKey(d) = SessionKey(c) => d.op = "logout"
        BY <2>1 DEF SessionKey
      <3> QED
        BY <1>0, <1>b, <3>1 DEF SessionForm, OfForms, SessionUi
    <2> QED
      BY <1>0, <2>1, <2>2, <2>4, <2>5, SessionDoneKeeps DEF Route
  <1> QED
    BY <1>1, <1>2, <1>3, <1>4, <1>5, <1>6, <1>7, <1>8, <1>9, <1>10, <1>11, <1>12

\* A call moves on with its key, and what is stored stays but for the sessions.
LEMMA SessionMovedKeeps ==
    ASSUME SessionInv, page' = page, ui' = ui, writes' = writes, CallsInv',
           NEW c \in calls, NEW at, NEW data, MovedOne(c, at, data),
           at \in {"ok", "failed"}, at = "ok" => c.op \notin Hashing \cup {"login"},
           srv' \in SessionStore, srv'.mem = srv.mem, srv'.kept = srv.kept,
           srv'.issued = srv.issued, srv'.sessions \subseteq srv.sessions,
           c.op = "logout" /\ at = "ok" => c.arg.token \notin srv'.sessions,
           \A h \in srv'.doing : h.of = None \/ (h \in srv.doing /\ h.of # SessionKey(c)),
           \A h \in srv'.doing : \E g \in srv.doing : h.at = g.at
    PROVE  SessionInv'
  <1>0. /\ SessionTyped /\ SessionTokens /\ SessionForm /\ SessionDoing /\ SessionCount
        /\ CallsInv /\ srv \in SessionStore
    BY DEF SessionInv, SessionTyped
  <1>1. PICK d : /\ calls' = (calls \ {c}) \cup {d} /\ d.id = c.id /\ d.op = c.op
                 /\ d.arg = c.arg /\ d.at = at /\ d.data = data
    BY DEF MovedOne
  <1>2. SessionKey(d) = SessionKey(c)
    BY <1>1 DEF SessionKey
  <1>3. SessionTyped'
    BY <1>0, <1>1 DEF SessionTyped, SessionCall, Hashing
  <1>4. SessionTokens'
    <2>1. Ok("login")' \subseteq Ok("login")
      BY <1>1 DEF Ok
    <2>2. \A e \in Pending("logout")' : \E g \in Pending("logout") : e.arg = g.arg
      BY <1>1 DEF Pending
    <2>3. \A e \in Ok("logout")' : e.arg.token \notin srv'.sessions
      BY <1>0, <1>1 DEF SessionTokens, Ok
    <2> QED
      BY <1>0, <2>1, <2>2, <2>3 DEF SessionTokens
  <1>5. SessionForm'
    BY <1>0, <1>1, <1>2 DEF SessionForm
  <1>6. SessionDoing'
    <2>1. Ok("setupCredentials")' \subseteq Ok("setupCredentials")
      BY <1>1 DEF Ok, Hashing
    <2>2. \A h \in srv'.doing : h.of # None =>
             \E e \in calls' : SessionKey(e) = h.of /\ e.at = "sent" /\ e.op \in Hashing
      BY <1>0, <1>1, <1>2 DEF SessionDoing
    <2> QED
      BY <1>0, <2>1, <2>2 DEF SessionDoing
  <1>7. SessionCount'
    <2>1. writes \in Nat /\ writes' \in Nat
      BY <1>0, PageAssumption DEF CallsInv, Writable
    <2>2. LoginsSent' \subseteq LoginsSent
      BY <1>1 DEF LoginsSent
    <2> QED
      BY <1>0, <2>1, <2>2, SessionCountKeeps
  <1> QED
    BY <1>3, <1>4, <1>5, <1>6, <1>7 DEF SessionInv

\* What the node does with a call as it takes it up keeps it.
LEMMA SessionServesKeep ==
    ASSUME SessionInv, NEW c \in calls, SessionServes(c)
    PROVE  SessionInv'
  <1>0. /\ SessionTyped /\ SessionTokens /\ SessionForm /\ SessionDoing /\ SessionCount
        /\ CallsInv /\ srv \in SessionStore /\ page' = page /\ ui' = ui /\ c.at = "sent"
    BY DEF SessionInv, SessionTyped, SessionServes
  <1>1. c.op \notin Hashing =>
           \A h \in srv.doing : h.of = None \/ (h \in srv.doing /\ h.of # SessionKey(c))
    BY <1>0, SessionKeysTell DEF SessionDoing
  <1>2. CASE c.op = "healthLiveness" /\ Answers(c, None) /\ UNCHANGED srv
    <2>1. MovedOne(c, "ok", None) /\ CallsInv' /\ writes' = writes
      BY <1>0, <1>2, AnswersKeeps DEF Answers
    <2> QED
      BY <1>0, <1>1, <1>2, <2>1, SessionMovedKeeps DEF Hashing
  <1>3. CASE c.op \in {"listBlocklists", "login"} /\ Refuses(c)
    <2>1. MovedOne(c, "failed", c.data) /\ CallsInv' /\ srv' = srv /\ writes' = writes
      BY <1>0, <1>3, RefusesKeeps DEF Refuses
    <2> QED
      BY <1>0, <1>1, <1>3, <2>1, SessionMovedKeeps DEF Hashing
  <1>4. CASE c.op = "login" /\ srv.mem = c.arg.cred /\ LogsIn(c)
    <2> DEFINE t == srv.issued + 1
    <2>1. /\ srv' = [srv EXCEPT !.issued = t, !.sessions = srv.sessions \cup {t}]
          /\ Answers(c, [token |-> t])
      BY <1>4 DEF LogsIn
    <2>2. MovedOne(c, "ok", [token |-> t]) /\ CallsInv' /\ writes' = writes
      BY <1>0, <2>1, AnswersKeeps DEF Answers
    <2>a. t = srv.issued + 1 /\ t \in Nat
      BY <1>0 DEF SessionStore
    <2> HIDE DEF t
    <2>3. /\ srv' \in SessionStore /\ srv'.issued = t /\ srv'.sessions = srv.sessions \cup {t}
          /\ srv'.mem = srv.mem /\ srv'.kept = srv.kept /\ srv'.doing = srv.doing
          /\ srv.issued \in Nat
      BY <1>0, <2>1, <2>a DEF SessionStore
    <2>4. PICK d : /\ calls' = (calls \ {c}) \cup {d} /\ d.id = c.id /\ d.op = "login"
                   /\ d.arg = c.arg /\ d.at = "ok" /\ d.data.token = t
      BY <1>4, <2>2 DEF MovedOne
    <2>5. SessionKey(d) = SessionKey(c)
      BY <1>4, <2>4 DEF SessionKey
    <2>6. SessionTyped'
      BY <1>0, <1>4, <2>2, <2>3, <2>a, <2>4 DEF SessionTyped, SessionCall, Probes
    <2>7. SessionTokens'
      <3>1. /\ Ok("login")' \subseteq Ok("login") \cup {d}
            /\ Pending("logout")' = Pending("logout") /\ Ok("logout")' = Ok("logout")
        BY <1>4, <2>4 DEF Ok, Pending
      <3>2. \A e \in Ok("login") : e.data.token \in 1..srv.issued
        BY <1>0 DEF SessionTyped, SessionCall, Ok, Probes
      <3>3. \A e \in Pending("logout") : e.arg.token \in 1..srv.issued
        BY <1>0 DEF SessionTyped, SessionCall, Pending, Probes
      <3>4. Ok("logout") \subseteq Pending("logout")
        BY DEF Ok, Pending
      <3>5. ui.token # None => ui.token \in 1..srv.issued
        BY <1>0 DEF SessionTokens
      <3>6. t # None /\ t \notin 1..srv.issued
        BY <2>3, <2>a, SessionAssumption
      <3>7. \A e \in Ok("login")' :
               /\ e.data.token # ui.token
               /\ \A g \in Pending("logout")' : e.data.token # g.arg.token
               /\ \A g \in Ok("login")' : e # g => e.data.token # g.data.token
        BY <1>0, <2>4, <3>1, <3>2, <3>3, <3>5, <3>6 DEF SessionTokens
      <3>8. \A e \in Ok("logout")' : e.arg.token \notin srv'.sessions
        BY <1>0, <2>3, <2>a, <3>1, <3>3, <3>4, <3>6 DEF SessionTokens
      <3>9. ui'.token # None => ui'.token \in 1..srv'.issued
        BY <1>0, <2>3, <2>a, <3>5
      <3> QED
        BY <1>0, <3>7, <3>8, <3>9 DEF SessionTokens
    <2>8. SessionForm'
      BY <1>0, <1>4, <2>4, <2>5 DEF SessionForm
    <2>9. SessionDoing'
      BY <1>0, <1>4, <2>3, <2>4, <2>5 DEF SessionDoing, Ok, Hashing
    <2>10. SessionCount'
      <3>1. LoginsSent' = LoginsSent \ {c} /\ c \in LoginsSent
        BY <1>0, <1>4, <2>4 DEF LoginsSent
      <3>2. IsFiniteSet(LoginsSent)
        BY <1>0, FS_Subset DEF CallsInv, GoodCalls, LoginsSent
      <3>3. Cardinality(LoginsSent') = Cardinality(LoginsSent) - 1
        BY <3>1, <3>2, FS_RemoveElement
      <3>4. Cardinality(LoginsSent) \in Nat
        BY <3>2, FS_CardinalityType
      <3> QED
        BY <1>0, <2>2, <2>3, <2>a, <3>3, <3>4 DEF SessionCount
    <2> QED
      BY <2>6, <2>7, <2>8, <2>9, <2>10 DEF SessionInv
  <1>5. CASE /\ c.op = "logout" /\ Answers(c, None)
             /\ srv' = [srv EXCEPT !.sessions = srv.sessions \ {c.arg.token}]
    <2>1. MovedOne(c, "ok", None) /\ CallsInv' /\ writes' = writes
      BY <1>0, <1>5, AnswersKeeps DEF Answers
    <2>2. /\ srv' \in SessionStore /\ srv'.sessions = srv.sessions \ {c.arg.token}
          /\ srv'.mem = srv.mem /\ srv'.kept = srv.kept /\ srv'.doing = srv.doing
          /\ srv'.issued = srv.issued
      BY <1>0, <1>5 DEF SessionStore
    <2> QED
      BY <1>0, <1>1, <1>5, <2>1, <2>2, SessionMovedKeeps DEF Hashing
  <1> QED
    BY <1>2, <1>3, <1>4, <1>5 DEF SessionServes

\* Steps of the node that leave the calls as they are.
LEMMA SessionStoreKeeps ==
    ASSUME SessionInv, UNCHANGED <<page, ui, calls, writes, crossed>>,
           srv' \in SessionStore, srv'.issued = srv.issued,
           srv'.sessions \subseteq srv.sessions,
           srv.kept # None => srv'.kept # None,
           (\E h \in srv'.doing : h.at = "set") => srv'.mem # None,
           \A h \in srv'.doing : h.of # None =>
               \E c \in calls : SessionKey(c) = h.of /\ c.at = "sent" /\ c.op \in Hashing,
           \A h, g \in srv'.doing : h.of = g.of /\ h.of # None => h = g
    PROVE  SessionInv'
  <1>0. /\ SessionTyped /\ SessionTokens /\ SessionForm /\ SessionDoing /\ SessionCount
        /\ CallsInv
    BY DEF SessionInv, SessionTyped
  <1>1. CallsInv'
    BY <1>0, SameCallsKeep DEF CallsInv
  <1>2. SessionTyped'
    BY <1>0, <1>1 DEF SessionTyped, SessionCall
  <1>3. SessionTokens' /\ SessionForm' /\ SessionDoing'
    BY <1>0 DEF SessionTokens, SessionForm, SessionDoing, Ok, Pending
  <1>4. SessionCount'
    BY <1>0 DEF SessionCount, LoginsSent
  <1> QED
    BY <1>2, <1>3, <1>4 DEF SessionInv

\* Steps of the node that answer or give up the calls of credentials.
LEMMA SessionMapKeeps ==
    ASSUME SessionInv, page' = page, ui' = ui, writes' = writes, crossed' \in BOOLEAN,
           crossed => crossed',
           NEW f, f = [c \in calls |-> f[c]], calls' = {f[c] : c \in calls},
           \A c \in calls :
              \/ f[c] = c
              \/ /\ c.at = "sent" /\ f[c].at \in {"ok", "failed"}
                 /\ f[c] = [c EXCEPT !.at = f[c].at]
                 /\ f[c].at = "ok" => c.op \in Hashing /\ srv'.kept # None,
           srv' \in SessionStore, srv'.issued = srv.issued,
           srv'.sessions \subseteq srv.sessions,
           srv.kept # None => srv'.kept # None,
           (\E h \in srv'.doing : h.at = "set") => srv'.mem # None,
           \A h \in srv'.doing : h.of # None =>
               \E c \in calls : /\ SessionKey(c) = h.of /\ c.at = "sent" /\ c.op \in Hashing
                                /\ f[c] = c,
           \A h, g \in srv'.doing : h.of = g.of /\ h.of # None => h = g
    PROVE  SessionInv'
  <1>0. /\ SessionTyped /\ SessionTokens /\ SessionForm /\ SessionDoing /\ SessionCount
        /\ CallsInv /\ \A c \in calls : CallOK(c)
    BY DEF SessionInv, SessionTyped, CallsInv, GoodCalls
  <1>1. \A c \in calls : /\ CallOK(f[c]) /\ f[c].id = c.id /\ f[c].op = c.op
                         /\ f[c].arg = c.arg
                         /\ f[c].at = "sent" => f[c] = c
                         /\ f[c].at = "ok" => f[c] = c \/ (c.op \in Hashing /\ srv'.kept # None)
    <2> SUFFICES ASSUME NEW c \in calls
                 PROVE  /\ CallOK(f[c]) /\ f[c].id = c.id /\ f[c].op = c.op
                        /\ f[c].arg = c.arg
                        /\ f[c].at = "sent" => f[c] = c
                        /\ f[c].at = "ok" =>
                              f[c] = c \/ (c.op \in Hashing /\ srv'.kept # None)
      OBVIOUS
    <2>1. CASE f[c] = c
      BY <1>0, <2>1
    <2>2. CASE /\ c.at = "sent" /\ f[c].at \in {"ok", "failed"}
               /\ f[c] = [c EXCEPT !.at = f[c].at]
               /\ f[c].at = "ok" => c.op \in Hashing /\ srv'.kept # None
      <3> DEFINE at == f[c].at
      <3>1. at \in {"sent", "ok", "failed"} /\ f[c] = [c EXCEPT !.at = at]
        BY <2>2
      <3> HIDE DEF at
      <3>2. CallOK(f[c]) /\ f[c].id = c.id /\ f[c].op = c.op /\ f[c].arg = c.arg
        <4>1. CallOK(c)
          BY <1>0
        <4> QED
          BY <4>1, <3>1, MarkedCall
      <3> QED
        BY <2>2, <3>2
    <2> QED
      BY <2>1, <2>2
  <1>2. \A c \in calls : SessionKey(f[c]) = SessionKey(c)
    BY <1>1 DEF SessionKey
  <1>3. CallsInv'
    BY <1>0, <1>1, MappedKeep
  <1>4. SessionTyped'
    <2>1. \A c \in calls : SessionCall(f[c])'
      BY <1>0, <1>1 DEF SessionTyped, SessionCall, Hashing
    <2> QED
      BY <1>0, <1>1, <1>3, <2>1 DEF SessionTyped
  <1>5. SessionTokens'
    <2>1. Ok("login")' \subseteq Ok("login") /\ Ok("logout")' \subseteq Ok("logout")
      BY <1>1 DEF Ok, Hashing
    <2>2. \A e \in Pending("logout")' : \E g \in Pending("logout") : e.arg = g.arg
      BY <1>1 DEF Pending
    <2> QED
      BY <1>0, <2>1, <2>2 DEF SessionTokens
  <1>6. SessionForm'
    BY <1>0, <1>1, <1>2 DEF SessionForm
  <1>7. SessionDoing'
    <2>1. Ok("setupCredentials")' # {} => srv'.kept # None
      BY <1>0, <1>1 DEF SessionDoing, Ok
    <2>2. \A h \in srv'.doing : h.of # None =>
             \E c \in calls' : SessionKey(c) = h.of /\ c.at = "sent" /\ c.op \in Hashing
      OBVIOUS
    <2> QED
      BY <2>1, <2>2 DEF SessionDoing
  <1>8. SessionCount'
    <2>1. writes \in Nat
      BY <1>0, PageAssumption DEF CallsInv, Writable
    <2>2. LoginsSent' \subseteq LoginsSent
      BY <1>1 DEF LoginsSent
    <2> QED
      BY <1>0, <1>3, <2>1, <2>2, SessionCountKeeps DEF SessionTyped
  <1> QED
    BY <1>4, <1>5, <1>6, <1>7, <1>8 DEF SessionInv

\* What the node does on its own keeps it: handlers that go on, sessions that end.
LEMMA SessionNodeKeeps ==
    ASSUME SessionInv,
           \/ Applies \/ SessionExpires \/ Restart
           \/ \E h \in srv.doing : SetsPassword(h) \/ Commits(h)
           \/ \E c \in calls : Checks(c) \/ Loses(c)
    PROVE  SessionInv'
  <1>0. /\ SessionTyped /\ SessionTokens /\ SessionForm /\ SessionDoing /\ SessionCount
        /\ CallsInv /\ srv \in SessionStore
    BY DEF SessionInv, SessionTyped
  <1>a. /\ \A c \in calls : SessionKey(c) \in SessionKeys /\ SessionKey(c) # None
        /\ \A c, d \in calls : SessionKey(c) = SessionKey(d) => c = d
        /\ \A c \in calls : CallOK(c)
    BY <1>0, SessionKeysTell DEF CallsInv, GoodCalls
  <1>1. CASE Applies
    <2>1. srv' = [srv EXCEPT !.mem = srv.kept] /\ srv.kept # None
      BY <1>1 DEF Applies
    <2>2. /\ srv' \in SessionStore /\ srv'.mem = srv.kept /\ srv'.kept = srv.kept
          /\ srv'.issued = srv.issued /\ srv'.sessions = srv.sessions
          /\ srv'.doing = srv.doing
      BY <1>0, <2>1 DEF SessionStore
    <2>3. UNCHANGED <<page, ui, calls, writes, crossed>>
      BY <1>1 DEF Applies
    <2> QED
      BY <1>0, <2>1, <2>2, <2>3, SessionStoreKeeps DEF SessionDoing
  <1>2. CASE SessionExpires
    <2>1. PICK t \in srv.sessions : srv' = [srv EXCEPT !.sessions = srv.sessions \ {t}]
      BY <1>2 DEF SessionExpires
    <2>2. /\ srv' \in SessionStore /\ srv'.mem = srv.mem /\ srv'.kept = srv.kept
          /\ srv'.issued = srv.issued /\ srv'.sessions \subseteq srv.sessions
          /\ srv'.doing = srv.doing
      BY <1>0, <2>1 DEF SessionStore
    <2>3. UNCHANGED <<page, ui, calls, writes, crossed>>
      BY <1>2 DEF SessionExpires
    <2> QED
      BY <1>0, <2>1, <2>2, <2>3, SessionStoreKeeps DEF SessionDoing
  <1>3. ASSUME NEW h \in srv.doing, SetsPassword(h) PROVE SessionInv'
    <2> DEFINE g == [h EXCEPT !.at = "set"]
               doing == (srv.doing \ {h}) \cup {g}
    <2>1. h \in SessionHandlers
      BY <1>0 DEF SessionStore
    <2>2. g \in SessionHandlers /\ g.of = h.of
      BY <2>1 DEF SessionHandlers
    <2>3. srv' = [srv EXCEPT !.mem = h.cred, !.doing = doing]
      BY <1>3 DEF SetsPassword
    <2> HIDE DEF g
    <2>4. doing \in SUBSET SessionHandlers
      BY <1>0, <2>2 DEF SessionStore
    <2>5. h.cred \in Credential /\ h.cred # None
      BY <2>1, PageAssumption DEF SessionHandlers, Credential
    <2>6. /\ \A e \in doing : e \in srv.doing \ {h} \/ e = g
      OBVIOUS
    <2> HIDE DEF doing
    <2>7. /\ srv' \in SessionStore /\ srv'.mem = h.cred /\ srv'.kept = srv.kept
          /\ srv'.issued = srv.issued /\ srv'.sessions = srv.sessions
          /\ srv'.doing = doing
      BY <1>0, <2>3, <2>4, <2>5 DEF SessionStore
    <2>8. UNCHANGED <<page, ui, calls, writes, crossed>>
      BY <1>3 DEF SetsPassword
    <2>9. /\ \A e \in doing : e.of # None =>
               \E c \in calls : SessionKey(c) = e.of /\ c.at = "sent" /\ c.op \in Hashing
          /\ \A e, f \in doing : e.of = f.of /\ e.of # None => e = f
      BY <1>0, <2>2, <2>6 DEF SessionDoing
    <2> QED
      BY <2>5, <2>7, <2>8, <2>9, SessionStoreKeeps
  <1>4. ASSUME NEW h \in srv.doing, Commits(h) PROVE SessionInv'
    <2>1. PICK at \in {"ok", "failed"}, kept \in {srv.kept, srv.mem} :
             /\ at = "ok" => kept = srv.mem
             /\ kept = srv.kept \/ srv.mem # None
             /\ srv' = [srv EXCEPT !.kept = kept, !.doing = srv.doing \ {h}]
             /\ Replies(h, at) /\ srv.mem # None
      <3>1. srv.mem # None
        BY <1>0, <1>4 DEF Commits, SessionDoing
      <3>2. CASE /\ srv' = [srv EXCEPT !.kept = srv.mem, !.doing = srv.doing \ {h}]
                 /\ Replies(h, "ok")
        BY <3>1, <3>2
      <3>3. CASE srv' = [srv EXCEPT !.doing = srv.doing \ {h}] /\ Replies(h, "failed")
        <4>1. srv' = [srv EXCEPT !.kept = srv.kept, !.doing = srv.doing \ {h}]
          BY <1>0, <3>3 DEF SessionStore
        <4> QED
          BY <3>1, <3>3, <4>1
      <3> QED
        BY <1>4, <3>2, <3>3 DEF Commits
    <2> DEFINE f == [c \in calls |-> IF SessionKey(c) = h.of THEN [c EXCEPT !.at = at] ELSE c]
    <2>2. /\ calls' = {f[c] : c \in calls} /\ f = [c \in calls |-> f[c]]
          /\ page' = page /\ ui' = ui /\ writes' = writes /\ crossed' = crossed
      BY <2>1 DEF Replies
    <2>3. /\ srv' \in SessionStore /\ srv'.mem = srv.mem /\ srv'.kept = kept
          /\ srv'.issued = srv.issued /\ srv'.sessions = srv.sessions
          /\ srv'.doing = srv.doing \ {h}
      BY <1>0, <2>1 DEF SessionStore
    <2>4. \A c \in calls : SessionKey(c) = h.of => c.at = "sent" /\ c.op \in Hashing
      BY <1>0, <1>a DEF SessionDoing
    <2>5. \A c \in calls :
              \/ f[c] = c
              \/ /\ c.at = "sent" /\ f[c].at \in {"ok", "failed"}
                 /\ f[c] = [c EXCEPT !.at = f[c].at]
                 /\ f[c].at = "ok" => c.op \in Hashing /\ srv'.kept # None
      <3> SUFFICES ASSUME NEW c \in calls, SessionKey(c) = h.of
                   PROVE  /\ c.at = "sent" /\ f[c].at \in {"ok", "failed"}
                          /\ f[c] = [c EXCEPT !.at = f[c].at]
                          /\ f[c].at = "ok" => c.op \in Hashing /\ srv'.kept # None
        OBVIOUS
      <3>1. [c EXCEPT !.at = at].at = at
        BY <1>a, MarkedCall
      <3>2. f[c].at = at /\ f[c] = [c EXCEPT !.at = f[c].at]
        BY <3>1
      <3> QED
        BY <2>1, <2>3, <2>4, <3>2
    <2>6. \A g \in srv.doing \ {h} : g.of # None =>
               \E c \in calls : /\ SessionKey(c) = g.of /\ c.at = "sent" /\ c.op \in Hashing
                                /\ f[c] = c
      <3>1. \A g \in srv.doing \ {h} : g.of # None => g.of # h.of
        BY <1>0 DEF SessionDoing
      <3>2. \A g \in srv.doing \ {h} : g.of # None =>
               \E c \in calls : SessionKey(c) = g.of /\ c.at = "sent" /\ c.op \in Hashing
        BY <1>0 DEF SessionDoing
      <3> QED
        BY <3>1, <3>2
    <2> HIDE DEF f
    <2>7. /\ \A e, g \in srv'.doing : e.of = g.of /\ e.of # None => e = g
          /\ srv'.mem # None /\ crossed \in BOOLEAN
          /\ srv.kept # None => srv'.kept # None
      BY <1>0, <2>1, <2>3 DEF SessionDoing, CallsInv
    <2> QED
      BY <2>2, <2>3, <2>5, <2>6, <2>7, SessionMapKeeps
  <1>5. CASE Restart
    <2> DEFINE f == [c \in calls |-> IF c.at = "sent" THEN [c EXCEPT !.at = "failed"] ELSE c]
    <2>1. /\ calls' = {f[c] : c \in calls} /\ f = [c \in calls |-> f[c]]
          /\ page' = page /\ ui' = ui /\ writes' = writes /\ crossed' = TRUE
          /\ srv' = [srv EXCEPT !.mem = srv.kept, !.sessions = {}, !.doing = {}]
      BY <1>5 DEF Restart
    <2>2. /\ srv' \in SessionStore /\ srv'.kept = srv.kept /\ srv'.issued = srv.issued
          /\ srv'.sessions = {} /\ srv'.doing = {}
      BY <1>0, <2>1 DEF SessionStore
    <2>3. \A c \in calls :
              \/ f[c] = c
              \/ /\ c.at = "sent" /\ f[c].at = "failed"
                 /\ f[c] = [c EXCEPT !.at = f[c].at]
      <3> SUFFICES ASSUME NEW c \in calls, c.at = "sent"
                   PROVE  f[c].at = "failed" /\ f[c] = [c EXCEPT !.at = f[c].at]
        OBVIOUS
      <3>1. [c EXCEPT !.at = "failed"].at = "failed"
        BY <1>a, MarkedCall
      <3> QED
        BY <3>1
    <2> HIDE DEF f
    <2> QED
      BY <2>1, <2>2, <2>3, SessionMapKeeps
  <1>6. ASSUME NEW c \in calls, Checks(c) PROVE SessionInv'
    <2>1. page' = page /\ ui' = ui /\ c.op \in Hashing /\ c.at = "sent" /\ ~Working(c)
      BY <1>6 DEF Checks, Hashing
    <2>2. CASE ~MaySetUp(c) /\ ~MayChange(c) /\ Refuses(c)
      <3>1. MovedOne(c, "failed", c.data) /\ CallsInv' /\ srv' = srv /\ writes' = writes
        BY <1>0, <2>1, <2>2, RefusesKeeps DEF Refuses
      <3>2. \A h \in srv.doing : h.of # SessionKey(c)
        BY <2>1 DEF Working
      <3> QED
        BY <1>0, <2>1, <3>1, <3>2, SessionMovedKeeps DEF Hashing
    <2>3. CASE /\ srv' = [srv EXCEPT !.doing = srv.doing \cup
                     {[cred |-> c.arg.cred, of |-> SessionKey(c), at |-> "checked"]}]
               /\ UNCHANGED <<calls, writes, crossed>>
      <3> DEFINE g == [cred |-> c.arg.cred, of |-> SessionKey(c), at |-> "checked"]
      <3>1. c.arg.cred \in Credential
        BY <1>0, <2>1 DEF SessionTyped, SessionCall, Hashing, Probes
      <3>2. g \in SessionHandlers /\ g.of = SessionKey(c) /\ g.at = "checked"
        BY <1>a, <3>1 DEF SessionHandlers
      <3>3. srv' = [srv EXCEPT !.doing = srv.doing \cup {g}]
        BY <2>3
      <3> HIDE DEF g
      <3>4. /\ srv' \in SessionStore /\ srv'.mem = srv.mem /\ srv'.kept = srv.kept
            /\ srv'.issued = srv.issued /\ srv'.sessions = srv.sessions
            /\ srv'.doing = srv.doing \cup {g}
        BY <1>0, <3>2, <3>3 DEF SessionStore
      <3>5. \A h \in srv.doing : h.of # SessionKey(c)
        BY <2>1 DEF Working
      <3>6. /\ \A e \in srv'.doing : e.of # None =>
                 \E d \in calls : SessionKey(d) = e.of /\ d.at = "sent" /\ d.op \in Hashing
            /\ \A e, f \in srv'.doing : e.of = f.of /\ e.of # None => e = f
            /\ (\E e \in srv'.doing : e.at = "set") => srv'.mem # None
        BY <1>0, <2>1, <3>2, <3>4, <3>5 DEF SessionDoing
      <3> QED
        BY <2>1, <2>3, <3>4, <3>6, SessionStoreKeeps
    <2> QED
      BY <1>6, <2>2, <2>3 DEF Checks
  <1>7. ASSUME NEW c \in calls, Loses(c) PROVE SessionInv'
    <2> DEFINE doing == {IF h.of = SessionKey(c) THEN [h EXCEPT !.of = None] ELSE h :
                            h \in srv.doing}
    <2>1. /\ page' = page /\ ui' = ui /\ writes' = writes /\ crossed' = TRUE
          /\ calls' = (calls \ {c}) \cup {[c EXCEPT !.at = "failed", !.data = None]}
          /\ srv' = [srv EXCEPT !.doing = doing]
      BY <1>7 DEF Loses
    <2>2. MovedOne(c, "failed", None) /\ CallsInv'
      BY <1>0, <2>1, MovedKeeps
    <2>3. \A h \in srv.doing : h \in SessionHandlers
      BY <1>0 DEF SessionStore
    <2>4. \A h \in srv.doing : /\ [h EXCEPT !.of = None] \in SessionHandlers
                               /\ [h EXCEPT !.of = None].of = None
                               /\ [h EXCEPT !.of = None].at = h.at
      BY <2>3 DEF SessionHandlers
    <2>5. /\ doing \in SUBSET SessionHandlers
          /\ \A h \in doing : h.of = None \/ (h \in srv.doing /\ h.of # SessionKey(c))
          /\ \A h \in doing : \E g \in srv.doing : h.at = g.at
      BY <2>3, <2>4
    <2> HIDE DEF doing
    <2>6. /\ srv' \in SessionStore /\ srv'.mem = srv.mem /\ srv'.kept = srv.kept
          /\ srv'.issued = srv.issued /\ srv'.sessions = srv.sessions
          /\ srv'.doing = doing
      BY <1>0, <2>1, <2>5 DEF SessionStore
    <2> QED
      BY <2>1, <2>2, <2>5, <2>6, SessionMovedKeeps
  <1> QED
    BY <1>1, <1>2, <1>3, <1>4, <1>5, <1>6, <1>7

\* Every step of the browser and of the node keeps it.
LEMMA SessionKeep == SessionInv /\ SessionNext => SessionInv'
  BY SessionBrowserKeeps, SessionServesKeep, SessionNodeKeeps DEF SessionNext

\* What the run checks of this view.
LEMMA SessionShow ==
    ASSUME SessionInv
    PROVE  /\ SessionTypeOK /\ AnsweredSetupIsStored /\ ShellIsSignedIn
           /\ ButtonFollowsCall /\ LogoutIsOfOneLogin
  <1> USE DEF SessionInv
  <1>0. /\ CallsInv /\ ui \in SessionUi /\ srv \in SessionStore
        /\ srv.sessions \subseteq 1..srv.issued /\ (ui.route = None) # (ui.to = None)
    BY DEF SessionTyped
  <1>1. TypedCalls
    BY <1>0, InvTypesCalls
  <1>2. srv.issued \in {0} \cup Token
    <2>1. IsFiniteSet(LoginsSent)
      BY <1>0, FS_Subset DEF CallsInv, GoodCalls, LoginsSent
    <2>2. Cardinality(LoginsSent) \in Nat /\ srv.issued \in Nat
      BY <1>0, <2>1, FS_CardinalityType DEF SessionStore
    <2>3. Writable = MaxWrites + 1 /\ writes \in 0..Writable /\ MaxWrites \in Nat
      BY <1>0, PageAssumption DEF Writable, SessionTyped, CallsInv
    <2> QED
      BY <2>2, <2>3 DEF SessionCount, Token
  <1>3. ui.token \in Token \cup {None}
    <2>1. ui.token = None \/ ui.token \in 1..srv.issued
      BY <1>0 DEF SessionTokens, SessionUi
    <2>2. MaxWrites \in Nat /\ (srv.issued \in {0} \cup 1..(MaxWrites + 1))
      BY <1>2, PageAssumption DEF Token
    <2> QED
      BY <2>1, <2>2 DEF Token
  <1>4. \A h \in srv.doing : Handler(h)
    BY <1>0 DEF SessionDoing, Handler, SessionStore, SessionHandlers
  <1>5. SessionTypeOK
    BY <1>0, <1>1, <1>2, <1>3, <1>4 DEF SessionTypeOK, SessionUi, SessionStore
  <1>6. ButtonFollowsCall
    BY <1>0, SessionKeysTell DEF ButtonFollowsCall, SessionForm, SessionUi
  <1>7. AnsweredSetupIsStored /\ ShellIsSignedIn
    BY <1>0 DEF AnsweredSetupIsStored, ShellIsSignedIn, SessionDoing, SessionTokens,
                SessionStore
  <1>8. LogoutIsOfOneLogin
    BY DEF LogoutIsOfOneLogin, SessionTokens
  <1> QED
    BY <1>5, <1>6, <1>7, <1>8
-----------------------------------------------------------------------------
(* The profiles.                                                               *)

ProfileSave(c) == c.op \in {"createProfile", "updateProfile"}

\* The dialog that a save of S was begun in is still open, for the same profile.
DialogFollows(S, view) ==
    /\ view.submitting <=> \E c \in S : ProfileSave(c)
    /\ \A c, d \in S : ProfileSave(c) /\ ProfileSave(d) => c = d
    /\ \A c \in S : ProfileSave(c) => view.showModal
    /\ \A c \in S : c.op = "createProfile" => view.mode = "create"
    /\ \A c \in S : c.op = "updateProfile" => view.mode = "edit" /\ view.original.id = c.arg.id

ProfilesInv ==
    /\ page = "profiles" /\ CallsInv
    /\ {"submitting", "showModal", "mode", "original"} \subseteq DOMAIN ui
    /\ DialogFollows(calls, ui)

\* A step leaves the dialog of a profile.
SameDialog == /\ DOMAIN ui' = DOMAIN ui /\ ui'.submitting = ui.submitting
              /\ ui'.showModal = ui.showModal /\ ui'.mode = ui.mode
              /\ ui'.original = ui.original

\* The calls of the view.
LEMMA ProfilesOps ==
    {"listProfiles", "createProfile", "updateProfile", "deleteProfile",
     "listProfileAllowlist", "addProfileAllowlist", "removeProfileAllowlist"} \subseteq Endpoint
  BY DEF Endpoint, Reads, Changes, AccountAndListCalls, ConfigurationCalls, ClientAndAuditCalls,
         PauseAndWebhookCalls, TokenAndDeviceCalls, OtherCalls

\* The list is asked for, no dialog is open.
LEMMA ProfilesStart == ProfilesInit => ProfilesInv
  <1> SUFFICES ASSUME ProfilesInit PROVE ProfilesInv
    OBVIOUS
  <1>1. CallsInv /\ \A c \in calls : c.op = "listProfiles"
    BY FirstCall, ProfilesOps DEF ProfilesInit
  <1>2. /\ page = "profiles" /\ ui.submitting = FALSE
        /\ {"submitting", "showModal", "mode", "original"} \subseteq DOMAIN ui
    BY DEF ProfilesInit
  <1>3. DialogFollows(calls, ui)
    BY <1>1, <1>2 DEF DialogFollows, ProfileSave
  <1> QED
    BY <1>1, <1>2, <1>3 DEF ProfilesInv

\* A step that neither sends nor ends a save.
LEMMA ProfilesAsideKeeps ==
    ASSUME ProfilesInv, page' = page, CallsInv', SameDialog,
           NEW rest \in SUBSET calls, rest \subseteq calls',
           \A c \in (calls \ rest) \cup (calls' \ rest) : ~ProfileSave(c)
    PROVE  ProfilesInv'
  <1>1. DialogFollows(calls', ui')
    BY DEF ProfilesInv, DialogFollows, SameDialog, ProfileSave
  <1> QED
    BY <1>1 DEF ProfilesInv, SameDialog

\* What becomes of a call on its way keeps the dialog.
LEMMA ProfilesMovedKeeps ==
    ASSUME ProfilesInv, NEW c \in calls, NEW at, NEW data, MovedOne(c, at, data), CallsInv',
           page' = page, ui' = ui
    PROVE  ProfilesInv'
  <1>1. PICK d : calls' = (calls \ {c}) \cup {d} /\ d.op = c.op /\ d.arg = c.arg
    BY DEF MovedOne
  <1>2. ProfileSave(d) <=> ProfileSave(c)
    BY <1>1 DEF ProfileSave
  <1>3. \A e \in calls' : e = d \/ (e \in calls /\ e # c)
    BY <1>1
  <1>4. (\E e \in calls' : ProfileSave(e)) <=> (\E e \in calls : ProfileSave(e))
    BY <1>1, <1>2, <1>3
  <1>5. \A e, f \in calls' : ProfileSave(e) /\ ProfileSave(f) => e = f
    BY <1>1, <1>2, <1>3 DEF ProfilesInv, DialogFollows
  <1>6. DialogFollows(calls', ui')
    BY <1>1, <1>2, <1>3, <1>4, <1>5 DEF ProfilesInv, DialogFollows
  <1> QED
    BY <1>6 DEF ProfilesInv

\* Dialogs open, close and are filled over the same calls; that of a profile opens and
\* closes only while nothing is being saved.
LEMMA ProfilesDialogsKeep ==
    ASSUME ProfilesInv,
           \/ \E p \in ProfilesRows : ProfilesOpenEdit(p) \/ ProfilesAskDelete(p)
           \/ ProfilesOpenCreate \/ ProfilesCloseModal \/ EditForm
           \/ OpenSettingsTab \/ ProfilesCancelDelete
    PROVE  ProfilesInv'
  <1>0. CallsInv /\ {"submitting", "showModal", "mode", "original"} \subseteq DOMAIN ui
    BY DEF ProfilesInv
  <1>1. /\ Local /\ DOMAIN ui' = DOMAIN ui /\ ui'.submitting = ui.submitting
    BY <1>0 DEF ProfilesOpenEdit, ProfilesAskDelete, ProfilesOpenCreate, ProfilesCloseModal,
                ProfilesClose, EditForm, OpenSettingsTab, ProfilesCancelDelete
  <1>2. CallsInv' /\ page' = page /\ calls' = calls
    BY <1>0, <1>1, SameCallsKeep DEF Local, CallsInv
  <1>3. CASE \/ EditForm \/ OpenSettingsTab \/ ProfilesCancelDelete
             \/ \E p \in ProfilesRows : ProfilesAskDelete(p)
    <2>1. SameDialog
      BY <1>0, <1>3 DEF ProfilesAskDelete, EditForm, OpenSettingsTab, ProfilesCancelDelete,
                        SameDialog
    <2> QED
      BY <1>2, <2>1, ProfilesAsideKeeps
  <1>4. CASE \/ ProfilesOpenCreate \/ ProfilesCloseModal
             \/ \E p \in ProfilesRows : ProfilesOpenEdit(p)
    <2>1. ~ui.submitting \/ ~ui.showModal
      BY <1>4 DEF ProfilesOpenEdit, ProfilesOpenCreate, ProfilesCloseModal, ProfilesRows,
                  ProfilesCovered
    <2>2. \A c \in calls : ~ProfileSave(c)
      BY <2>1 DEF ProfilesInv, DialogFollows
    <2>3. DialogFollows(calls', ui')
      BY <1>1, <1>2, <2>2 DEF ProfilesInv, DialogFollows, ProfileSave
    <2> QED
      BY <1>0, <1>1, <1>2, <2>3 DEF ProfilesInv
  <1> QED
    BY <1>3, <1>4

\* A dialog is saved, or closed because nothing was changed in it.
LEMMA ProfilesSubmitKeeps ==
    ASSUME ProfilesInv, SubmitModal
    PROVE  ProfilesInv'
  <1>0. /\ CallsInv /\ page' = page /\ ~ui.submitting /\ ui.showModal
        /\ {"submitting", "showModal", "mode", "original"} \subseteq DOMAIN ui
    BY DEF ProfilesInv, SubmitModal, SettingsTab
  <1>1. \A c \in calls : ~ProfileSave(c)
    BY <1>0 DEF ProfilesInv, DialogFollows
  <1>2. CASE ui' = ProfilesClose(ui) /\ UNCHANGED <<calls, writes, crossed>>
    <2>1. DOMAIN ui' = DOMAIN ui /\ ui'.submitting = ui.submitting
      BY <1>0, <1>2 DEF ProfilesClose
    <2>2. CallsInv' /\ calls' = calls
      BY <1>0, <1>2, SameCallsKeep DEF CallsInv
    <2>3. DialogFollows(calls', ui')
      BY <1>0, <1>1, <2>1, <2>2 DEF DialogFollows, ProfileSave
    <2> QED
      BY <1>0, <2>1, <2>2, <2>3 DEF ProfilesInv
  <1>3. ASSUME NEW op \in {"createProfile", "updateProfile"}, NEW arg, Sends(calls, op, arg),
               ui' = [ui EXCEPT !.submitting = TRUE],
               op = "createProfile" => ui.mode = "create",
               op = "updateProfile" => ui.mode = "edit" /\ ui.original.id = arg.id
        PROVE  ProfilesInv'
    <2>1. CallsInv' /\ SentOne(calls, op, arg)
      BY <1>0, <1>3, SendsKeeps, ProfilesOps
    <2>2. PICK d : calls' = calls \cup {d} /\ d.op = op /\ d.arg = arg
      BY <2>1 DEF SentOne
    <2>3. /\ DOMAIN ui' = DOMAIN ui /\ ui'.submitting = TRUE /\ ui'.showModal = ui.showModal
          /\ ui'.mode = ui.mode /\ ui'.original = ui.original
      BY <1>0, <1>3
    <2>4. DialogFollows(calls', ui')
      BY <1>0, <1>1, <1>3, <2>2, <2>3 DEF DialogFollows, ProfileSave
    <2> QED
      BY <1>0, <2>1, <2>3, <2>4 DEF ProfilesInv
  <1>4. CASE /\ ui.mode = "create" /\ ui' = [ui EXCEPT !.submitting = TRUE]
             /\ \E arg : Sends(calls, "createProfile", arg)
    BY <1>3, <1>4
  <1>5. CASE /\ ui.mode = "edit" /\ ui' = [ui EXCEPT !.submitting = TRUE]
             /\ Sends(calls, "updateProfile", [id |-> ui.original.id, patch |-> Patch])
    <2> DEFINE arg == [id |-> ui.original.id, patch |-> Patch]
    <2>1. arg.id = ui.original.id /\ Sends(calls, "updateProfile", arg)
      BY <1>5
    <2> HIDE DEF arg
    <2> QED
      BY <1>3, <1>5, <2>1
  <1> QED
    BY <1>2, <1>4, <1>5 DEF SubmitModal, Asks

\* Another call is sent, about the domains or to delete a profile.
LEMMA ProfilesSendsKeep ==
    ASSUME ProfilesInv,
           \/ \E d \in ProfilesDomain : SubmitAllowlistAdd(d) \/ DeleteAllowlistEntry(d)
           \/ OpenAllowlistTab \/ ProfilesConfirmDelete
    PROVE  ProfilesInv'
  <1>0. CallsInv /\ {"submitting", "showModal", "mode", "original"} \subseteq DOMAIN ui
    BY DEF ProfilesInv
  <1>1. page' = page /\ SameDialog
    BY <1>0 DEF SubmitAllowlistAdd, DeleteAllowlistEntry, OpenAllowlistTab,
                ProfilesConfirmDelete, SameDialog
  <1>2. \E op, arg : /\ op \in Endpoint /\ op \notin {"createProfile", "updateProfile"}
                     /\ Sends(calls, op, arg) \/ AddsAside(calls, op, arg)
    BY ProfilesOps DEF SubmitAllowlistAdd, DeleteAllowlistEntry, OpenAllowlistTab,
                       ProfilesConfirmDelete, Asks, AsksAside
  <1>3. PICK op, arg : /\ op \in Endpoint /\ op \notin {"createProfile", "updateProfile"}
                       /\ Sends(calls, op, arg) \/ AddsAside(calls, op, arg)
    BY <1>2
  <1>4. CallsInv' /\ SentOne(calls, op, arg)
    BY <1>0, <1>1, <1>3, SendsKeeps, AddsAsideKeeps
  <1>5. \A c \in calls' \ calls : ~ProfileSave(c)
    BY <1>3, <1>4 DEF SentOne, ProfileSave
  <1> QED
    BY <1>1, <1>4, <1>5, ProfilesAsideKeeps DEF SentOne

\* What the handlers do once they are answered.
LEMMA ProfilesHandlersKeep ==
    ASSUME ProfilesInv, NEW c \in calls,
           \/ ProfilesRefreshed(c) \/ ProfilesSubmitted(c) \/ AllowlistOpened(c)
           \/ AllowlistWritten(c) \/ AllowlistListed(c) \/ ProfilesDeleted(c)
    PROVE  ProfilesInv'
  <1>0. /\ CallsInv /\ {"submitting", "showModal", "mode", "original"} \subseteq DOMAIN ui
        /\ page' = page
    BY DEF ProfilesInv, ProfilesRefreshed, ProfilesSubmitted, AllowlistOpened,
           AllowlistWritten, AllowlistListed, ProfilesDeleted
  <1>1. ASSUME Done(c)
        PROVE  CallsInv' /\ calls' = calls \ {c} /\ calls \ {c} \in SUBSET calls
    BY <1>0, <1>1, DoneKeeps DEF Done, CallsInv
  <1>2. CASE ProfilesSubmitted(c)
    <2>1. ProfileSave(c) /\ Done(c)
      BY <1>2 DEF ProfilesSubmitted, Ended, Ok, Failed, ProfileSave
    <2>2. CallsInv' /\ calls' = calls \ {c} /\ \A d \in calls' : ~ProfileSave(d)
      BY <1>1, <2>1 DEF ProfilesInv, DialogFollows
    <2>3. DOMAIN ui' = DOMAIN ui /\ ui'.submitting = FALSE
      BY <1>0, <1>2 DEF ProfilesSubmitted, ProfilesClose
    <2>4. DialogFollows(calls', ui')
      BY <2>2, <2>3 DEF DialogFollows, ProfileSave
    <2> QED
      BY <1>0, <2>2, <2>3, <2>4 DEF ProfilesInv
  <1>3. CASE AllowlistWritten(c)
    <2>1. ~ProfileSave(c)
      BY <1>3 DEF AllowlistWritten, Ended, Ok, Failed, ProfileSave
    <2>2. SameDialog
      BY <1>0, <1>3 DEF AllowlistWritten, Over, SameDialog
    <2>3. CASE Done(c)
      BY <1>0, <1>1, <2>1, <2>2, <2>3, ProfilesAsideKeeps
    <2>4. CASE \E arg : AddsAside(calls \ {c}, "listProfileAllowlist", arg)
      <3>1. PICK arg : AddsAside(calls \ {c}, "listProfileAllowlist", arg)
        BY <2>4
      <3>2. CallsInv' /\ SentOne(calls \ {c}, "listProfileAllowlist", arg)
        BY <1>0, <3>1, AddsAsideKeeps, ProfilesOps
      <3>3. /\ calls \ {c} \in SUBSET calls /\ calls \ {c} \subseteq calls'
            /\ \A d \in (calls \ (calls \ {c})) \cup (calls' \ (calls \ {c})) : ~ProfileSave(d)
        BY <2>1, <3>2 DEF SentOne, ProfileSave
      <3> QED
        BY <1>0, <2>2, <3>2, <3>3, ProfilesAsideKeeps
    <2> QED
      BY <1>3, <2>3, <2>4 DEF AllowlistWritten, ThenAside
  <1>4. CASE ProfilesRefreshed(c) \/ AllowlistOpened(c) \/ AllowlistListed(c)
             \/ ProfilesDeleted(c)
    <2>1. ~ProfileSave(c) /\ Done(c)
      BY <1>4 DEF ProfilesRefreshed, AllowlistOpened, AllowlistListed, ProfilesDeleted,
                  Ended, Ok, Failed, ProfileSave
    <2>2. CASE ProfilesRefreshed(c) \/ AllowlistOpened(c) \/ ProfilesDeleted(c)
      <3>1. SameDialog
        BY <1>0, <2>2 DEF ProfilesRefreshed, AllowlistOpened, ProfilesDeleted, Shows, SameDialog
      <3> QED
        BY <1>0, <1>1, <2>1, <3>1, ProfilesAsideKeeps
    <2>3. CASE AllowlistListed(c)
      <3>1. SameDialog
        BY <1>0, <2>3 DEF AllowlistListed, Shows, Over, SameDialog
      <3> QED
        BY <1>0, <1>1, <2>1, <3>1, ProfilesAsideKeeps
    <2> QED
      BY <1>4, <2>2, <2>3
  <1> QED
    BY <1>2, <1>3, <1>4

\* The node serves the profiles.
LEMMA ProfilesServesKeep ==
    ASSUME ProfilesInv, NEW c \in calls, ProfilesServes(c)
    PROVE  ProfilesInv'
  <1>1. CallsInv /\ page' = page /\ ui' = ui
    BY DEF ProfilesInv, ProfilesServes
  <1>2. (\E data : Answers(c, data)) \/ Refuses(c)
    BY DEF ProfilesServes
  <1>3. \E at, data : MovedOne(c, at, data) /\ CallsInv'
    BY <1>1, <1>2, AnswersKeeps, RefusesKeeps
  <1> QED
    BY <1>1, <1>3, ProfilesMovedKeeps

\* Every step of the profiles keeps it.
LEMMA ProfilesKeep == ProfilesInv /\ ProfilesNext => ProfilesInv'
  <1> SUFFICES ASSUME ProfilesInv, ProfilesNext PROVE ProfilesInv'
    OBVIOUS
  <1>1. ASSUME NEW c \in calls, Fails(c) PROVE ProfilesInv'
    BY <1>1, FailsKeeps, ProfilesMovedKeeps DEF ProfilesInv
  <1> QED
    BY <1>1, ProfilesDialogsKeep, ProfilesSubmitKeeps, ProfilesSendsKeep,
       ProfilesHandlersKeep, ProfilesServesKeep DEF ProfilesNext

\* What it says of the page.
LEMMA ProfilesShow == ProfilesInv => DialogWaitsForSave
  <1> SUFFICES ASSUME ProfilesInv PROVE DialogWaitsForSave
    OBVIOUS
  <1> DEFINE saves == Pending("updateProfile") \cup Pending("createProfile")
  <1>1. saves = {c \in calls : ProfileSave(c)} /\ IsFiniteSet(calls)
    BY DEF Pending, ProfileSave, ProfilesInv, CallsInv, GoodCalls
  <1>2. saves \in SUBSET calls /\ (\A c, d \in saves : c = d) /\ (ui.submitting <=> saves # {})
    BY <1>1 DEF ProfilesInv, DialogFollows
  <1>3. /\ \A c \in Pending("updateProfile") :
              ui.showModal /\ ui.mode = "edit" /\ ui.original.id = c.arg.id
        /\ \A c \in Pending("createProfile") : ui.showModal /\ ui.mode = "create"
    BY DEF Pending, ProfileSave, ProfilesInv, DialogFollows
  <1> SUFFICES Cardinality(saves) = (IF ui.submitting THEN 1 ELSE 0)
    BY <1>3 DEF DialogWaitsForSave
  <1> HIDE DEF saves
  <1>4. Cardinality(saves) = IF saves = {} THEN 0 ELSE 1
    BY <1>1, <1>2, FS_Subset, AtMostOne
  <1> QED
    BY <1>2, <1>4

-----------------------------------------------------------------------------
(* The allowlist.                                                              *)

\* One removal, whose row is busy.
AllowlistMarks(S, view) ==
    /\ view.removing <=> \E c \in S : c.op = "removeAllowlist"
    /\ \A c, d \in S : c.op = "removeAllowlist" /\ d.op = "removeAllowlist" => c = d
    /\ view.busyRows = {c.arg.domain : c \in {d \in S : d.op = "removeAllowlist"}}

AllowlistInv ==
    /\ page = "allowlist" /\ CallsInv /\ {"removing", "busyRows"} \subseteq DOMAIN ui
    /\ AllowlistMarks(calls, ui)

\* The wrappers of the allowlist.
LEMMA AllowlistOps ==
    {"listProfiles", "listAllowlist", "addAllowlist", "removeAllowlist"} \subseteq Endpoint
  BY DEF Endpoint, Reads, Changes, AccountAndListCalls, ConfigurationCalls,
         ClientAndAuditCalls, PauseAndWebhookCalls, TokenAndDeviceCalls, OtherCalls

\* It holds when the page is mounted.
LEMMA AllowlistStart == AllowlistInit => AllowlistInv
  <1> SUFFICES ASSUME AllowlistInit PROVE AllowlistInv
    OBVIOUS
  <1>1. CallsInv /\ \A c \in calls : c.op = "listProfiles"
    BY FirstCall, AllowlistOps DEF AllowlistInit
  <1>2. /\ page = "allowlist" /\ {"removing", "busyRows"} \subseteq DOMAIN ui
        /\ ~ui.removing /\ ui.busyRows = {}
    BY DEF AllowlistInit
  <1> QED
    BY <1>1, <1>2 DEF AllowlistInv, AllowlistMarks

\* A step that neither sends nor ends a removal.
LEMMA AllowlistAsideKeeps ==
    ASSUME AllowlistInv, page' = page, CallsInv', DOMAIN ui' = DOMAIN ui,
           ui'.removing = ui.removing, ui'.busyRows = ui.busyRows,
           NEW rest \in SUBSET calls, rest \subseteq calls',
           \A c \in (calls \ rest) \cup (calls' \ rest) : c.op # "removeAllowlist"
    PROVE  AllowlistInv'
  <1>1. {c \in calls' : c.op = "removeAllowlist"} = {c \in calls : c.op = "removeAllowlist"}
    OBVIOUS
  <1> QED
    BY <1>1 DEF AllowlistInv, AllowlistMarks

\* A call moves on: it is answered, refused or fails.
LEMMA AllowlistMovedKeeps ==
    ASSUME AllowlistInv, NEW c \in calls, NEW at, NEW data, MovedOne(c, at, data), CallsInv',
           page' = page, ui' = ui
    PROVE  AllowlistInv'
  <1>1. PICK d : calls' = (calls \ {c}) \cup {d} /\ d.op = c.op /\ d.arg = c.arg
    BY DEF MovedOne
  <1>2. {e.arg.domain : e \in {f \in calls' : f.op = "removeAllowlist"}}
           = {e.arg.domain : e \in {f \in calls : f.op = "removeAllowlist"}}
    BY <1>1
  <1> QED
    BY <1>1, <1>2 DEF AllowlistInv, AllowlistMarks

\* The node serves the allowlist.
LEMMA AllowlistServesKeep ==
    ASSUME AllowlistInv, NEW c \in calls, AllowlistServes(c)
    PROVE  AllowlistInv'
  <1>1. CallsInv /\ page' = page /\ ui' = ui
    BY DEF AllowlistInv, AllowlistServes
  <1>2. (\E data : Answers(c, data)) \/ Refuses(c)
    BY DEF AllowlistServes
  <1>3. \E at, data : MovedOne(c, at, data) /\ CallsInv'
    BY <1>1, <1>2, AnswersKeeps, RefusesKeeps
  <1> QED
    BY <1>1, <1>3, AllowlistMovedKeeps

\* What the administrator does keeps it.
LEMMA AllowlistUserKeeps ==
    ASSUME AllowlistInv,
           \/ \E s \in Scope : OnScopeChange(s)
           \/ \E d \in Typed : SubmitAdd(d) \/ AskRemove(d)
           \/ \E todo \in SUBSET {Lower(n) : n \in Item} : SubmitBulk(todo)
           \/ OpenBulk \/ CloseRemove \/ ConfirmRemove \/ AllowlistOnKey
    PROVE  AllowlistInv'
  <1>0. CallsInv /\ {"removing", "busyRows"} \subseteq DOMAIN ui /\ AllowlistMarks(calls, ui)
    BY DEF AllowlistInv
  <1>1. CASE \/ \E s \in Scope : OnScopeChange(s)
             \/ \E d \in Typed : SubmitAdd(d)
             \/ \E todo \in SUBSET {Lower(n) : n \in Item} : SubmitBulk(todo)
    <2>0. \E arg : Sends(calls, "listAllowlist", arg) \/ Sends(calls, "addAllowlist", arg)
      BY <1>1 DEF OnScopeChange, SubmitAdd, SubmitBulk, Asks
    <2>1. PICK op, arg : op \in {"listAllowlist", "addAllowlist"} /\ Sends(calls, op, arg)
      BY <2>0
    <2>2. /\ page' = page /\ DOMAIN ui' = DOMAIN ui
          /\ ui'.removing = ui.removing /\ ui'.busyRows = ui.busyRows
      BY <1>0, <1>1 DEF OnScopeChange, SubmitAdd, SubmitBulk
    <2>3. CallsInv' /\ SentOne(calls, op, arg)
      BY <1>0, <2>1, <2>2, SendsKeeps, AllowlistOps
    <2> QED
      BY <2>1, <2>2, <2>3, AllowlistAsideKeeps DEF SentOne
  <1>2. CASE (\E d \in Typed : AskRemove(d)) \/ OpenBulk \/ CloseRemove \/ AllowlistOnKey
    <2>1. /\ Local /\ DOMAIN ui' = DOMAIN ui
          /\ ui'.removing = ui.removing /\ ui'.busyRows = ui.busyRows
      BY <1>0, <1>2 DEF AskRemove, OpenBulk, CloseRemove, AllowlistOnKey
    <2>2. CallsInv' /\ page' = page /\ calls' = calls
      BY <1>0, <2>1, SameCallsKeep DEF Local, CallsInv
    <2> QED
      BY <2>1, <2>2, AllowlistAsideKeeps
  <1>3. CASE ConfirmRemove
    <2> DEFINE arg == [scope |-> ui.scope, domain |-> ui.pendingRemove]
    <2>1. /\ ~ui.removing /\ page' = page /\ Sends(calls, "removeAllowlist", arg)
          /\ ui' = [ui EXCEPT !.removing = TRUE,
                              !.busyRows = ui.busyRows \cup {ui.pendingRemove}]
          /\ arg.domain = ui.pendingRemove
      BY <1>3 DEF ConfirmRemove, Asks
    <2> HIDE DEF arg
    <2>2. /\ DOMAIN ui' = DOMAIN ui /\ ui'.removing
          /\ ui'.busyRows = ui.busyRows \cup {ui.pendingRemove}
      BY <1>0, <2>1
    <2>3. CallsInv' /\ SentOne(calls, "removeAllowlist", arg)
      BY <1>0, <2>1, SendsKeeps, AllowlistOps
    <2>4. PICK d : calls' = calls \cup {d} /\ d.op = "removeAllowlist" /\ d.arg = arg
      BY <2>3 DEF SentOne
    <2>5. \A c \in calls : c.op # "removeAllowlist"
      BY <1>0, <2>1 DEF AllowlistMarks
    <2>6. ui.busyRows = {} /\ {c \in calls' : c.op = "removeAllowlist"} = {d}
      BY <1>0, <2>4, <2>5 DEF AllowlistMarks
    <2>7. ui'.busyRows = {c.arg.domain : c \in {d}}
      BY <2>1, <2>2, <2>4, <2>6
    <2>8. AllowlistMarks(calls, ui)'
      BY <2>2, <2>4, <2>5, <2>6, <2>7 DEF AllowlistMarks
    <2> QED
      BY <2>1, <2>2, <2>3, <2>8 DEF AllowlistInv
  <1> QED
    BY <1>1, <1>2, <1>3

\* What the handlers do once they are answered keeps it.
LEMMA AllowlistHandlersKeep ==
    ASSUME AllowlistInv, NEW c \in calls,
           \/ AllowlistMounted(c) \/ AllowlistRefreshed(c) \/ Added(c) \/ BulkAdded(c)
           \/ Removed(c)
    PROVE  AllowlistInv'
  <1>0. CallsInv /\ {"removing", "busyRows"} \subseteq DOMAIN ui /\ AllowlistMarks(calls, ui)
    BY DEF AllowlistInv
  <1>1. CASE AllowlistMounted(c) \/ AllowlistRefreshed(c) \/ Added(c) \/ BulkAdded(c)
    <2>1. /\ page' = page /\ DOMAIN ui' = DOMAIN ui
          /\ ui'.removing = ui.removing /\ ui'.busyRows = ui.busyRows
          /\ c.op # "removeAllowlist"
      BY <1>0, <1>1 DEF AllowlistMounted, AllowlistRefreshed, Added, BulkAdded, Ended, Ok, Failed
    <2>2. \/ Done(c)
          \/ \E arg : \/ Sends(calls \ {c}, "listAllowlist", arg)
                      \/ Sends(calls \ {c}, "addAllowlist", arg)
      BY <1>1 DEF AllowlistMounted, AllowlistRefreshed, Added, BulkAdded, Then
    <2>3. CASE Done(c)
      <3>1. CallsInv' /\ calls' = calls \ {c}
        BY <1>0, <2>1, <2>3, DoneKeeps DEF Done, CallsInv
      <3> QED
        BY <2>1, <3>1, AllowlistAsideKeeps
    <2>4. ASSUME NEW op \in {"listAllowlist", "addAllowlist"}, NEW arg,
                 Sends(calls \ {c}, op, arg)
          PROVE  AllowlistInv'
      <3>1. CallsInv' /\ SentOne(calls \ {c}, op, arg)
        BY <1>0, <2>1, <2>4, SendsKeeps, AllowlistOps
      <3> QED
        BY <2>1, <3>1, AllowlistAsideKeeps DEF SentOne
    <2> QED
      BY <2>2, <2>3, <2>4
  <1>2. CASE Removed(c)
    <2>1. /\ c.op = "removeAllowlist" /\ page' = page /\ Done(c) /\ DOMAIN ui' = DOMAIN ui
          /\ ~ui'.removing /\ ui'.busyRows = ui.busyRows \ {c.arg.domain}
      BY <1>0, <1>2 DEF Removed, Ended, Ok, Failed
    <2>2. CallsInv' /\ calls' = calls \ {c}
      BY <1>0, <2>1, DoneKeeps DEF Done, CallsInv
    <2>3. \A d \in calls' : d.op # "removeAllowlist"
      BY <1>0, <2>1, <2>2 DEF AllowlistMarks
    <2>4. {d \in calls : d.op = "removeAllowlist"} = {c}
      BY <2>1, <2>2, <2>3
    <2>5. ui'.busyRows = {}
      BY <1>0, <2>1, <2>4 DEF AllowlistMarks
    <2> QED
      BY <2>1, <2>2, <2>3, <2>5 DEF AllowlistInv, AllowlistMarks
  <1> QED
    BY <1>1, <1>2

\* Every step of the page keeps it.
LEMMA AllowlistKeep == AllowlistInv /\ AllowlistNext => AllowlistInv'
  <1> SUFFICES ASSUME AllowlistInv, AllowlistNext PROVE AllowlistInv'
    OBVIOUS
  <1>1. ASSUME NEW c \in calls, Fails(c) PROVE AllowlistInv'
    BY <1>1, FailsKeeps, AllowlistMovedKeeps DEF AllowlistInv
  <1> QED
    BY <1>1, AllowlistUserKeeps, AllowlistHandlersKeep, AllowlistServesKeep
       DEF AllowlistNext

\* What it says of the page.
LEMMA AllowlistShow == AllowlistInv => OneRemoval
  <1> SUFFICES ASSUME AllowlistInv PROVE OneRemoval
    OBVIOUS
  <1>1. /\ IsFiniteSet(Pending("removeAllowlist"))
        /\ \A c, d \in Pending("removeAllowlist") : c = d
    BY PendingFinite DEF AllowlistInv, AllowlistMarks, Pending
  <1>2. Cardinality(Pending("removeAllowlist")) <= 1
    <2>1. Cardinality(Pending("removeAllowlist"))
             = IF Pending("removeAllowlist") = {} THEN 0 ELSE 1
      BY <1>1, AtMostOne
    <2> QED
      BY <2>1
  <1> QED
    BY <1>2 DEF OneRemoval, AllowlistInv, AllowlistMarks, Pending

-----------------------------------------------------------------------------
(* The blocklists.                                                             *)

BlocklistRows == [Item -> Blocklist \cup {None}]

BlocklistsUi ==
    [rows : BlocklistRows, busyRows : SUBSET Item, rowErrors : SUBSET Item,
     pendingDelete : Item \cup {None}, loading : BOOLEAN, showCreate : BOOLEAN,
     submitting : BOOLEAN, deleting : BOOLEAN]

BlocklistsStore == [rows : BlocklistRows, used : SUBSET Item]

\* The calls about a row: they change what it is set to, or fetch its source.
RowCall(c) == c.op \in {"updateBlocklist", "refreshBlocklist"}

RowArg ==
    [id : Item, set : {"enabled"}, to : BOOLEAN]
    \cup [id : Item, set : {"interval"}, to : Interval]
    \cup [id : Item, set : {None}, to : {None}]

\* What a call carries, and its answer.
BlocklistsCall(c) ==
    \/ c.op = "listBlocklists" /\ (c.at = "ok" => c.data.rows \in BlocklistRows)
    \/ RowCall(c) /\ c.arg \in RowArg /\ (c.at = "ok" => c.data \in Blocklist)
    \/ c.op = "deleteBlocklist" /\ c.arg.id \in Item
    \/ c.op = "createBlocklist" /\ (c.at = "ok" => c.data.id \in Item)

BlocklistsTyped ==
    /\ page = "blocklists" /\ CallsInv /\ srv \in BlocklistsStore /\ ui \in BlocklistsUi
    /\ \A c \in calls : BlocklistsCall(c)

\* What the row becomes when its call is over.
Outcome(c, row) ==
    IF c.at = "ok" THEN c.data
    ELSE IF c.arg.set = "enabled" THEN [row EXCEPT !.enabled = ~c.arg.to]
    ELSE row

\* What the table becomes when the call is over is what the node stores, while
\* nothing crosses.
BlocklistsLead(c) ==
    /\ c.op = "listBlocklists" => c.at # "failed" /\ (c.at = "ok" => c.data.rows = srv.rows)
    /\ RowCall(c) =>
          /\ ui.rows[c.arg.id] # None
          /\ srv.rows = [ui.rows EXCEPT ![c.arg.id] = Outcome(c, ui.rows[c.arg.id])]
    /\ c.op = "deleteBlocklist" =>
          srv.rows = IF c.at = "ok" THEN [ui.rows EXCEPT ![c.arg.id] = None] ELSE ui.rows
    /\ c.op = "createBlocklist" =>
          srv.rows = IF c.at = "ok" THEN [ui.rows EXCEPT ![c.data.id] = NewBlocklist]
                     ELSE ui.rows

BlocklistsLeads ==
    ~crossed => /\ \A c \in calls : BlocklistsLead(c)
                /\ calls = {} => ui.rows = srv.rows
                /\ ui.busyRows = {c.arg.id : c \in {d \in calls : RowCall(d)}}

BlocklistsInv == BlocklistsTyped /\ BlocklistsLeads

\* The wrappers of the blocklists.
LEMMA BlocklistsOps ==
    /\ {"listBlocklists", "createBlocklist", "updateBlocklist", "refreshBlocklist",
        "deleteBlocklist"} \subseteq Endpoint
    /\ ~Mutates("listBlocklists") /\ Mutates("createBlocklist") /\ Mutates("updateBlocklist")
    /\ Mutates("refreshBlocklist") /\ Mutates("deleteBlocklist")
  BY DEF Endpoint, Mutates, Reads, Changes, AccountAndListCalls, ConfigurationCalls,
         ClientAndAuditCalls, PauseAndWebhookCalls, TokenAndDeviceCalls, OtherCalls

\* It holds when the page is mounted.
LEMMA BlocklistsStart == BlocklistsInit => BlocklistsInv
  <1> SUFFICES ASSUME BlocklistsInit PROVE BlocklistsInv
    OBVIOUS
  <1>1. CallsInv /\ \A c \in calls : c.op = "listBlocklists" /\ c.at = "sent"
    BY FirstCall, BlocklistsOps DEF BlocklistsInit
  <1>2. srv \in BlocklistsStore
    <2>1. PICK i \in Item, s \in {0, 1} :
             srv = [rows |-> [NoRows EXCEPT ![i] = [enabled |-> TRUE, interval |-> s]],
                    used |-> {i}]
      BY DEF BlocklistsInit
    <2>2. [enabled |-> TRUE, interval |-> s] \in Blocklist
      BY DEF Blocklist, Interval
    <2> QED
      BY <2>1, <2>2 DEF BlocklistsStore, BlocklistRows, NoRows
  <1>3. page = "blocklists" /\ calls # {} /\ ui \in BlocklistsUi /\ ui.busyRows = {}
    BY DEF BlocklistsInit, BlocklistsUi, BlocklistRows, NoRows
  <1>4. BlocklistsTyped
    BY <1>1, <1>2, <1>3 DEF BlocklistsTyped, BlocklistsCall
  <1>5. BlocklistsLeads
    BY <1>1, <1>3 DEF BlocklistsLeads, BlocklistsLead, RowCall
  <1> QED
    BY <1>4, <1>5 DEF BlocklistsInv

\* Forms and dialogs come and go over the same calls.
LEMMA BlocklistsDialogKeeps ==
    ASSUME BlocklistsInv, Local, ui' \in BlocklistsUi, ui'.rows = ui.rows,
           ui'.busyRows = ui.busyRows
    PROVE  BlocklistsInv'
  <1>1. CallsInv' /\ calls' = calls /\ page' = page /\ srv' = srv /\ crossed' = crossed
    BY SameCallsKeep DEF BlocklistsInv, BlocklistsTyped, Local, CallsInv
  <1>2. BlocklistsTyped'
    BY <1>1 DEF BlocklistsInv, BlocklistsTyped, BlocklistsCall, RowCall
  <1>3. BlocklistsLeads'
    BY <1>1 DEF BlocklistsInv, BlocklistsLeads, BlocklistsLead, RowCall, Outcome
  <1> QED
    BY <1>2, <1>3 DEF BlocklistsInv

\* A call that changes the node is sent: what is said of it while nothing crosses is
\* said over a table that shows what the node stores.
LEMMA BlocklistsSendKeeps ==
    ASSUME BlocklistsInv, page' = page, srv' = srv,
           NEW op \in {"createBlocklist", "updateBlocklist", "refreshBlocklist",
                       "deleteBlocklist"},
           NEW arg, Sends(calls, op, arg), ui' \in BlocklistsUi,
           \A d : d.op = op /\ d.arg = arg /\ d.at = "sent" =>
              /\ BlocklistsCall(d)
              /\ ui.rows = srv.rows => BlocklistsLead(d)'
              /\ ui.busyRows = {} => ui'.busyRows = IF RowCall(d) THEN {arg.id} ELSE {}
    PROVE  BlocklistsInv'
  <1>0. BlocklistsTyped /\ BlocklistsLeads /\ CallsInv /\ op \in Endpoint /\ Mutates(op)
    BY BlocklistsOps DEF BlocklistsInv, BlocklistsTyped
  <1>1. CallsInv' /\ SentOne(calls, op, arg)
    BY <1>0, SendsKeeps
  <1>2. PICK d : /\ calls' = calls \cup {d} /\ d.op = op /\ d.arg = arg /\ d.at = "sent"
    BY <1>1 DEF SentOne
  <1>3. BlocklistsTyped'
    <2>1. BlocklistsCall(d)
      BY <1>2
    <2> QED
      BY <1>0, <1>1, <1>2, <2>1 DEF BlocklistsTyped, BlocklistsCall, RowCall
  <1>4. ~crossed' => calls = {} /\ ~crossed
    BY <1>0, SendsAlone
  <1>5. ASSUME ~crossed' PROVE /\ BlocklistsLead(d)' /\ calls' = {d}
                               /\ ui'.busyRows = IF RowCall(d) THEN {d.arg.id} ELSE {}
    <2>1. ui.rows = srv.rows /\ ui.busyRows = {} /\ calls' = {d}
      BY <1>0, <1>2, <1>4, <1>5 DEF BlocklistsLeads
    <2> QED
      BY <1>2, <2>1
  <1>6. BlocklistsLeads'
    BY <1>5 DEF BlocklistsLeads, BlocklistsLead, RowCall, Outcome
  <1> QED
    BY <1>3, <1>6 DEF BlocklistsInv

\* The view is done with c: it was alone, or nothing is said.
LEMMA BlocklistsDoneKeeps ==
    ASSUME BlocklistsInv, NEW c \in calls, Done(c), page' = page, srv' = srv,
           ui' \in BlocklistsUi,
           ~crossed /\ BlocklistsLead(c) => ui'.rows = srv.rows,
           ui'.busyRows = IF RowCall(c) THEN ui.busyRows \ {c.arg.id} ELSE ui.busyRows,
           RowCall(c) \/ Mutates(c.op) \/ c.op = "listBlocklists"
    PROVE  BlocklistsInv'
  <1>0. BlocklistsTyped /\ BlocklistsLeads /\ CallsInv /\ Apart
    BY DEF BlocklistsInv, BlocklistsTyped, CallsInv
  <1>1. CallsInv' /\ calls' = calls \ {c} /\ crossed' = crossed
    BY <1>0, DoneKeeps DEF Done, CallsInv
  <1>2. BlocklistsTyped'
    BY <1>0, <1>1 DEF BlocklistsTyped, BlocklistsCall, RowCall
  <1>3. ASSUME ~crossed PROVE BlocklistsLeads'
    <2>1. /\ ui'.rows = srv'.rows
          /\ ui.busyRows = {d.arg.id : d \in {e \in calls : RowCall(e)}}
      BY <1>0, <1>3 DEF BlocklistsLeads
    <2>2. CASE RowCall(c)
      <3>1. calls = {c}
        BY <1>0, <1>3, <2>2, BlocklistsOps DEF Apart, RowCall
      <3> QED
        BY <1>1, <2>1, <2>2, <3>1 DEF BlocklistsLeads
    <2>3. CASE ~RowCall(c) /\ Mutates(c.op)
      <3>1. calls = {c}
        BY <1>0, <1>3, <2>3 DEF Apart
      <3> QED
        BY <1>1, <2>1, <2>3, <3>1 DEF BlocklistsLeads
    <2>4. CASE ~RowCall(c) /\ ~Mutates(c.op)
      <3>1. \A d \in calls : ~Mutates(d.op)
        BY <1>0, <1>3, <2>4 DEF Apart
      <3>2. \A d \in calls : d.op = "listBlocklists"
        BY <1>0, <3>1, BlocklistsOps DEF BlocklistsTyped, BlocklistsCall, RowCall
      <3> QED
        BY <1>0, <1>1, <1>3, <2>1, <2>4, <3>2 DEF BlocklistsLeads, BlocklistsLead, RowCall
    <2> QED
      BY <2>2, <2>3, <2>4
  <1>4. BlocklistsLeads'
    BY <1>1, <1>3 DEF BlocklistsLeads
  <1> QED
    BY <1>2, <1>4 DEF BlocklistsInv

\* The node stores blocklists, whatever it is asked for.
LEMMA PatchedIs ==
    ASSUME NEW row \in Blocklist, NEW arg \in RowArg
    PROVE  BlocklistsPatched(row, arg) \in Blocklist
  BY BlocklistsAssumption DEF BlocklistsPatched, Blocklist, RowArg

\* The node serves the blocklists.
LEMMA BlocklistsServesKeep ==
    ASSUME BlocklistsInv, NEW c \in calls, BlocklistsServes(c)
    PROVE  BlocklistsInv'
  <1>0. /\ BlocklistsTyped /\ BlocklistsLeads /\ CallsInv /\ Apart /\ BlocklistsCall(c)
        /\ srv \in BlocklistsStore /\ srv.rows \in BlocklistRows /\ ui.rows \in BlocklistRows
    BY DEF BlocklistsInv, BlocklistsTyped, CallsInv, BlocklistsStore, BlocklistsUi
  <1>1. page' = page /\ ui' = ui /\ c.at = "sent"
    BY DEF BlocklistsServes
  \* What the answer is and what it leaves of a table the call is alone with.
  <1>2. ASSUME NEW at \in {"ok", "failed"}, NEW data, MovedOne(c, at, data), CallsInv',
               crossed' = crossed, srv' \in BlocklistsStore,
               \A d : d.op = c.op /\ d.arg = c.arg /\ d.at = at /\ d.data = data =>
                  BlocklistsCall(d) /\ (BlocklistsLead(c) => BlocklistsLead(d)'),
               Mutates(c.op) \/ srv' = srv
        PROVE  BlocklistsInv'
    <2>1. PICK d : /\ calls' = (calls \ {c}) \cup {d} /\ d.op = c.op /\ d.arg = c.arg
                   /\ d.at = at /\ d.data = data
      BY <1>2 DEF MovedOne
    <2>2. BlocklistsCall(d) /\ (BlocklistsLead(c) => BlocklistsLead(d)')
      BY <1>2, <2>1
    <2>3. BlocklistsTyped'
      BY <1>0, <1>1, <1>2, <2>1, <2>2 DEF BlocklistsTyped, BlocklistsCall, RowCall
    <2>4. ASSUME ~crossed PROVE BlocklistsLeads'
      <3>1. Mutates(c.op) => calls = {c}
        BY <1>0, <2>4 DEF Apart
      <3>2. \A e \in calls' : BlocklistsLead(e)'
        <4>1. BlocklistsLead(d)'
          BY <1>0, <2>2, <2>4 DEF BlocklistsLeads
        <4>2. ASSUME NEW e \in calls \ {c} PROVE BlocklistsLead(e)'
          BY <1>0, <1>1, <1>2, <2>4, <3>1, <4>2
             DEF BlocklistsLeads, BlocklistsLead, RowCall, Outcome
        <4> QED
          BY <2>1, <4>1, <4>2
      <3>3. RowCall(d) <=> RowCall(c)
        BY <2>1 DEF RowCall
      <3>4. {e.arg.id : e \in {f \in calls' : RowCall(f)}}
               = {e.arg.id : e \in {f \in calls : RowCall(f)}}
        BY <2>1, <3>3
      <3> QED
        BY <1>0, <1>1, <2>1, <2>4, <3>2, <3>4 DEF BlocklistsLeads
    <2>5. BlocklistsLeads'
      BY <1>2, <2>4 DEF BlocklistsLeads
    <2> QED
      BY <2>3, <2>5 DEF BlocklistsInv
  <1>3. CASE c.op = "listBlocklists" /\ Answers(c, [rows |-> srv.rows]) /\ UNCHANGED srv
    <2>1. /\ MovedOne(c, "ok", [rows |-> srv.rows]) /\ CallsInv' /\ crossed' = crossed
      BY <1>0, <1>1, <1>3, AnswersKeeps
    <2> QED
      BY <1>0, <1>2, <1>3, <2>1 DEF BlocklistsCall, BlocklistsLead, RowCall
  <1>4. CASE /\ c.op = "createBlocklist"
             /\ \E i \in Item \ srv.used :
                   /\ srv' = [rows |-> [srv.rows EXCEPT ![i] = NewBlocklist],
                              used |-> srv.used \cup {i}]
                   /\ Answers(c, [id |-> i])
    <2>1. PICK i \in Item : /\ srv' = [rows |-> [srv.rows EXCEPT ![i] = NewBlocklist],
                                       used |-> srv.used \cup {i}]
                            /\ Answers(c, [id |-> i])
      BY <1>4
    <2>2. MovedOne(c, "ok", [id |-> i]) /\ CallsInv' /\ crossed' = crossed
      BY <1>0, <1>1, <2>1, AnswersKeeps
    <2>3. NewBlocklist \in Blocklist
      BY DEF NewBlocklist, Blocklist, Interval
    <2>4. srv' \in BlocklistsStore
      BY <1>0, <2>1, <2>3 DEF BlocklistsStore, BlocklistRows
    <2>5. ASSUME NEW d, d.op = c.op, d.arg = c.arg, d.at = "ok", d.data = [id |-> i]
          PROVE  BlocklistsCall(d) /\ (BlocklistsLead(c) => BlocklistsLead(d)')
      BY <1>1, <1>4, <2>1, <2>5 DEF BlocklistsCall, BlocklistsLead, RowCall
    <2> QED
      BY <1>2, <1>4, <2>2, <2>4, <2>5, BlocklistsOps
  <1>5. CASE /\ c.op \in {"updateBlocklist", "refreshBlocklist", "deleteBlocklist"}
             /\ c.arg.id \notin Ids(srv.rows) /\ Refuses(c)
    <2>1. MovedOne(c, "failed", c.data) /\ CallsInv' /\ srv' = srv /\ crossed' = crossed
      BY <1>0, <1>1, <1>5, RefusesKeeps
    <2>2. ASSUME NEW d, d.op = c.op, d.arg = c.arg, d.at = "failed", d.data = c.data
          PROVE  BlocklistsCall(d) /\ (BlocklistsLead(c) => BlocklistsLead(d)')
      BY <1>0, <1>1, <1>5, <2>1, <2>2 DEF BlocklistsCall, BlocklistsLead, RowCall, Outcome
    <2> QED
      BY <1>0, <1>2, <1>5, <2>1, <2>2, BlocklistsOps
  <1>6. CASE /\ RowCall(c) /\ c.arg.id \in Ids(srv.rows)
             /\ srv' = [srv EXCEPT !.rows[c.arg.id] = BlocklistsPatched(@, c.arg)]
             /\ Answers(c, srv'.rows[c.arg.id])
    <2> DEFINE b == c.arg.id
               row == BlocklistsPatched(srv.rows[b], c.arg)
    <2>1. c.arg \in RowArg /\ b \in Item /\ srv.rows[b] \in Blocklist
      BY <1>0, <1>6 DEF BlocklistsCall, RowCall, Ids, BlocklistRows
    <2>2. row \in Blocklist
      BY <2>1, PatchedIs
    <2> HIDE DEF row
    <2>3. srv' = [srv EXCEPT !.rows = [srv.rows EXCEPT ![b] = row]]
      BY <1>6 DEF row
    <2>4. /\ srv'.rows = [srv.rows EXCEPT ![b] = row] /\ srv'.rows[b] = row
          /\ srv' \in BlocklistsStore
      BY <1>0, <2>1, <2>2, <2>3 DEF BlocklistsStore, BlocklistRows
    <2>5. MovedOne(c, "ok", row) /\ CallsInv' /\ crossed' = crossed
      BY <1>0, <1>1, <1>6, <2>4, AnswersKeeps
    <2>6. ASSUME NEW d, d.op = c.op, d.arg = c.arg, d.at = "ok", d.data = row
          PROVE  BlocklistsCall(d) /\ (BlocklistsLead(c) => BlocklistsLead(d)')
      <3>1. BlocklistsCall(d)
        BY <1>6, <2>1, <2>2, <2>6 DEF BlocklistsCall, RowCall
      <3>2. ASSUME BlocklistsLead(c) PROVE BlocklistsLead(d)'
        <4>1. /\ ui.rows[b] # None
              /\ srv.rows = [ui.rows EXCEPT ![b] = Outcome(c, ui.rows[b])]
          BY <1>6, <3>2 DEF BlocklistsLead
        <4>2. srv'.rows = [ui.rows EXCEPT ![b] = row]
          BY <1>0, <2>4, <4>1 DEF BlocklistRows
        <4> QED
          BY <1>1, <1>6, <2>6, <4>1, <4>2 DEF BlocklistsLead, RowCall, Outcome
      <3> QED
        BY <3>1, <3>2
    <2> QED
      BY <1>2, <1>6, <2>4, <2>5, <2>6, BlocklistsOps DEF RowCall
  <1>7. CASE /\ c.op = "deleteBlocklist" /\ c.arg.id \in Ids(srv.rows)
             /\ srv' = [srv EXCEPT !.rows[c.arg.id] = None]
             /\ Answers(c, None)
    <2>1. MovedOne(c, "ok", None) /\ CallsInv' /\ crossed' = crossed
      BY <1>0, <1>1, <1>7, AnswersKeeps
    <2>2. /\ srv'.rows = [srv.rows EXCEPT ![c.arg.id] = None]
          /\ srv' \in BlocklistsStore
      BY <1>0, <1>7 DEF BlocklistsStore, BlocklistRows, Ids
    <2>3. ASSUME NEW d, d.op = c.op, d.arg = c.arg, d.at = "ok", d.data = None
          PROVE  BlocklistsCall(d) /\ (BlocklistsLead(c) => BlocklistsLead(d)')
      BY <1>0, <1>1, <1>7, <2>2, <2>3 DEF BlocklistsCall, BlocklistsLead, RowCall
    <2> QED
      BY <1>2, <1>7, <2>1, <2>2, <2>3, BlocklistsOps
  <1> QED
    BY <1>3, <1>4, <1>5, <1>6, <1>7 DEF BlocklistsServes, RowCall

\* What the administrator does keeps it.
LEMMA BlocklistsUserKeeps ==
    ASSUME BlocklistsInv,
           \/ \E b \in Item : \/ ToggleEnabled(b) \/ ToggleAutoRefresh(b) \/ SelectInterval(b)
                              \/ RefreshRow(b) \/ BlocklistsAskDelete(b)
           \/ BlocklistsConfirmDelete \/ BlocklistsOpenCreate \/ BlocklistsSubmitCreate
           \/ BlocklistsClose
    PROVE  BlocklistsInv'
  <1>0. /\ BlocklistsTyped /\ BlocklistsLeads /\ CallsInv /\ srv \in BlocklistsStore
        /\ ui \in BlocklistsUi /\ ui.rows \in BlocklistRows
    BY DEF BlocklistsInv, BlocklistsTyped, BlocklistsUi
  <1>1. ASSUME NEW b \in Item, ToggleEnabled(b) PROVE BlocklistsInv'
    <2> DEFINE prev == ui.rows[b].enabled
               row == [ui.rows[b] EXCEPT !.enabled = ~prev]
               arg == [id |-> b, set |-> "enabled", to |-> ~prev]
    <2>1. ui.rows[b] \in Blocklist /\ ui.rows[b] # None
      BY <1>0, <1>1 DEF ToggleEnabled, RowOffered, BlocklistsShown, Ids, BlocklistRows
    <2>2. /\ prev \in BOOLEAN /\ row \in Blocklist /\ row # None
          /\ [row EXCEPT !.enabled = prev] = ui.rows[b]
      BY <2>1, BlocklistsAssumption DEF Blocklist
    <2>3. arg \in RowArg
      BY <2>2 DEF RowArg
    <2>4. /\ ui' = [ui EXCEPT !.rows = [ui.rows EXCEPT ![b] = row],
                              !.busyRows = ui.busyRows \cup {b},
                              !.rowErrors = ui.rowErrors \ {b}]
          /\ Sends(calls, "updateBlocklist", arg) /\ page' = page /\ srv' = srv
      BY <1>1 DEF ToggleEnabled, Asks
    <2>8. (~(~prev)) = prev
      BY <2>2
    <2>9. arg.id = b /\ arg.set = "enabled" /\ [row EXCEPT !.enabled = ~arg.to] = ui.rows[b]
      BY <2>2, <2>8
    <2> HIDE DEF row, arg, prev
    <2>5. /\ ui' \in BlocklistsUi /\ ui'.rows = [ui.rows EXCEPT ![b] = row]
          /\ ui'.busyRows = ui.busyRows \cup {b}
      BY <1>0, <2>2, <2>4 DEF BlocklistsUi, BlocklistRows
    <2>6. ASSUME NEW d, d.op = "updateBlocklist", d.arg = arg, d.at = "sent"
          PROVE  /\ BlocklistsCall(d) /\ RowCall(d)
                 /\ ui.rows = srv.rows => BlocklistsLead(d)'
      <3>1. BlocklistsCall(d) /\ RowCall(d)
        BY <2>3, <2>6 DEF BlocklistsCall, RowCall
      <3>2. /\ ui'.rows[b] = row
            /\ [ui'.rows EXCEPT ![b] = ui.rows[b]] = ui.rows
        BY <1>0, <2>5 DEF BlocklistRows
      <3>3. Outcome(d, row) = ui.rows[b]
        BY <2>6, <2>9 DEF Outcome
      <3>4. ui.rows = srv.rows => BlocklistsLead(d)'
        BY <2>2, <2>4, <2>6, <2>9, <3>1, <3>2, <3>3 DEF BlocklistsLead, RowCall, Outcome
      <3> QED
        BY <3>1, <3>4
    <2>7. \A d : d.op = "updateBlocklist" /\ d.arg = arg /\ d.at = "sent" =>
              /\ BlocklistsCall(d)
              /\ ui.rows = srv.rows => BlocklistsLead(d)'
              /\ ui.busyRows = {} => ui'.busyRows = IF RowCall(d) THEN {arg.id} ELSE {}
      BY <2>5, <2>6, <2>9
    <2> QED
      BY <2>4, <2>5, <2>7, BlocklistsSendKeeps
  \* A row whose call changes nothing before it is answered.
  <1>a. ASSUME NEW op \in {"updateBlocklist", "refreshBlocklist"}, NEW arg \in RowArg,
               arg.set # "enabled", ui.rows[arg.id] # None, Sends(calls, op, arg),
               ui' = [ui EXCEPT !.busyRows = ui.busyRows \cup {arg.id},
                                !.rowErrors = ui.rowErrors \ {arg.id}],
               page' = page, srv' = srv
        PROVE  BlocklistsInv'
    <2>0. arg.id \in Item
      BY DEF RowArg
    <2>1. /\ ui' \in BlocklistsUi /\ ui'.rows = ui.rows
          /\ ui'.busyRows = ui.busyRows \cup {arg.id}
      BY <1>0, <1>a, <2>0 DEF BlocklistsUi
    <2>2. ASSUME NEW d, d.op = op, d.arg = arg, d.at = "sent"
          PROVE  /\ BlocklistsCall(d)
                 /\ ui.rows = srv.rows => BlocklistsLead(d)'
                 /\ ui.busyRows = {} => ui'.busyRows = IF RowCall(d) THEN {arg.id} ELSE {}
      <3>1. BlocklistsCall(d) /\ RowCall(d)
        BY <2>2 DEF BlocklistsCall, RowCall
      <3>2. [ui.rows EXCEPT ![arg.id] = ui.rows[arg.id]] = ui.rows
        BY <1>0, <2>0 DEF BlocklistRows
      <3> QED
        BY <1>a, <2>1, <2>2, <3>1, <3>2 DEF BlocklistsLead, RowCall, Outcome
    <2>3. \A d : d.op = op /\ d.arg = arg /\ d.at = "sent" =>
              /\ BlocklistsCall(d)
              /\ ui.rows = srv.rows => BlocklistsLead(d)'
              /\ ui.busyRows = {} => ui'.busyRows = IF RowCall(d) THEN {arg.id} ELSE {}
      BY <2>2
    <2> QED
      BY <1>a, <2>1, <2>3, BlocklistsSendKeeps
  <1>b. ASSUME NEW b \in Item, NEW s \in Interval, ui.rows[b] # None, SetRefreshInterval(b, s)
        PROVE  BlocklistsInv'
    <2> DEFINE arg == [id |-> b, set |-> "interval", to |-> s]
    <2>1. arg \in RowArg /\ arg.set # "enabled" /\ arg.id = b
      BY DEF RowArg
    <2>2. /\ ui' = [ui EXCEPT !.busyRows = @ \cup {b}, !.rowErrors = @ \ {b}]
          /\ Sends(calls, "updateBlocklist", arg) /\ page' = page /\ srv' = srv
      BY <1>b DEF SetRefreshInterval, Asks
    <2> HIDE DEF arg
    <2> QED
      BY <1>a, <1>b, <2>1, <2>2
  <1>2. ASSUME NEW b \in Item, ToggleAutoRefresh(b) PROVE BlocklistsInv'
    <2>1. ui.rows[b] # None
      BY <1>2 DEF ToggleAutoRefresh, RowOffered, BlocklistsShown, Ids
    <2>2. SetRefreshInterval(b, 0) \/ SetRefreshInterval(b, 1)
      BY <1>2 DEF ToggleAutoRefresh
    <2> QED
      BY <1>b, <2>1, <2>2 DEF Interval
  <1>3. ASSUME NEW b \in Item, SelectInterval(b) PROVE BlocklistsInv'
    <2>1. PICK s \in {1, 2} : IntervalOffered(b) /\ SetRefreshInterval(b, s)
      BY <1>3 DEF SelectInterval
    <2>2. ui.rows[b] # None /\ s \in Interval
      BY <2>1 DEF IntervalOffered, BlocklistsShown, Ids, Interval
    <2> QED
      BY <1>b, <2>1, <2>2
  <1>4. ASSUME NEW b \in Item, RefreshRow(b) PROVE BlocklistsInv'
    <2> DEFINE arg == [id |-> b, set |-> None, to |-> None]
    <2>1. arg \in RowArg /\ arg.set # "enabled" /\ arg.id = b
      BY BlocklistsAssumption DEF RowArg
    <2>2. ui.rows[b] # None
      BY <1>4 DEF RefreshRow, RowOffered, BlocklistsShown, Ids
    <2>3. /\ ui' = [ui EXCEPT !.busyRows = @ \cup {b}, !.rowErrors = @ \ {b}]
          /\ Sends(calls, "refreshBlocklist", arg) /\ page' = page /\ srv' = srv
      BY <1>4 DEF RefreshRow, Asks
    <2> HIDE DEF arg
    <2> QED
      BY <1>a, <2>1, <2>2, <2>3
  <1>5. ASSUME NEW b \in Item, BlocklistsAskDelete(b) PROVE BlocklistsInv'
    <2>1. ui' \in BlocklistsUi /\ ui'.rows = ui.rows /\ ui'.busyRows = ui.busyRows /\ Local
      BY <1>0, <1>5 DEF BlocklistsAskDelete, BlocklistsUi
    <2> QED
      BY <2>1, BlocklistsDialogKeeps
  <1>6. CASE BlocklistsConfirmDelete
    <2> DEFINE arg == [id |-> ui.pendingDelete, set |-> None, to |-> None]
    <2>1. /\ ui' \in BlocklistsUi /\ ui'.rows = ui.rows /\ ui'.busyRows = ui.busyRows
          /\ page' = page /\ srv' = srv /\ arg.id \in Item
          /\ Sends(calls, "deleteBlocklist", arg)
      BY <1>0, <1>6 DEF BlocklistsConfirmDelete, BlocklistsDeleteOffered, BlocklistsUi, Asks
    <2> HIDE DEF arg
    <2>2. \A d : d.op = "deleteBlocklist" /\ d.arg = arg /\ d.at = "sent" =>
              /\ BlocklistsCall(d)
              /\ ui.rows = srv.rows => BlocklistsLead(d)'
              /\ ui.busyRows = {} => ui'.busyRows = IF RowCall(d) THEN {arg.id} ELSE {}
      BY <2>1 DEF BlocklistsCall, BlocklistsLead, RowCall
    <2> QED
      BY <2>1, <2>2, BlocklistsSendKeeps
  <1>7. CASE BlocklistsOpenCreate
    <2>1. ui' \in BlocklistsUi /\ ui'.rows = ui.rows /\ ui'.busyRows = ui.busyRows /\ Local
      BY <1>0, <1>7 DEF BlocklistsOpenCreate, BlocklistsUi
    <2> QED
      BY <2>1, BlocklistsDialogKeeps
  <1>8. CASE BlocklistsSubmitCreate
    <2>1. /\ ui' \in BlocklistsUi /\ ui'.rows = ui.rows /\ ui'.busyRows = ui.busyRows
          /\ page' = page /\ srv' = srv /\ Sends(calls, "createBlocklist", None)
      BY <1>0, <1>8 DEF BlocklistsSubmitCreate, BlocklistsUi, Asks
    <2>2. \A d : d.op = "createBlocklist" /\ d.arg = None /\ d.at = "sent" =>
              /\ BlocklistsCall(d)
              /\ ui.rows = srv.rows => BlocklistsLead(d)'
              /\ ui.busyRows = {} => ui'.busyRows = IF RowCall(d) THEN {None.id} ELSE {}
      BY <2>1 DEF BlocklistsCall, BlocklistsLead, RowCall
    <2> QED
      BY <2>1, <2>2, BlocklistsSendKeeps
  <1>9. CASE BlocklistsClose
    <2>1. ui' \in BlocklistsUi /\ ui'.rows = ui.rows /\ ui'.busyRows = ui.busyRows /\ Local
      BY <1>0, <1>9 DEF BlocklistsClose, BlocklistsUi
    <2> QED
      BY <2>1, BlocklistsDialogKeeps
  <1> QED
    BY <1>1, <1>2, <1>3, <1>4, <1>5, <1>6, <1>7, <1>8, <1>9

\* What the handlers do once they are answered keeps it.
LEMMA BlocklistsHandlersKeep ==
    ASSUME BlocklistsInv, NEW c \in calls,
           BlocklistsRefreshed(c) \/ RowDone(c) \/ BlocklistsDeleted(c) \/ BlocklistsCreated(c)
    PROVE  BlocklistsInv'
  <1>0. /\ BlocklistsTyped /\ BlocklistsLeads /\ CallsInv /\ srv \in BlocklistsStore
        /\ ui \in BlocklistsUi /\ ui.rows \in BlocklistRows /\ BlocklistsCall(c)
    BY DEF BlocklistsInv, BlocklistsTyped, BlocklistsUi
  <1>1. CASE BlocklistsRefreshed(c)
    <2>1. /\ c.op = "listBlocklists" /\ c.at \in {"ok", "failed"} /\ Done(c) /\ page' = page
          /\ srv' = srv
          /\ ui' = IF c.at = "failed" THEN [ui EXCEPT !.loading = FALSE]
                   ELSE [ui EXCEPT !.loading = FALSE, !.rows = c.data.rows, !.rowErrors = {}]
      BY <1>1 DEF BlocklistsRefreshed, Ended, Ok, Failed
    <2>2. c.at = "ok" => c.data.rows \in BlocklistRows
      BY <1>0, <2>1 DEF BlocklistsCall, RowCall
    <2>3. /\ ui' \in BlocklistsUi /\ ui'.busyRows = ui.busyRows
          /\ c.at = "ok" => ui'.rows = c.data.rows
      BY <1>0, <2>1, <2>2 DEF BlocklistsUi
    <2>4. BlocklistsLead(c) => ui'.rows = srv.rows
      BY <2>1, <2>3 DEF BlocklistsLead
    <2>5. ~RowCall(c)
      BY <2>1 DEF RowCall
    <2> QED
      BY <2>1, <2>3, <2>4, <2>5, BlocklistsDoneKeeps
  <1>2. CASE RowDone(c)
    <2> DEFINE b == c.arg.id
               made == Outcome(c, ui.rows[b])
               row == IF ui.rows[b] = None THEN None ELSE made
    <2>1. /\ RowCall(c) /\ c.at \in {"ok", "failed"} /\ Done(c) /\ page' = page /\ srv' = srv
          /\ c.arg \in RowArg /\ b \in Item /\ (c.at = "ok" => c.data \in Blocklist)
      BY <1>0, <1>2 DEF RowDone, Ended, Ok, Failed, BlocklistsCall, RowCall, RowArg
    <2>2. ui' = [ui EXCEPT !.busyRows = ui.busyRows \ {b},
                           !.rowErrors = IF c.at = "ok" THEN ui.rowErrors
                                         ELSE ui.rowErrors \cup {b},
                           !.rows = [ui.rows EXCEPT ![b] = row]]
      BY <1>2 DEF RowDone, Outcome
    <2>3. row \in Blocklist \cup {None}
      <3>1. SUFFICES ASSUME ui.rows[b] # None PROVE made \in Blocklist
        OBVIOUS
      <3>2. ui.rows[b] \in Blocklist
        BY <1>0, <2>1, <3>1 DEF BlocklistRows
      <3>3. c.arg.set = "enabled" => c.arg.to \in BOOLEAN
        BY <2>1, BlocklistsAssumption DEF RowArg
      <3>4. ASSUME c.arg.to \in BOOLEAN
            PROVE  [ui.rows[b] EXCEPT !.enabled = ~c.arg.to] \in Blocklist
        <4> DEFINE to == ~c.arg.to
        <4>1. to \in BOOLEAN
          BY <3>4
        <4> HIDE DEF to
        <4>2. [ui.rows[b] EXCEPT !.enabled = to] \in Blocklist
          BY <3>2, <4>1 DEF Blocklist
        <4> QED
          BY <4>2 DEF to
      <3> QED
        BY <2>1, <3>2, <3>3, <3>4 DEF Outcome
    <2>4. BlocklistsLead(c) => ui.rows[b] # None /\ srv.rows = [ui.rows EXCEPT ![b] = made]
      BY <2>1 DEF BlocklistsLead
    <2>5. BlocklistsLead(c) => srv.rows = [ui.rows EXCEPT ![b] = row]
      BY <2>4
    <2> HIDE DEF row, made
    <2>6. /\ ui' \in BlocklistsUi /\ ui'.busyRows = ui.busyRows \ {b}
          /\ ui'.rows = [ui.rows EXCEPT ![b] = row]
      BY <1>0, <2>1, <2>2, <2>3 DEF BlocklistsUi, BlocklistRows
    <2> QED
      BY <2>1, <2>5, <2>6, BlocklistsDoneKeeps
  <1>3. CASE BlocklistsDeleted(c)
    <2>1. /\ c.op = "deleteBlocklist" /\ c.at \in {"ok", "failed"} /\ Done(c) /\ page' = page
          /\ srv' = srv /\ ~RowCall(c)
      BY <1>3 DEF BlocklistsDeleted, Ended, Ok, Failed, RowCall
    <2>2. c.arg.id \in Item
      BY <1>0, <2>1 DEF BlocklistsCall, RowCall
    <2>3. ui' = IF c.at = "failed" THEN [ui EXCEPT !.deleting = FALSE]
                ELSE [ui EXCEPT !.deleting = FALSE, !.pendingDelete = None,
                                !.rows = [ui.rows EXCEPT ![c.arg.id] = None]]
      BY <1>3 DEF BlocklistsDeleted
    <2>4. [ui.rows EXCEPT ![c.arg.id] = None] \in BlocklistRows
      BY <1>0, <2>2 DEF BlocklistRows
    <2>5. /\ ui' \in BlocklistsUi /\ ui'.busyRows = ui.busyRows
          /\ ui'.rows = IF c.at = "ok" THEN [ui.rows EXCEPT ![c.arg.id] = None] ELSE ui.rows
      BY <1>0, <2>1, <2>3, <2>4 DEF BlocklistsUi
    <2> QED
      BY <2>1, <2>5, BlocklistsDoneKeeps, BlocklistsOps DEF BlocklistsLead
  <1>4. CASE BlocklistsCreated(c)
    <2>1. /\ c.op = "createBlocklist" /\ c.at \in {"ok", "failed"} /\ Done(c) /\ page' = page
          /\ srv' = srv /\ ~RowCall(c)
      BY <1>4 DEF BlocklistsCreated, Ended, Ok, Failed, RowCall
    <2>2. (c.at = "ok" => c.data.id \in Item) /\ NewBlocklist \in Blocklist
      BY <1>0, <2>1 DEF BlocklistsCall, RowCall, NewBlocklist, Blocklist, Interval
    <2>3. ui' = IF c.at = "failed" THEN [ui EXCEPT !.submitting = FALSE]
                ELSE [ui EXCEPT !.submitting = FALSE, !.showCreate = FALSE,
                                !.rows = [ui.rows EXCEPT ![c.data.id] = NewBlocklist]]
      BY <1>4 DEF BlocklistsCreated
    <2>4. c.at = "ok" => [ui.rows EXCEPT ![c.data.id] = NewBlocklist] \in BlocklistRows
      BY <1>0, <2>2 DEF BlocklistRows
    <2>5. /\ ui' \in BlocklistsUi /\ ui'.busyRows = ui.busyRows
          /\ ui'.rows = IF c.at = "ok" THEN [ui.rows EXCEPT ![c.data.id] = NewBlocklist]
                        ELSE ui.rows
      BY <1>0, <2>1, <2>3, <2>4 DEF BlocklistsUi
    <2> QED
      BY <2>1, <2>5, BlocklistsDoneKeeps, BlocklistsOps DEF BlocklistsLead
  <1> QED
    BY <1>1, <1>2, <1>3, <1>4

\* Every step of the page keeps it.
LEMMA BlocklistsKeep == BlocklistsInv /\ BlocklistsNext => BlocklistsInv'
  <1> SUFFICES ASSUME BlocklistsInv, BlocklistsNext PROVE BlocklistsInv'
    OBVIOUS
  <1>0. BlocklistsTyped /\ BlocklistsLeads /\ CallsInv /\ Apart
    BY DEF BlocklistsInv, BlocklistsTyped, CallsInv
  <1>1. ASSUME NEW c \in calls, Fails(c) PROVE BlocklistsInv'
    <2>1. /\ MovedOne(c, "failed", None) /\ CallsInv' /\ page' = page /\ ui' = ui
          /\ srv' = srv /\ c.at \in {"sent", "ok"}
          /\ crossed' = (crossed \/ ~Mutates(c.op) \/ c.at = "ok")
      BY <1>0, <1>1, FailsKeeps
    <2>2. PICK d : /\ calls' = (calls \ {c}) \cup {d} /\ d.op = c.op /\ d.arg = c.arg
                   /\ d.at = "failed"
      BY <2>1 DEF MovedOne
    <2>3. BlocklistsTyped'
      BY <1>0, <2>1, <2>2 DEF BlocklistsTyped, BlocklistsCall, RowCall
    <2>4. ASSUME ~crossed' PROVE BlocklistsLeads'
      <3>1. ~crossed /\ calls = {c} /\ c.op # "listBlocklists" /\ c.at = "sent" /\ calls' = {d}
        BY <1>0, <2>1, <2>2, <2>4, BlocklistsOps DEF Apart
      <3>2. /\ BlocklistsLead(c)
            /\ ui.busyRows = {e.arg.id : e \in {f \in {c} : RowCall(f)}}
        BY <1>0, <3>1 DEF BlocklistsLeads
      <3>3. BlocklistsLead(d)'
        BY <2>1, <2>2, <3>1, <3>2 DEF BlocklistsLead, RowCall, Outcome
      <3>4. ui'.busyRows = {e.arg.id : e \in {f \in {d} : RowCall(f)}}
        BY <2>1, <2>2, <3>2 DEF RowCall
      <3> QED
        BY <3>1, <3>3, <3>4 DEF BlocklistsLeads
    <2>5. BlocklistsLeads'
      BY <2>4 DEF BlocklistsLeads
    <2> QED
      BY <2>3, <2>5 DEF BlocklistsInv
  <1> QED
    BY <1>1, BlocklistsUserKeeps, BlocklistsHandlersKeep, BlocklistsServesKeep
       DEF BlocklistsNext

\* What it says of the page.
LEMMA BlocklistsShow ==
    BlocklistsInv => BlocklistsTypeOK /\ BlocklistsShowsStored /\ BusyUnlessCrossed
  <1> SUFFICES ASSUME BlocklistsInv
               PROVE  BlocklistsTypeOK /\ BlocklistsShowsStored /\ BusyUnlessCrossed
    OBVIOUS
  <1> USE DEF BlocklistsInv, BlocklistsTyped
  <1>1. BlocklistsTypeOK
    BY InvTypesCalls DEF BlocklistsTypeOK, BlocklistsUi, BlocklistsStore, BlocklistRows
  <1>2. BlocklistsShowsStored
    BY DEF BlocklistsShowsStored, Settled, BlocklistsLeads
  <1>3. BusyUnlessCrossed
    <2>1. Pending("updateBlocklist") \cup Pending("refreshBlocklist")
             = {d \in calls : RowCall(d)}
      BY DEF Pending, RowCall
    <2> QED
      BY <2>1 DEF BusyUnlessCrossed, BusyWhileWritten, BlocklistsLeads
  <1> QED
    BY <1>1, <1>2, <1>3
-----------------------------------------------------------------------------
(* The categories.                                                             *)

\* The calls that the end of a subscription consists of: what ends it, and the reload.
Ending(c) ==
    \/ c.op = "disableCategory"
    \/ c.op = "listCategories" /\ c.arg.of \notin {"bulk", "url", "enable"}

\* One of them is under way at a time, and the key of its chip is marked.
CategoriesMarks(S, view) ==
    /\ view.disableSubmitting <=> \E c \in S : Ending(c)
    /\ \A c, d \in S : Ending(c) /\ Ending(d) => c = d
    /\ \A c \in S : c.op = "disableCategory" => view.disablingKey = c.arg

CategoriesInv ==
    /\ page = "categories" /\ CallsInv
    /\ {"disableSubmitting", "disablingKey"} \subseteq DOMAIN ui
    /\ CategoriesMarks(calls, ui)

\* The wrappers of the categories.
LEMMA CategoriesOps ==
    {"listProfiles", "listCategories", "enableCategory", "disableCategory", "updateCategoryURL"}
       \subseteq Endpoint
  BY DEF Endpoint, Reads, Changes, AccountAndListCalls, ConfigurationCalls,
         ClientAndAuditCalls, PauseAndWebhookCalls, TokenAndDeviceCalls, OtherCalls

\* It holds when the page is mounted.
LEMMA CategoriesStart == CategoriesInit => CategoriesInv
  <1> SUFFICES ASSUME CategoriesInit PROVE CategoriesInv
    OBVIOUS
  <1>1. CallsInv /\ \A c \in calls : c.op = "listProfiles"
    BY FirstCall, CategoriesOps DEF CategoriesInit
  <1>2. /\ page = "categories" /\ {"disableSubmitting", "disablingKey"} \subseteq DOMAIN ui
        /\ ~ui.disableSubmitting
    BY DEF CategoriesInit
  <1> QED
    BY <1>1, <1>2 DEF CategoriesInv, CategoriesMarks, Ending

\* A step that neither sends nor ends a call of that kind.
LEMMA CategoriesAsideKeeps ==
    ASSUME CategoriesInv, page' = page, CallsInv', DOMAIN ui' = DOMAIN ui,
           ui'.disableSubmitting = ui.disableSubmitting, ui'.disablingKey = ui.disablingKey,
           NEW rest \in SUBSET calls, rest \subseteq calls',
           \A c \in (calls \ rest) \cup (calls' \ rest) : ~Ending(c)
    PROVE  CategoriesInv'
  <1>1. CategoriesMarks(calls, ui)'
    BY DEF CategoriesInv, CategoriesMarks, Ending
  <1> QED
    BY <1>1 DEF CategoriesInv

\* What becomes of a call on its way keeps the marks.
LEMMA CategoriesMovedKeeps ==
    ASSUME CategoriesInv, NEW c \in calls, NEW at, NEW data, MovedOne(c, at, data), CallsInv',
           page' = page, ui' = ui
    PROVE  CategoriesInv'
  <1>1. PICK d : calls' = (calls \ {c}) \cup {d} /\ d.op = c.op /\ d.arg = c.arg
    BY DEF MovedOne
  <1>2. Ending(d) <=> Ending(c)
    BY <1>1 DEF Ending
  <1>3. \A e \in calls' : e = d \/ (e \in calls /\ e # c)
    BY <1>1
  <1>4. CategoriesMarks(calls, ui)'
    BY <1>1, <1>2, <1>3 DEF CategoriesInv, CategoriesMarks
  <1> QED
    BY <1>4 DEF CategoriesInv

\* The node serves the catalog.
LEMMA CategoriesServesKeep ==
    ASSUME CategoriesInv, NEW c \in calls, CategoriesServes(c)
    PROVE  CategoriesInv'
  <1>1. CallsInv /\ page' = page /\ ui' = ui
    BY DEF CategoriesInv, CategoriesServes
  <1>2. \E data : Answers(c, data)
    BY DEF CategoriesServes
  <1>3. \E at, data : MovedOne(c, at, data) /\ CallsInv'
    BY <1>1, <1>2, AnswersKeeps
  <1> QED
    BY <1>1, <1>3, CategoriesMovedKeeps

\* What the administrator does keeps it.
LEMMA CategoriesUserKeeps ==
    ASSUME CategoriesInv,
           \/ \E i \in Item : OpenUrlEditor(i) \/ SaveUrl(i) \/ OpenEnable(i) \/ AskDisable(i)
           \/ CategoriesRefresh \/ EnableAllForDefault \/ CloseUrlEditor \/ ConfirmEnable
           \/ ConfirmDisable \/ CategoriesClose
    PROVE  CategoriesInv'
  <1>0. /\ CallsInv /\ {"disableSubmitting", "disablingKey"} \subseteq DOMAIN ui
        /\ CategoriesMarks(calls, ui)
    BY DEF CategoriesInv
  <1>1. CASE \/ \E i \in Item : OpenUrlEditor(i) \/ OpenEnable(i) \/ AskDisable(i)
             \/ CloseUrlEditor \/ CategoriesClose
    <2>1. /\ Local /\ DOMAIN ui' = DOMAIN ui
          /\ ui'.disableSubmitting = ui.disableSubmitting /\ ui'.disablingKey = ui.disablingKey
      BY <1>0, <1>1 DEF OpenUrlEditor, OpenEnable, AskDisable, CloseUrlEditor, CategoriesClose
    <2>2. CallsInv' /\ page' = page /\ calls' = calls
      BY <1>0, <2>1, SameCallsKeep DEF Local, CallsInv
    <2> QED
      BY <2>1, <2>2, CategoriesAsideKeeps
  <1>2. CASE \/ \E i \in Item : SaveUrl(i)
             \/ CategoriesRefresh \/ EnableAllForDefault \/ ConfirmEnable
    <2>1. /\ page' = page /\ DOMAIN ui' = DOMAIN ui
          /\ ui'.disableSubmitting = ui.disableSubmitting /\ ui'.disablingKey = ui.disablingKey
      BY <1>0, <1>2 DEF SaveUrl, CategoriesRefresh, EnableAllForDefault, ConfirmEnable
    <2>2. \E arg : \/ Sends(calls, "listProfiles", arg) \/ Sends(calls, "enableCategory", arg)
                   \/ Sends(calls, "updateCategoryURL", arg)
      BY <1>2 DEF SaveUrl, CategoriesRefresh, EnableAllForDefault, ConfirmEnable, Asks
    <2>3. PICK op, arg : /\ op \in {"listProfiles", "enableCategory", "updateCategoryURL"}
                         /\ Sends(calls, op, arg)
      BY <2>2
    <2>4. CallsInv' /\ SentOne(calls, op, arg)
      BY <1>0, <2>1, <2>3, SendsKeeps, CategoriesOps
    <2>5. \A c \in calls' \ calls : ~Ending(c)
      BY <2>3, <2>4 DEF SentOne, Ending
    <2> QED
      BY <2>1, <2>4, <2>5, CategoriesAsideKeeps DEF SentOne
  <1>3. CASE ConfirmDisable
    <2>1. /\ page' = page /\ ~ui.disableSubmitting
          /\ ui' = [ui EXCEPT !.disableSubmitting = TRUE, !.disablingKey = ui.pendingDisable]
          /\ Sends(calls, "disableCategory", ui.pendingDisable)
      BY <1>3 DEF ConfirmDisable, DisableOffered, Asks
    <2>2. /\ DOMAIN ui' = DOMAIN ui /\ ui'.disableSubmitting
          /\ ui'.disablingKey = ui.pendingDisable
      BY <1>0, <2>1
    <2>3. CallsInv' /\ SentOne(calls, "disableCategory", ui.pendingDisable)
      BY <1>0, <2>1, SendsKeeps, CategoriesOps
    <2>4. PICK d : /\ calls' = calls \cup {d} /\ d.op = "disableCategory"
                   /\ d.arg = ui.pendingDisable
      BY <2>3 DEF SentOne
    <2>5. \A c \in calls : ~Ending(c)
      BY <1>0, <2>1 DEF CategoriesMarks
    <2>6. CategoriesMarks(calls, ui)'
      BY <2>2, <2>4, <2>5 DEF CategoriesMarks, Ending
    <2> QED
      BY <1>0, <2>1, <2>2, <2>3, <2>6 DEF CategoriesInv
  <1> QED
    BY <1>1, <1>2, <1>3

\* What the handlers do once they are answered keeps it.
LEMMA CategoriesHandlersKeep ==
    ASSUME CategoriesInv, NEW c \in calls,
           \/ CategoriesRefreshed(c) \/ BulkEnabled(c) \/ UrlSaved(c) \/ Enabled(c)
           \/ Disabled(c) \/ Reloaded(c)
    PROVE  CategoriesInv'
  <1>0. /\ CallsInv /\ {"disableSubmitting", "disablingKey"} \subseteq DOMAIN ui
        /\ CategoriesMarks(calls, ui)
    BY DEF CategoriesInv
  <1>1. page' = page
    BY DEF CategoriesRefreshed, BulkEnabled, UrlSaved, Enabled, Disabled, Reloaded
  <1>2. ASSUME Done(c) PROVE CallsInv' /\ calls' = calls \ {c}
    BY <1>0, <1>1, <1>2, DoneKeeps DEF Done, CallsInv
  <1>3. ASSUME NEW op \in Endpoint, NEW arg, Sends(calls \ {c}, op, arg)
        PROVE  CallsInv' /\ SentOne(calls \ {c}, op, arg)
    BY <1>0, <1>1, <1>3, SendsKeeps
  <1>4. CASE \/ CategoriesRefreshed(c) \/ BulkEnabled(c) \/ UrlSaved(c) \/ Enabled(c)
             \/ (Reloaded(c) /\ c.arg.of \in {"bulk", "url", "enable"})
    <2>1. /\ DOMAIN ui' = DOMAIN ui
          /\ ui'.disableSubmitting = ui.disableSubmitting /\ ui'.disablingKey = ui.disablingKey
      BY <1>0, <1>4 DEF CategoriesRefreshed, BulkEnabled, UrlSaved, Enabled, Reloaded
    <2>2. ~Ending(c)
      BY <1>4 DEF CategoriesRefreshed, BulkEnabled, UrlSaved, Enabled, Reloaded, Ended, Ok,
                  Failed, Ending
    <2>3. \/ Done(c)
          \/ \E arg : Sends(calls \ {c}, "enableCategory", arg)
          \/ \E of \in {"bulk", "url", "enable"} :
                Sends(calls \ {c}, "listCategories", [of |-> of])
      BY <1>4 DEF CategoriesRefreshed, BulkEnabled, UrlSaved, Enabled, Reloaded, Then
    <2>4. CASE Done(c)
      BY <1>1, <1>2, <2>1, <2>2, <2>4, CategoriesAsideKeeps
    <2>5. ASSUME NEW arg, Sends(calls \ {c}, "enableCategory", arg) PROVE CategoriesInv'
      <3>1. CallsInv' /\ SentOne(calls \ {c}, "enableCategory", arg)
        BY <1>3, <2>5, CategoriesOps
      <3>2. \A e \in (calls \ (calls \ {c})) \cup (calls' \ (calls \ {c})) : ~Ending(e)
        BY <2>2, <3>1 DEF SentOne, Ending
      <3> QED
        BY <1>1, <2>1, <3>1, <3>2, CategoriesAsideKeeps DEF SentOne
    <2>6. ASSUME NEW of \in {"bulk", "url", "enable"},
                 Sends(calls \ {c}, "listCategories", [of |-> of])
          PROVE  CategoriesInv'
      <3>1. CallsInv' /\ SentOne(calls \ {c}, "listCategories", [of |-> of])
        BY <1>3, <2>6, CategoriesOps
      <3>2. \A e \in (calls \ (calls \ {c})) \cup (calls' \ (calls \ {c})) : ~Ending(e)
        BY <2>2, <3>1 DEF SentOne, Ending
      <3> QED
        BY <1>1, <2>1, <3>1, <3>2, CategoriesAsideKeeps DEF SentOne
    <2> QED
      BY <2>3, <2>4, <2>5, <2>6
  <1>5. CASE Disabled(c) \/ (Reloaded(c) /\ c.arg.of \notin {"bulk", "url", "enable"})
    <2>1. Ending(c)
      BY <1>5 DEF Disabled, Reloaded, Ended, Ok, Failed, Ending
    <2>2. ui.disableSubmitting /\ \A e \in calls \ {c} : ~Ending(e)
      BY <1>0, <2>1 DEF CategoriesMarks
    <2>3. CASE Done(c)
      <3>1. DOMAIN ui' = DOMAIN ui /\ ui'.disableSubmitting = FALSE
        <4>1. CASE Disabled(c) /\ c.at = "failed"
          BY <1>0, <4>1 DEF Disabled
        <4>2. CASE Disabled(c) /\ c.at = "ok"
          BY <1>0, <1>2, <2>3, <4>2, <1>3, CategoriesOps DEF Disabled, Then, SentOne
        <4>3. CASE Reloaded(c) /\ c.arg.of \notin {"bulk", "url", "enable"}
          BY <1>0, <4>3 DEF Reloaded
        <4> QED
          BY <1>5, <4>1, <4>2, <4>3 DEF Disabled
      <3>2. CategoriesMarks(calls, ui)'
        BY <1>2, <2>2, <2>3, <3>1 DEF CategoriesMarks, Ending
      <3> QED
        BY <1>0, <1>1, <1>2, <2>3, <3>1, <3>2 DEF CategoriesInv
    <2>4. CASE ~Done(c)
      <3>1. ui' = ui /\ Sends(calls \ {c}, "listCategories", [of |-> "disable"])
        BY <1>5, <2>4 DEF Disabled, Reloaded, Then
      <3>2. CallsInv' /\ SentOne(calls \ {c}, "listCategories", [of |-> "disable"])
        BY <1>3, <3>1, CategoriesOps
      <3>3. PICK d : calls' = (calls \ {c}) \cup {d} /\ Ending(d) /\ d.op = "listCategories"
        BY <3>2 DEF SentOne, Ending
      <3>4. CategoriesMarks(calls, ui)'
        BY <1>0, <2>2, <3>1, <3>3 DEF CategoriesMarks, Ending
      <3> QED
        BY <1>0, <1>1, <3>1, <3>2, <3>4 DEF CategoriesInv
    <2> QED
      BY <2>3, <2>4
  <1> QED
    BY <1>4, <1>5

\* Every step of the page keeps it.
LEMMA CategoriesKeep == CategoriesInv /\ CategoriesNext => CategoriesInv'
  <1> SUFFICES ASSUME CategoriesInv, CategoriesNext PROVE CategoriesInv'
    OBVIOUS
  <1>1. ASSUME NEW c \in calls, Fails(c) PROVE CategoriesInv'
    BY <1>1, FailsKeeps, CategoriesMovedKeeps DEF CategoriesInv
  <1> QED
    BY <1>1, CategoriesUserKeeps, CategoriesHandlersKeep, CategoriesServesKeep
       DEF CategoriesNext

\* What it says of the page.
LEMMA CategoriesShow == CategoriesInv => MarksWhatItDisables
  <1> SUFFICES ASSUME CategoriesInv PROVE MarksWhatItDisables
    OBVIOUS
  <1> DEFINE S == {c.arg : c \in Pending("disableCategory")}
  <1>1. (\A s, t \in S : s = t) /\ \A t \in S : ui.disablingKey = t
    BY DEF CategoriesInv, CategoriesMarks, Ending, Pending
  <1> SUFFICES Cardinality(S) <= 1
    BY <1>1 DEF MarksWhatItDisables
  <1> HIDE DEF S
  <1>2. S = {} \/ \E t : S = {t}
    BY <1>1
  <1>3. IsFiniteSet(S)
    BY <1>2, FS_EmptySet, FS_Singleton
  <1> QED
    BY <1>1, <1>3, AtMostOne

-----------------------------------------------------------------------------
(* The devices.                                                                *)

\* The calls a save and a removal consist of: the change and the list it ends with.
DeviceSaving(c) ==
    c.op \in {"createDevice", "updateDevice"} \/ (c.op = "listDevices" /\ c.arg.for = "save")
DeviceDeleting(c) == c.op = "deleteDevice" \/ (c.op = "listDevices" /\ c.arg.for = "delete")

\* Lists are told from changes by what they are for.
DeviceArg(op, arg) ==
    IF op = "listDevices" THEN \E for \in {"mount", "save", "delete"} : arg = [for |-> for]
    ELSE "for" \notin DOMAIN arg

\* One of each is under way at a time, and as long its button is disabled.
DevicesInv ==
    /\ page = "devices" /\ CallsInv /\ {"saving", "deleting"} \subseteq DOMAIN ui
    /\ \A c \in calls : DeviceArg(c.op, c.arg)
    /\ ui.saving = \E c \in calls : DeviceSaving(c)
    /\ ui.deleting = \E c \in calls : DeviceDeleting(c)
    /\ \A c, d \in calls : DeviceSaving(c) /\ DeviceSaving(d) => c = d
    /\ \A c, d \in calls : DeviceDeleting(c) /\ DeviceDeleting(d) => c = d

\* The wrappers of the devices.
LEMMA DevicesOps ==
    {"listDevices", "createDevice", "updateDevice", "deleteDevice"} \subseteq Endpoint
  BY DEF Endpoint, Reads, Changes, AccountAndListCalls, ConfigurationCalls,
         ClientAndAuditCalls, PauseAndWebhookCalls, TokenAndDeviceCalls, OtherCalls

\* It holds when the page is mounted.
LEMMA DevicesStart == DevicesInit => DevicesInv
  <1> SUFFICES ASSUME DevicesInit PROVE DevicesInv
    OBVIOUS
  <1>1. CallsInv /\ \A c \in calls : c.op = "listDevices" /\ c.arg = [for |-> "mount"]
    BY FirstCall, DevicesOps DEF DevicesInit
  <1>2. /\ page = "devices" /\ {"saving", "deleting"} \subseteq DOMAIN ui
        /\ ui.saving = FALSE /\ ui.deleting = FALSE
    BY DEF DevicesInit
  <1>3. \A c \in calls : /\ ~DeviceSaving(c) /\ ~DeviceDeleting(c)
                        /\ DeviceArg(c.op, c.arg)
    BY <1>1 DEF DeviceSaving, DeviceDeleting, DeviceArg
  <1> QED
    BY <1>1, <1>2, <1>3 DEF DevicesInv

\* What becomes of a call on its way keeps the buttons.
LEMMA DevicesMovedKeeps ==
    ASSUME DevicesInv, NEW c \in calls, NEW at, NEW data, MovedOne(c, at, data), CallsInv',
           page' = page, ui' = ui
    PROVE  DevicesInv'
  <1>1. PICK d : calls' = (calls \ {c}) \cup {d} /\ d.op = c.op /\ d.arg = c.arg
    BY DEF MovedOne
  <1>2. (DeviceSaving(d) <=> DeviceSaving(c)) /\ (DeviceDeleting(d) <=> DeviceDeleting(c))
    BY <1>1 DEF DeviceSaving, DeviceDeleting
  <1>3. \A e \in calls' : e = d \/ (e \in calls /\ e # c)
    BY <1>1
  <1>4. /\ (\E e \in calls' : DeviceSaving(e)) <=> (\E e \in calls : DeviceSaving(e))
        /\ (\E e \in calls' : DeviceDeleting(e)) <=> (\E e \in calls : DeviceDeleting(e))
    BY <1>1, <1>2, <1>3
  <1>5. /\ \A e, f \in calls' : DeviceSaving(e) /\ DeviceSaving(f) => e = f
        /\ \A e, f \in calls' : DeviceDeleting(e) /\ DeviceDeleting(f) => e = f
    BY <1>1, <1>2, <1>3 DEF DevicesInv
  <1>6. \A e \in calls' : DeviceArg(e.op, e.arg)
    BY <1>1 DEF DevicesInv
  <1> QED
    BY <1>4, <1>5, <1>6 DEF DevicesInv, DeviceSaving, DeviceDeleting, DeviceArg

\* What kind of call is sent: one that ends a save, ends a removal, or neither.
DeviceSends(op, arg, kind) ==
    /\ DeviceArg(op, arg) /\ op \in Endpoint
    /\ \A d : d.op = op /\ d.arg = arg =>
          (DeviceSaving(d) <=> kind = "save") /\ (DeviceDeleting(d) <=> kind = "delete")

\* A call is sent while those of rest are under way.
LEMMA DevicesSendKeeps ==
    ASSUME DevicesInv, NEW rest \in SUBSET calls, page' = page, NEW op, NEW arg, NEW kind,
           Sends(rest, op, arg), DeviceSends(op, arg, kind), DOMAIN ui' = DOMAIN ui,
           ui'.saving = (kind = "save" \/ \E e \in rest : DeviceSaving(e)),
           ui'.deleting = (kind = "delete" \/ \E e \in rest : DeviceDeleting(e)),
           kind = "save" => \A e \in rest : ~DeviceSaving(e),
           kind = "delete" => \A e \in rest : ~DeviceDeleting(e)
    PROVE  DevicesInv'
  <1>1. CallsInv' /\ SentOne(rest, op, arg)
    BY SendsKeeps DEF DevicesInv, DeviceSends
  <1>2. PICK d : calls' = rest \cup {d} /\ d.op = op /\ d.arg = arg
    BY <1>1 DEF SentOne
  <1>3. (DeviceSaving(d) <=> kind = "save") /\ (DeviceDeleting(d) <=> kind = "delete")
    BY <1>2 DEF DeviceSends
  <1>4. /\ ui'.saving = \E c \in calls' : DeviceSaving(c)
        /\ ui'.deleting = \E c \in calls' : DeviceDeleting(c)
    BY <1>2, <1>3
  <1>5. /\ \A e, f \in calls' : DeviceSaving(e) /\ DeviceSaving(f) => e = f
        /\ \A e, f \in calls' : DeviceDeleting(e) /\ DeviceDeleting(f) => e = f
    BY <1>2, <1>3 DEF DevicesInv
  <1>6. \A e \in calls' : DeviceArg(e.op, e.arg)
    BY <1>2 DEF DevicesInv, DeviceSends
  <1> QED
    BY <1>1, <1>4, <1>5, <1>6 DEF DevicesInv, DeviceSaving, DeviceDeleting, DeviceArg

\* The node serves the devices.
LEMMA DevicesServesKeep ==
    ASSUME DevicesInv, NEW c \in calls, DevicesServes(c)
    PROVE  DevicesInv'
  <1>1. CallsInv /\ page' = page /\ ui' = ui
    BY DEF DevicesInv, DevicesServes, ServesRows
  <1>2. (\E data : Answers(c, data)) \/ Refuses(c)
    BY DEF DevicesServes, ServesRows
  <1>3. \E at, data : MovedOne(c, at, data) /\ CallsInv'
    BY <1>1, <1>2, AnswersKeeps, RefusesKeeps
  <1> QED
    BY <1>1, <1>3, DevicesMovedKeeps

\* What the administrator does keeps it.
LEMMA DevicesUserKeeps ==
    ASSUME DevicesInv,
           \/ \E i \in Item : DevicesOpenEdit(i) \/ DevicesConfirmDelete(i)
           \/ DevicesRefresh \/ DevicesOpenCreate \/ ClosePanel \/ DevicesSave
           \/ DevicesCloseDelete \/ DevicesDoDelete
    PROVE  DevicesInv'
  <1>0. /\ CallsInv /\ {"saving", "deleting"} \subseteq DOMAIN ui
        /\ ui.saving = \E c \in calls : DeviceSaving(c)
        /\ ui.deleting = \E c \in calls : DeviceDeleting(c)
    BY DEF DevicesInv
  <1>1. CASE \/ \E i \in Item : DevicesOpenEdit(i) \/ DevicesConfirmDelete(i)
             \/ DevicesOpenCreate \/ ClosePanel \/ DevicesCloseDelete
    <2>1. /\ Local /\ DOMAIN ui' = DOMAIN ui
          /\ ui'.saving = ui.saving /\ ui'.deleting = ui.deleting
      BY <1>0, <1>1 DEF DevicesOpenEdit, DevicesConfirmDelete, DevicesOpenCreate, ClosePanel,
                        DevicesCloseDelete
    <2>2. CallsInv' /\ page' = page /\ calls' = calls
      BY <1>0, <2>1, SameCallsKeep DEF Local, CallsInv
    <2> QED
      BY <2>1, <2>2 DEF DevicesInv, DeviceSaving, DeviceDeleting, DeviceArg
  <1>2. CASE DevicesRefresh
    <2>1. /\ page' = page /\ DOMAIN ui' = DOMAIN ui /\ ui'.saving = ui.saving
          /\ ui'.deleting = ui.deleting /\ Sends(calls, "listDevices", [for |-> "mount"])
      BY <1>0, <1>2 DEF DevicesRefresh, Asks
    <2>2. DeviceSends("listDevices", [for |-> "mount"], "mount")
      BY DevicesOps DEF DeviceSends, DeviceArg, DeviceSaving, DeviceDeleting
    <2>3. /\ ui'.saving = ("mount" = "save" \/ \E e \in calls : DeviceSaving(e))
          /\ ui'.deleting = ("mount" = "delete" \/ \E e \in calls : DeviceDeleting(e))
      BY <1>0, <2>1
    <2> QED
      BY <2>1, <2>2, <2>3, DevicesSendKeeps
  <1>3. CASE DevicesSave
    <2>1. page' = page /\ ~ui.saving /\ ui' = [ui EXCEPT !.saving = TRUE]
      BY <1>3 DEF DevicesSave, DevicesSaveOffered
    <2>2. DOMAIN ui' = DOMAIN ui /\ ui'.saving = TRUE /\ ui'.deleting = ui.deleting
      BY <1>0, <2>1
    <2>3. ASSUME NEW op \in {"createDevice", "updateDevice"}, NEW arg, Sends(calls, op, arg),
                 "for" \notin DOMAIN arg
          PROVE  DevicesInv'
      <3>1. DeviceSends(op, arg, "save")
        BY <2>3, DevicesOps DEF DeviceSends, DeviceArg, DeviceSaving, DeviceDeleting
      <3>2. \A e \in calls : ~DeviceSaving(e)
        BY <1>0, <2>1
      <3> QED
        BY <1>0, <2>1, <2>2, <2>3, <3>1, <3>2, DevicesSendKeeps
    <2>4. PICK v : \/ Sends(calls, "updateDevice", [id |-> ui.editingDevice, value |-> v])
                   \/ Sends(calls, "createDevice", [value |-> v])
      BY <1>3 DEF DevicesSave, Asks
    <2> QED
      BY <2>3, <2>4
  <1>4. CASE DevicesDoDelete
    <2>1. /\ page' = page /\ ~ui.deleting /\ ui' = [ui EXCEPT !.deleting = TRUE]
          /\ Sends(calls, "deleteDevice", [id |-> ui.deleteTarget])
      BY <1>4 DEF DevicesDoDelete, DevicesDeleteOffered, Asks
    <2>2. /\ page' = page /\ DOMAIN ui' = DOMAIN ui
          /\ ui'.saving = ("delete" = "save" \/ \E e \in calls : DeviceSaving(e))
          /\ ui'.deleting = ("delete" = "delete" \/ \E e \in calls : DeviceDeleting(e))
          /\ Sends(calls, "deleteDevice", [id |-> ui.deleteTarget])
      BY <1>0, <2>1
    <2>3. DeviceSends("deleteDevice", [id |-> ui.deleteTarget], "delete")
      BY DevicesOps DEF DeviceSends, DeviceArg, DeviceSaving, DeviceDeleting
    <2>4. \A e \in calls : ~DeviceDeleting(e)
      BY <1>0, <2>1
    <2> QED
      BY <2>2, <2>3, <2>4, DevicesSendKeeps
  <1> QED
    BY <1>1, <1>2, <1>3, <1>4

\* What the handlers do once they are answered keeps it.
LEMMA DevicesHandlersKeep ==
    ASSUME DevicesInv, NEW c \in calls, DevicesRefreshed(c) \/ DevicesSaved(c) \/ DevicesDeleted(c)
    PROVE  DevicesInv'
  <1>0. /\ CallsInv /\ {"saving", "deleting"} \subseteq DOMAIN ui /\ page' = page
        /\ ui.saving = \E e \in calls : DeviceSaving(e)
        /\ ui.deleting = \E e \in calls : DeviceDeleting(e)
        /\ DeviceSaving(c) => \A e \in calls \ {c} : ~DeviceSaving(e)
        /\ DeviceDeleting(c) => \A e \in calls \ {c} : ~DeviceDeleting(e)
    BY DEF DevicesInv, DevicesRefreshed, DevicesSaved, DevicesDeleted
  <1>1. ASSUME Done(c), DOMAIN ui' = DOMAIN ui, ui'.saving = (ui.saving /\ ~DeviceSaving(c)),
               ui'.deleting = (ui.deleting /\ ~DeviceDeleting(c))
        PROVE  DevicesInv'
    <2>1. CallsInv' /\ calls' = calls \ {c}
      BY <1>0, <1>1, DoneKeeps DEF Done, CallsInv
    <2>2. /\ ui'.saving = \E e \in calls' : DeviceSaving(e)
          /\ ui'.deleting = \E e \in calls' : DeviceDeleting(e)
      BY <1>0, <1>1, <2>1
    <2> QED
      BY <1>0, <1>1, <2>1, <2>2 DEF DevicesInv, DeviceSaving, DeviceDeleting, DeviceArg
  <1>2. ASSUME NEW for \in {"save", "delete"}, DeviceSaving(c) <=> for = "save",
               DeviceDeleting(c) <=> for = "delete",
               Sends(calls \ {c}, "listDevices", [for |-> for]), DOMAIN ui' = DOMAIN ui,
               ui'.saving = ui.saving, ui'.deleting = ui.deleting
        PROVE  DevicesInv'
    <2>1. DeviceSends("listDevices", [for |-> for], for)
      BY DevicesOps DEF DeviceSends, DeviceArg, DeviceSaving, DeviceDeleting
    <2>2. /\ ui'.saving = (for = "save" \/ \E e \in calls \ {c} : DeviceSaving(e))
          /\ ui'.deleting = (for = "delete" \/ \E e \in calls \ {c} : DeviceDeleting(e))
      BY <1>0, <1>2
    <2> QED
      BY <1>0, <1>2, <2>1, <2>2, DevicesSendKeeps
  <1>3. CASE DevicesRefreshed(c)
    <2>1. /\ c.op = "listDevices" /\ Done(c) /\ DOMAIN ui' = DOMAIN ui
          /\ ui'.saving = (ui.saving /\ c.arg.for # "save")
          /\ ui'.deleting = (ui.deleting /\ c.arg.for # "delete")
      BY <1>0, <1>3 DEF DevicesRefreshed, Ended, Ok, Failed
    <2> QED
      BY <1>1, <2>1 DEF DeviceSaving, DeviceDeleting
  <1>4. CASE DevicesSaved(c)
    <2>1. DeviceSaving(c) /\ ~DeviceDeleting(c)
      BY <1>4 DEF DevicesSaved, Ended, Ok, Failed, DeviceSaving, DeviceDeleting
    <2>2. \/ Done(c) /\ ui' = [ui EXCEPT !.saving = FALSE]
          \/ /\ Sends(calls \ {c}, "listDevices", [for |-> "save"])
             /\ ui' = [ui EXCEPT !.panelOpen = FALSE, !.editingDevice = None, !.loading = TRUE]
      BY <1>4 DEF DevicesSaved, Then
    <2>3. CASE Done(c) /\ ui' = [ui EXCEPT !.saving = FALSE]
      <3>1. DOMAIN ui' = DOMAIN ui /\ ui'.saving = FALSE /\ ui'.deleting = ui.deleting
        BY <1>0, <2>3
      <3> QED
        BY <1>0, <1>1, <2>1, <2>3, <3>1
    <2>4. CASE /\ Sends(calls \ {c}, "listDevices", [for |-> "save"])
               /\ ui' = [ui EXCEPT !.panelOpen = FALSE, !.editingDevice = None, !.loading = TRUE]
      <3>1. DOMAIN ui' = DOMAIN ui /\ ui'.saving = ui.saving /\ ui'.deleting = ui.deleting
        BY <1>0, <2>4
      <3> QED
        BY <1>2, <2>1, <2>4, <3>1
    <2> QED
      BY <2>2, <2>3, <2>4
  <1>5. CASE DevicesDeleted(c)
    <2>1. ~DeviceSaving(c) /\ DeviceDeleting(c)
      BY <1>5 DEF DevicesDeleted, Ended, Ok, Failed, DeviceSaving, DeviceDeleting
    <2>2. \/ Done(c) /\ ui' = [ui EXCEPT !.deleting = FALSE]
          \/ /\ Sends(calls \ {c}, "listDevices", [for |-> "delete"])
             /\ ui' = [ui EXCEPT !.deleteTarget = None, !.loading = TRUE]
      BY <1>5 DEF DevicesDeleted, Then
    <2>3. CASE Done(c) /\ ui' = [ui EXCEPT !.deleting = FALSE]
      <3>1. DOMAIN ui' = DOMAIN ui /\ ui'.deleting = FALSE /\ ui'.saving = ui.saving
        BY <1>0, <2>3
      <3> QED
        BY <1>0, <1>1, <2>1, <2>3, <3>1
    <2>4. CASE /\ Sends(calls \ {c}, "listDevices", [for |-> "delete"])
               /\ ui' = [ui EXCEPT !.deleteTarget = None, !.loading = TRUE]
      <3>1. DOMAIN ui' = DOMAIN ui /\ ui'.saving = ui.saving /\ ui'.deleting = ui.deleting
        BY <1>0, <2>4
      <3> QED
        BY <1>2, <2>1, <2>4, <3>1
    <2> QED
      BY <2>2, <2>3, <2>4
  <1> QED
    BY <1>3, <1>4, <1>5

\* Every step of the page keeps it.
LEMMA DevicesKeep == DevicesInv /\ DevicesNext => DevicesInv'
  <1> SUFFICES ASSUME DevicesInv, DevicesNext PROVE DevicesInv'
    OBVIOUS
  <1>1. ASSUME NEW c \in calls, Fails(c) PROVE DevicesInv'
    BY <1>1, FailsKeeps, DevicesMovedKeeps DEF DevicesInv
  <1> QED
    BY <1>1, DevicesUserKeeps, DevicesHandlersKeep, DevicesServesKeep DEF DevicesNext

\* What it says of the page.
LEMMA DevicesShow == DevicesInv => ButtonsFollowCalls
  <1> SUFFICES ASSUME DevicesInv PROVE ButtonsFollowCalls
    OBVIOUS
  <1>1. ASSUME NEW c \in calls, NEW x \in {"save", "delete"}
        PROVE  (c.op = "listDevices" /\ c.arg.for = x) <=> (c.arg = [for |-> x])
    <2>1. \A y : DOMAIN [for |-> y] = {"for"} /\ [for |-> y].for = y
      OBVIOUS
    <2>2. DeviceArg(c.op, c.arg)
      BY DEF DevicesInv
    <2> QED
      BY <2>1, <2>2 DEF DeviceArg
  <1>2. \A c \in calls : /\ DeviceSaving(c) <=> (c.op \in {"createDevice", "updateDevice"}
                                                 \/ c.arg = [for |-> "save"])
                         /\ DeviceDeleting(c) <=> (c.op = "deleteDevice"
                                                   \/ c.arg = [for |-> "delete"])
    BY <1>1 DEF DeviceSaving, DeviceDeleting
  <1> QED
    BY <1>2 DEF DevicesInv, ButtonsFollowCalls

-----------------------------------------------------------------------------
(* The pauses of the profiles.                                                 *)

\* The calls that pause or resume.
PauseCall(c) == c.op \in {"setProfilePause", "clearProfilePause"}

\* The buttons of the dialog are disabled by one call.
ProfilePauseInv ==
    /\ page = "profilepause" /\ CallsInv /\ "submitting" \in DOMAIN ui
    /\ ui.submitting <=> \E c \in calls : PauseCall(c)
    /\ \A c, d \in calls : PauseCall(c) /\ PauseCall(d) => c = d

\* The wrappers of the pauses of profiles.
LEMMA ProfilePauseOps ==
    /\ {"getProfilePause", "setProfilePause", "clearProfilePause", "patchProfileBlockPage"}
          \subseteq Endpoint
    /\ ~Mutates("getProfilePause")
  BY DEF Endpoint, Mutates, Reads, Changes, AccountAndListCalls, ConfigurationCalls,
         ClientAndAuditCalls, PauseAndWebhookCalls, TokenAndDeviceCalls, OtherCalls

\* It holds when the page is mounted: a pause is asked for per profile.
LEMMA ProfilePauseStart == ProfilePauseInit => ProfilePauseInv
  <1> SUFFICES ASSUME ProfilePauseInit PROVE ProfilePauseInv
    OBVIOUS
  <1> DEFINE first(i) == Call(1, "getProfilePause", [id |-> i, opens |-> FALSE])
  <1>1. /\ page = "profilepause" /\ calls = {first(i) : i \in Item} /\ writes = 0
        /\ crossed = FALSE /\ srv \in [pause : [Item -> BOOLEAN], page : {[i \in Item |-> None]}]
    BY DEF ProfilePauseInit
  <1>2. 1 \in 1..MaxCalls /\ 0 \in 0..Writable
    BY PageAssumption DEF Writable
  <1>3. \A i \in Item : /\ CallOK(first(i)) /\ first(i).op = "getProfilePause"
                        /\ first(i).arg = [id |-> i, opens |-> FALSE] /\ first(i).at = "sent"
    BY <1>2, ProfilePauseOps DEF Call, CallOK
  <1>4. IsFiniteSet(calls)
    <2> DEFINE f == [i \in Item |-> first(i)]
    <2>1. f \in Surjection(Item, calls)
      BY <1>1 DEF Surjection
    <2> QED
      BY <2>1, FS_Surjection, PageAssumption
  <1>5. \A c \in calls : \E i \in Item : c = first(i)
    BY <1>1
  <1>6. \A c \in calls : /\ c.op = "getProfilePause" /\ c.at = "sent" /\ CallOK(c)
                         /\ c.arg \in [id : Item, opens : BOOLEAN]
    <2> SUFFICES ASSUME NEW c \in calls
                 PROVE  /\ c.op = "getProfilePause" /\ c.at = "sent" /\ CallOK(c)
                        /\ c.arg \in [id : Item, opens : BOOLEAN]
      OBVIOUS
    <2>1. PICK i \in Item : c = first(i)
      BY <1>5
    <2> HIDE DEF first
    <2>2. c.arg = [id |-> i, opens |-> FALSE] /\ c.op = "getProfilePause" /\ c.at = "sent"
          /\ CallOK(c)
      BY <1>3, <2>1
    <2> QED
      BY <2>2
  <1>7. Told(calls)
    <2>1. ASSUME NEW c \in calls, NEW d \in calls, c.arg = d.arg PROVE c = d
      <3>1. PICK i \in Item, j \in Item : c = first(i) /\ d = first(j)
        BY <1>5
      <3>2. i = j
        BY <1>3, <2>1, <3>1
      <3> QED
        BY <3>1, <3>2
    <2> QED
      BY <2>1 DEF Told
  <1>8. CallsInv
    BY <1>1, <1>2, <1>4, <1>6, <1>7, ProfilePauseOps DEF CallsInv, GoodCalls, Apart
  <1>9. "submitting" \in DOMAIN ui /\ ~ui.submitting
    BY DEF ProfilePauseInit
  <1> QED
    BY <1>1, <1>6, <1>8, <1>9 DEF ProfilePauseInv, PauseCall

\* A step that neither sends nor ends one of them.
LEMMA ProfilePauseAsideKeeps ==
    ASSUME ProfilePauseInv, page' = page, CallsInv', DOMAIN ui' = DOMAIN ui,
           ui'.submitting = ui.submitting, NEW rest \in SUBSET calls, rest \subseteq calls',
           \A c \in (calls \ rest) \cup (calls' \ rest) : ~PauseCall(c)
    PROVE  ProfilePauseInv'
  BY DEF ProfilePauseInv, PauseCall

\* Dialogs come and go, and pauses end, over the same calls.
LEMMA ProfilePauseDialogKeeps ==
    ASSUME ProfilePauseInv, page' = page, calls' = calls, writes' = writes,
           crossed' = crossed, DOMAIN ui' = DOMAIN ui, ui'.submitting = ui.submitting
    PROVE  ProfilePauseInv'
  <1>1. CallsInv'
    BY SameCallsKeep DEF ProfilePauseInv, CallsInv
  <1> QED
    BY <1>1, ProfilePauseAsideKeeps

\* What becomes of a call on its way keeps the buttons.
LEMMA ProfilePauseMovedKeeps ==
    ASSUME ProfilePauseInv, NEW c \in calls, NEW at, NEW data,
           MovedOne(c, at, data), CallsInv', page' = page, ui' = ui
    PROVE  ProfilePauseInv'
  <1>1. PICK d : /\ calls' = (calls \ {c}) \cup {d} /\ d.op = c.op /\ d.arg = c.arg
    BY DEF MovedOne
  <1>2. PauseCall(d) <=> PauseCall(c)
    BY <1>1 DEF PauseCall
  <1>3. \A e \in calls' : e = d \/ (e \in calls /\ e # c)
    BY <1>1
  <1> QED
    BY <1>1, <1>2, <1>3 DEF ProfilePauseInv, PauseCall

\* The node serves the pauses.
LEMMA ProfilePauseServesKeep ==
    ASSUME ProfilePauseInv, NEW c \in calls, ProfilePauseServes(c)
    PROVE  ProfilePauseInv'
  <1>1. CallsInv /\ page' = page /\ ui' = ui
    BY DEF ProfilePauseInv, ProfilePauseServes
  <1>2. (\E data : Answers(c, data)) \/ Refuses(c)
    BY DEF ProfilePauseServes
  <1>3. \E at, data : MovedOne(c, at, data) /\ CallsInv'
    BY <1>1, <1>2, AnswersKeeps, RefusesKeeps
  <1> QED
    BY <1>1, <1>3, ProfilePauseMovedKeeps

\* What the administrator does, and the time that runs out, keep it.
LEMMA ProfilePauseUserKeeps ==
    ASSUME ProfilePauseInv,
           \/ \E i \in Item : OpenProfilePause(i) \/ ProfilePauseOpenEdit(i) \/ PauseEnds(i)
           \/ ClosePause \/ ActivateProfilePause \/ ResumeProfileFiltering
           \/ EditBlockPage \/ SaveBlockPageTab \/ ProfilePauseCloseModal
    PROVE  ProfilePauseInv'
  <1>0. CallsInv /\ "submitting" \in DOMAIN ui
    BY DEF ProfilePauseInv
  <1>1. CASE \/ \E i \in Item : ProfilePauseOpenEdit(i) \/ PauseEnds(i)
             \/ ClosePause \/ EditBlockPage \/ ProfilePauseCloseModal
             \/ ui' = [ui EXCEPT !.error = TRUE] /\ Local
    <2>1. /\ page' = page /\ calls' = calls /\ writes' = writes /\ crossed' = crossed
      BY <1>1 DEF ProfilePauseOpenEdit, PauseEnds, ClosePause, EditBlockPage,
                  ProfilePauseCloseModal, Local
    <2>2. DOMAIN ui' = DOMAIN ui /\ ui'.submitting = ui.submitting
      BY <1>0, <1>1 DEF ProfilePauseOpenEdit, PauseEnds, ClosePause, EditBlockPage,
                        ProfilePauseCloseModal, Local
    <2> QED
      BY <2>1, <2>2, ProfilePauseDialogKeeps
  <1>2. CASE (\E i \in Item : OpenProfilePause(i)) \/ SaveBlockPageTab
    <2>1. /\ page' = page /\ DOMAIN ui' = DOMAIN ui /\ ui'.submitting = ui.submitting
      BY <1>0, <1>2 DEF OpenProfilePause, SaveBlockPageTab
    <2>2. \E arg : \/ AddsAside(calls, "getProfilePause", arg)
                   \/ AddsAside(calls, "patchProfileBlockPage", arg)
      BY <1>2 DEF OpenProfilePause, SaveBlockPageTab, AsksAside
    <2>3. PICK op, arg : /\ op \in {"getProfilePause", "patchProfileBlockPage"}
                         /\ AddsAside(calls, op, arg)
      BY <2>2
    <2>4. CallsInv' /\ SentOne(calls, op, arg)
      BY <1>0, <2>1, <2>3, AddsAsideKeeps, ProfilePauseOps
    <2>5. \A c \in calls' \ calls : ~PauseCall(c)
      BY <2>3, <2>4 DEF SentOne, PauseCall
    <2> QED
      BY <2>1, <2>4, <2>5, ProfilePauseAsideKeeps DEF SentOne
  <1>3. ASSUME NEW op \in {"setProfilePause", "clearProfilePause"}, NEW arg,
               AddsAside(calls, op, arg), page' = page, DOMAIN ui' = DOMAIN ui,
               ~ui.submitting, ui'.submitting
        PROVE  ProfilePauseInv'
    <2>1. CallsInv' /\ SentOne(calls, op, arg)
      BY <1>0, <1>3, AddsAsideKeeps, ProfilePauseOps
    <2>2. PICK d : calls' = calls \cup {d} /\ d.op = op
      BY <2>1 DEF SentOne
    <2>3. \A c \in calls : ~PauseCall(c)
      BY <1>3 DEF ProfilePauseInv
    <2>4. PauseCall(d)
      BY <2>2 DEF PauseCall
    <2> QED
      BY <1>3, <2>1, <2>2, <2>3, <2>4 DEF ProfilePauseInv, PauseCall
  <1>4. CASE ActivateProfilePause /\ ~(ui' = [ui EXCEPT !.error = TRUE] /\ Local)
    <2>1. /\ page' = page /\ ~ui.submitting
          /\ ui' = [ui EXCEPT !.error = FALSE, !.submitting = TRUE]
      BY <1>4 DEF ActivateProfilePause, ProfilePausePauseOffered, ButtonsOffered
    <2>2. \E arg : AddsAside(calls, "setProfilePause", arg)
      BY <1>4 DEF ActivateProfilePause, AsksAside
    <2> QED
      BY <1>0, <1>3, <2>1, <2>2
  <1>5. CASE ResumeProfileFiltering
    <2>1. page' = page /\ ~ui.submitting /\ ui' = [ui EXCEPT !.submitting = TRUE]
      BY <1>5 DEF ResumeProfileFiltering, ProfilePauseResumeOffered, ButtonsOffered
    <2>2. \E arg : AddsAside(calls, "clearProfilePause", arg)
      BY <1>5 DEF ResumeProfileFiltering, AsksAside
    <2> QED
      BY <1>0, <1>3, <2>1, <2>2
  <1> QED
    BY <1>1, <1>2, <1>4, <1>5

\* What the handlers do once they are answered keeps it.
LEMMA ProfilePauseHandlersKeep ==
    ASSUME ProfilePauseInv, NEW c \in calls,
           ProfilePauseGotPause(c) \/ ProfilePauseSubmitted(c) \/ BlockPageSaved(c)
    PROVE  ProfilePauseInv'
  <1>1. CallsInv /\ "submitting" \in DOMAIN ui /\ page' = page /\ Done(c)
    BY DEF ProfilePauseInv, ProfilePauseGotPause, ProfilePauseSubmitted, BlockPageSaved
  <1>2. CallsInv' /\ calls' = calls \ {c}
    BY <1>1, DoneKeeps DEF Done, CallsInv
  <1>3. CASE ProfilePauseGotPause(c) \/ BlockPageSaved(c)
    <2>1. DOMAIN ui' = DOMAIN ui /\ ui'.submitting = ui.submitting /\ ~PauseCall(c)
      BY <1>1, <1>3 DEF ProfilePauseGotPause, BlockPageSaved, Ended, Ok, Failed, PauseCall
    <2> QED
      BY <1>1, <1>2, <2>1, ProfilePauseAsideKeeps
  <1>4. CASE ProfilePauseSubmitted(c)
    <2>1. DOMAIN ui' = DOMAIN ui /\ ui'.submitting = FALSE /\ PauseCall(c)
      BY <1>1, <1>4 DEF ProfilePauseSubmitted, Ended, Ok, Failed, PauseCall
    <2> QED
      BY <1>1, <1>2, <2>1 DEF ProfilePauseInv, PauseCall
  <1> QED
    BY <1>3, <1>4

\* Every step of the page keeps it.
LEMMA ProfilePauseKeep == ProfilePauseInv /\ ProfilePauseNext => ProfilePauseInv'
  <1> SUFFICES ASSUME ProfilePauseInv, ProfilePauseNext PROVE ProfilePauseInv'
    OBVIOUS
  <1>1. ASSUME NEW c \in calls, Fails(c) PROVE ProfilePauseInv'
    BY <1>1, FailsKeeps, ProfilePauseMovedKeeps DEF ProfilePauseInv
  <1> QED
    BY <1>1, ProfilePauseUserKeeps, ProfilePauseHandlersKeep, ProfilePauseServesKeep
       DEF ProfilePauseNext

\* What it says of the page.
LEMMA ProfilePauseShow == ProfilePauseInv => OnePauseAtATime
  <1> SUFFICES ASSUME ProfilePauseInv PROVE OnePauseAtATime
    OBVIOUS
  <1> DEFINE S == Pending("setProfilePause") \cup Pending("clearProfilePause")
  <1>1. S = {c \in calls : PauseCall(c)}
    BY DEF Pending, PauseCall
  <1>2. /\ IsFiniteSet(S) /\ \A c, d \in S : c = d
        /\ ui.submitting <=> S # {}
    BY <1>1, FS_Subset DEF CallsInv, GoodCalls, ProfilePauseInv
  <1> HIDE DEF S
  <1>3. Cardinality(S) = IF S = {} THEN 0 ELSE 1
    BY <1>2, AtMostOne
  <1> QED
    BY <1>2, <1>3 DEF OnePauseAtATime, S

-----------------------------------------------------------------------------
(* The schedules.                                                              *)

FormCall(c) == c.op \in {"createSchedule", "updateSchedule"}
BindingCall(c) == c.op \in {"addScheduleBinding", "deleteScheduleBinding"}

\* The flags of a binding follow the calls of one kind.
FlagFollows(S, op, flag) ==
    \A i \in Item : /\ (flag[i] = TRUE) <=> \E c \in S : c.op = op /\ c.arg.id = i
                    /\ \A c, d \in S : c.op = op /\ d.op = op /\ c.arg.id = i /\ d.arg.id = i
                                          => c = d

\* The form that is on its way is the one that is open.
FormFollows(S, view) ==
    /\ view.submitting <=> \E c \in S : FormCall(c)
    /\ \A c, d \in S : FormCall(c) /\ FormCall(d) => c = d
    /\ \A c \in S : FormCall(c) =>
          view.showModal /\ (c.op = "createSchedule" <=> view.original = None)

\* What the buttons follow is there, the flags of the bindings for every row.
SchedulesFields == {"submitting", "showModal", "original", "bindingSubmitting", "bindingRemoving"}
SchedulesInv ==
    /\ page = "schedules" /\ CallsInv /\ SchedulesFields \subseteq DOMAIN ui
    /\ FormFollows(calls, ui)
    /\ ui.bindingSubmitting \in [Item -> BOOLEAN] /\ ui.bindingRemoving \in [Item -> BOOLEAN]
    /\ FlagFollows(calls, "addScheduleBinding", ui.bindingSubmitting)
    /\ FlagFollows(calls, "deleteScheduleBinding", ui.bindingRemoving)

\* A step leaves the form, and the flags.
SameForm == /\ DOMAIN ui' = DOMAIN ui /\ ui'.submitting = ui.submitting
            /\ ui'.showModal = ui.showModal /\ ui'.original = ui.original
SameFlags == /\ ui'.bindingSubmitting = ui.bindingSubmitting
             /\ ui'.bindingRemoving = ui.bindingRemoving

\* The wrappers of the schedules.
LEMMA SchedulesOps ==
    {"listSchedules", "createSchedule", "updateSchedule", "deleteSchedule",
     "listScheduleBindings", "addScheduleBinding", "deleteScheduleBinding"} \subseteq Endpoint
  BY DEF Endpoint, Reads, Changes, AccountAndListCalls, ConfigurationCalls,
         ClientAndAuditCalls, PauseAndWebhookCalls, TokenAndDeviceCalls, OtherCalls

\* The flag goes up with the call and down with it.
LEMMA FlagsMove ==
    ASSUME NEW S, NEW op, NEW flag \in [Item -> BOOLEAN], FlagFollows(S, op, flag),
           NEW e, e.op = op
    PROVE  /\ flag[e.arg.id] # TRUE => FlagFollows(S \cup {e}, op, [flag EXCEPT ![e.arg.id] = TRUE])
           /\ e \in S => FlagFollows(S \ {e}, op, [flag EXCEPT ![e.arg.id] = FALSE])
  <1> DEFINE i == e.arg.id
             up == [flag EXCEPT ![i] = TRUE]
             down == [flag EXCEPT ![i] = FALSE]
  <1>1. /\ i \in Item => up[i] = TRUE /\ down[i] # TRUE
        /\ \A j \in Item : j # i => up[j] = flag[j] /\ down[j] = flag[j]
    OBVIOUS
  <1> HIDE DEF up, down
  <1>2. flag[i] # TRUE => FlagFollows(S \cup {e}, op, up)
    <2> SUFFICES ASSUME flag[i] # TRUE, NEW j \in Item
                 PROVE  /\ (up[j] = TRUE) <=> \E c \in S \cup {e} : c.op = op /\ c.arg.id = j
                        /\ \A c, d \in S \cup {e} :
                              c.op = op /\ d.op = op /\ c.arg.id = j /\ d.arg.id = j => c = d
      BY DEF FlagFollows
    <2>1. CASE j = i
      <3>1. \A c \in S : ~(c.op = op /\ c.arg.id = i)
        BY <2>1 DEF FlagFollows
      <3> QED
        BY <1>1, <2>1, <3>1
    <2>2. CASE j # i
      BY <1>1, <2>2 DEF FlagFollows
    <2> QED
      BY <2>1, <2>2
  <1>3. e \in S => FlagFollows(S \ {e}, op, down)
    <2> SUFFICES ASSUME e \in S, NEW j \in Item
                 PROVE  /\ (down[j] = TRUE) <=> \E c \in S \ {e} : c.op = op /\ c.arg.id = j
                        /\ \A c, d \in S \ {e} :
                              c.op = op /\ d.op = op /\ c.arg.id = j /\ d.arg.id = j => c = d
      BY DEF FlagFollows
    <2>1. CASE j = i
      <3>1. \A c \in S : c.op = op /\ c.arg.id = i => c = e
        BY <2>1 DEF FlagFollows
      <3> QED
        BY <1>1, <2>1, <3>1
    <2>2. CASE j # i
      BY <1>1, <2>2 DEF FlagFollows
    <2> QED
      BY <2>1, <2>2
  <1> QED
    BY <1>2, <1>3 DEF up, down

\* It holds when the page is mounted.
LEMMA SchedulesStart == SchedulesInit => SchedulesInv
  <1> SUFFICES ASSUME SchedulesInit PROVE SchedulesInv
    OBVIOUS
  <1>1. CallsInv /\ \A c \in calls : c.op = "listSchedules"
    BY SchedulesOps, FirstCall DEF SchedulesInit
  <1> DEFINE flags == [i \in Item |-> FALSE]
  <1>2. flags \in [Item -> BOOLEAN] /\ \A i \in Item : flags[i] = FALSE
    OBVIOUS
  <1>3. /\ page = "schedules" /\ SchedulesFields \subseteq DOMAIN ui /\ ui.submitting = FALSE
        /\ ui.bindingSubmitting = flags /\ ui.bindingRemoving = flags
    BY DEF SchedulesInit, SchedulesFields
  <1> HIDE DEF flags
  <1>4. \A c \in calls : ~FormCall(c) /\ ~BindingCall(c)
    BY <1>1 DEF FormCall, BindingCall
  <1>5. /\ FlagFollows(calls, "addScheduleBinding", flags)
        /\ FlagFollows(calls, "deleteScheduleBinding", flags)
    BY <1>2, <1>4 DEF FlagFollows, BindingCall
  <1>6. FormFollows(calls, ui)
    BY <1>3, <1>4 DEF FormFollows
  <1> QED
    BY <1>1, <1>2, <1>3, <1>5, <1>6 DEF SchedulesInv

\* The calls of a kind that no step sends or ends are those there were.
LEMMA FlagsStay ==
    ASSUME NEW S, NEW op, NEW flag, FlagFollows(S, op, flag), NEW T, NEW rest \in SUBSET S,
           rest \subseteq T, \A c \in (S \ rest) \cup (T \ rest) : c.op # op
    PROVE  FlagFollows(T, op, flag)
  BY DEF FlagFollows

\* A step that neither sends nor ends a call of a form or of a binding.
LEMMA SchedulesAsideKeeps ==
    ASSUME SchedulesInv, page' = page, CallsInv', SameForm, SameFlags,
           NEW rest \in SUBSET calls, rest \subseteq calls',
           \A c \in (calls \ rest) \cup (calls' \ rest) : ~FormCall(c) /\ ~BindingCall(c)
    PROVE  SchedulesInv'
  <1>1. FormFollows(calls, ui)'
    BY DEF SchedulesInv, FormFollows, SameForm, FormCall
  <1>2. /\ FlagFollows(calls', "addScheduleBinding", ui'.bindingSubmitting)
        /\ FlagFollows(calls', "deleteScheduleBinding", ui'.bindingRemoving)
    BY FlagsStay DEF SchedulesInv, SameFlags, BindingCall
  <1> QED
    BY <1>1, <1>2 DEF SchedulesInv, SameForm, SameFlags

\* One that leaves the bindings, and sends or ends the form.
LEMMA SchedulesFormKeeps ==
    ASSUME SchedulesInv, page' = page, CallsInv', DOMAIN ui' = DOMAIN ui, SameFlags,
           FormFollows(calls', ui'), NEW rest \in SUBSET calls, rest \subseteq calls',
           \A c \in (calls \ rest) \cup (calls' \ rest) : ~BindingCall(c)
    PROVE  SchedulesInv'
  <1>1. /\ FlagFollows(calls', "addScheduleBinding", ui'.bindingSubmitting)
        /\ FlagFollows(calls', "deleteScheduleBinding", ui'.bindingRemoving)
    BY FlagsStay DEF SchedulesInv, SameFlags, BindingCall
  <1> QED
    BY <1>1 DEF SchedulesInv, SameFlags

\* One that leaves the form, and sends or ends the call of a binding.
LEMMA SchedulesFlagKeeps ==
    ASSUME SchedulesInv, page' = page, CallsInv', SameForm,
           NEW rest \in SUBSET calls, rest \subseteq calls', NEW add, NEW cut,
           ui'.bindingSubmitting = add, ui'.bindingRemoving = cut,
           \A c \in (calls \ rest) \cup (calls' \ rest) : ~FormCall(c),
           add \in [Item -> BOOLEAN], cut \in [Item -> BOOLEAN],
           FlagFollows(calls', "addScheduleBinding", add),
           FlagFollows(calls', "deleteScheduleBinding", cut)
    PROVE  SchedulesInv'
  <1>1. FormFollows(calls, ui)'
    BY DEF SchedulesInv, FormFollows, SameForm, FormCall
  <1> QED
    BY <1>1 DEF SchedulesInv, SameForm

\* A dialog or a panel comes or goes over the same calls; a form only while none is
\* on its way.
LEMMA SchedulesDialogsKeep ==
    ASSUME SchedulesInv,
           \/ SchedulesOpenCreate \/ SchedulesCloseModal \/ SchedulesCancelDelete
           \/ \E k \in DOMAIN ui.schedules : SchedulesOpenEdit(k) \/ SchedulesAskDelete(k)
    PROVE  SchedulesInv'
  <1>0. CallsInv /\ SchedulesFields \subseteq DOMAIN ui
    BY DEF SchedulesInv
  <1>1. Local /\ DOMAIN ui' = DOMAIN ui /\ ui'.submitting = ui.submitting /\ SameFlags
    BY <1>0 DEF SchedulesOpenCreate, SchedulesCloseModal, SchedulesOpenEdit, SchedulesAskDelete,
                SchedulesCancelDelete, SameFlags, SchedulesFields
  <1>2. CallsInv' /\ page' = page /\ calls' = calls
    BY <1>0, <1>1, SameCallsKeep DEF Local, CallsInv
  <1>3. CASE \/ SchedulesCancelDelete
             \/ \E k \in DOMAIN ui.schedules : SchedulesAskDelete(k)
    <2>1. SameForm
      BY <1>0, <1>3 DEF SchedulesCancelDelete, SchedulesAskDelete, SameForm, SchedulesFields
    <2> QED
      BY <1>1, <1>2, <2>1, SchedulesAsideKeeps
  <1>4. CASE \/ SchedulesOpenCreate \/ SchedulesCloseModal
             \/ \E k \in DOMAIN ui.schedules : SchedulesOpenEdit(k)
    <2>1. ~ui.submitting \/ ~ui.showModal
      BY <1>4 DEF SchedulesOpenCreate, SchedulesCloseModal, SchedulesOpenEdit,
                  SchedulesCreateOffered, SchedulesRowsOffered, SchedulesCovered, SubmitOffered
    <2>2. \A c \in calls : ~FormCall(c)
      BY <2>1 DEF SchedulesInv, FormFollows
    <2>3. FormFollows(calls', ui')
      BY <1>1, <1>2, <2>2 DEF FormFollows, SchedulesInv
    <2> QED
      BY <1>1, <1>2, <2>3, SchedulesFormKeeps
  <1> QED
    BY <1>3, <1>4

\* A form is sent.
LEMMA SchedulesSubmitKeeps ==
    ASSUME SchedulesInv, SchedulesSubmitCreate \/ SubmitEdit
    PROVE  SchedulesInv'
  <1>0. CallsInv /\ SchedulesFields \subseteq DOMAIN ui /\ page' = page
        /\ ui.showModal /\ ~ui.submitting
    BY DEF SchedulesInv, SchedulesSubmitCreate, SubmitEdit, SubmitOffered, Local
  <1>1. \A c \in calls : ~FormCall(c)
    BY <1>0 DEF SchedulesInv, FormFollows
  <1>2. CASE Local /\ ui' = [ui EXCEPT !.showModal = FALSE]
    <2>1. DOMAIN ui' = DOMAIN ui /\ SameFlags /\ ui'.submitting = ui.submitting
      BY <1>0, <1>2 DEF SameFlags, SchedulesFields
    <2>2. CallsInv' /\ calls' = calls
      BY <1>0, <1>2, SameCallsKeep DEF Local, CallsInv
    <2>3. FormFollows(calls', ui')
      BY <1>0, <1>1, <2>1, <2>2 DEF FormFollows
    <2> QED
      BY <1>0, <2>1, <2>2, <2>3, SchedulesFormKeeps
  <1>3. CASE \E op, arg : /\ op \in {"createSchedule", "updateSchedule"}
                          /\ op = "createSchedule" <=> ui.original = None
                          /\ Sends(calls, op, arg) /\ ui' = [ui EXCEPT !.submitting = TRUE]
    <2>1. PICK op, arg : /\ op \in {"createSchedule", "updateSchedule"}
                         /\ op = "createSchedule" <=> ui.original = None
                         /\ Sends(calls, op, arg) /\ ui' = [ui EXCEPT !.submitting = TRUE]
      BY <1>3
    <2>2. CallsInv' /\ SentOne(calls, op, arg)
      BY <1>0, <2>1, SendsKeeps, SchedulesOps
    <2>3. PICK d : calls' = calls \cup {d} /\ d.op = op
      BY <2>2 DEF SentOne
    <2>4. /\ DOMAIN ui' = DOMAIN ui /\ SameFlags /\ ui'.submitting = TRUE
          /\ ui'.showModal = ui.showModal /\ ui'.original = ui.original
      BY <1>0, <2>1 DEF SameFlags, SchedulesFields
    <2>5. FormCall(d) /\ ~BindingCall(d)
      BY <2>1, <2>3 DEF FormCall, BindingCall
    <2>6. FormFollows(calls', ui')
      BY <1>0, <1>1, <2>1, <2>3, <2>4, <2>5 DEF FormFollows
    <2> QED
      BY <1>0, <2>2, <2>3, <2>4, <2>5, <2>6, SchedulesFormKeeps
  <1>4. CASE SchedulesSubmitCreate
    <2>1. /\ ui.original = None /\ ui' = [ui EXCEPT !.submitting = TRUE]
          /\ \E arg : Sends(calls, "createSchedule", arg)
      BY <1>4 DEF SchedulesSubmitCreate, Asks
    <2> QED
      BY <1>3, <2>1
  <1>5. CASE SubmitEdit
    <2>1. \/ Local /\ ui' = [ui EXCEPT !.showModal = FALSE]
          \/ /\ ui.original # None /\ ui' = [ui EXCEPT !.submitting = TRUE]
             /\ \E arg : Sends(calls, "updateSchedule", arg)
      BY <1>5 DEF SubmitEdit, Asks
    <2> QED
      BY <1>2, <1>3, <2>1
  <1> QED
    BY <1>4, <1>5

\* Another call is sent: to delete a schedule, to read what it binds, to bind or not.
LEMMA SchedulesPanelsKeep ==
    ASSUME SchedulesInv,
           \/ SchedulesConfirmDelete
           \/ \E i \in Item : ToggleBindings(i) \/ SubmitBinding(i) \/ RemoveBinding(i)
    PROVE  SchedulesInv'
  <1>0. /\ CallsInv /\ SchedulesFields \subseteq DOMAIN ui
        /\ page' = page /\ calls \in SUBSET calls
    BY DEF SchedulesInv, SchedulesConfirmDelete, ToggleBindings, SubmitBinding, RemoveBinding,
           Local
  <1>a. ASSUME NEW op, op \in {"deleteSchedule", "listScheduleBindings"}, SameForm, SameFlags,
               NEW arg, Sends(calls, op, arg) \/ AddsAside(calls, op, arg)
        PROVE  SchedulesInv'
    <2>1. CallsInv' /\ SentOne(calls, op, arg)
      BY <1>0, <1>a, SendsKeeps, AddsAsideKeeps, SchedulesOps
    <2>2. \A c \in calls' \ calls : ~FormCall(c) /\ ~BindingCall(c)
      BY <1>a, <2>1 DEF SentOne, FormCall, BindingCall
    <2> QED
      BY <1>0, <1>a, <2>1, <2>2, SchedulesAsideKeeps DEF SentOne
  <1>b. ASSUME NEW i \in Item, SubmitBinding(i) \/ RemoveBinding(i) PROVE SchedulesInv'
    <2> DEFINE add == IF SubmitBinding(i) THEN [ui.bindingSubmitting EXCEPT ![i] = TRUE]
                      ELSE ui.bindingSubmitting
               cut == IF SubmitBinding(i) THEN ui.bindingRemoving
                      ELSE [ui.bindingRemoving EXCEPT ![i] = TRUE]
               op == IF SubmitBinding(i) THEN "addScheduleBinding" ELSE "deleteScheduleBinding"
    <2>1. /\ AddsAside(calls, op, [id |-> i])
          /\ SameForm /\ ui'.bindingSubmitting = add /\ ui'.bindingRemoving = cut
      BY <1>0, <1>b DEF SubmitBinding, RemoveBinding, AsksAside, SameForm, SchedulesFields
    <2>2. add \in [Item -> BOOLEAN] /\ cut \in [Item -> BOOLEAN]
      BY DEF SchedulesInv
    <2>3. CallsInv' /\ SentOne(calls, op, [id |-> i])
      BY <1>0, <2>1, AddsAsideKeeps, SchedulesOps
    <2>4. PICK d : calls' = calls \cup {d} /\ d.op = op /\ d.arg = [id |-> i]
      BY <2>3 DEF SentOne
    <2>5. ~FormCall(d) /\ d.arg.id = i
      BY <2>4 DEF FormCall
    <2>6. FlagFollows(calls', "addScheduleBinding", add)
      <3>1. CASE SubmitBinding(i)
        <4>1. ui.bindingSubmitting[i] # TRUE /\ d.op = "addScheduleBinding"
          BY <2>4, <3>1 DEF SubmitBinding
        <4> QED
          BY <2>4, <2>5, <3>1, <4>1, FlagsMove DEF SchedulesInv
      <3>2. CASE ~SubmitBinding(i)
        <4>1. /\ FlagFollows(calls, "addScheduleBinding", add)
              /\ \A c \in calls' \ calls : c.op # "addScheduleBinding"
          BY <2>4, <3>2 DEF SchedulesInv
        <4> QED
          BY <1>0, <2>4, <4>1, FlagsStay
      <3> QED
        BY <3>1, <3>2
    <2>7. FlagFollows(calls', "deleteScheduleBinding", cut)
      <3>1. CASE ~SubmitBinding(i)
        <4>1. ui.bindingRemoving[i] # TRUE /\ d.op = "deleteScheduleBinding"
          BY <1>b, <2>4, <3>1 DEF RemoveBinding
        <4> QED
          BY <2>4, <2>5, <3>1, <4>1, FlagsMove DEF SchedulesInv
      <3>2. CASE SubmitBinding(i)
        <4>1. /\ FlagFollows(calls, "deleteScheduleBinding", cut)
              /\ \A c \in calls' \ calls : c.op # "deleteScheduleBinding"
          BY <2>4, <3>2 DEF SchedulesInv
        <4> QED
          BY <1>0, <2>4, <4>1, FlagsStay
      <3> QED
        BY <3>1, <3>2
    <2>8. \A c \in calls' \ calls : ~FormCall(c)
      BY <2>4, <2>5
    <2> HIDE DEF add, cut
    <2> QED
      BY <1>0, <2>1, <2>2, <2>3, <2>4, <2>6, <2>7, <2>8, SchedulesFlagKeeps
  <1>1. CASE SchedulesConfirmDelete
    <2>1. Sends(calls, "deleteSchedule", [id |-> ui.pendingDelete]) /\ SameForm /\ SameFlags
      BY <1>0, <1>1 DEF SchedulesConfirmDelete, Asks, SameForm, SameFlags, SchedulesFields
    <2> QED
      BY <1>a, <2>1
  <1>2. ASSUME NEW i \in Item, ToggleBindings(i) PROVE SchedulesInv'
    <2>1. SameForm /\ SameFlags
      BY <1>0, <1>2 DEF ToggleBindings, SameForm, SameFlags, SchedulesFields
    <2>2. CASE Local
      <3>1. CallsInv' /\ calls' = calls
        BY <1>0, <2>2, SameCallsKeep DEF Local, CallsInv
      <3> QED
        BY <1>0, <2>1, <3>1, SchedulesAsideKeeps
    <2>3. Local \/ AddsAside(calls, "listScheduleBindings", [id |-> i])
      BY <1>2 DEF ToggleBindings, AsksAside
    <2> QED
      BY <1>a, <2>1, <2>2, <2>3
  <1> QED
    BY <1>b, <1>1, <1>2

\* What the handlers do once they are answered keeps it.
LEMMA SchedulesHandlersKeep ==
    ASSUME SchedulesInv, NEW c \in calls,
           \/ SchedulesRefreshed(c) \/ SchedulesSubmitted(c) \/ SchedulesDeleted(c)
           \/ GotBindings(c) \/ BindingAdded(c) \/ BindingRemoved(c)
    PROVE  SchedulesInv'
  <1>0. CallsInv /\ SchedulesFields \subseteq DOMAIN ui /\ Done(c) /\ page' = page
    BY DEF SchedulesInv, SchedulesRefreshed, SchedulesSubmitted, SchedulesDeleted, GotBindings,
           BindingAdded, BindingRemoved
  <1>1. CallsInv' /\ calls' = calls \ {c} /\ calls \ {c} \in SUBSET calls
    BY <1>0, DoneKeeps DEF Done, CallsInv
  <1>2. CASE SchedulesRefreshed(c) \/ SchedulesDeleted(c) \/ GotBindings(c)
    <2>1. ~FormCall(c) /\ ~BindingCall(c)
      BY <1>2 DEF SchedulesRefreshed, SchedulesDeleted, GotBindings, Ended, Ok, Failed, FormCall,
                  BindingCall
    <2>2. SameForm /\ SameFlags
      BY <1>0, <1>2 DEF SchedulesRefreshed, SchedulesDeleted, GotBindings, SameForm, SameFlags,
                        SchedulesFields
    <2> QED
      BY <1>0, <1>1, <2>1, <2>2, SchedulesAsideKeeps
  <1>3. CASE SchedulesSubmitted(c)
    <2>1. FormCall(c) /\ ~BindingCall(c)
      BY <1>3 DEF SchedulesSubmitted, Ended, Ok, Failed, FormCall, BindingCall
    <2>2. \A d \in calls' : ~FormCall(d)
      BY <1>1, <2>1 DEF SchedulesInv, FormFollows
    <2>3. DOMAIN ui' = DOMAIN ui /\ SameFlags /\ ui'.submitting = FALSE
      BY <1>0, <1>3 DEF SchedulesSubmitted, SameFlags, SchedulesFields
    <2>4. FormFollows(calls', ui')
      BY <2>2, <2>3 DEF FormFollows
    <2> QED
      BY <1>0, <1>1, <2>1, <2>3, <2>4, SchedulesFormKeeps
  <1>4. CASE BindingAdded(c)
    <2> DEFINE add == [ui.bindingSubmitting EXCEPT ![c.arg.id] = FALSE]
    <2>1. c.op = "addScheduleBinding"
      BY <1>4 DEF BindingAdded, Ended, Ok, Failed
    <2>2. SameForm /\ ui'.bindingSubmitting = add /\ ui'.bindingRemoving = ui.bindingRemoving
      BY <1>0, <1>4 DEF BindingAdded, SameForm, SchedulesFields
    <2>3. add \in [Item -> BOOLEAN] /\ FlagFollows(calls', "addScheduleBinding", add)
      BY <1>1, <2>1, FlagsMove DEF SchedulesInv
    <2>4. FlagFollows(calls', "deleteScheduleBinding", ui.bindingRemoving)
      BY <1>1, <2>1, FlagsStay DEF SchedulesInv
    <2>5. ~FormCall(c) /\ ui.bindingRemoving \in [Item -> BOOLEAN]
      BY <2>1 DEF FormCall, SchedulesInv
    <2> HIDE DEF add
    <2> QED
      BY <1>0, <1>1, <2>2, <2>3, <2>4, <2>5, SchedulesFlagKeeps
  <1>5. CASE BindingRemoved(c)
    <2> DEFINE cut == [ui.bindingRemoving EXCEPT ![c.arg.id] = FALSE]
    <2>1. c.op = "deleteScheduleBinding"
      BY <1>5 DEF BindingRemoved, Ended, Ok, Failed
    <2>2. SameForm /\ ui'.bindingRemoving = cut /\ ui'.bindingSubmitting = ui.bindingSubmitting
      BY <1>0, <1>5 DEF BindingRemoved, SameForm, SchedulesFields
    <2>3. cut \in [Item -> BOOLEAN] /\ FlagFollows(calls', "deleteScheduleBinding", cut)
      BY <1>1, <2>1, FlagsMove DEF SchedulesInv
    <2>4. FlagFollows(calls', "addScheduleBinding", ui.bindingSubmitting)
      BY <1>1, <2>1, FlagsStay DEF SchedulesInv
    <2>5. ~FormCall(c) /\ ui.bindingSubmitting \in [Item -> BOOLEAN]
      BY <2>1 DEF FormCall, SchedulesInv
    <2> HIDE DEF cut
    <2> QED
      BY <1>0, <1>1, <2>2, <2>3, <2>4, <2>5, SchedulesFlagKeeps
  <1> QED
    BY <1>2, <1>3, <1>4, <1>5

\* The same calls but for the state of one are followed by the same flags.
LEMMA FlagsMoved ==
    ASSUME NEW S, NEW op, NEW flag, FlagFollows(S, op, flag), NEW c \in S, NEW d, d.op = c.op,
           d.arg = c.arg, NEW T, T = (S \ {c}) \cup {d}
    PROVE  FlagFollows(T, op, flag)
  BY DEF FlagFollows

\* What becomes of a call on its way keeps forms and flags.
LEMMA SchedulesMovedKeeps ==
    ASSUME SchedulesInv, NEW c \in calls, NEW at, NEW data, MovedOne(c, at, data), CallsInv',
           page' = page, ui' = ui
    PROVE  SchedulesInv'
  <1>1. PICK d : calls' = (calls \ {c}) \cup {d} /\ d.op = c.op /\ d.arg = c.arg
    BY DEF MovedOne
  <1>2. FormCall(d) <=> FormCall(c)
    BY <1>1 DEF FormCall
  <1>3. \A e \in calls' : e = d \/ (e \in calls /\ e # c)
    BY <1>1
  <1>4. (\E e \in calls' : FormCall(e)) <=> (\E e \in calls : FormCall(e))
    BY <1>1, <1>2, <1>3
  <1>5. \A e, f \in calls' : FormCall(e) /\ FormCall(f) => e = f
    BY <1>1, <1>2, <1>3 DEF SchedulesInv, FormFollows
  <1>6. FormFollows(calls, ui)'
    BY <1>1, <1>2, <1>3, <1>4, <1>5 DEF SchedulesInv, FormFollows, FormCall
  <1>7. /\ FlagFollows(calls', "addScheduleBinding", ui'.bindingSubmitting)
        /\ FlagFollows(calls', "deleteScheduleBinding", ui'.bindingRemoving)
    BY <1>1, FlagsMoved DEF SchedulesInv
  <1> QED
    BY <1>6, <1>7 DEF SchedulesInv

\* The node serves schedules and bindings.
LEMMA SchedulesServesKeep ==
    ASSUME SchedulesInv, NEW c \in calls, SchedulesServes(c)
    PROVE  SchedulesInv'
  <1>1. CallsInv /\ page' = page /\ ui' = ui
    BY DEF SchedulesInv, SchedulesServes
  <1>2. (\E data : Answers(c, data)) \/ Refuses(c)
    BY DEF SchedulesServes, ServesSchedules, ServesBindings
  <1>3. \E at, data : MovedOne(c, at, data) /\ CallsInv'
    BY <1>1, <1>2, AnswersKeeps, RefusesKeeps
  <1> QED
    BY <1>1, <1>3, SchedulesMovedKeeps

\* Every step of the page keeps it.
LEMMA SchedulesKeep == SchedulesInv /\ SchedulesNext => SchedulesInv'
  <1> SUFFICES ASSUME SchedulesInv, SchedulesNext PROVE SchedulesInv'
    OBVIOUS
  <1>1. ASSUME NEW c \in calls, Fails(c) PROVE SchedulesInv'
    BY <1>1, FailsKeeps, SchedulesMovedKeeps DEF SchedulesInv
  <1> QED
    BY <1>1, SchedulesDialogsKeep, SchedulesSubmitKeeps, SchedulesPanelsKeep,
       SchedulesHandlersKeep, SchedulesServesKeep DEF SchedulesNext

\* What it says of the page.
LEMMA SchedulesShow == SchedulesInv => OneChangeEach
  <1> SUFFICES ASSUME SchedulesInv PROVE OneChangeEach
    OBVIOUS
  <1> DEFINE forms == Pending("createSchedule") \cup Pending("updateSchedule")
             of(op, i) == {c \in Pending(op) : c.arg.id = i}
  <1>1. IsFiniteSet(calls)
    BY DEF SchedulesInv, CallsInv, GoodCalls
  <1>2. forms = {c \in calls : FormCall(c)}
    BY DEF Pending, FormCall
  <1>3. /\ Cardinality(forms) = (IF ui.submitting THEN 1 ELSE 0)
        /\ \A c \in forms : ui.showModal /\ (c.op = "createSchedule") = (ui.original = None)
    <2>1. forms \in SUBSET calls /\ IsFiniteSet(forms) /\ (\A c, d \in forms : c = d)
      <3>1. forms \in SUBSET calls
        BY <1>2
      <3>2. \A c, d \in forms : c = d
        BY <1>2 DEF SchedulesInv, FormFollows
      <3> HIDE DEF forms
      <3> QED
        BY <1>1, <3>1, <3>2, FS_Subset
    <2>2. ui.submitting <=> forms # {}
      BY <1>2 DEF SchedulesInv, FormFollows
    <2>3. \A c \in forms : ui.showModal /\ (c.op = "createSchedule") = (ui.original = None)
      BY <1>2 DEF SchedulesInv, FormFollows
    <2> HIDE DEF forms
    <2>4. Cardinality(forms) = IF forms = {} THEN 0 ELSE 1
      BY <2>1, AtMostOne
    <2> QED
      BY <2>2, <2>3, <2>4
  <1>4. ASSUME NEW op, NEW flag \in [Item -> BOOLEAN], FlagFollows(calls, op, flag),
               NEW i \in Item
        PROVE  Cardinality(of(op, i)) = (IF flag[i] THEN 1 ELSE 0)
    <2> DEFINE S == of(op, i)
    <2>1. S \in SUBSET calls /\ (\A c, d \in S : c = d) /\ ((flag[i] = TRUE) <=> S # {})
      BY <1>4 DEF FlagFollows, Pending
    <2> HIDE DEF S
    <2>2. IsFiniteSet(S)
      BY <1>1, <2>1, FS_Subset
    <2>3. Cardinality(S) = IF S = {} THEN 0 ELSE 1
      BY <2>1, <2>2, AtMostOne
    <2>4. flag[i] \in BOOLEAN
      BY <1>4
    <2>5. Cardinality(S) = (IF flag[i] THEN 1 ELSE 0)
      BY <2>1, <2>3, <2>4
    <2> QED
      BY <2>5 DEF S
  <1>5. \A i \in Item :
           /\ Cardinality(of("addScheduleBinding", i))
                 = (IF ui.bindingSubmitting[i] THEN 1 ELSE 0)
           /\ Cardinality(of("deleteScheduleBinding", i))
                 = (IF ui.bindingRemoving[i] THEN 1 ELSE 0)
    <2>1. /\ ui.bindingSubmitting \in [Item -> BOOLEAN]
          /\ ui.bindingRemoving \in [Item -> BOOLEAN]
          /\ FlagFollows(calls, "addScheduleBinding", ui.bindingSubmitting)
          /\ FlagFollows(calls, "deleteScheduleBinding", ui.bindingRemoving)
      BY DEF SchedulesInv
    <2> HIDE DEF of
    <2> QED
      BY <1>4, <2>1
  <1> QED
    BY <1>3, <1>5 DEF OneChangeEach

-----------------------------------------------------------------------------
(* The shared allowlists.                                                      *)

\* The calls a save consists of: what saves, and the load it ends with.
SharedSaving(c) ==
    \/ c.op \in {"createSharedAllowlist", "updateSharedAllowlist"}
    \/ c.op = "listSharedAllowlists" /\ c.arg.for = "save"

\* One of them is under way at a time, and as long the button is disabled.
SharedInv ==
    /\ page = "shared" /\ CallsInv /\ "saving" \in DOMAIN ui
    /\ ui.saving = \E c \in calls : SharedSaving(c)
    /\ \A c, d \in calls : SharedSaving(c) /\ SharedSaving(d) => c = d

\* The wrappers of the shared allowlists.
LEMMA SharedOps ==
    {"listSharedAllowlists", "createSharedAllowlist", "updateSharedAllowlist",
     "deleteSharedAllowlist"} \subseteq Endpoint
  BY DEF Endpoint, Reads, Changes, AccountAndListCalls, ConfigurationCalls,
         ClientAndAuditCalls, PauseAndWebhookCalls, TokenAndDeviceCalls, OtherCalls

\* It holds when the page is mounted.
LEMMA SharedStart == SharedInit => SharedInv
  <1> SUFFICES ASSUME SharedInit PROVE SharedInv
    OBVIOUS
  <1>1. /\ CallsInv
        /\ \A c \in calls : c.op = "listSharedAllowlists" /\ c.arg = [for |-> "mount"]
    BY FirstCall, SharedOps DEF SharedInit
  <1>2. page = "shared" /\ "saving" \in DOMAIN ui /\ ui.saving = FALSE
    BY DEF SharedInit
  <1>3. \A c \in calls : ~SharedSaving(c)
    BY <1>1 DEF SharedSaving
  <1> QED
    BY <1>1, <1>2, <1>3 DEF SharedInv

\* A step that neither sends nor ends a call of that kind.
LEMMA SharedAsideKeeps ==
    ASSUME SharedInv, page' = page, CallsInv', DOMAIN ui' = DOMAIN ui, ui'.saving = ui.saving,
           NEW rest \in SUBSET calls, rest \subseteq calls',
           \A c \in (calls \ rest) \cup (calls' \ rest) : ~SharedSaving(c)
    PROVE  SharedInv'
  BY DEF SharedInv, SharedSaving

\* What becomes of a call on its way keeps the button.
LEMMA SharedMovedKeeps ==
    ASSUME SharedInv, NEW c \in calls, NEW at, NEW data, MovedOne(c, at, data), CallsInv',
           page' = page, ui' = ui
    PROVE  SharedInv'
  <1>1. PICK d : calls' = (calls \ {c}) \cup {d} /\ d.op = c.op /\ d.arg = c.arg
    BY DEF MovedOne
  <1>2. SharedSaving(d) <=> SharedSaving(c)
    BY <1>1 DEF SharedSaving
  <1>3. \A e \in calls' : e = d \/ (e \in calls /\ e # c)
    BY <1>1
  <1>4. (\E e \in calls' : SharedSaving(e)) <=> (\E e \in calls : SharedSaving(e))
    BY <1>1, <1>2, <1>3
  <1>5. \A e, f \in calls' : SharedSaving(e) /\ SharedSaving(f) => e = f
    BY <1>1, <1>2, <1>3 DEF SharedInv
  <1> QED
    BY <1>4, <1>5 DEF SharedInv, SharedSaving

\* The node serves the shared allowlists.
LEMMA SharedServesKeep ==
    ASSUME SharedInv, NEW c \in calls, SharedServes(c)
    PROVE  SharedInv'
  <1>1. CallsInv /\ page' = page /\ ui' = ui
    BY DEF SharedInv, SharedServes
  <1>2. (\E data : Answers(c, data)) \/ Refuses(c)
    BY DEF SharedServes
  <1>3. \E at, data : MovedOne(c, at, data) /\ CallsInv'
    BY <1>1, <1>2, AnswersKeeps, RefusesKeeps
  <1> QED
    BY <1>1, <1>3, SharedMovedKeeps

\* What the administrator does keeps it.
LEMMA SharedUserKeeps ==
    ASSUME SharedInv,
           \/ \E i \in Item : SharedOpenEdit(i) \/ SharedConfirmDelete(i)
           \/ SharedOpenCreate \/ SharedCloseDialog \/ SaveModal \/ SharedDoDelete
    PROVE  SharedInv'
  <1>0. CallsInv /\ "saving" \in DOMAIN ui
    BY DEF SharedInv
  <1>1. CASE \/ \E i \in Item : SharedOpenEdit(i) \/ SharedConfirmDelete(i)
             \/ SharedOpenCreate \/ SharedCloseDialog
    <2>1. Local /\ DOMAIN ui' = DOMAIN ui /\ ui'.saving = ui.saving
      BY <1>0, <1>1 DEF SharedOpenEdit, SharedConfirmDelete, SharedOpenCreate,
                        SharedCloseDialog
    <2>2. CallsInv' /\ page' = page /\ calls' = calls
      BY <1>0, <2>1, SameCallsKeep DEF Local, CallsInv
    <2> QED
      BY <2>1, <2>2, SharedAsideKeeps
  <1>2. CASE SharedDoDelete
    <2>1. /\ page' = page /\ DOMAIN ui' = DOMAIN ui /\ ui'.saving = ui.saving
          /\ Sends(calls, "deleteSharedAllowlist", [id |-> ui.deleteTarget])
      BY <1>0, <1>2 DEF SharedDoDelete, Asks
    <2>2. CallsInv' /\ SentOne(calls, "deleteSharedAllowlist", [id |-> ui.deleteTarget])
      BY <1>0, <2>1, SendsKeeps, SharedOps
    <2>3. \A c \in calls' \ calls : ~SharedSaving(c)
      BY <2>2 DEF SentOne, SharedSaving
    <2> QED
      BY <2>1, <2>2, <2>3, SharedAsideKeeps DEF SentOne
  <1>3. CASE SaveModal
    <2>1. page' = page /\ ~ui.saving /\ ui' = [ui EXCEPT !.saving = TRUE]
      BY <1>3 DEF SaveModal, SharedSaveOffered
    <2>2. \E arg : \/ Sends(calls, "createSharedAllowlist", arg)
                   \/ Sends(calls, "updateSharedAllowlist", arg)
      BY <1>3 DEF SaveModal, Asks
    <2>3. PICK op, arg : /\ op \in {"createSharedAllowlist", "updateSharedAllowlist"}
                         /\ Sends(calls, op, arg)
      BY <2>2
    <2>4. CallsInv' /\ SentOne(calls, op, arg)
      BY <1>0, <2>1, <2>3, SendsKeeps, SharedOps
    <2>5. PICK d : calls' = calls \cup {d} /\ SharedSaving(d)
      BY <2>3, <2>4 DEF SentOne, SharedSaving
    <2>6. \A c \in calls : ~SharedSaving(c)
      BY <2>1 DEF SharedInv
    <2>7. "saving" \in DOMAIN ui' /\ ui'.saving = TRUE
      BY <1>0, <2>1
    <2> QED
      BY <2>1, <2>4, <2>5, <2>6, <2>7 DEF SharedInv, SharedSaving
  <1> QED
    BY <1>1, <1>2, <1>3

\* What the handlers do once they are answered keeps it.
LEMMA SharedHandlersKeep ==
    ASSUME SharedInv, NEW c \in calls, SharedLoaded(c) \/ SharedSaved(c) \/ SharedDeleted(c)
    PROVE  SharedInv'
  <1>0. /\ CallsInv /\ "saving" \in DOMAIN ui /\ page' = page
        /\ SharedSaving(c) => ui.saving /\ \A e \in calls \ {c} : ~SharedSaving(e)
    BY DEF SharedInv, SharedLoaded, SharedSaved, SharedDeleted
  <1>1. ASSUME Done(c), DOMAIN ui' = DOMAIN ui, ui'.saving = (ui.saving /\ ~SharedSaving(c))
        PROVE  SharedInv'
    <2>1. CallsInv' /\ calls' = calls \ {c}
      BY <1>0, <1>1, DoneKeeps DEF Done, CallsInv
    <2> QED
      BY <1>0, <1>1, <2>1 DEF SharedInv, SharedSaving
  <1>2. ASSUME NEW for \in {"save", "delete"}, SharedSaving(c) <=> for = "save",
               Sends(calls \ {c}, "listSharedAllowlists", [for |-> for]),
               DOMAIN ui' = DOMAIN ui, ui'.saving = ui.saving
        PROVE  SharedInv'
    <2>1. CallsInv' /\ SentOne(calls \ {c}, "listSharedAllowlists", [for |-> for])
      BY <1>0, <1>2, SendsKeeps, SharedOps
    <2>2. PICK d : calls' = (calls \ {c}) \cup {d} /\ (SharedSaving(d) <=> for = "save")
      BY <2>1 DEF SentOne, SharedSaving
    <2>3. (\E e \in calls' : SharedSaving(e)) <=> (\E e \in calls : SharedSaving(e))
      BY <1>2, <2>2
    <2>4. \A e, f \in calls' : SharedSaving(e) /\ SharedSaving(f) => e = f
      BY <1>0, <1>2, <2>2 DEF SharedInv
    <2> QED
      BY <1>0, <1>2, <2>1, <2>3, <2>4 DEF SharedInv, SharedSaving
  <1>3. CASE SharedLoaded(c)
    <2>1. /\ c.op = "listSharedAllowlists" /\ Done(c) /\ DOMAIN ui' = DOMAIN ui
          /\ ui'.saving = (ui.saving /\ c.arg.for # "save")
      BY <1>0, <1>3 DEF SharedLoaded, Ended, Ok, Failed
    <2> QED
      BY <1>1, <2>1 DEF SharedSaving
  <1>4. CASE SharedSaved(c)
    <2>1. SharedSaving(c)
      BY <1>4 DEF SharedSaved, Ended, Ok, Failed, SharedSaving
    <2>2. \/ Done(c) /\ ui' = [ui EXCEPT !.saving = FALSE]
          \/ /\ Sends(calls \ {c}, "listSharedAllowlists", [for |-> "save"])
             /\ ui' = [ui EXCEPT !.modal = None, !.loading = TRUE]
      BY <1>4 DEF SharedSaved, Then
    <2>3. DOMAIN ui' = DOMAIN ui /\ (ui'.saving = FALSE \/ ui'.saving = ui.saving)
      BY <1>0, <2>2
    <2> QED
      BY <1>0, <1>1, <1>2, <2>1, <2>2
  <1>5. CASE SharedDeleted(c)
    <2>1. ~SharedSaving(c)
      BY <1>5 DEF SharedDeleted, Ended, Ok, Failed, SharedSaving
    <2>2. /\ Done(c) \/ Sends(calls \ {c}, "listSharedAllowlists", [for |-> "delete"])
          /\ DOMAIN ui' = DOMAIN ui /\ ui'.saving = ui.saving
      BY <1>0, <1>5 DEF SharedDeleted, Then
    <2>3. ui.saving \in BOOLEAN
      BY DEF SharedInv
    <2> QED
      BY <1>1, <1>2, <2>1, <2>2, <2>3
  <1> QED
    BY <1>3, <1>4, <1>5

\* Every step of the page keeps it.
LEMMA SharedKeep == SharedInv /\ SharedNext => SharedInv'
  <1> SUFFICES ASSUME SharedInv, SharedNext PROVE SharedInv'
    OBVIOUS
  <1>1. ASSUME NEW c \in calls, Fails(c) PROVE SharedInv'
    BY <1>1, FailsKeeps, SharedMovedKeeps DEF SharedInv
  <1> QED
    BY <1>1, SharedUserKeeps, SharedHandlersKeep, SharedServesKeep DEF SharedNext

\* What it says of the page.
LEMMA SharedShow == SharedInv => OneSave
  <1> SUFFICES ASSUME SharedInv PROVE OneSave
    OBVIOUS
  <1> DEFINE S == Pending("createSharedAllowlist") \cup Pending("updateSharedAllowlist")
  <1>1. ui.saving = (\E c \in calls :
                      \/ c.op \in {"createSharedAllowlist", "updateSharedAllowlist"}
                      \/ c.op = "listSharedAllowlists" /\ c.arg.for = "save")
    BY DEF SharedInv, SharedSaving
  <1>2. IsFiniteSet(S) /\ \A c, d \in S : c = d
    BY FS_Subset DEF Pending, CallsInv, GoodCalls, SharedInv, SharedSaving
  <1> SUFFICES Cardinality(S) <= 1
    BY <1>1 DEF OneSave
  <1> HIDE DEF S
  <1> QED
    BY <1>2, AtMostOne

-----------------------------------------------------------------------------
(* The settings: their saves, and the restore of an archive.                   *)

StoredSettings == [SettingsKey -> Value \cup {0}]
SettingsStore == [stored : StoredSettings, backups : Nat]
SettingsUi ==
    [form : StoredSettings, dirty : SUBSET Section, saving : SUBSET Section,
     busy : SUBSET DOMAIN Job, edits : Nat, loading : BOOLEAN, settings : BOOLEAN,
     selectedFile : BOOLEAN, restoreConfirm : BOOLEAN, restoring : BOOLEAN,
     restored : {None, "ok", "failed"}, storedBackups : Nat]

SectionSaves == {"patchSettings", "patchBlockPageConfig", "putBackupSettings"}
JobCalls == {"purgeDNSCache", "getDNSCacheStats", "exportConfig", "triggerBackup", "listBackups"}

\* What a call carries, and its answer.
SettingsCall(c) ==
    \/ /\ c.op \in SectionSaves /\ c.arg \in SettingsSaveArg
       /\ c.at = "ok" => c.data.stored \in StoredSettings
    \/ /\ c.op \in {"getSettings", "getBackupSettings"} /\ c.arg = None
       /\ c.at = "ok" => c.data \in SettingsStore
    \/ c.op \in {"importConfig", "getDNSCacheStats"} /\ c.arg = None
    \/ /\ c.op \in JobCalls /\ c.arg \in SettingsJobArg
       /\ c.op = "listBackups" /\ c.at = "ok" => c.data \in SettingsStore

\* What the node has read for it, if it has.
Snapshotted(c) ==
    c.op \in WritesWhole /\ c.at = "sent" => c.data \in StoredSettings \cup {None}

SettingsTyped ==
    /\ page = "settings" /\ CallsInv /\ srv \in SettingsStore /\ ui \in SettingsUi
    /\ \A c \in calls : SettingsCall(c) /\ Snapshotted(c)

\* What loads the page, and what restores an archive: one call after the other.
InChain(c) == c.arg = None
SaveOf(c, s) == c.op \in SectionSaves /\ c.arg.section = s

SettingsMarks(S, view) ==
    /\ \A s \in Section : s \in view.saving <=> \E c \in S : SaveOf(c, s)
    /\ \A s \in Section : \A c, d \in S : SaveOf(c, s) /\ SaveOf(d, s) => c = d
    /\ \A c, d \in S : InChain(c) /\ InChain(d) => c = d
    /\ \A c \in S : InChain(c) /\ ~view.loading =>
          view.restoring /\ c.op \in {"importConfig", "getSettings"}
    /\ view.loading => /\ ~view.restoreConfirm /\ ~view.restoring
                       /\ \A c \in S : InChain(c) /\ c.op # "importConfig"

SettingsInv == SettingsTyped /\ SettingsMarks(calls, ui)

\* The wrappers of the settings.
LEMMA SettingsOps ==
    {"getSettings", "getBackupSettings", "importConfig"} \cup SectionSaves \cup JobCalls
        \subseteq Endpoint
  BY DEF SectionSaves, JobCalls, Endpoint, Mutates, Reads, Changes, AccountAndListCalls,
         ConfigurationCalls, ClientAndAuditCalls, PauseAndWebhookCalls,
         TokenAndDeviceCalls, OtherCalls

\* A call that is none of the chain is a save or of a job, and a save is no job's.
LEMMA SettingsCallKinds ==
    ASSUME NEW c, SettingsCall(c)
    PROVE  /\ c.op \in SectionSaves <=> c.arg # None /\ "section" \in DOMAIN c.arg
           /\ c.op \in SectionSaves => c.arg \in SettingsSaveArg /\ c.arg.section \in Section
           /\ InChain(c) => c.op \in {"getSettings", "getBackupSettings", "importConfig",
                                      "getDNSCacheStats"}
           /\ c.arg \in SettingsJobArg => c.op \in JobCalls /\ ~InChain(c)
           /\ c.op \in {"getSettings", "getBackupSettings", "importConfig"} => InChain(c)
  <1>1. \A a \in SettingsSaveArg :
           a # None /\ "section" \in DOMAIN a /\ a \notin SettingsJobArg /\ a.section \in Section
    BY SettingsAssumption DEF SettingsSaveArg, SettingsJobArg
  <1>2. \A a \in SettingsJobArg : a # None /\ "section" \notin DOMAIN a
    BY SettingsAssumption DEF SettingsJobArg
  <1>3. SectionSaves \cap (JobCalls \cup {"getSettings", "getBackupSettings", "importConfig",
                                          "getDNSCacheStats"}) = {}
    BY DEF SectionSaves, JobCalls
  <1>4. {"getSettings", "getBackupSettings", "importConfig"} \cap (JobCalls \cup SectionSaves) = {}
    BY DEF JobCalls, SectionSaves
  <1>5. None \notin SettingsJobArg
    BY SettingsAssumption
  <1> QED
    BY <1>1, <1>2, <1>3, <1>4, <1>5 DEF SettingsCall, InChain

\* Nothing is under way but the first read.
LEMMA SettingsStart == SettingsInit => SettingsInv
  <1> SUFFICES ASSUME SettingsInit PROVE SettingsInv
    OBVIOUS
  <1>1. /\ CallsInv
        /\ \A c \in calls : c.op = "getSettings" /\ c.arg = None /\ c.at = "sent"
        /\ \A c, d \in calls : c = d
    BY FirstCall, SettingsOps DEF SettingsInit
  <1>2. /\ page = "settings" /\ ui \in SettingsUi /\ srv \in SettingsStore
        /\ ui.saving = {} /\ ~ui.restoreConfirm /\ ~ui.restoring /\ ui.loading
    BY DEF SettingsInit, SettingsUi, SettingsStore, StoredSettings, Value
  <1>3. SettingsTyped
    BY <1>1, <1>2 DEF SettingsTyped, SettingsCall, Snapshotted, WritesWhole
  <1>4. SettingsMarks(calls, ui)
    BY <1>1, <1>2 DEF SettingsMarks, SaveOf, InChain, SectionSaves
  <1> QED
    BY <1>3, <1>4 DEF SettingsInv

\* Forms, marks and dialogs change over the same calls.
LEMMA SettingsFormsKeep ==
    ASSUME SettingsInv, Local, ui' \in SettingsUi, ui'.saving = ui.saving,
           ui'.loading = ui.loading, ui'.restoring = ui.restoring,
           ui.loading => ~ui'.restoreConfirm
    PROVE  SettingsInv'
  <1>1. CallsInv' /\ calls' = calls /\ page' = page /\ srv' = srv
    BY SameCallsKeep DEF SettingsInv, SettingsTyped, Local, CallsInv
  <1>2. SettingsTyped'
    BY <1>1 DEF SettingsInv, SettingsTyped, SettingsCall
  <1>3. SettingsMarks(calls', ui')
    BY <1>1 DEF SettingsInv, SettingsMarks
  <1> QED
    BY <1>1, <1>2, <1>3 DEF SettingsInv

\* Typing, and the dialog of the restore.
LEMMA SettingsUserKeeps ==
    ASSUME SettingsInv,
           \/ \E k \in SettingsKey : MarkDirty(k)
           \/ OnBackupFileSelected \/ OpenRestore \/ CloseRestore
    PROVE  SettingsInv'
  <1>1. ASSUME NEW k \in SettingsKey, MarkDirty(k) PROVE SettingsInv'
    <2>1. PICK v \in Value :
             ui' = [ui EXCEPT !.form[k] = v, !.edits = @ + 1,
                              !.dirty = @ \cup {s \in Section : k \in KeysOf(s)}]
      BY <1>1 DEF MarkDirty
    <2> DEFINE form == [ui.form EXCEPT ![k] = v]
               dirty == ui.dirty \cup {s \in Section : k \in KeysOf(s)}
    <2>2. form \in StoredSettings /\ dirty \in SUBSET Section /\ ui.edits + 1 \in Nat
      BY <1>1 DEF SettingsInv, SettingsTyped, SettingsUi, StoredSettings
    <2>3. ui' = [ui EXCEPT !.form = form, !.edits = ui.edits + 1, !.dirty = dirty]
      BY <2>1 DEF SettingsInv, SettingsTyped, SettingsUi
    <2> HIDE DEF form, dirty
    <2>4. /\ ui' \in SettingsUi /\ ui'.saving = ui.saving /\ ui'.loading = ui.loading
          /\ ui'.restoring = ui.restoring /\ ui'.restoreConfirm = ui.restoreConfirm
      BY <2>2, <2>3 DEF SettingsUi, SettingsInv, SettingsTyped
    <2> QED
      BY <1>1, <2>4, SettingsFormsKeep DEF MarkDirty, SettingsInv, SettingsMarks
  <1>2. CASE OnBackupFileSelected
    <2>1. /\ ui' \in SettingsUi /\ ui'.saving = ui.saving /\ ui'.loading = ui.loading
          /\ ui'.restoring = ui.restoring /\ ui'.restoreConfirm = ui.restoreConfirm
      BY <1>2 DEF OnBackupFileSelected, SettingsInv, SettingsTyped, SettingsUi
    <2> QED
      BY <1>2, <2>1, SettingsFormsKeep DEF OnBackupFileSelected, SettingsInv, SettingsMarks
  <1>3. CASE OpenRestore \/ CloseRestore
    <2>1. /\ ui' \in SettingsUi /\ ui'.saving = ui.saving /\ ui'.loading = ui.loading
          /\ ui'.restoring = ui.restoring /\ (ui.loading => ~ui'.restoreConfirm)
      BY <1>3 DEF OpenRestore, CloseRestore, RestoreOffered, SettingsCovered, SettingsInv,
                  SettingsTyped, SettingsUi
    <2> QED
      BY <1>3, <2>1, SettingsFormsKeep DEF OpenRestore, CloseRestore
  <1> QED
    BY <1>1, <1>2, <1>3

\* One more call, in the place of those that are gone.
LEMMA SettingsSentKeeps ==
    ASSUME SettingsInv, CallsInv', page' = page, srv' = srv, ui' \in SettingsUi,
           NEW rest \in SUBSET calls, NEW op, NEW arg, SentOne(rest, op, arg),
           SettingsCall(Call(1, op, arg)),
           \A d : d.op = op /\ d.arg = arg => SettingsMarks(rest \cup {d}, ui')
    PROVE  SettingsInv'
  <1>1. PICK d : /\ calls' = rest \cup {d} /\ d.op = op /\ d.arg = arg /\ d.at = "sent"
                 /\ d.data = None
    BY DEF SentOne
  <1>2. SettingsCall(d) /\ Snapshotted(d)
    BY <1>1 DEF SettingsCall, Call, Snapshotted
  <1>3. SettingsTyped'
    BY <1>1, <1>2 DEF SettingsInv, SettingsTyped, SettingsCall
  <1> QED
    BY <1>1, <1>3 DEF SettingsInv

\* A Save: one call for its section.
LEMMA SettingsSaveKeeps ==
    ASSUME SettingsInv, NEW s \in Section, NEW op \in SectionSaves,
           ~SettingsCovered, s \notin ui.saving, SettingsSave(s, op)
    PROVE  SettingsInv'
  <1> DEFINE values == [k \in KeysOf(s) |-> ui.form[k]]
             arg == [section |-> s, values |-> values]
  <1>1. values \in [KeysOf(s) -> Value \cup {0}]
    BY DEF SettingsInv, SettingsTyped, SettingsUi, StoredSettings, KeysOf, Section,
           SettingsKey, Settings
  <1>2. /\ page' = page /\ srv' = srv /\ Sends(calls, op, arg)
        /\ ui' = [ui EXCEPT !.saving = ui.saving \cup {s}]
    BY DEF SettingsSave, Asks
  <1>3. arg \in SettingsSaveArg /\ arg.section = s
    <2>1. values \in UNION {[KeysOf(z) -> Value \cup {0}] : z \in Section}
      BY <1>1
    <2> HIDE DEF values
    <2> QED
      BY <2>1 DEF SettingsSaveArg
  <1> HIDE DEF values, arg
  <1>4. SettingsCall(Call(1, op, arg)) /\ op \in Endpoint
    BY <1>3, SettingsOps DEF SettingsCall, Call
  <1>5. CallsInv' /\ SentOne(calls, op, arg)
    BY <1>2, <1>4, SendsKeeps DEF SettingsInv, SettingsTyped
  <1>6. /\ ui' \in SettingsUi /\ ui'.saving = ui.saving \cup {s} /\ ui'.loading = ui.loading
        /\ ui'.restoring = ui.restoring /\ ui'.restoreConfirm = ui.restoreConfirm
        /\ ~ui.loading
    BY <1>2 DEF SettingsUi, SettingsInv, SettingsTyped, SettingsCovered
  <1>7. arg # None
    BY <1>3, SettingsAssumption
  <1>8. ASSUME NEW d, d.op = op, d.arg = arg PROVE SettingsMarks(calls \cup {d}, ui')
    <2>1. ~InChain(d) /\ \A z \in Section : SaveOf(d, z) <=> z = s
      BY <1>3, <1>7, <1>8 DEF InChain, SaveOf
    <2>2. \A c \in calls : ~SaveOf(c, s)
      BY DEF SettingsInv, SettingsMarks
    <2> QED
      BY <1>6, <2>1, <2>2 DEF SettingsInv, SettingsMarks
  <1> QED
    BY <1>2, <1>4, <1>5, <1>6, <1>8, SettingsSentKeeps

\* A call is gone, and the marks are those of the calls that are left.
LEMMA SettingsDoneKeeps ==
    ASSUME SettingsInv, NEW c \in calls, Done(c), page' = page, srv' = srv,
           ui' \in SettingsUi, SettingsMarks(calls \ {c}, ui')
    PROVE  SettingsInv'
  <1>1. CallsInv' /\ calls' = calls \ {c}
    BY DoneKeeps DEF SettingsInv, SettingsTyped, Done, CallsInv
  <1>2. SettingsTyped'
    BY <1>1 DEF SettingsInv, SettingsTyped, SettingsCall
  <1> QED
    BY <1>1, <1>2 DEF SettingsInv

\* What an answer makes of the forms leaves the marks of the calls alone.
LEMMA SettingsApplied ==
    ASSUME NEW u \in SettingsUi, NEW values \in StoredSettings
    PROVE  /\ ApplySettings(u, values) \in SettingsUi
           /\ ApplySettings(u, values).saving = u.saving
           /\ ApplySettings(u, values).loading = u.loading
           /\ ApplySettings(u, values).restoring = u.restoring
           /\ ApplySettings(u, values).restoreConfirm = u.restoreConfirm
           /\ ApplyBlockPage(u, values) \in SettingsUi
           /\ ApplyBlockPage(u, values).saving = u.saving
           /\ ApplyBlockPage(u, values).loading = u.loading
           /\ ApplyBlockPage(u, values).restoring = u.restoring
           /\ ApplyBlockPage(u, values).restoreConfirm = u.restoreConfirm
  <1> DEFINE all == [k \in SettingsKey |-> IF k \in Settings THEN values[k] ELSE u.form[k]]
             one == [u.form EXCEPT !["block_page"] = values["block_page"]]
             left == u.dirty \ {"dns", "filtering", "query_log", "auth"}
             rest == u.dirty \ {"block_page"}
  <1>1. /\ all \in StoredSettings /\ one \in StoredSettings
        /\ left \in SUBSET Section /\ rest \in SUBSET Section
    BY DEF SettingsUi, StoredSettings, SettingsKey
  <1>2. /\ ApplySettings(u, values) = [u EXCEPT !.settings = TRUE, !.form = all, !.dirty = left]
        /\ ApplyBlockPage(u, values) = [u EXCEPT !.form = one, !.dirty = rest]
    BY DEF ApplySettings, ApplyBlockPage, SettingsUi
  <1> HIDE DEF all, one, left, rest
  <1> QED
    BY <1>1, <1>2 DEF SettingsUi

\* One call of the chain is followed by the next.
LEMMA SettingsChainKeeps ==
    ASSUME SettingsInv, NEW c \in calls, InChain(c), page' = page, srv' = srv,
           NEW op \in {"getSettings", "getBackupSettings", "getDNSCacheStats"},
           Then(c, op, None) \/ ThenAside(c, op, None),
           ui' \in SettingsUi, ui'.saving = ui.saving, ui'.loading = ui.loading,
           ui'.restoring = ui.restoring, ui'.restoreConfirm = ui.restoreConfirm,
           ui.loading \/ op = "getSettings"
    PROVE  SettingsInv'
  <1> DEFINE rest == calls \ {c}
  <1>1. op \in Endpoint /\ rest \in SUBSET calls
    BY SettingsOps DEF JobCalls
  <1>2. CallsInv' /\ SentOne(rest, op, None)
    BY <1>1, SendsKeeps, AddsAsideKeeps DEF Then, ThenAside, SettingsInv, SettingsTyped
  <1>3. SettingsCall(Call(1, op, None))
    BY DEF SettingsCall, Call
  <1>4. ASSUME NEW d, d.op = op, d.arg = None PROVE SettingsMarks(rest \cup {d}, ui')
    <2>1. InChain(d) /\ d.op # "importConfig" /\ \A z \in Section : ~SaveOf(d, z)
      BY <1>4 DEF InChain, SaveOf, SectionSaves
    <2>2. \A z \in Section : ~SaveOf(c, z)
      BY SettingsCallKinds DEF SettingsInv, SettingsTyped, InChain, SaveOf
    <2>3. \A x \in rest : ~InChain(x)
      BY DEF SettingsInv, SettingsMarks
    <2> QED
      BY <1>4, <2>1, <2>2, <2>3 DEF SettingsInv, SettingsMarks
  <1> QED
    BY <1>1, <1>2, <1>3, <1>4, SettingsSentKeeps

\* The chain ends, of the load or of the restore.
LEMMA SettingsChainEnds ==
    ASSUME SettingsInv, NEW c \in calls, InChain(c), page' = page, srv' = srv, Done(c),
           ui' \in SettingsUi, ui'.saving = ui.saving, ~ui'.loading,
           ui'.restoreConfirm = ui.restoreConfirm
    PROVE  SettingsInv'
  <1>1. \A z \in Section : ~SaveOf(c, z)
    BY SettingsCallKinds DEF SettingsInv, SettingsTyped, InChain, SaveOf
  <1>2. \A x \in calls \ {c} : ~InChain(x)
    BY DEF SettingsInv, SettingsMarks
  <1>3. SettingsMarks(calls \ {c}, ui')
    BY <1>1, <1>2 DEF SettingsInv, SettingsMarks
  <1> QED
    BY <1>3, SettingsDoneKeeps

\* What is read when the page is opened.
LEMMA SettingsLoadKeeps ==
    ASSUME SettingsInv, NEW c \in calls,
           SettingsLoaded(c) \/ LoadBackupData(c) \/ BackupDataLoaded(c)
    PROVE  SettingsInv'
  <1>0. /\ SettingsCall(c) /\ ui \in SettingsUi /\ page' = page /\ srv' = srv
        /\ ui.loading => InChain(c)
    BY DEF SettingsInv, SettingsTyped, SettingsMarks, SettingsLoaded, LoadBackupData,
           BackupDataLoaded
  <1>1. CASE SettingsLoaded(c)
    <2>1. ui.loading /\ c.op = "getSettings" /\ c.at \in {"ok", "failed"}
      BY <1>1 DEF SettingsLoaded, Ended, Ok, Failed
    <2>2. CASE ui' = [ui EXCEPT !.loading = FALSE] /\ Done(c)
      <3>1. /\ ui' \in SettingsUi /\ ui'.saving = ui.saving /\ ~ui'.loading
            /\ ui'.restoreConfirm = ui.restoreConfirm
        BY <1>0, <2>2 DEF SettingsUi
      <3> QED
        BY <1>0, <2>1, <2>2, <3>1, SettingsChainEnds
    <2>3. CASE /\ c.at = "ok"
               /\ ui' = ApplyBlockPage(ApplySettings(ui, c.data.stored), c.data.stored)
               /\ ThenAside(c, "getDNSCacheStats", None)
      <3>1. c.data.stored \in StoredSettings
        BY <1>0, <2>1, <2>3 DEF SettingsCall, SettingsStore, SectionSaves, JobCalls
      <3>2. /\ ui' \in SettingsUi /\ ui'.saving = ui.saving /\ ui'.loading = ui.loading
            /\ ui'.restoring = ui.restoring /\ ui'.restoreConfirm = ui.restoreConfirm
        BY <1>0, <2>3, <3>1, SettingsApplied
      <3> QED
        BY <1>0, <2>1, <2>3, <3>2, SettingsChainKeeps
    <2> QED
      BY <1>1, <2>2, <2>3 DEF SettingsLoaded
  <1>2. CASE LoadBackupData(c)
    BY <1>0, <1>2, SettingsChainKeeps DEF LoadBackupData
  <1>3. CASE BackupDataLoaded(c)
    <2>1. c.op = "getBackupSettings" /\ c.at \in {"ok", "failed"} /\ Done(c)
      BY <1>3 DEF BackupDataLoaded, Ended, Ok, Failed
    <2>2. InChain(c) /\ (c.at = "ok" => c.data \in SettingsStore)
      BY <1>0, <2>1 DEF SettingsCall, SectionSaves, JobCalls, InChain
    <2>3. CASE c.at = "failed"
      <3>1. ui' = [ui EXCEPT !.loading = FALSE]
        BY <1>3, <2>3 DEF BackupDataLoaded
      <3>2. /\ ui' \in SettingsUi /\ ui'.saving = ui.saving /\ ~ui'.loading
            /\ ui'.restoreConfirm = ui.restoreConfirm
        BY <1>0, <3>1 DEF SettingsUi
      <3> QED
        BY <1>0, <2>1, <2>2, <3>2, SettingsChainEnds
    <2>4. CASE c.at = "ok"
      <3> DEFINE form == [ui.form EXCEPT !["backup"] = c.data.stored["backup"]]
      <3>1. form \in StoredSettings /\ c.data.backups \in Nat
        BY <1>0, <2>2, <2>4 DEF SettingsUi, SettingsStore, StoredSettings, SettingsKey
      <3>2. ui' = [ui EXCEPT !.loading = FALSE, !.form = form,
                             !.storedBackups = c.data.backups]
        BY <1>0, <1>3, <2>4 DEF BackupDataLoaded, SettingsUi
      <3> HIDE DEF form
      <3>3. /\ ui' \in SettingsUi /\ ui'.saving = ui.saving /\ ~ui'.loading
            /\ ui'.restoreConfirm = ui.restoreConfirm
        BY <1>0, <3>1, <3>2 DEF SettingsUi
      <3> QED
        BY <1>0, <2>1, <2>2, <3>3, SettingsChainEnds
    <2> QED
      BY <2>1, <2>3, <2>4
  <1> QED
    BY <1>1, <1>2, <1>3

\* The answer of a Save takes its mark away.
LEMMA SavedSectionKeeps ==
    ASSUME SettingsInv, NEW c \in calls, SavedSection(c)
    PROVE  SettingsInv'
  <1> DEFINE s == c.arg.section
             u == [ui EXCEPT !.saving = ui.saving \ {s}]
  <1>1. /\ c.op \in SectionSaves /\ c.at \in {"ok", "failed"} /\ Done(c)
        /\ page' = page /\ srv' = srv
    BY DEF SavedSection, Ended, Ok, Failed, SectionSaves
  <1>2. ui \in SettingsUi /\ SettingsCall(c)
    BY DEF SettingsInv, SettingsTyped
  <1>3. c.arg \in SettingsSaveArg /\ s \in Section /\ ~InChain(c)
    BY <1>1, <1>2, SettingsCallKinds DEF InChain
  <1>4. /\ u \in SettingsUi /\ u.saving = ui.saving \ {s} /\ u.loading = ui.loading
        /\ u.restoring = ui.restoring /\ u.restoreConfirm = ui.restoreConfirm
    BY <1>2 DEF SettingsUi
  <1>5. c.at = "ok" => c.data.stored \in StoredSettings
    BY <1>1, <1>2 DEF SettingsCall, SectionSaves, JobCalls
  <1>6. /\ ui' \in SettingsUi /\ ui'.saving = ui.saving \ {s} /\ ui'.loading = ui.loading
        /\ ui'.restoring = ui.restoring /\ ui'.restoreConfirm = ui.restoreConfirm
    <2>1. \/ ui' = u
          \/ c.at = "ok" /\ ui' = ApplySettings(u, c.data.stored)
          \/ c.at = "ok" /\ ui' = ApplyBlockPage(u, c.data.stored)
          \/ /\ c.at = "ok"
             /\ ui' = [u EXCEPT !.form["backup"] = c.data.stored["backup"],
                                !.dirty = @ \ {"backup"}]
      BY DEF SavedSection
    <2> HIDE DEF u
    <2>2. CASE /\ c.at = "ok"
               /\ ui' = [u EXCEPT !.form["backup"] = c.data.stored["backup"],
                                  !.dirty = @ \ {"backup"}]
      <3> DEFINE form == [u.form EXCEPT !["backup"] = c.data.stored["backup"]]
                 dirty == u.dirty \ {"backup"}
      <3>1. form \in StoredSettings /\ dirty \in SUBSET Section
        BY <1>4, <1>5, <2>2 DEF SettingsUi, StoredSettings, SettingsKey
      <3>2. ui' = [u EXCEPT !.form = form, !.dirty = dirty]
        BY <1>4, <2>2 DEF SettingsUi
      <3> HIDE DEF form, dirty
      <3> QED
        BY <1>4, <3>1, <3>2 DEF SettingsUi
    <2> QED
      BY <1>4, <1>5, <2>1, <2>2, SettingsApplied
  <1>7. SaveOf(c, s) /\ \A z \in Section : SaveOf(c, z) <=> z = s
    BY <1>1 DEF SaveOf
  <1>8. \A d \in calls \ {c} : ~SaveOf(d, s)
    BY <1>3, <1>7 DEF SettingsInv, SettingsMarks
  <1>9. SettingsMarks(calls \ {c}, ui')
    BY <1>3, <1>6, <1>7, <1>8 DEF SettingsInv, SettingsMarks
  <1> QED
    BY <1>1, <1>6, <1>9, SettingsDoneKeeps

\* The calls of a job are those of no section and none of the chain.
LEMMA SettingsJobs ==
    ASSUME NEW j \in DOMAIN Job
    PROVE  /\ Head(Job[j]) \in JobCalls /\ Job[j][Len(Job[j])] \in JobCalls
           /\ [job |-> j] \in SettingsJobArg
  BY DEF Job, JobCalls, SettingsJobArg

\* A call of a job is sent while those of rest are under way, none but such calls gone.
LEMMA SettingsJobSentKeeps ==
    ASSUME SettingsInv, NEW rest \in SUBSET calls, page' = page, srv' = srv,
           NEW op \in JobCalls, NEW arg \in SettingsJobArg, AddsAside(rest, op, arg),
           \A c \in calls \ rest : c.arg \in SettingsJobArg,
           ui' \in SettingsUi, ui'.saving = ui.saving, ui'.loading = ui.loading,
           ui'.restoring = ui.restoring, ui'.restoreConfirm = ui.restoreConfirm, ~ui.loading
    PROVE  SettingsInv'
  <1>1. CallsInv' /\ SentOne(rest, op, arg)
    BY AddsAsideKeeps, SettingsOps DEF SettingsInv, SettingsTyped
  <1>2. SettingsCall(Call(1, op, arg))
    BY DEF SettingsCall, Call
  <1>3. ASSUME NEW d, d.op = op, d.arg = arg PROVE SettingsMarks(rest \cup {d}, ui')
    <2>1. ~InChain(d) /\ \A z \in Section : ~SaveOf(d, z)
      BY <1>3, SettingsAssumption DEF InChain, SaveOf, JobCalls, SectionSaves
    <2>2. \A c \in calls \ rest : ~InChain(c) /\ \A z \in Section : ~SaveOf(c, z)
      BY SettingsCallKinds, SettingsAssumption
         DEF SettingsInv, SettingsTyped, InChain, SaveOf, JobCalls, SectionSaves
    <2> QED
      BY <2>1, <2>2 DEF SettingsInv, SettingsMarks
  <1> QED
    BY <1>1, <1>2, <1>3, SettingsSentKeeps

\* The jobs.
LEMMA SettingsJobKeeps ==
    ASSUME SettingsInv,
           OnPurgeCache \/ DownloadBackup \/ DoTriggerBackup \/ \E c \in calls : JobStep(c)
    PROVE  SettingsInv'
  <1>0. ui \in SettingsUi
    BY DEF SettingsInv, SettingsTyped
  <1>1. CASE OnPurgeCache \/ DownloadBackup \/ DoTriggerBackup
    <2>1. PICK j \in DOMAIN Job : StartJob(j) /\ ~ui.loading
      BY <1>1 DEF OnPurgeCache, DownloadBackup, DoTriggerBackup, PurgeOffered,
                  ExportOffered, TriggerOffered, SettingsCovered, Job
    <2>2. /\ ui' = [ui EXCEPT !.busy = ui.busy \cup {j}] /\ page' = page /\ srv' = srv
          /\ AddsAside(calls, Head(Job[j]), [job |-> j])
      BY <2>1 DEF StartJob, AsksAside
    <2>3. /\ ui' \in SettingsUi /\ ui'.saving = ui.saving /\ ui'.loading = ui.loading
          /\ ui'.restoring = ui.restoring /\ ui'.restoreConfirm = ui.restoreConfirm
      BY <1>0, <2>2 DEF SettingsUi
    <2> QED
      BY <2>1, <2>2, <2>3, SettingsJobs, SettingsJobSentKeeps
  <1>2. ASSUME NEW c \in calls, JobStep(c) PROVE SettingsInv'
    <2> DEFINE last == Job[c.arg.job][Len(Job[c.arg.job])]
    <2>1. /\ c.arg \in SettingsJobArg /\ c.at # "sent" /\ page' = page /\ srv' = srv
          /\ SettingsCall(c) /\ c.at \in {"sent", "ok", "failed"}
      BY <1>2 DEF JobStep, SettingsJobArg, SettingsInv, SettingsTyped, CallsInv, GoodCalls,
                  CallOK
    <2>2. last \in JobCalls /\ c.arg.job \in DOMAIN Job /\ c.op \in JobCalls /\ ~InChain(c)
      BY <2>1, SettingsJobs, SettingsCallKinds DEF SettingsJobArg
    <2>3. \/ c.at = "ok" /\ ThenAside(c, last, c.arg) /\ ui' = ui
          \/ /\ ui' = [ui EXCEPT !.busy = @ \ {c.arg.job},
                          !.storedBackups = IF c.at = "ok" /\ c.op = "listBackups"
                                            THEN c.data.backups ELSE @]
             /\ Done(c)
      BY <1>2 DEF JobStep
    <2> HIDE DEF last
    <2>4. ~ui.loading
      BY <2>2 DEF SettingsInv, SettingsMarks
    <2>5. CASE ThenAside(c, last, c.arg) /\ ui' = ui
      BY <1>0, <2>1, <2>2, <2>4, <2>5, SettingsJobSentKeeps DEF ThenAside
    <2>6. CASE /\ ui' = [ui EXCEPT !.busy = @ \ {c.arg.job},
                            !.storedBackups = IF c.at = "ok" /\ c.op = "listBackups"
                                              THEN c.data.backups ELSE @]
               /\ Done(c)
      <3>1. c.at = "ok" /\ c.op = "listBackups" => c.data.backups \in Nat
        BY <2>1 DEF SettingsCall, SettingsStore, SectionSaves
      <3>2. /\ ui' \in SettingsUi /\ ui'.saving = ui.saving /\ ui'.loading = ui.loading
            /\ ui'.restoring = ui.restoring /\ ui'.restoreConfirm = ui.restoreConfirm
        BY <1>0, <2>6, <3>1 DEF SettingsUi
      <3>3. \A z \in Section : ~SaveOf(c, z)
        BY <2>2 DEF SaveOf, JobCalls, SectionSaves
      <3>4. SettingsMarks(calls \ {c}, ui')
        BY <2>2, <3>2, <3>3 DEF SettingsInv, SettingsMarks
      <3> QED
        BY <2>1, <2>6, <3>2, <3>4, SettingsDoneKeeps
    <2> QED
      BY <2>3, <2>5, <2>6
  <1> QED
    BY <1>1, <1>2

\* The restore, and the read that follows it.
LEMMA SettingsRestoreKeeps ==
    ASSUME SettingsInv, DoRestore \/ \E c \in calls : Restored(c) \/ RestoreRead(c)
    PROVE  SettingsInv'
  <1>0. ui \in SettingsUi
    BY DEF SettingsInv, SettingsTyped
  <1>1. CASE DoRestore
    <2>1. /\ page' = page /\ srv' = srv /\ Sends(calls, "importConfig", None)
          /\ ui' = [ui EXCEPT !.restoreConfirm = FALSE, !.restoring = TRUE, !.restored = None]
          /\ ui.restoreConfirm /\ ~ui.restoring
      BY <1>1 DEF DoRestore, Asks
    <2>2. CallsInv' /\ SentOne(calls, "importConfig", None)
      BY <2>1, SendsKeeps, SettingsOps DEF SettingsInv, SettingsTyped
    <2>3. /\ ui' \in SettingsUi /\ ui'.saving = ui.saving /\ ui'.loading = ui.loading
          /\ ui'.restoring /\ ~ui.loading
      BY <1>0, <2>1 DEF SettingsUi, SettingsInv, SettingsMarks
    <2>4. \A c \in calls : ~InChain(c)
      BY <2>1, <2>3 DEF SettingsInv, SettingsMarks
    <2>5. SettingsCall(Call(1, "importConfig", None))
      BY DEF SettingsCall, Call
    <2>6. ASSUME NEW d, d.op = "importConfig", d.arg = None
          PROVE SettingsMarks(calls \cup {d}, ui')
      <3>1. InChain(d) /\ \A z \in Section : ~SaveOf(d, z)
        BY <2>6 DEF InChain, SaveOf, SectionSaves
      <3> QED
        BY <2>3, <2>4, <2>6, <3>1 DEF SettingsInv, SettingsMarks
    <2> QED
      BY <2>1, <2>2, <2>3, <2>5, <2>6, SettingsSentKeeps
  <1>2. ASSUME NEW c \in calls, Restored(c) PROVE SettingsInv'
    <2>1. /\ c.op = "importConfig" /\ page' = page /\ srv' = srv /\ SettingsCall(c)
      BY <1>2 DEF Restored, Ended, Ok, Failed, SettingsInv, SettingsTyped
    <2>2. InChain(c) /\ ~ui.loading
      BY <2>1, SettingsCallKinds DEF SettingsInv, SettingsMarks
    <2>3. CASE Then(c, "getSettings", None) /\ ui' = [ui EXCEPT !.selectedFile = FALSE]
      <3>1. /\ ui' \in SettingsUi /\ ui'.saving = ui.saving /\ ui'.loading = ui.loading
            /\ ui'.restoring = ui.restoring /\ ui'.restoreConfirm = ui.restoreConfirm
        BY <1>0, <2>3 DEF SettingsUi
      <3> QED
        BY <2>1, <2>2, <2>3, <3>1, SettingsChainKeeps
    <2>4. CASE Done(c) /\ ui' = [ui EXCEPT !.restoring = FALSE, !.restored = "failed"]
      <3>1. /\ ui' \in SettingsUi /\ ui'.saving = ui.saving /\ ui'.loading = ui.loading
            /\ ui'.restoreConfirm = ui.restoreConfirm
        BY <1>0, <2>4 DEF SettingsUi
      <3> QED
        BY <2>1, <2>2, <2>4, <3>1, SettingsChainEnds
    <2> QED
      BY <1>2, <2>3, <2>4 DEF Restored
  <1>3. ASSUME NEW c \in calls, RestoreRead(c) PROVE SettingsInv'
    <2>1. /\ c.op = "getSettings" /\ page' = page /\ srv' = srv /\ SettingsCall(c)
          /\ ui.restoring /\ Done(c) /\ c.at \in {"ok", "failed"}
      BY <1>3 DEF RestoreRead, Ended, Ok, Failed, SettingsInv, SettingsTyped
    <2>2. /\ InChain(c) /\ ~ui.loading
          /\ c.at = "ok" => c.data.stored \in StoredSettings
      BY <2>1, SettingsCallKinds DEF SettingsInv, SettingsMarks, SettingsCall, SettingsStore,
                                     SectionSaves, JobCalls
    <2> DEFINE u == ApplyBlockPage(ApplySettings(ui, c.data.stored), c.data.stored)
    <2>3. \/ ui' = [ui EXCEPT !.restoring = FALSE, !.restored = "failed"]
          \/ c.at = "ok" /\ ui' = [u EXCEPT !.restoring = FALSE, !.restored = "ok"]
      BY <1>3, <2>1 DEF RestoreRead
    <2>4. c.at = "ok" => /\ u \in SettingsUi /\ u.saving = ui.saving
                         /\ u.loading = ui.loading
                         /\ u.restoreConfirm = ui.restoreConfirm
      BY <1>0, <2>2, SettingsApplied
    <2> HIDE DEF u
    <2>5. /\ ui' \in SettingsUi /\ ui'.saving = ui.saving /\ ui'.loading = ui.loading
          /\ ui'.restoreConfirm = ui.restoreConfirm
      BY <1>0, <2>3, <2>4 DEF SettingsUi
    <2> QED
      BY <2>1, <2>2, <2>5, SettingsChainEnds
  <1> QED
    BY <1>1, <1>2, <1>3

\* The node answers one call, or it fails: the marks are of the same calls.
LEMMA SettingsMovedKeeps ==
    ASSUME SettingsInv, NEW c \in calls, NEW at, NEW data, MovedOne(c, at, data), CallsInv',
           page' = page, ui' = ui, srv' \in SettingsStore,
           \A d : d.op = c.op /\ d.arg = c.arg /\ d.at = at /\ d.data = data
                  => SettingsCall(d) /\ Snapshotted(d)
    PROVE  SettingsInv'
  <1>1. PICK d : /\ calls' = (calls \ {c}) \cup {d} /\ d.op = c.op /\ d.arg = c.arg
                 /\ d.at = at /\ d.data = data
    BY DEF MovedOne
  <1>2. SettingsTyped'
    BY <1>1 DEF SettingsInv, SettingsTyped, SettingsCall
  <1>3. InChain(d) <=> InChain(c)
    BY <1>1 DEF InChain
  <1>4. \A z \in Section : SaveOf(d, z) <=> SaveOf(c, z)
    BY <1>1 DEF SaveOf
  <1>5. SettingsMarks(calls', ui')
    <2>1. \A s \in Section : s \in ui.saving <=> \E x \in calls' : SaveOf(x, s)
      BY <1>1, <1>4 DEF SettingsInv, SettingsMarks
    <2>2. \A s \in Section : \A x, y \in calls' : SaveOf(x, s) /\ SaveOf(y, s) => x = y
      BY <1>1, <1>4 DEF SettingsInv, SettingsMarks
    <2>3. \A x, y \in calls' : InChain(x) /\ InChain(y) => x = y
      BY <1>1, <1>3 DEF SettingsInv, SettingsMarks
    <2>4. \A x \in calls' : InChain(x) /\ ~ui.loading =>
             ui.restoring /\ x.op \in {"importConfig", "getSettings"}
      BY <1>1, <1>3 DEF SettingsInv, SettingsMarks
    <2>5. ui.loading => /\ ~ui.restoreConfirm /\ ~ui.restoring
                        /\ \A x \in calls' : InChain(x) /\ x.op # "importConfig"
      BY <1>1, <1>3 DEF SettingsInv, SettingsMarks
    <2> QED
      BY <2>1, <2>2, <2>3, <2>4, <2>5 DEF SettingsMarks
  <1> QED
    BY <1>2, <1>5 DEF SettingsInv

\* The node.
LEMMA SettingsServesKeeps ==
    ASSUME SettingsInv, NEW c \in calls, SettingsServes(c) \/ Fails(c)
    PROVE  SettingsInv'
  <1>0. SettingsCall(c) /\ srv \in SettingsStore /\ CallsInv
    BY DEF SettingsInv, SettingsTyped
  <1>1. CASE Fails(c)
    <2>1. /\ MovedOne(c, "failed", None) /\ CallsInv' /\ page' = page /\ ui' = ui
          /\ srv' = srv
      BY <1>0, <1>1, FailsKeeps
    <2> QED
      BY <1>0, <2>1, SettingsMovedKeeps DEF SettingsCall, Snapshotted
  <1>2. ASSUME page' = page, ui' = ui, NEW data, Answers(c, data), srv' \in SettingsStore,
               c.op \in SectionSaves => data.stored \in StoredSettings,
               c.op \in {"getSettings", "getBackupSettings", "listBackups"}
                  => data \in SettingsStore
        PROVE  SettingsInv'
    <2>1. MovedOne(c, "ok", data) /\ CallsInv'
      BY <1>0, <1>2, AnswersKeeps
    <2>2. ASSUME NEW d, d.op = c.op, d.arg = c.arg, d.at = "ok", d.data = data
          PROVE SettingsCall(d) /\ Snapshotted(d)
      BY <1>0, <1>2, <2>2 DEF SettingsCall, Snapshotted
    <2> QED
      BY <1>2, <2>1, <2>2, SettingsMovedKeeps
  <1>3. CASE /\ c.op \in {"getSettings", "getBackupSettings", "listBackups"}
             /\ Answers(c, srv) /\ UNCHANGED <<srv, page, ui>>
    BY <1>0, <1>2, <1>3 DEF SectionSaves
  <1>p. ASSUME NEW stored \in StoredSettings, c.op \in SectionSaves
        PROVE  SettingsPatched(c, stored) \in StoredSettings
    <2>1. PICK s \in Section : c.arg.values \in [KeysOf(s) -> Value \cup {0}]
      BY <1>0, <1>p, SettingsCallKinds DEF SettingsSaveArg
    <2> QED
      BY <1>p, <2>1 DEF SettingsPatched, StoredSettings
  <1>s. ASSUME page' = page, ui' = ui, c.at = "sent", SettingsSnapshot(c) PROVE SettingsInv'
    <2>1. /\ calls' = (calls \ {c}) \cup {[c EXCEPT !.data = srv.stored]}
          /\ UNCHANGED <<srv, writes, crossed>> /\ c.op \in WritesWhole
      BY <1>s DEF SettingsSnapshot
    <2>2. CallOK(c) /\ c.at = "sent"
      BY <1>0, <1>s DEF CallsInv, GoodCalls
    <2>3. [c EXCEPT !.data = srv.stored] = [c EXCEPT !.at = "sent", !.data = srv.stored]
      BY <2>2 DEF CallOK
    <2>4. MovedOne(c, "sent", srv.stored) /\ CallsInv'
      BY <1>0, <1>s, <2>1, <2>3, MovedKeeps DEF CallsInv
    <2>5. srv.stored \in StoredSettings
      BY <1>0 DEF SettingsStore
    <2>6. ASSUME NEW d, d.op = c.op, d.arg = c.arg, d.at = "sent", d.data = srv.stored
          PROVE SettingsCall(d) /\ Snapshotted(d)
      BY <1>0, <2>1, <2>5, <2>6 DEF SettingsCall, Snapshotted, WritesWhole, JobCalls
    <2> QED
      BY <1>0, <1>s, <2>1, <2>4, <2>6, SettingsMovedKeeps
  <1>i. ASSUME page' = page, ui' = ui, c.at = "sent", SettingsImport(c) PROVE SettingsInv'
    <2> DEFINE edited == SettingsEdited(c)
               stored == [edited EXCEPT !["backup"] = srv.stored["backup"]]
               answer == [stored EXCEPT !["auth"] = 0]
    <2>1. /\ c.op \in WritesWhole /\ c.data # None /\ srv' = [srv EXCEPT !.stored = stored]
          /\ \/ c.op = "importConfig" /\ Answers(c, None)
             \/ c.op # "importConfig" /\ Answers(c, [stored |-> [srv'.stored EXCEPT !["auth"] = 0]])
      BY <1>i DEF SettingsImport
    <2>2. c.data \in StoredSettings /\ srv.stored \in StoredSettings
      BY <1>0, <1>i, <2>1 DEF SettingsInv, SettingsTyped, Snapshotted, SettingsStore
    <2>3. edited \in StoredSettings
      <3>1. c.op # "importConfig" => c.op \in SectionSaves
        BY <2>1 DEF WritesWhole, SectionSaves
      <3>2. c.op = "importConfig" => edited \in StoredSettings
        BY <2>2 DEF SettingsEdited, StoredSettings, SettingsKey, Settings, Value
      <3> QED
        BY <1>p, <2>2, <3>1, <3>2 DEF SettingsEdited
    <2> HIDE DEF edited
    <2>4. stored \in StoredSettings /\ answer \in StoredSettings
      BY <2>2, <2>3 DEF StoredSettings, SettingsKey
    <2> HIDE DEF stored
    <2>5. srv' \in SettingsStore /\ srv'.stored = stored
      BY <1>0, <2>1, <2>4 DEF SettingsStore
    <2>6. CASE c.op = "importConfig"
      BY <1>2, <1>i, <2>1, <2>5, <2>6 DEF SectionSaves
    <2>7. CASE c.op # "importConfig"
      <3>1. Answers(c, [stored |-> answer])
        BY <2>1, <2>5, <2>7
      <3>2. c.op \notin {"getSettings", "getBackupSettings", "listBackups"}
        BY <2>1 DEF WritesWhole
      <3> HIDE DEF answer
      <3> QED
        BY <1>2, <1>i, <2>4, <2>5, <3>1, <3>2
    <2> QED
      BY <2>6, <2>7
  <1>4. CASE /\ c.op = "putBackupSettings" /\ UNCHANGED <<page, ui>>
             /\ srv' = [srv EXCEPT !.stored = SettingsPatched(c, srv.stored)]
             /\ Answers(c, [stored |-> srv'.stored])
    <2>1. SettingsPatched(c, srv.stored) \in StoredSettings
      BY <1>0, <1>4, <1>p DEF SettingsStore, SectionSaves
    <2>2. srv' \in SettingsStore /\ srv'.stored \in StoredSettings
      BY <1>0, <1>4, <2>1 DEF SettingsStore
    <2> QED
      BY <1>2, <1>4, <2>2 DEF SectionSaves
  <1>5. CASE /\ c.op \in {"purgeDNSCache", "getDNSCacheStats", "exportConfig"}
             /\ Answers(c, None) /\ UNCHANGED <<srv, page, ui>>
    BY <1>0, <1>2, <1>5 DEF SectionSaves
  <1>6. CASE /\ c.op = "triggerBackup" /\ Answers(c, None) /\ UNCHANGED <<page, ui>>
             /\ \E n \in {0, 1} : srv' = [srv EXCEPT !.backups = @ + n]
    <2>1. srv' \in SettingsStore
      BY <1>0, <1>6 DEF SettingsStore
    <2> QED
      BY <1>2, <1>6, <2>1 DEF SectionSaves
  <1> QED
    BY <1>1, <1>3, <1>s, <1>i, <1>4, <1>5, <1>6 DEF SettingsServes

\* Every step of the view.
LEMMA SettingsKeep == SettingsInv /\ SettingsNext => SettingsInv'
  <1> SUFFICES ASSUME SettingsInv, SettingsNext PROVE SettingsInv'
    OBVIOUS
  <1>1. CASE SaveDns \/ SaveFiltering \/ SaveQueryLog \/ SaveSessionTimeout
             \/ SaveBlockPage \/ SaveBackupSchedule
    <2>1. \E s \in Section, op \in SectionSaves :
             ~SettingsCovered /\ s \notin ui.saving /\ SettingsSave(s, op)
      BY <1>1 DEF SaveDns, SaveFiltering, SaveQueryLog, SaveSessionTimeout, SaveBlockPage,
                  SaveBackupSchedule, DnsSaveOffered, FilteringSaveOffered,
                  QueryLogSaveOffered, SessionTimeoutSaveOffered, BlockPageSaveOffered,
                  ScheduleSaveOffered, Section, SectionSaves
    <2> QED
      BY <2>1, SettingsSaveKeeps
  <1> QED
    BY <1>1, SettingsUserKeeps, SettingsLoadKeeps, SavedSectionKeeps, SettingsJobKeeps,
       SettingsRestoreKeeps, SettingsServesKeeps DEF SettingsNext

\* What the run checks of this view.
LEMMA SettingsShow == SettingsInv => OneSaveEach
  <1> SUFFICES ASSUME SettingsInv PROVE OneSaveEach
    OBVIOUS
  <1> DEFINE Of(s) == {c \in calls : /\ c.arg # None /\ "section" \in DOMAIN c.arg
                                     /\ c.arg.section = s}
  <1>1. \A c \in calls : SettingsCall(c)
    BY DEF SettingsInv, SettingsTyped
  <1>2. \A c \in calls : c.op \in SectionSaves <=> c.arg # None /\ "section" \in DOMAIN c.arg
    BY <1>1, SettingsCallKinds
  <1>3. ASSUME NEW s \in Section
        PROVE  Cardinality(Of(s)) = (IF s \in ui.saving THEN 1 ELSE 0)
    <2>1. Of(s) = {c \in calls : SaveOf(c, s)}
      BY <1>2 DEF SaveOf
    <2>2. IsFiniteSet(Of(s))
      BY FS_Subset DEF SettingsInv, SettingsTyped, CallsInv, GoodCalls
    <2>3. /\ \A c, d \in Of(s) : c = d
          /\ s \in ui.saving <=> Of(s) # {}
      BY <2>1 DEF SettingsInv, SettingsMarks
    <2> HIDE DEF Of
    <2> QED
      BY <2>2, <2>3, AtMostOne
  <1>4. Cardinality(Pending("importConfig")) <= (IF ui.restoring THEN 1 ELSE 0)
    <2>1. \A c \in Pending("importConfig") : c \in calls /\ InChain(c) /\ c.op = "importConfig"
      BY <1>1, SettingsCallKinds DEF Pending
    <2>2. \A c, d \in Pending("importConfig") : c = d
      BY <2>1 DEF SettingsInv, SettingsMarks
    <2>3. Pending("importConfig") # {} => ui.restoring
      BY <2>1 DEF SettingsInv, SettingsMarks
    <2>4. Cardinality(Pending("importConfig"))
             = (IF Pending("importConfig") = {} THEN 0 ELSE 1)
      BY <2>2, PendingFinite, AtMostOne DEF SettingsInv, SettingsTyped
    <2> QED
      BY <2>3, <2>4
  <1> QED
    BY <1>3, <1>4 DEF OneSaveEach
-----------------------------------------------------------------------------
(* All the views: one of them is mounted and stays so.                         *)

\* It stands while nothing of the view, the node or the calls changes.
LEMMA TestDomainStands == TestDomainInv /\ UNCHANGED pageVars => TestDomainInv'
  BY DEF TestDomainInv, TestDomainCall, Pending, CallsInv, GoodCalls, CallOK, Told, Apart,
         Writable, pageVars

\* It stands while nothing of the view, the node or the calls changes.
LEMMA TokensStands == TokensInv /\ UNCHANGED pageVars => TokensInv'
  BY DEF TokensInv, TokensTyped, TokensLeads, TokensMinted, TokensLead, TokensCall, StoreInv,
         StoreType, Pending, CallsInv, GoodCalls, CallOK, Told, Apart, Writable, pageVars

\* It stands while nothing of the view, the node or the calls changes.
LEMMA LocalDnsStands == LocalDnsInv /\ UNCHANGED pageVars => LocalDnsInv'
  BY DEF LocalDnsInv, LocalDnsTyped, LocalDnsRowsOwn, LocalDnsLeads, LocalDnsLead, LocalDnsCall,
         ShownBut, StoreInv, StoreType, CallsInv, GoodCalls, CallOK, Told, Apart, Writable,
         pageVars

\* It stands while nothing of the view, the node or the calls changes.
LEMMA QueryLogStands == QueryLogInv /\ UNCHANGED pageVars => QueryLogInv'
  BY DEF QueryLogInv, QueryLogTyped, QueryLogLeads, QueryLogLead, LogShown, CallsInv, GoodCalls,
         CallOK, Told, Apart, Writable, pageVars

\* It stands while nothing of the view, the node or the calls changes.
LEMMA SessionStands == SessionInv /\ UNCHANGED pageVars => SessionInv'
  BY DEF SessionInv, SessionTyped, SessionTokens, SessionForm, SessionDoing, SessionCount,
         SessionCall, LoginsSent, Ok, Pending, CallsInv, GoodCalls, CallOK, Told, Apart,
         Writable, pageVars

\* It stands while nothing of the view, the node or the calls changes.
LEMMA ProfilesStands == ProfilesInv /\ UNCHANGED pageVars => ProfilesInv'
  BY DEF ProfilesInv, DialogFollows, ProfileSave, CallsInv, GoodCalls, CallOK, Told, Apart,
         Writable, pageVars

\* It stands while nothing of the view, the node or the calls changes.
LEMMA AllowlistStands == AllowlistInv /\ UNCHANGED pageVars => AllowlistInv'
  BY DEF AllowlistInv, AllowlistMarks, CallsInv, GoodCalls, CallOK, Told, Apart, Writable,
         pageVars

\* It stands while nothing of the view, the node or the calls changes.
LEMMA BlocklistsStands == BlocklistsInv /\ UNCHANGED pageVars => BlocklistsInv'
  BY DEF BlocklistsInv, BlocklistsTyped, BlocklistsLeads, BlocklistsLead, CallsInv, GoodCalls,
         CallOK, Told, Apart, Writable, pageVars

\* It stands while nothing of the view, the node or the calls changes.
LEMMA CategoriesStands == CategoriesInv /\ UNCHANGED pageVars => CategoriesInv'
  BY DEF CategoriesInv, CategoriesMarks, CallsInv, GoodCalls, CallOK, Told, Apart, Writable,
         pageVars

\* It stands while nothing of the view, the node or the calls changes.
LEMMA DevicesStands == DevicesInv /\ UNCHANGED pageVars => DevicesInv'
  <1> SUFFICES ASSUME DevicesInv, UNCHANGED pageVars PROVE DevicesInv'
    OBVIOUS
  <1>1. page' = page /\ ui' = ui /\ calls' = calls /\ writes' = writes /\ crossed' = crossed
    BY DEF pageVars
  <1>2. CallsInv'
    BY <1>1, SameCallsKeep DEF DevicesInv, CallsInv
  <1>3. (\A c \in calls : DeviceArg(c.op, c.arg))'
    BY <1>1 DEF DevicesInv, DeviceArg
  <1>4. (ui.saving = \E c \in calls : DeviceSaving(c))'
    BY <1>1 DEF DevicesInv, DeviceSaving
  <1>5. (ui.deleting = \E c \in calls : DeviceDeleting(c))'
    BY <1>1 DEF DevicesInv, DeviceDeleting
  <1>6. /\ (\A c, d \in calls : DeviceSaving(c) /\ DeviceSaving(d) => c = d)'
        /\ (\A c, d \in calls : DeviceDeleting(c) /\ DeviceDeleting(d) => c = d)'
    BY <1>1 DEF DevicesInv, DeviceSaving, DeviceDeleting
  <1> QED
    BY <1>1, <1>2, <1>3, <1>4, <1>5, <1>6 DEF DevicesInv

\* It stands while nothing of the view, the node or the calls changes.
LEMMA ProfilePauseStands == ProfilePauseInv /\ UNCHANGED pageVars => ProfilePauseInv'
  BY DEF ProfilePauseInv, PauseCall, CallsInv, GoodCalls, CallOK, Told, Apart, Writable,
         pageVars

\* It stands while nothing of the view, the node or the calls changes.
LEMMA SchedulesStands == SchedulesInv /\ UNCHANGED pageVars => SchedulesInv'
  BY DEF SchedulesInv, FormFollows, FlagFollows, FormCall, CallsInv, GoodCalls, CallOK, Told,
         Apart, Writable, pageVars

\* It stands while nothing of the view, the node or the calls changes.
LEMMA SharedStands == SharedInv /\ UNCHANGED pageVars => SharedInv'
  <1> SUFFICES ASSUME SharedInv, UNCHANGED pageVars PROVE SharedInv'
    OBVIOUS
  <1>1. page' = page /\ ui' = ui /\ calls' = calls /\ writes' = writes /\ crossed' = crossed
    BY DEF pageVars
  <1>2. CallsInv'
    BY <1>1, SameCallsKeep DEF SharedInv, CallsInv
  <1>3. (ui.saving = \E c \in calls : SharedSaving(c))'
    BY <1>1 DEF SharedInv, SharedSaving
  <1>4. (\A c, d \in calls : SharedSaving(c) /\ SharedSaving(d) => c = d)'
    BY <1>1 DEF SharedInv, SharedSaving
  <1> QED
    BY <1>1, <1>2, <1>3, <1>4 DEF SharedInv

\* It stands while nothing of the view, the node or the calls changes.
LEMMA SettingsStands == SettingsInv /\ UNCHANGED pageVars => SettingsInv'
  BY DEF SettingsInv, SettingsTyped, SettingsMarks, SettingsCall, CallsInv, GoodCalls, CallOK,
         Told, Apart, Writable, pageVars

\* Of the view that is mounted, what its proof needs.
PagesInv ==
    /\ page = "testdomain" => TestDomainInv
    /\ page = "tokens" => TokensInv
    /\ page = "localdns" => LocalDnsInv
    /\ page = "querylog" => QueryLogInv
    /\ page = "session" => SessionInv
    /\ page = "profiles" => ProfilesInv
    /\ page = "allowlist" => AllowlistInv
    /\ page = "blocklists" => BlocklistsInv
    /\ page = "categories" => CategoriesInv
    /\ page = "devices" => DevicesInv
    /\ page = "profilepause" => ProfilePauseInv
    /\ page = "schedules" => SchedulesInv
    /\ page = "shared" => SharedInv
    /\ page = "settings" => SettingsInv

\* It holds when the view is opened.
LEMMA PagesStart == Mounted => PagesInv
  <1> SUFFICES ASSUME Mounted PROVE PagesInv
    OBVIOUS
  <1>1. CASE AllowlistInit
    BY ONLY <1>1, AllowlistStart DEF PagesInv, AllowlistInit
  <1>2. CASE AuditInit
    BY ONLY <1>2 DEF PagesInv, AuditInit
  <1>3. CASE BlocklistsInit
    BY ONLY <1>3, BlocklistsStart DEF PagesInv, BlocklistsInit
  <1>4. CASE CategoriesInit
    BY ONLY <1>4, CategoriesStart DEF PagesInv, CategoriesInit
  <1>5. CASE ClientsInit
    BY ONLY <1>5 DEF PagesInv, ClientsInit
  <1>6. CASE CustomRulesInit
    BY ONLY <1>6 DEF PagesInv, CustomRulesInit
  <1>7. CASE DevicesInit
    BY ONLY <1>7, DevicesStart DEF PagesInv, DevicesInit
  <1>8. CASE LocalDnsInit
    BY ONLY <1>8, LocalDnsStart DEF PagesInv, LocalDnsInit
  <1>9. CASE PauseInit
    BY ONLY <1>9 DEF PagesInv, PauseInit
  <1>10. CASE ProfilePauseInit
    BY ONLY <1>10, ProfilePauseStart DEF PagesInv, ProfilePauseInit
  <1>11. CASE ProfilesInit
    BY ONLY <1>11, ProfilesStart DEF PagesInv, ProfilesInit
  <1>12. CASE QueryLogInit
    BY ONLY <1>12, QueryLogStart DEF PagesInv, QueryLogInit
  <1>13. CASE GridInit
    BY ONLY <1>13 DEF PagesInv, GridInit
  <1>14. CASE SchedulesInit
    BY ONLY <1>14, SchedulesStart DEF PagesInv, SchedulesInit
  <1>15. CASE SessionInit
    BY ONLY <1>15, SessionStart DEF PagesInv, SessionInit
  <1>16. CASE SettingsInit
    BY ONLY <1>16, SettingsStart DEF PagesInv, SettingsInit
  <1>17. CASE SharedInit
    BY ONLY <1>17, SharedStart DEF PagesInv, SharedInit
  <1>18. CASE TestDomainInit
    BY ONLY <1>18, TestDomainStart DEF PagesInv, TestDomainInit
  <1>19. CASE TokensInit
    BY ONLY <1>19, TokensStart DEF PagesInv, TokensInit
  <1>20. CASE WebhooksInit
    BY ONLY <1>20 DEF PagesInv, WebhooksInit
  <1> QED
    BY ONLY <1>1, <1>2, <1>3, <1>4, <1>5, <1>6, <1>7, <1>8, <1>9, <1>10, <1>11, <1>12, <1>13,
            <1>14, <1>15, <1>16, <1>17, <1>18, <1>19, <1>20, Mounted DEF Mounted

\* The views that nothing is proved of here stay mounted like the others.
LEMMA OthersStay ==
    /\ AuditNext => page' = page
    /\ ClientsNext => page' = page
    /\ CustomRulesNext => page' = page
    /\ PauseNext => page' = page
    /\ GridNext => page' = page
    /\ WebhooksNext => page' = page
  <1>0. \A c : Fails(c) => page' = page
    BY DEF Fails
  <1>1. AuditNext => page' = page
    <2>1. \A row : Toggle(row) => page' = page
      BY DEF Toggle, Local
    <2>2. EditFilter => page' = page
      BY DEF EditFilter, Local
    <2>3. AuditRefresh => page' = page
      BY DEF AuditRefresh, Load
    <2>4. Apply => page' = page
      BY DEF Apply, Load
    <2>5. Prev => page' = page
      BY DEF Prev, Load
    <2>6. AuditNextPage => page' = page
      BY DEF AuditNextPage, Load
    <2>7. Appends => page' = page
      BY DEF Appends
    <2>8. \A c : AuditLoaded(c) => page' = page
      BY DEF AuditLoaded
    <2>9. \A c : AuditServes(c) => page' = page
      BY DEF AuditServes
    <2> QED
      BY ONLY <1>0, <2>1, <2>2, <2>3, <2>4, <2>5, <2>6, <2>7, <2>8, <2>9
         DEF AuditNext
  <1>2. ClientsNext => page' = page
    <2>1. \A a : Acknowledge(a) => page' = page
      BY DEF Acknowledge
    <2>2. \A ip : ToggleMenu(ip) => page' = page
      BY DEF ToggleMenu, Local
    <2>3. \A ip : OpenFwRules(ip) => page' = page
      BY DEF OpenFwRules, Local
    <2>4. \A ip : OpenDetail(ip) => page' = page
      BY DEF OpenDetail
    <2>5. \A ip : ClientsExpires(ip) => page' = page
      BY DEF ClientsExpires
    <2>6. ClientsRefresh => page' = page
      BY DEF ClientsRefresh
    <2>7. OnDocClick => page' = page
      BY DEF OnDocClick, Local
    <2>8. ClientsClose => page' = page
      BY DEF ClientsClose, Local
    <2>9. \A c : ClientsRefreshed(c) => page' = page
      BY DEF ClientsRefreshed
    <2>10. \A c : Acknowledged(c) => page' = page
      BY DEF Acknowledged
    <2>11. \A c : GotDetail(c) => page' = page
      BY DEF GotDetail
    <2>12. \A c : ClientsServes(c) => page' = page
      BY DEF ClientsServes
    <2> QED
      BY ONLY <1>0, <2>1, <2>2, <2>3, <2>4, <2>5, <2>6, <2>7, <2>8, <2>9, <2>10, <2>11, <2>12
         DEF ClientsNext
  <1>3. CustomRulesNext => page' = page
    <2>1. \A v : OnEdit(v) => page' = page
      BY DEF OnEdit, Local
    <2>2. Dismiss => page' = page
      BY DEF Dismiss, Local
    <2>3. DiscardChanges => page' = page
      BY DEF DiscardChanges, Local
    <2>4. CustomRulesSave => page' = page
      BY DEF CustomRulesSave
    <2>5. SavedTimer => page' = page
      BY DEF SavedTimer, Local
    <2>6. \A c : CustomRulesLoaded(c) => page' = page
      BY DEF CustomRulesLoaded
    <2>7. \A c : CustomRulesSaved(c) => page' = page
      BY DEF CustomRulesSaved
    <2>8. \A c : CustomRulesServes(c) => page' = page
      BY DEF CustomRulesServes
    <2> QED
      BY ONLY <1>0, <2>1, <2>2, <2>3, <2>4, <2>5, <2>6, <2>7, <2>8
         DEF CustomRulesNext
  <1>4. PauseNext => page' = page
    <2>1. OpenPauseModal => page' = page
      BY DEF OpenPauseModal, Local
    <2>2. ActivatePause => page' = page
      BY DEF ActivatePause, Local
    <2>3. ClosePauseModal => page' = page
      BY DEF ClosePauseModal, Local
    <2>4. ResumeFiltering => page' = page
      BY DEF ResumeFiltering
    <2>5. Ticker => page' = page
      BY DEF Ticker, Local
    <2>6. TimePasses => page' = page
      BY DEF TimePasses
    <2>7. ElsewhereResumed => page' = page
      BY DEF ElsewhereResumed
    <2>8. \A c : PauseGotPause(c) => page' = page
      BY DEF PauseGotPause
    <2>9. \A c : Paused(c) => page' = page
      BY DEF Paused
    <2>10. \A c : Resumed(c) => page' = page
      BY DEF Resumed
    <2>11. \A c : PauseServes(c) => page' = page
      BY DEF PauseServes
    <2> QED
      BY ONLY <1>0, <2>1, <2>2, <2>3, <2>4, <2>5, <2>6, <2>7, <2>8, <2>9, <2>10, <2>11
         DEF PauseNext
  <1>5. GridNext => page' = page
    <2>1. AddWindow => page' = page
      BY DEF AddWindow, Edit, Local
    <2>2. StopDrag => page' = page
      BY DEF StopDrag, Local
    <2>3. \A name : ApplyPreset(name) => page' = page
      BY DEF ApplyPreset, Edit, Local
    <2>4. \A k : RemoveWindow(k) => page' = page
      BY DEF RemoveWindow, Edit, Local
    <2>5. \A k, day : ToggleDay(k, day) => page' = page
      BY DEF ToggleDay, Edit, Local
    <2>6. \A day, hour : StartDrag(day, hour) => page' = page
      BY DEF StartDrag, Local
    <2>7. \A day, hour : DoDrag(day, hour) => page' = page
      BY DEF DoDrag, Local
    <2> QED
      BY ONLY <1>0, <2>1, <2>2, <2>3, <2>4, <2>5, <2>6, <2>7
         DEF GridNext
  <1>6. WebhooksNext => page' = page
    <2>1. \A i : WebhooksConfirmDelete(i) => page' = page
      BY DEF WebhooksConfirmDelete, Local
    <2>2. \A i : TestFire(i) => page' = page
      BY DEF TestFire
    <2>3. WebhooksRefresh => page' = page
      BY DEF WebhooksRefresh
    <2>4. WebhooksOpenCreate => page' = page
      BY DEF WebhooksOpenCreate, Local
    <2>5. WebhooksCloseCreate => page' = page
      BY DEF WebhooksCloseCreate, Local
    <2>6. WebhooksSubmitCreate => page' = page
      BY DEF WebhooksSubmitCreate
    <2>7. WebhooksCloseDelete => page' = page
      BY DEF WebhooksCloseDelete, Local
    <2>8. WebhooksDoDelete => page' = page
      BY DEF WebhooksDoDelete
    <2>9. ToastTimer => page' = page
      BY DEF ToastTimer, Local
    <2>10. \A c : WebhooksRefreshed(c) => page' = page
      BY DEF WebhooksRefreshed
    <2>11. \A c : WebhooksCreated(c) => page' = page
      BY DEF WebhooksCreated
    <2>12. \A c : WebhooksDeleted(c) => page' = page
      BY DEF WebhooksDeleted
    <2>13. \A c : TestFired(c) => page' = page
      BY DEF TestFired
    <2>14. \A c : WebhooksServes(c) => page' = page
      BY DEF WebhooksServes, ServesRows
    <2> QED
      BY ONLY <1>0, <2>1, <2>2, <2>3, <2>4, <2>5, <2>6, <2>7, <2>8, <2>9, <2>10, <2>11, <2>12,
              <2>13, <2>14
         DEF WebhooksNext
  <1> QED
    BY ONLY <1>1, <1>2, <1>3, <1>4, <1>5, <1>6

\* Every step keeps it.
LEMMA PagesKeep == PagesInv /\ [Steps]_pageVars => PagesInv'
  <1> SUFFICES ASSUME PagesInv, [Steps]_pageVars PROVE PagesInv'
    OBVIOUS
  <1>1. CASE page = "allowlist" /\ AllowlistNext
    BY ONLY PagesInv, <1>1, AllowlistKeep DEF PagesInv, AllowlistInv
  <1>2. CASE page = "audit" /\ AuditNext
    BY ONLY <1>2, OthersStay DEF PagesInv
  <1>3. CASE page = "blocklists" /\ BlocklistsNext
    BY ONLY PagesInv, <1>3, BlocklistsKeep DEF PagesInv, BlocklistsInv, BlocklistsTyped
  <1>4. CASE page = "categories" /\ CategoriesNext
    BY ONLY PagesInv, <1>4, CategoriesKeep DEF PagesInv, CategoriesInv
  <1>5. CASE page = "clients" /\ ClientsNext
    BY ONLY <1>5, OthersStay DEF PagesInv
  <1>6. CASE page = "customrules" /\ CustomRulesNext
    BY ONLY <1>6, OthersStay DEF PagesInv
  <1>7. CASE page = "devices" /\ DevicesNext
    BY ONLY PagesInv, <1>7, DevicesKeep DEF PagesInv, DevicesInv
  <1>8. CASE page = "localdns" /\ LocalDnsNext
    BY ONLY PagesInv, <1>8, LocalDnsKeep DEF PagesInv, LocalDnsInv, LocalDnsTyped
  <1>9. CASE page = "pause" /\ PauseNext
    BY ONLY <1>9, OthersStay DEF PagesInv
  <1>10. CASE page = "profilepause" /\ ProfilePauseNext
    BY ONLY PagesInv, <1>10, ProfilePauseKeep DEF PagesInv, ProfilePauseInv
  <1>11. CASE page = "profiles" /\ ProfilesNext
    BY ONLY PagesInv, <1>11, ProfilesKeep DEF PagesInv, ProfilesInv
  <1>12. CASE page = "querylog" /\ QueryLogNext
    BY ONLY PagesInv, <1>12, QueryLogKeep DEF PagesInv, QueryLogInv, QueryLogTyped
  <1>13. CASE page = "schedulegrid" /\ GridNext
    BY ONLY <1>13, OthersStay DEF PagesInv
  <1>14. CASE page = "schedules" /\ SchedulesNext
    BY ONLY PagesInv, <1>14, SchedulesKeep DEF PagesInv, SchedulesInv
  <1>15. CASE page = "session" /\ SessionNext
    BY ONLY PagesInv, <1>15, SessionKeep DEF PagesInv, SessionInv, SessionTyped
  <1>16. CASE page = "settings" /\ SettingsNext
    BY ONLY PagesInv, <1>16, SettingsKeep DEF PagesInv, SettingsInv, SettingsTyped
  <1>17. CASE page = "shared" /\ SharedNext
    BY ONLY PagesInv, <1>17, SharedKeep DEF PagesInv, SharedInv
  <1>18. CASE page = "testdomain" /\ TestDomainNext
    BY ONLY PagesInv, <1>18, TestDomainKeep DEF PagesInv, TestDomainInv
  <1>19. CASE page = "tokens" /\ TokensNext
    BY ONLY PagesInv, <1>19, TokensKeep DEF PagesInv, TokensInv, TokensTyped
  <1>20. CASE page = "webhooks" /\ WebhooksNext
    BY ONLY <1>20, OthersStay DEF PagesInv
  <1>21. CASE UNCHANGED pageVars
    <2>1. page' = page
      BY ONLY <1>21 DEF pageVars
    <2> QED
      BY ONLY PagesInv, <1>21, <2>1, AllowlistStands, BlocklistsStands, CategoriesStands,
              DevicesStands, LocalDnsStands, ProfilePauseStands, ProfilesStands, QueryLogStands,
              SchedulesStands, SessionStands, SettingsStands, SharedStands, TestDomainStands,
              TokensStands
         DEF PagesInv
  <1> QED
    BY ONLY [Steps]_pageVars, <1>1, <1>2, <1>3, <1>4, <1>5, <1>6, <1>7, <1>8, <1>9, <1>10,
            <1>11, <1>12, <1>13, <1>14, <1>15, <1>16, <1>17, <1>18, <1>19, <1>20, <1>21
       DEF Steps

\* An answer is taken for what it answers, also while calls cross: rows keep their ids,
\* nothing is listed twice, and the dialog, the verdict, the secret and the session that
\* ends are those of the request; of the views of the local DNS, the profiles, the query
\* log, the sign-in, the domain test and the tokens, for any number of calls under way.
THEOREM MixNothingUp == Spec => []ViewsMixNothingUp
  <1>1. Spec => []PagesInv
    BY PagesStart, PagesKeep, PTL DEF Spec
  <1>2. PagesInv => ViewsMixNothingUp
    BY ONLY LocalDnsShow, ProfilesShow, QueryLogShow, SessionShow, TestDomainShow, TokensShow
       DEF PagesInv, ViewsMixNothingUp
  <1> QED
    BY <1>1, <1>2, PTL

\* What a view has begun is under way once, and its button or row is marked for as long
\* as it is and no longer, whatever dialogs come and go meanwhile.
THEOREM DoOneThing == Spec => []ViewsDoOneThing
  <1>1. Spec => []PagesInv
    BY PagesStart, PagesKeep, PTL DEF Spec
  <1>2. PagesInv => ViewsDoOneThing
    BY ONLY AllowlistShow, BlocklistsShow, CategoriesShow, DevicesShow, ProfilePauseShow,
            SchedulesShow, SessionShow, SettingsShow, SharedShow
       DEF PagesInv, ViewsDoOneThing
  <1> QED
    BY <1>1, <1>2, PTL

\* Once everything is answered and no call crossed another, what a view shows is what
\* the node stores: rows changed one by one, rolled back, merged or read again amount to
\* what loading the view anew would show; of the views of the tokens, the local DNS, the
\* query log and the blocklists.  Who is in the shell holds a token the node issued, and
\* a setup that was answered well is stored.
THEOREM ShowTheNode ==
    Spec => [](/\ page = "tokens" => ListsTokens
               /\ page = "localdns" => LocalDnsShowsStored
               /\ page = "querylog" => ShowsLog
               /\ page = "blocklists" => BlocklistsShowsStored
               /\ page = "session" => AnsweredSetupIsStored /\ ShellIsSignedIn)
  <1> DEFINE Agrees == /\ page = "tokens" => ListsTokens
                       /\ page = "localdns" => LocalDnsShowsStored
                       /\ page = "querylog" => ShowsLog
                       /\ page = "blocklists" => BlocklistsShowsStored
                       /\ page = "session" => AnsweredSetupIsStored /\ ShellIsSignedIn
  <1>1. Spec => []PagesInv
    BY PagesStart, PagesKeep, PTL DEF Spec
  <1>2. PagesInv => Agrees
    BY ONLY TokensShow, LocalDnsShow, QueryLogShow, BlocklistsShow, SessionShow DEF PagesInv
  <1> QED
    BY <1>1, <1>2, PTL
=============================================================================
