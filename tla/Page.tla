-------------------------------- MODULE Page --------------------------------
(***************************************************************************)
(* What the views of the web interface have in common.  One view is        *)
(* mounted at a time.  Its script is single-threaded: what a handler does  *)
(* up to its next await is one step, and so is what it does once the       *)
(* awaited call has an answer.  A call is on its way, answered or failed;  *)
(* answers may be used in another order than the calls were sent in, and a *)
(* call that changed the server may fail all the same (api/client.ts gives *)
(* up after 15 seconds and retries nothing).                               *)
(***************************************************************************)
EXTENDS Endpoints, Naturals, FiniteSets

CONSTANTS
    Item,       \* names of what the views list: domains, rows, devices, ...
    MixedItem,  \* the domains somebody types with capital letters
    None,       \* nothing (null, an empty string, a field left out)
    MaxCalls,   \* calls of one view under way at the same time
    MaxWrites   \* bound: calls that write, all in all

\* What the rows of a resource hold.
Value == 1..2

ASSUME PageAssumption ==
    /\ IsFiniteSet(Item) /\ Item # {} /\ None \notin Item \cup Value
    /\ MixedItem \subseteq Item
    /\ {MaxCalls, MaxWrites} \subseteq Nat \ {0}

VARIABLES
    page,       \* the view that is mounted
    ui,         \* the refs of the view, a record
    srv,        \* what the node stores of the view's resource, a record
    calls,      \* the calls under way
    writes,     \* calls that write so far
    crossed     \* history: calls crossed, or an answer was missed, since the
                \* last read that was sent while nothing else was under way

pageVars == <<page, ui, srv, calls, writes, crossed>>

\* A call: id tells it from others of the same op and arg, op is the wrapper of
\* api/endpoints.ts, arg what it is called with and data the answer (records).
Call(id, op, arg) ==
    [id |-> id, op |-> op, arg |-> arg, at |-> "sent", data |-> None]

\* Bound: views with much state of their own write once, and the session, which
\* signs in, out and in again, once more than the others.
Writable ==
    IF page \in {"profiles", "schedules"} THEN 1
    ELSE IF page = "session" THEN MaxWrites + 1 ELSE MaxWrites

CallShape(c) ==
    /\ c.id \in 1..MaxCalls /\ c.op \in Endpoint
    /\ c.at \in {"sent", "ok", "failed"}

TypedCalls ==
    /\ \A c \in calls : CallShape(c)
    /\ \A c, d \in calls : c # d /\ c.op = d.op /\ c.arg = d.arg => c.id # d.id
    /\ writes \in 0..Writable /\ crossed \in BOOLEAN

\* The calls of rest stay under way and one more is sent.
Adds(rest, op, arg) ==
    /\ Cardinality(rest) < MaxCalls
    /\ writes' = writes + (IF Mutates(op) THEN 1 ELSE 0) /\ writes' <= Writable
    /\ LET id == CHOOSE i \in 1..MaxCalls :
                     \A c \in rest : c.op = op /\ c.arg = arg => c.id # i
       IN calls' = rest \cup {Call(id, op, arg)}

Crosses(rest, op, arg) == \E c \in rest : Mutates(c.op) \/ Mutates(op) \/ c.arg # arg

Sends(rest, op, arg) ==
    /\ Adds(rest, op, arg)
    /\ crossed' = ((crossed /\ (Mutates(op) \/ rest # {})) \/ Crosses(rest, op, arg))

Asks(op, arg) == Sends(calls, op, arg)

\* A call about something else than what the view lists: it refreshes nothing.
AddsAside(rest, op, arg) ==
    /\ Adds(rest, op, arg)
    /\ crossed' = (crossed \/ Crosses(rest, op, arg))
AsksAside(op, arg) == AddsAside(calls, op, arg)

\* A step of the view that sends nothing.
Local == UNCHANGED <<page, srv, calls, writes, crossed>>

\* The handler that awaited c is done, or goes on to another call.
Done(c) == calls' = calls \ {c} /\ UNCHANGED <<writes, crossed>>
Then(c, op, arg) == Sends(calls \ {c}, op, arg)
ThenAside(c, op, arg) == AddsAside(calls \ {c}, op, arg)

Ok(op)      == {c \in calls : c.op = op /\ c.at = "ok"}
Failed(op)  == {c \in calls : c.op = op /\ c.at = "failed"}
Ended(op)   == Ok(op) \cup Failed(op)
Pending(op) == {c \in calls : c.op = op}

\* The node answers c; what it stores is the caller's business.
Answers(c, data) ==
    /\ calls' = (calls \ {c}) \cup {[c EXCEPT !.at = "ok", !.data = data]}
    /\ UNCHANGED <<writes, crossed>>

\* The node refuses c as the code of its handler says: nobody missed anything.
Refuses(c) ==
    /\ calls' = (calls \ {c}) \cup {[c EXCEPT !.at = "failed"]}
    /\ UNCHANGED <<srv, writes, crossed>>

\* A resource with rows that have ids: what the node stores under an id, None
\* where there is nothing.  Ids the node makes up are never used again.
NoRows == [i \in Item |-> None]
RowsType(rows) == rows \in [Item -> Value \cup {None}]
Ids(rows) == {i \in Item : rows[i] # None}
OneRow == {[rows |-> [NoRows EXCEPT ![i] = 1], used |-> {i}] : i \in Item}
StoreType == RowsType(srv.rows) /\ srv.used \subseteq Item

ServesRows(c, list, create, update, delete) ==
    /\ c.at = "sent"
    /\ \/ c.op \in list /\ Answers(c, [rows |-> srv.rows]) /\ UNCHANGED srv
       \/ /\ c.op \in create
          /\ \E i \in Item \ srv.used :
                /\ srv' = [rows |-> [srv.rows EXCEPT ![i] = c.arg.value],
                           used |-> srv.used \cup {i}]
                /\ Answers(c, [id |-> i, value |-> c.arg.value])
       \/ c.op \in update \cup delete /\ c.arg.id \notin Ids(srv.rows) /\ Refuses(c)
       \/ /\ c.op \in update /\ c.arg.id \in Ids(srv.rows)
          /\ srv' = [srv EXCEPT !.rows[c.arg.id] = c.arg.value]
          /\ Answers(c, [id |-> c.arg.id, value |-> c.arg.value])
       \/ /\ c.op \in delete /\ c.arg.id \in Ids(srv.rows)
          /\ srv' = [srv EXCEPT !.rows[c.arg.id] = None]
          /\ Answers(c, None)
    /\ UNCHANGED <<page, ui>>

\* The call fails for reasons of its own, before the node does anything, or
\* after it did (the answer is lost or late).
Fails(c) ==
    /\ c \in calls /\ c.at \in {"sent", "ok"}
    /\ calls' = (calls \ {c}) \cup {[c EXCEPT !.at = "failed", !.data = None]}
    /\ crossed' = (crossed \/ ~Mutates(c.op) \/ c.at = "ok")
    /\ UNCHANGED <<page, ui, srv, writes>>

\* The members of a finite set of numbers from the smallest up, and the entries a
\* sequence has at some places, in their order (what filter keeps): the provers know
\* nothing of SortSeq and SelectSeq.
Ascending(S) ==
    [n \in 1..Cardinality(S) |-> CHOOSE k \in S : Cardinality({m \in S : m <= k}) = n]
Kept(s, places) == [n \in 1..Cardinality(places) |-> s[Ascending(places)[n]]]

\* Nothing is under way and no call crossed another since the view last read.
Settled == calls = {} /\ ~crossed

=============================================================================
