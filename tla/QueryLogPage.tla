---------------------------- MODULE QueryLogPage ----------------------------
(* views/QueryLog.vue: the log of queries, one page at a time, with a live     *)
(* tail that asks every three seconds and merges what comes.  Entries are      *)
(* numbered in the order they are logged.  A query is what the toolbar says:   *)
(* the log of this node, that of the cluster, or this node's blocked ones.     *)
EXTENDS Page, SequencesExt, FiniteSetsExt, Functions

QueryLogLogBound == 3           \* bound: entries of the log
PageSize == 2           \* bound: the page size
QueryLogEntries == 1..QueryLogLogBound
Scopes == {"local", "cluster", "blocked"}
QueryLogEntry == QueryLogEntries

\* The odd entries are those of this node, the first one was blocked.
QueryLogMatching(n, q) == {e \in 1..n : CASE q = "cluster" -> TRUE
                                  [] q = "local"   -> e % 2 = 1
                                  [] q = "blocked" -> e = 1}
NewestFirst(n, q) == Reverse(Ascending(QueryLogMatching(n, q)))
Slice(s, from, to) == SubSeq(s, from, Min({to, Len(s)}))
QueryLogListing(n, q, offset) ==
    [entries |-> Slice(NewestFirst(n, q), offset + 1, offset + PageSize),
     total |-> Len(NewestFirst(n, q))]

QueryLogTypeOK ==
    /\ TypedCalls /\ srv.log \in 0..QueryLogLogBound
    /\ ui.scope \in Scopes /\ ui.offset \in 0..(QueryLogLogBound + 1)
    /\ \/ ui.entries = None
       \/ Range(ui.entries) \subseteq QueryLogEntries /\ Len(ui.entries) <= PageSize
    /\ ui.total \in 0..QueryLogLogBound
    /\ {ui.liveTail, ui.polling, ui.mounted} \subseteq BOOLEAN

HasNext == ui.offset + (IF ui.entries = None THEN 0 ELSE Len(ui.entries)) < ui.total
CanLiveTailPrepend == ui.offset = 0 /\ ui.scope # "blocked"

\* then: whether the polling (re)starts when the answer is there.
QueryLogAsked(q, offset, prepend, then) ==
    [scope |-> q, offset |-> offset, prepend |-> prepend, then |-> then]

\* The scope is the cluster's when the cluster has other members.
QueryLogInit ==
    /\ page = "querylog"
    /\ \E q \in {"local", "cluster"} :
          /\ ui = [scope |-> q, offset |-> 0, entries |-> None, total |-> 0,
                   liveTail |-> TRUE, polling |-> FALSE, mounted |-> TRUE]
          /\ calls = {Call(1, "getQueryLog", QueryLogAsked(q, 0, FALSE, TRUE))}
    /\ srv = [log |-> 2] /\ writes = 0 /\ crossed = FALSE

\* mutant: the page grows with every poll.
MergedWhole(new, old) == new \o Kept(old, {k \in DOMAIN old : old[k] \notin Range(new)})

\* mutant: what is there already comes again.
MergedTwice(new, old) == Slice(new \o old, 1, PageSize)

\* What is new comes first, what was there stays, and neither comes twice.
Merged(new, old) ==
    Slice(new \o Kept(old, {k \in DOMAIN old : old[k] \notin Range(new)}), 1, PageSize)

Fetched(c) ==
    /\ c \in Ended("getQueryLog")
    /\ ui' = [ui EXCEPT
         !.total = IF c.at = "ok" THEN c.data.total ELSE @,
         !.entries = IF c.at = "failed" THEN (IF @ = None THEN <<>> ELSE @)
                     ELSE IF c.arg.prepend /\ @ \notin {None, <<>>}
                          THEN Merged(c.data.entries, @) ELSE c.data.entries,
         !.polling = IF c.arg.then THEN @ \/ ui.liveTail ELSE @]
    /\ Done(c) /\ UNCHANGED <<page, srv>>

\* The timer; what it merges is no read of the whole page.
Poll ==
    /\ ui.polling
    /\ LET arg == QueryLogAsked(ui.scope, ui.offset, CanLiveTailPrepend, FALSE)
       IN IF arg.prepend THEN AsksAside("getQueryLog", arg) ELSE Asks("getQueryLog", arg)
    /\ UNCHANGED <<page, ui, srv>>

ToggleLiveTail ==
    /\ ui.mounted
    /\ ui' = [ui EXCEPT !.liveTail = ~@, !.polling = ~ui.liveTail]
    /\ Local

\* mutant: the request is made up before the offset is set.
GoesFromHere(q, offset) ==
    /\ ui.mounted
    /\ ui' = [ui EXCEPT !.scope = q, !.offset = offset, !.entries = None]
    /\ Asks("getQueryLog", QueryLogAsked(q, ui.offset, FALSE, TRUE))
    /\ UNCHANGED <<page, srv>>

\* Another page, another filter or another scope: the list is emptied until the
\* answer is there.
QueryLogGoes(q, offset) ==
    /\ ui.mounted
    /\ ui' = [ui EXCEPT !.scope = q, !.offset = offset, !.entries = None]
    /\ Asks("getQueryLog", QueryLogAsked(q, offset, FALSE, TRUE))
    /\ UNCHANGED <<page, srv>>

\* The buttons of the scope, Apply, or what was typed 400 ms ago.
ApplyFilters == \E q \in Scopes \ {ui.scope} : QueryLogGoes(q, 0)
PrevPage == ui.offset # 0 /\ QueryLogGoes(ui.scope, Max({0, ui.offset - PageSize}))
QueryLogNextPage == HasNext /\ QueryLogGoes(ui.scope, ui.offset + PageSize)

Leave ==
    /\ ui.mounted
    /\ ui' = [ui EXCEPT !.mounted = FALSE, !.polling = FALSE]
    /\ Local

QueryLogServes(c) ==
    /\ c.at = "sent"
    /\ Answers(c, QueryLogListing(srv.log, c.arg.scope, c.arg.offset))
    /\ UNCHANGED <<page, ui, srv>>

\* A query is logged: what the page shows is old from now on.
Logs ==
    /\ srv.log < QueryLogLogBound
    /\ srv' = [log |-> srv.log + 1] /\ crossed' = TRUE
    /\ UNCHANGED <<page, ui, calls, writes>>

QueryLogNext ==
    \/ Poll \/ ToggleLiveTail \/ ApplyFilters \/ PrevPage \/ QueryLogNextPage
    \/ Leave \/ Logs
    \/ \E c \in calls : Fetched(c) \/ QueryLogServes(c) \/ Fails(c)

-----------------------------------------------------------------------------

\* Once everything is answered and nothing crossed since the list was last read
\* as a whole, it shows the page of the log the toolbar asks for: merging what
\* the tail brings leaves nothing out and nothing twice.
ShowsLog ==
    Settled => [entries |-> ui.entries, total |-> ui.total]
                  = QueryLogListing(srv.log, ui.scope, ui.offset)

\* The tail merges only into what it belongs to: no entry is listed twice.
NothingTwice == ui.entries # None => IsInjective(ui.entries)

\* What web/UI.md says of Pause: it stops the refresh, so that a row can be looked
\* at in peace.  Not so: a poll that is under way is merged all the same.
PauseStopsRefresh ==
    [][\A c \in Ok("getQueryLog") :
          c \notin calls' /\ ~c.arg.then /\ ~ui.liveTail => ui'.entries = ui.entries]_pageVars

\* Nobody polls for a view that is gone.  It happens: the timer is started when an
\* answer comes, whether or not the view is still there.
NoPollAfterLeave == ~ui.mounted => ~ui.polling

=============================================================================
