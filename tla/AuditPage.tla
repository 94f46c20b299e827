------------------------------ MODULE AuditPage ------------------------------
(* views/Audit.vue: the audit log, filtered and one page at a time, newest     *)
(* entry first.  Entries are numbered as the node appends them; the filter     *)
(* None lets all of them through, the other one the entries of one actor.      *)
EXTENDS Page, SequencesExt, FiniteSetsExt

AuditLogBound == 2           \* bound: entries of the log
AuditEntries == 1..AuditLogBound
Queries == [filter : {None, "actor"}, limit : 1..2]
AuditMatching(n, filter) == {e \in 1..n : filter = None \/ e % 2 = 1}

\* The node walks the matching entries from the newest one.
AuditListing(n, q) ==
    LET newest == Reverse(SetToSortSeq(AuditMatching(n, q.filter), <))
    IN [entries |-> SubSeq(newest, q.offset + 1, Min({q.offset + q.limit, Len(newest)})),
        total |-> Len(newest)]

AuditTypeOK ==
    /\ TypedCalls /\ srv.log \in 0..AuditLogBound
    /\ {ui.draft, ui.query} \subseteq Queries /\ ui.offset \in 0..AuditLogBound
    /\ ui.entries \in UNION {[1..k -> AuditEntries] : k \in 0..2}
    /\ ui.total \in 0..AuditLogBound
    /\ ui.loading \in BOOLEAN /\ ui.expanded \in 0..2

AuditDirty == ui.draft # ui.query
AuditRowsOffered == IF ui.loading THEN {} ELSE 1..Len(ui.entries)
PrevOffered == ui.offset # 0
NextOffered == ui.offset + ui.query.limit < ui.total
AuditAsked(offset, q) == [offset |-> offset, limit |-> q.limit, filter |-> q.filter]

AuditInit ==
    /\ page = "audit"
    /\ \E q \in Queries :
          /\ q.filter = None
          /\ ui = [draft |-> q, query |-> q, offset |-> 0, entries |-> <<>>, total |-> 0,
                   loading |-> TRUE, expanded |-> 0]
          /\ calls = {Call(1, "listAudit", AuditAsked(0, q))}
    /\ srv = [log |-> 1] /\ writes = 0 /\ crossed = FALSE

EditFilter ==
    /\ \E q \in Queries \ {ui.draft} : ui' = [ui EXCEPT !.draft = q]
    /\ Local

\* mutant: the request is made up before the offset is set.
LoadFromHere(query, offset) ==
    /\ ui' = [ui EXCEPT !.query = query, !.offset = offset, !.loading = TRUE]
    /\ Asks("listAudit", AuditAsked(ui.offset, query))
    /\ UNCHANGED <<page, srv>>

Load(query, offset) ==
    /\ ui' = [ui EXCEPT !.query = query, !.offset = offset, !.loading = TRUE]
    /\ Asks("listAudit", AuditAsked(offset, query))
    /\ UNCHANGED <<page, srv>>

AuditRefresh == Load(ui.query, ui.offset)
Apply == AuditDirty /\ Load(ui.draft, 0)
Prev == PrevOffered /\ Load(ui.query, Max({0, ui.offset - ui.query.limit}))
AuditNextPage == NextOffered /\ Load(ui.query, ui.offset + ui.query.limit)

\* An answer is shown whatever was asked since, and which row is open stays.
AuditLoaded(c) ==
    /\ c \in Ended("listAudit")
    /\ ui' = IF c.at = "failed" THEN [ui EXCEPT !.loading = FALSE]
             ELSE [ui EXCEPT !.loading = FALSE, !.entries = c.data.entries,
                             !.total = c.data.total]
    /\ Done(c) /\ UNCHANGED <<page, srv>>

Toggle(row) ==
    /\ row \in AuditRowsOffered
    /\ ui' = [ui EXCEPT !.expanded = IF @ = row THEN 0 ELSE row]
    /\ Local

AuditServes(c) ==
    /\ c.at = "sent"
    /\ Answers(c, AuditListing(srv.log, c.arg))
    /\ UNCHANGED <<page, ui, srv>>

\* Somebody changes the cluster: what the page shows is old from now on.
Appends ==
    /\ srv.log < AuditLogBound
    /\ srv' = [log |-> srv.log + 1] /\ crossed' = TRUE
    /\ UNCHANGED <<page, ui, calls, writes>>

AuditNext ==
    \/ \E row \in 1..2 : Toggle(row)
    \/ EditFilter \/ AuditRefresh \/ Apply \/ Prev \/ AuditNextPage \/ Appends
    \/ \E c \in calls : AuditLoaded(c) \/ AuditServes(c) \/ Fails(c)

-----------------------------------------------------------------------------

\* Once everything is answered and no call crossed another, the page shows what
\* the filters in force let through from where it says it is.
ShowsQuery ==
    Settled => AuditListing(srv.log, AuditAsked(ui.offset, ui.query))
                 = [entries |-> ui.entries, total |-> ui.total]

\* "No audit entries match the current filters" (line 72) is true when it stands
\* there.  It is not: when an answer fails or is late, Next goes by the total of
\* other filters and asks for a page past the end.
EmptyMeansNone == Settled /\ ui.entries = <<>> => ui.total = 0

\* A row that is open shows the same entry until somebody clicks on a row.
\* It does not: another page is laid out around the same row number.
OpenRowStays ==
    [][ui.expanded \in 1..Len(ui.entries) /\ ui'.expanded = ui.expanded
          => ui.expanded \in 1..Len(ui'.entries)
             /\ ui'.entries[ui.expanded] = ui.entries[ui.expanded]]_pageVars

=============================================================================
