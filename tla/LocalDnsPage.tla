---------------------------- MODULE LocalDnsPage ----------------------------
(* views/LocalDNS.vue: the names the cluster answers itself.  A row is edited *)
(* in place and shows the new value before the node has it.  What handlers    *)
(* hold on to is the row object, not its id: Item names both, and a row       *)
(* starts out with the id of its own name.  Texts and the filter are left out.*)
EXTENDS Page

LocalDNSEntry == [id : Item, value : Value]
Entry(i, v) == [id |-> i, value |-> v]

ASSUME LocalDnsAssumption == None \notin LocalDNSEntry

LocalDnsTypeOK ==
    /\ TypedCalls
    /\ ui.entries \subseteq Item /\ ui.row \in [Item -> LocalDNSEntry]
    /\ ui.busyRows \subseteq Item /\ ui.editingId \in Item \cup {None}
    /\ ui.pendingDelete \in Item \cup {None}
    /\ ui.editSnapshot \in LocalDNSEntry \cup {None}
    /\ {ui.loading, ui.showCreate, ui.submitting, ui.deleting} \subseteq BOOLEAN
    /\ StoreType

LocalDnsStored == Ids(srv.rows)

\* What the page offers: the table once it is loaded, its buttons unless a row
\* is being edited, all of it unless a dialog covers it.
LocalDnsCovered == ui.pendingDelete # None \/ ui.showCreate
Busy(r) == ui.row[r].id \in ui.busyRows
LocalDnsRows == IF LocalDnsCovered \/ ui.loading THEN {} ELSE ui.entries
InEdit(r) == ui.editingId = ui.row[r].id
LocalDnsEditOffered == {r \in LocalDnsRows : ui.editingId = None /\ ~Busy(r)}
LocalDnsSaveOffered == {r \in LocalDnsRows : InEdit(r) /\ ~Busy(r)}
LocalDnsCreateOffered == ui.showCreate /\ ~ui.submitting
LocalDnsDeleteOffered == ui.pendingDelete # None /\ ~ui.deleting

LocalDnsInit ==
    /\ page = "localdns"
    /\ ui = [entries |-> {}, row |-> [i \in Item |-> Entry(i, 1)], busyRows |-> {},
             editingId |-> None, editSnapshot |-> None, pendingDelete |-> None,
             loading |-> TRUE, showCreate |-> FALSE, submitting |-> FALSE,
             deleting |-> FALSE]
    /\ srv \in OneRow
    /\ calls = {Call(1, "listLocalDNS", None)} /\ writes = 0 /\ crossed = FALSE

LocalDnsRefreshed(c) ==
    /\ c \in Ended("listLocalDNS")
    /\ ui' = IF c.at = "failed" THEN [ui EXCEPT !.loading = FALSE]
             ELSE [ui EXCEPT !.loading = FALSE, !.entries = Ids(c.data.rows),
                             !.row = [i \in Item |-> IF i \in Ids(c.data.rows)
                                                     THEN Entry(i, c.data.rows[i])
                                                     ELSE ui.row[i]]]
    /\ Done(c) /\ UNCHANGED <<page, srv>>

StartEdit(r) ==
    /\ r \in LocalDnsEditOffered
    /\ ui' = [ui EXCEPT !.editingId = ui.row[r].id, !.editSnapshot = ui.row[r]]
    /\ Local

CancelEdit ==
    /\ \E r \in LocalDnsSaveOffered : TRUE
    /\ ui' = [ui EXCEPT !.editingId = None, !.editSnapshot = None]
    /\ Local

SaveEdit(r) ==
    /\ r \in LocalDnsSaveOffered
    /\ \E v \in Value :
          /\ ui' = [ui EXCEPT !.row[r].value = v, !.busyRows = @ \cup {ui.row[r].id}]
          /\ Asks("updateLocalDNS", [row |-> r, id |-> ui.row[r].id, value |-> v])
    /\ UNCHANGED <<page, srv>>

\* mutant: the row keeps what the node did not take.
SavedEditKept(c) ==
    /\ c \in Ended("updateLocalDNS")
    /\ LET r == c.arg.row
           now == IF c.at = "ok" THEN c.data ELSE ui.row[r]
       IN ui' = [ui EXCEPT !.row[r] = now, !.busyRows = @ \ {now.id},
                           !.editingId = IF c.at = "ok" THEN None ELSE @,
                           !.editSnapshot = IF c.at = "ok" THEN None ELSE @]
    /\ Done(c) /\ UNCHANGED <<page, srv>>

\* mutant: an error leaves the row busy.
SavedEditBusy(c) ==
    /\ c \in Ended("updateLocalDNS")
    /\ LET r == c.arg.row
           now == IF c.at = "ok" THEN c.data
                  ELSE IF ui.editSnapshot # None THEN ui.editSnapshot ELSE ui.row[r]
       IN ui' = [ui EXCEPT !.row[r] = now,
                           !.busyRows = IF c.at = "ok" THEN @ \ {now.id} ELSE @,
                           !.editingId = IF c.at = "ok" THEN None ELSE @,
                           !.editSnapshot = IF c.at = "ok" THEN None ELSE @]
    /\ Done(c) /\ UNCHANGED <<page, srv>>

\* The row becomes what the node answered, or what it was when the edit that is
\* open by now began.
SavedEdit(c) ==
    /\ c \in Ended("updateLocalDNS")
    /\ LET r == c.arg.row
           now == IF c.at = "ok" THEN c.data
                  ELSE IF ui.editSnapshot # None THEN ui.editSnapshot ELSE ui.row[r]
       IN ui' = [ui EXCEPT !.row[r] = now, !.busyRows = @ \ {now.id},
                           !.editingId = IF c.at = "ok" THEN None ELSE @,
                           !.editSnapshot = IF c.at = "ok" THEN None ELSE @]
    /\ Done(c) /\ UNCHANGED <<page, srv>>

LocalDnsAskDelete(r) ==
    /\ r \in LocalDnsEditOffered
    /\ ui' = [ui EXCEPT !.pendingDelete = r]
    /\ Local

LocalDnsCloseDelete ==
    /\ ui.pendingDelete # None
    /\ ui' = [ui EXCEPT !.pendingDelete = None]
    /\ Local

LocalDnsConfirmDelete ==
    /\ LocalDnsDeleteOffered
    /\ ui' = [ui EXCEPT !.deleting = TRUE]
    /\ Asks("deleteLocalDNS", [row |-> ui.pendingDelete, id |-> ui.row[ui.pendingDelete].id])
    /\ UNCHANGED <<page, srv>>

LocalDnsDeleted(c) ==
    /\ c \in Ended("deleteLocalDNS")
    /\ ui' = IF c.at = "failed" THEN [ui EXCEPT !.deleting = FALSE]
             ELSE [ui EXCEPT !.deleting = FALSE, !.pendingDelete = None,
                             !.entries = {r \in @ : ui.row[r].id # ui.row[c.arg.row].id}]
    /\ Done(c) /\ UNCHANGED <<page, srv>>

LocalDnsOpenCreate ==
    /\ ~LocalDnsCovered
    /\ ui' = [ui EXCEPT !.showCreate = TRUE]
    /\ Local

LocalDnsCloseCreate ==
    /\ LocalDnsCreateOffered
    /\ ui' = [ui EXCEPT !.showCreate = FALSE]
    /\ Local

LocalDnsSubmitCreate ==
    /\ LocalDnsCreateOffered
    /\ ui' = [ui EXCEPT !.submitting = TRUE]
    /\ \E v \in Value : Asks("createLocalDNS", [value |-> v])
    /\ UNCHANGED <<page, srv>>

LocalDnsCreated(c) ==
    /\ c \in Ended("createLocalDNS")
    /\ ui' = IF c.at = "failed" THEN [ui EXCEPT !.submitting = FALSE]
             ELSE [ui EXCEPT !.submitting = FALSE, !.showCreate = FALSE,
                             !.entries = @ \cup {c.data.id},
                             !.row[c.data.id] = c.data]
    /\ Done(c) /\ UNCHANGED <<page, srv>>

\* Escape closes a dialog or the edit, whether or not it is being saved: then
\* nobody waits for that answer any more.
LocalDnsOnKey ==
    /\ \/ /\ ui.pendingDelete # None
          /\ ui' = [ui EXCEPT !.pendingDelete = None] /\ UNCHANGED crossed
       \/ /\ ui.pendingDelete = None /\ LocalDnsCreateOffered
          /\ ui' = [ui EXCEPT !.showCreate = FALSE] /\ UNCHANGED crossed
       \/ /\ ui.pendingDelete = None /\ ~LocalDnsCreateOffered /\ ui.editingId # None
          /\ ui' = [ui EXCEPT !.editingId = None, !.editSnapshot = None]
          /\ crossed' = (crossed \/ ui.editingId \in ui.busyRows)
    /\ UNCHANGED <<page, srv, calls, writes>>

LocalDnsServes(c) == ServesRows(c, {"listLocalDNS"}, {"createLocalDNS"}, {"updateLocalDNS"},
                        {"deleteLocalDNS"})

LocalDnsNext ==
    \/ \E r \in Item : StartEdit(r) \/ SaveEdit(r) \/ LocalDnsAskDelete(r)
    \/ CancelEdit \/ LocalDnsCloseDelete \/ LocalDnsConfirmDelete \/ LocalDnsOpenCreate
    \/ LocalDnsCloseCreate
    \/ LocalDnsSubmitCreate \/ LocalDnsOnKey
    \/ \E c \in calls : \/ LocalDnsRefreshed(c) \/ SavedEdit(c) \/ LocalDnsDeleted(c)
                        \/ LocalDnsCreated(c)
                        \/ LocalDnsServes(c) \/ Fails(c)

-----------------------------------------------------------------------------

\* Once everything is answered, no call crossed another and no edit was given up
\* while it was being saved, the table shows what the node stores: a save that
\* failed was rolled back, and rows were added and taken away as on the node.
LocalDnsShowsStored ==
    Settled => /\ {ui.row[r].id : r \in ui.entries} = LocalDnsStored
               /\ \A r \in ui.entries : ui.row[r].value = srv.rows[ui.row[r].id]

\* Rows keep their ids, and none stays busy when nothing is being saved, as long
\* as edits are not given up while they are saved.
RowsStayThemselves ==
    ~crossed => /\ \A r \in ui.entries : ui.row[r].id = r
                /\ ui.busyRows = {c.arg.id : c \in Pending("updateLocalDNS")}

\* What the comments of saveEdit say: the value is applied optimistically and
\* rolled back when the node does not take it.  Not so: Escape forgets what the
\* row was, and so does the edit of another row; nor is a lost answer a refusal.
FailedSaveRollsBack ==
    [][\A c \in Failed("updateLocalDNS") : c \notin calls' /\ c.arg.id \in LocalDnsStored
          => ui'.row[c.arg.row] = Entry(c.arg.id, srv.rows[c.arg.id])]_pageVars

=============================================================================
