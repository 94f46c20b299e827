---------------------------- MODULE BlocklistsPage ----------------------------
(* views/Blocklists.vue: the table of blocklists (PausePage has the card above *)
(* it, which shares none of its state).  A row is what the toggles change;     *)
(* all rows have a source to refresh from.  Names, formats and domains are     *)
(* left out.                                                                   *)
EXTENDS Page

\* refresh_interval_seconds: 0 is off, 1 the 24 hours the toggle sets, 2 another.
Interval == 0..2
Blocklist == [enabled : BOOLEAN, interval : Interval]
NewBlocklist == [enabled |-> TRUE, interval |-> 0]

ASSUME BlocklistsAssumption == None \notin Blocklist /\ None \notin {"enabled", "interval"}

BlocklistsTypeOK ==
    /\ TypedCalls
    /\ {ui.rows, srv.rows} \subseteq [Item -> Blocklist \cup {None}]
    /\ ui.busyRows \subseteq Item /\ ui.rowErrors \subseteq Item
    /\ ui.pendingDelete \in Item \cup {None}
    /\ {ui.loading, ui.showCreate, ui.submitting, ui.deleting} \subseteq BOOLEAN

\* What the page offers: the table once it is loaded, unless a dialog covers it.
\* The selector of the interval is offered on a busy row too.
BlocklistsCovered == ui.showCreate \/ ui.pendingDelete # None
BlocklistsShown == IF ui.loading \/ BlocklistsCovered THEN {} ELSE Ids(ui.rows)
RowOffered(b) == b \in BlocklistsShown /\ b \notin ui.busyRows
IntervalOffered(b) == b \in BlocklistsShown /\ ui.rows[b].interval # 0
BlocklistsCreateOffered == ui.showCreate /\ ~ui.submitting
BlocklistsDeleteOffered == ui.pendingDelete # None /\ ~ui.deleting

BlocklistsInit ==
    /\ page = "blocklists"
    /\ ui = [rows |-> NoRows, busyRows |-> {}, rowErrors |-> {}, pendingDelete |-> None,
             loading |-> TRUE, showCreate |-> FALSE, submitting |-> FALSE,
             deleting |-> FALSE]
    /\ \E i \in Item, s \in {0, 1} :
          srv = [rows |-> [NoRows EXCEPT ![i] = [enabled |-> TRUE, interval |-> s]],
                 used |-> {i}]
    /\ calls = {Call(1, "listBlocklists", None)} /\ writes = 0 /\ crossed = FALSE

BlocklistsRefreshed(c) ==
    /\ c \in Ended("listBlocklists")
    /\ ui' = IF c.at = "failed" THEN [ui EXCEPT !.loading = FALSE]
             ELSE [ui EXCEPT !.loading = FALSE, !.rows = c.data.rows, !.rowErrors = {}]
    /\ Done(c) /\ UNCHANGED <<page, srv>>

\* The row flips before the node knows; what it was goes along with the call.
ToggleEnabled(b) ==
    /\ RowOffered(b)
    /\ LET prev == ui.rows[b].enabled
       IN /\ ui' = [ui EXCEPT !.rows[b].enabled = ~prev, !.busyRows = @ \cup {b},
                              !.rowErrors = @ \ {b}]
          /\ Asks("updateBlocklist", [id |-> b, set |-> "enabled", to |-> ~prev])
    /\ UNCHANGED <<page, srv>>

SetRefreshInterval(b, seconds) ==
    /\ ui' = [ui EXCEPT !.busyRows = @ \cup {b}, !.rowErrors = @ \ {b}]
    /\ Asks("updateBlocklist", [id |-> b, set |-> "interval", to |-> seconds])
    /\ UNCHANGED <<page, srv>>

ToggleAutoRefresh(b) ==
    RowOffered(b) /\ SetRefreshInterval(b, IF ui.rows[b].interval # 0 THEN 0 ELSE 1)

SelectInterval(b) ==
    \E s \in {1, 2} : IntervalOffered(b) /\ s # ui.rows[b].interval /\ SetRefreshInterval(b, s)

RefreshRow(b) ==
    /\ RowOffered(b)
    /\ ui' = [ui EXCEPT !.busyRows = @ \cup {b}, !.rowErrors = @ \ {b}]
    /\ Asks("refreshBlocklist", [id |-> b, set |-> None, to |-> None])
    /\ UNCHANGED <<page, srv>>

\* mutant: a failed flip is not taken back.
RowDoneKept(c) ==
    /\ c \in Ended("updateBlocklist") \cup Ended("refreshBlocklist")
    /\ LET b == c.arg.id
       IN ui' = [ui EXCEPT !.busyRows = @ \ {b},
                           !.rowErrors = IF c.at = "ok" THEN @ ELSE @ \cup {b},
                           !.rows[b] = IF c.at = "ok" /\ @ # None THEN c.data ELSE @]
    /\ Done(c) /\ UNCHANGED <<page, srv>>

\* mutant: an error leaves the row busy.
RowDoneBusy(c) ==
    /\ c \in Ended("updateBlocklist") \cup Ended("refreshBlocklist")
    /\ LET b == c.arg.id
           row == IF c.at = "ok" THEN c.data
                  ELSE IF c.arg.set = "enabled" THEN [ui.rows[b] EXCEPT !.enabled = ~c.arg.to]
                  ELSE ui.rows[b]
       IN ui' = [ui EXCEPT !.busyRows = IF c.at = "ok" THEN @ \ {b} ELSE @,
                           !.rowErrors = IF c.at = "ok" THEN @ ELSE @ \cup {b},
                           !.rows[b] = IF @ = None THEN None ELSE row]
    /\ Done(c) /\ UNCHANGED <<page, srv>>

\* The whole row becomes what the node answered, or what was flipped goes back.
\* A row that was deleted meanwhile is changed where nobody sees it.
RowDone(c) ==
    /\ c \in Ended("updateBlocklist") \cup Ended("refreshBlocklist")
    /\ LET b == c.arg.id
           row == IF c.at = "ok" THEN c.data
                  ELSE IF c.arg.set = "enabled" THEN [ui.rows[b] EXCEPT !.enabled = ~c.arg.to]
                  ELSE ui.rows[b]
       IN ui' = [ui EXCEPT !.busyRows = @ \ {b},
                           !.rowErrors = IF c.at = "ok" THEN @ ELSE @ \cup {b},
                           !.rows[b] = IF @ = None THEN None ELSE row]
    /\ Done(c) /\ UNCHANGED <<page, srv>>

BlocklistsAskDelete(b) ==
    /\ RowOffered(b)
    /\ ui' = [ui EXCEPT !.pendingDelete = b]
    /\ Local

BlocklistsConfirmDelete ==
    /\ BlocklistsDeleteOffered
    /\ ui' = [ui EXCEPT !.deleting = TRUE]
    /\ Asks("deleteBlocklist", [id |-> ui.pendingDelete, set |-> None, to |-> None])
    /\ UNCHANGED <<page, srv>>

BlocklistsDeleted(c) ==
    /\ c \in Ended("deleteBlocklist")
    /\ ui' = IF c.at = "failed" THEN [ui EXCEPT !.deleting = FALSE]
             ELSE [ui EXCEPT !.deleting = FALSE, !.pendingDelete = None,
                             !.rows[c.arg.id] = None]
    /\ Done(c) /\ UNCHANGED <<page, srv>>

BlocklistsOpenCreate ==
    /\ ~BlocklistsCovered
    /\ ui' = [ui EXCEPT !.showCreate = TRUE]
    /\ Local

BlocklistsSubmitCreate ==
    /\ BlocklistsCreateOffered
    /\ ui' = [ui EXCEPT !.submitting = TRUE]
    /\ Asks("createBlocklist", None)
    /\ UNCHANGED <<page, srv>>

BlocklistsCreated(c) ==
    /\ c \in Ended("createBlocklist")
    /\ ui' = IF c.at = "failed" THEN [ui EXCEPT !.submitting = FALSE]
             ELSE [ui EXCEPT !.submitting = FALSE, !.showCreate = FALSE,
                             !.rows[c.data.id] = NewBlocklist]
    /\ Done(c) /\ UNCHANGED <<page, srv>>

\* Cancel, the backdrops and Escape: the form stays while it is being sent, the
\* dialog of a deletion does not.
BlocklistsClose ==
    /\ \/ ui.pendingDelete # None /\ ui' = [ui EXCEPT !.pendingDelete = None]
       \/ /\ ui.pendingDelete = None /\ BlocklistsCreateOffered
          /\ ui' = [ui EXCEPT !.showCreate = FALSE]
    /\ Local

BlocklistsPatched(row, arg) ==
    IF arg.set = "enabled" THEN [row EXCEPT !.enabled = arg.to]
    ELSE IF arg.set = "interval" THEN [row EXCEPT !.interval = arg.to] ELSE row

BlocklistsServes(c) ==
    /\ c.at = "sent"
    /\ \/ c.op = "listBlocklists" /\ Answers(c, [rows |-> srv.rows]) /\ UNCHANGED srv
       \/ /\ c.op = "createBlocklist"
          /\ \E i \in Item \ srv.used :
                /\ srv' = [rows |-> [srv.rows EXCEPT ![i] = NewBlocklist],
                           used |-> srv.used \cup {i}]
                /\ Answers(c, [id |-> i])
       \/ /\ c.op \in {"updateBlocklist", "refreshBlocklist", "deleteBlocklist"}
          /\ c.arg.id \notin Ids(srv.rows) /\ Refuses(c)
       \/ /\ c.op \in {"updateBlocklist", "refreshBlocklist"} /\ c.arg.id \in Ids(srv.rows)
          /\ srv' = [srv EXCEPT !.rows[c.arg.id] = BlocklistsPatched(@, c.arg)]
          /\ Answers(c, srv'.rows[c.arg.id])
       \/ /\ c.op = "deleteBlocklist" /\ c.arg.id \in Ids(srv.rows)
          /\ srv' = [srv EXCEPT !.rows[c.arg.id] = None]
          /\ Answers(c, None)
    /\ UNCHANGED <<page, ui>>

BlocklistsNext ==
    \/ \E b \in Item : \/ ToggleEnabled(b) \/ ToggleAutoRefresh(b) \/ SelectInterval(b)
                       \/ RefreshRow(b) \/ BlocklistsAskDelete(b)
    \/ BlocklistsConfirmDelete \/ BlocklistsOpenCreate \/ BlocklistsSubmitCreate
    \/ BlocklistsClose
    \/ \E c \in calls : \/ BlocklistsRefreshed(c) \/ RowDone(c) \/ BlocklistsDeleted(c)
                        \/ BlocklistsCreated(c)
                        \/ BlocklistsServes(c) \/ Fails(c)

-----------------------------------------------------------------------------

\* Once everything is answered and no call crossed another, the table shows what
\* the node stores: a flip that failed was rolled back.
BlocklistsShowsStored == Settled => ui.rows = srv.rows

\* A row whose write is under way is busy, and one that nobody writes is not.
\* The first half fails: the selector of the interval is offered on a busy row,
\* and the first of the two answers frees the row for the second.
BusyWhileWritten ==
    ui.busyRows = {c.arg.id : c \in Pending("updateBlocklist") \cup Pending("refreshBlocklist")}

\* As long as no two writes cross, it holds.
BusyUnlessCrossed == ~crossed => BusyWhileWritten

\* What web/UI.md says of this view: the list is fetched again after every change
\* that succeeded.  Not so: the rows are changed in place.
RefetchedAfterMutation ==
    [][\A c \in Ok("createBlocklist") \cup Ok("updateBlocklist") \cup Ok("deleteBlocklist") :
          c \notin calls' => \E d \in calls' \ calls : d.op = "listBlocklists"]_pageVars

=============================================================================
