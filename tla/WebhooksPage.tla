---------------------------- MODULE WebhooksPage ----------------------------
(* views/Webhooks.vue: the endpoints events are posted to, and the button that*)
(* fires a test.  The value of a row is what was typed for it.                *)
EXTENDS Page

WebhookEndpoint == Value

WebhooksTypeOK ==
    /\ TypedCalls /\ StoreType
    /\ ui.rows \in [Item -> WebhookEndpoint \cup {None}]
    /\ {ui.deleteTarget, ui.deleting, ui.testing} \subseteq Item \cup {None}
    /\ ui.testResult \in Item \cup {None} /\ ui.timers \in 0..MaxWrites
    /\ {ui.loading, ui.showCreate, ui.creating} \subseteq BOOLEAN

\* What the page offers: the toolbar and the rows, unless a dialog covers them.
WebhooksCovered == ui.showCreate \/ ui.deleteTarget # None
WebhooksRefreshOffered == ~WebhooksCovered /\ ~ui.loading
WebhooksRows == IF WebhooksCovered THEN {} ELSE Ids(ui.rows)
WebhooksTestOffered == WebhooksRows \ {ui.testing}
WebhooksDeleteOffered == WebhooksRows \ {ui.deleting}
WebhooksCreateOffered == ui.showCreate /\ ~ui.creating
ConfirmOffered == ui.deleteTarget # None /\ ui.deleting = None

WebhooksInit ==
    /\ page = "webhooks"
    /\ ui = [rows |-> NoRows, deleteTarget |-> None, deleting |-> None, testing |-> None,
             testResult |-> None, timers |-> 0, loading |-> TRUE, showCreate |-> FALSE,
             creating |-> FALSE]
    /\ srv \in OneRow
    /\ calls = {Call(1, "listWebhooks", None)} /\ writes = 0 /\ crossed = FALSE

WebhooksRefresh ==
    /\ WebhooksRefreshOffered
    /\ ui' = [ui EXCEPT !.loading = TRUE]
    /\ Asks("listWebhooks", None)
    /\ UNCHANGED <<page, srv>>

WebhooksRefreshed(c) ==
    /\ c \in Ended("listWebhooks")
    /\ ui' = [ui EXCEPT !.loading = FALSE, !.rows = IF c.at = "ok" THEN c.data.rows ELSE @]
    /\ Done(c) /\ UNCHANGED <<page, srv>>

WebhooksOpenCreate ==
    /\ ~WebhooksCovered
    /\ ui' = [ui EXCEPT !.showCreate = TRUE]
    /\ Local

WebhooksCloseCreate ==
    /\ ui.showCreate
    /\ ui' = [ui EXCEPT !.showCreate = FALSE]
    /\ Local

WebhooksSubmitCreate ==
    /\ WebhooksCreateOffered
    /\ ui' = [ui EXCEPT !.creating = TRUE]
    /\ \E v \in WebhookEndpoint : Asks("createWebhook", [value |-> v])
    /\ UNCHANGED <<page, srv>>

WebhooksCreated(c) ==
    /\ c \in Ended("createWebhook")
    /\ ui' = IF c.at = "failed" THEN [ui EXCEPT !.creating = FALSE]
             ELSE [ui EXCEPT !.creating = FALSE, !.showCreate = FALSE,
                             !.rows[c.data.id] = c.data.value]
    /\ Done(c) /\ UNCHANGED <<page, srv>>

WebhooksConfirmDelete(i) ==
    /\ i \in WebhooksDeleteOffered
    /\ ui' = [ui EXCEPT !.deleteTarget = i]
    /\ Local

WebhooksCloseDelete ==
    /\ ui.deleteTarget # None
    /\ ui' = [ui EXCEPT !.deleteTarget = None]
    /\ Local

WebhooksDoDelete ==
    /\ ConfirmOffered
    /\ ui' = [ui EXCEPT !.deleting = ui.deleteTarget]
    /\ Asks("deleteWebhook", [id |-> ui.deleteTarget])
    /\ UNCHANGED <<page, srv>>

\* mutant: the row is that of the dialog that is open by now.
DeletedByDialog(c) ==
    /\ c \in Ended("deleteWebhook")
    /\ ui' = [ui EXCEPT !.deleting = None, !.deleteTarget = None,
                        !.rows = [i \in Item |-> IF c.at = "ok" /\ i = ui.deleteTarget
                                                 THEN None ELSE @[i]]]
    /\ Done(c) /\ UNCHANGED <<page, srv>>

\* The id was taken before the call; whatever dialog is open by now closes.
WebhooksDeleted(c) ==
    /\ c \in Ended("deleteWebhook")
    /\ ui' = [ui EXCEPT !.deleting = None, !.deleteTarget = None,
                        !.rows = IF c.at = "ok" THEN [@ EXCEPT ![c.arg.id] = None] ELSE @]
    /\ Done(c) /\ UNCHANGED <<page, srv>>

TestFire(i) ==
    /\ i \in WebhooksTestOffered
    /\ ui' = [ui EXCEPT !.testing = i, !.testResult = None]
    /\ Asks("testWebhook", [id |-> i])
    /\ UNCHANGED <<page, srv>>

\* The toast shows the result, and each result sets a timer that takes away
\* whatever the toast shows when it fires.
TestFired(c) ==
    /\ c \in Ended("testWebhook")
    /\ ui' = [ui EXCEPT !.testing = None, !.testResult = c.arg.id, !.timers = @ + 1]
    /\ Done(c) /\ UNCHANGED <<page, srv>>

ToastTimer ==
    /\ ui.timers > 0
    /\ ui' = [ui EXCEPT !.timers = @ - 1, !.testResult = None]
    /\ Local

WebhooksServes(c) ==
    \/ ServesRows(c, {"listWebhooks"}, {"createWebhook"}, {}, {"deleteWebhook"})
    \/ /\ c.op = "testWebhook" /\ c.at = "sent"
       /\ \/ c.arg.id \in Ids(srv.rows) /\ Answers(c, None) /\ UNCHANGED srv
          \/ c.arg.id \notin Ids(srv.rows) /\ Refuses(c)
       /\ UNCHANGED <<page, ui>>

WebhooksNext ==
    \/ \E i \in Item : WebhooksConfirmDelete(i) \/ TestFire(i)
    \/ WebhooksRefresh \/ WebhooksOpenCreate \/ WebhooksCloseCreate
    \/ WebhooksSubmitCreate \/ WebhooksCloseDelete \/ WebhooksDoDelete
    \/ ToastTimer
    \/ \E c \in calls : \/ WebhooksRefreshed(c) \/ WebhooksCreated(c)
                        \/ WebhooksDeleted(c) \/ TestFired(c)
                        \/ WebhooksServes(c) \/ Fails(c)

-----------------------------------------------------------------------------

\* Whatever dialogs were closed and opened meanwhile: once everything is answered
\* and no call crossed another, the page lists the endpoints the node stores.
ListsEndpoints == Settled => ui.rows = srv.rows

\* A toast is taken away by a timer: one that is shown has one to come, and a
\* removal that is under way keeps its row from being removed again.
ToastGoesAway ==
    /\ ui.testResult # None => ui.timers > 0
    /\ {c.arg.id : c \in Pending("deleteWebhook")} = {ui.deleting} \ {None}

\* The button of an endpoint that is being tested stays disabled until its own
\* test is over.  Not so: there is one place for the endpoint that is tested, and
\* a test of another one takes it.
TestsOneAtATime ==
    \A i \in Item : Cardinality({c \in Pending("testWebhook") : c.arg.id = i}) <= 1

=============================================================================
