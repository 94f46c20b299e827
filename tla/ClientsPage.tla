----------------------------- MODULE ClientsPage -----------------------------
(* views/Clients.vue: the leases of the network, the changes among them that   *)
(* look like spoofing, and a drawer with the details of one client.  Item      *)
(* names clients (and an anomaly by its client).  The two calls of a           *)
(* Promise.all count as one.  Search, sorting, export and formats are left out.*)
EXTENDS Page

Lease == Item
Anomaly == Item
ClientDetail == [ip : Item]

ClientsTypeOK ==
    /\ TypedCalls /\ srv.leases \subseteq Lease /\ srv.spoofed \subseteq Anomaly
    /\ ui.leases \subseteq Lease /\ ui.anomalies \subseteq Anomaly
    /\ {ui.openMenuIP, ui.fwRuleScope, ui.detailIP} \subseteq Item \cup {None}
    /\ ui.detail \in ClientDetail \cup {None}
    /\ {ui.loading, ui.timer, ui.detailLoading, ui.detailError} \subseteq BOOLEAN

\* What the page offers: the dialog with the rules and the drawer cover it.
ClientsCovered == ui.fwRuleScope # None \/ ui.detailIP # None
ClientsRefreshOffered == ~ClientsCovered /\ ~ui.loading
ActiveAnomalies == IF ClientsCovered THEN {} ELSE ui.anomalies
Filtered == IF ClientsCovered THEN {} ELSE ui.leases
MenuOf(ip) == ip \in Filtered /\ ui.openMenuIP = ip
DrawerShows == IF ui.detailLoading THEN "loading" ELSE IF ui.detailError THEN "error"
               ELSE IF ui.detail = None THEN "nothing" ELSE "details"

ClientsInit ==
    /\ page = "clients"
    /\ ui = [leases |-> {}, anomalies |-> {}, loading |-> TRUE, timer |-> FALSE,
             openMenuIP |-> None, fwRuleScope |-> None, detailIP |-> None, detail |-> None,
             detailLoading |-> FALSE, detailError |-> FALSE]
    /\ srv = [leases |-> Item, spoofed |-> {CHOOSE i \in Item : TRUE}]
    /\ calls = {Call(1, "listLeases", None)} /\ writes = 0 /\ crossed = FALSE

\* The button, or the timer that runs from the end of the first refresh on.
ClientsRefresh ==
    /\ ClientsRefreshOffered \/ ui.timer
    /\ ui' = [ui EXCEPT !.loading = TRUE]
    /\ Asks("listLeases", None)
    /\ UNCHANGED <<page, srv>>

ClientsRefreshed(c) ==
    /\ c \in Ended("listLeases")
    /\ ui' = [ui EXCEPT !.loading = FALSE, !.timer = TRUE,
                        !.leases = IF c.at = "ok" THEN c.data.leases ELSE @,
                        !.anomalies = IF c.at = "ok" THEN c.data.spoofed ELSE @]
    /\ Done(c) /\ UNCHANGED <<page, srv>>

Acknowledge(a) ==
    /\ a \in ActiveAnomalies
    /\ Asks("acknowledgeAnomaly", [id |-> a])
    /\ UNCHANGED <<page, ui, srv>>

\* mutant: the anomalies are not read again.
AcknowledgedOnly(c) ==
    /\ c \in Ended("acknowledgeAnomaly")
    /\ Done(c) /\ UNCHANGED <<page, ui, srv>>

Acknowledged(c) ==
    /\ c \in Ended("acknowledgeAnomaly")
    /\ \/ c.at = "failed" /\ Done(c) /\ UNCHANGED ui
       \/ /\ c.at = "ok" /\ Then(c, "listLeases", None)
          /\ ui' = [ui EXCEPT !.loading = TRUE]
    /\ UNCHANGED <<page, srv>>

ToggleMenu(ip) ==
    /\ ip \in Filtered
    /\ ui' = [ui EXCEPT !.openMenuIP = IF @ = ip THEN None ELSE ip]
    /\ Local

\* A click anywhere else; the listener is there once the timer is.
OnDocClick ==
    /\ ui.timer /\ ui.openMenuIP # None
    /\ ui' = [ui EXCEPT !.openMenuIP = None]
    /\ Local

OpenFwRules(ip) ==
    /\ MenuOf(ip)
    /\ ui' = [ui EXCEPT !.fwRuleScope = ip, !.openMenuIP = None]
    /\ Local

OpenDetail(ip) ==
    /\ MenuOf(ip)
    /\ ui' = [ui EXCEPT !.openMenuIP = None, !.detailIP = ip, !.detail = None,
                        !.detailError = FALSE, !.detailLoading = TRUE]
    /\ AsksAside("getClientDetail", [ip |-> ip])
    /\ UNCHANGED <<page, srv>>

\* Which client the drawer is about by now is not asked.
GotDetail(c) ==
    /\ c \in Ended("getClientDetail")
    /\ ui' = [ui EXCEPT !.detailLoading = FALSE, !.detailError = @ \/ c.at = "failed",
                        !.detail = IF c.at = "ok" THEN c.data ELSE @]
    /\ Done(c) /\ UNCHANGED <<page, srv>>

\* The cross of the drawer and the backdrops.
ClientsClose ==
    /\ ClientsCovered
    /\ ui' = [ui EXCEPT !.detailIP = None, !.fwRuleScope = None]
    /\ Local

ClientsServes(c) ==
    /\ c.at = "sent"
    /\ \/ c.op = "listLeases" /\ Answers(c, srv) /\ UNCHANGED srv
       \/ /\ c.op = "getClientDetail"
          /\ IF c.arg.ip \in srv.leases THEN Answers(c, c.arg) /\ UNCHANGED srv
             ELSE Refuses(c)
       \/ /\ c.op = "acknowledgeAnomaly"
          /\ srv' = [srv EXCEPT !.spoofed = @ \ {c.arg.id}]
          /\ Answers(c, None)
    /\ UNCHANGED <<page, ui>>

\* One lease runs out: what the page shows is old from now on.
ClientsExpires(ip) ==
    /\ srv.leases = Item
    /\ srv' = [srv EXCEPT !.leases = @ \ {ip}] /\ crossed' = TRUE
    /\ UNCHANGED <<page, ui, calls, writes>>

ClientsNext ==
    \/ \E i \in Item : \/ Acknowledge(i) \/ ToggleMenu(i) \/ OpenFwRules(i)
                       \/ OpenDetail(i) \/ ClientsExpires(i)
    \/ ClientsRefresh \/ OnDocClick \/ ClientsClose
    \/ \E c \in calls : \/ ClientsRefreshed(c) \/ Acknowledged(c) \/ GotDetail(c)
                        \/ ClientsServes(c) \/ Fails(c)

-----------------------------------------------------------------------------

\* Once everything is answered and no call crossed another, the page shows the
\* leases of the network and every change nobody acknowledged.
ShowsNetwork ==
    Settled /\ ui.timer =>
        ui.leases = srv.leases /\ ui.anomalies = srv.spoofed

\* The drawer shows the client it was opened for.  It does not always: the answer
\* for a client whose drawer was closed lands in the drawer of the next one.
DrawerIsOfClient ==
    ui.detailIP # None /\ DrawerShows = "details" => ui.detail.ip = ui.detailIP

=============================================================================
