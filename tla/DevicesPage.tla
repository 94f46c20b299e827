----------------------------- MODULE DevicesPage -----------------------------
(* views/Devices.vue: the registered devices and the profile each belongs to. *)
(* The value of a row is everything the panel has fields for: all of it is    *)
(* sent with every change.  The search box is left out.                       *)
EXTENDS Page

Device == Value

DevicesTypeOK ==
    /\ TypedCalls /\ StoreType
    /\ ui.rows \in [Item -> Device \cup {None}]
    /\ {ui.editingDevice, ui.deleteTarget} \subseteq Item \cup {None}
    /\ {ui.loading, ui.panelOpen, ui.saving, ui.deleting} \subseteq BOOLEAN

\* What the page offers: the toolbar and the rows, unless a dialog covers them.
DevicesCovered == ui.panelOpen \/ ui.deleteTarget # None
DevicesRefreshOffered == ~DevicesCovered /\ ~ui.loading
DevicesRows == IF DevicesCovered THEN {} ELSE Ids(ui.rows)
DevicesSaveOffered == ui.panelOpen /\ ~ui.saving
DevicesDeleteOffered == ui.deleteTarget # None /\ ~ui.deleting

DevicesInit ==
    /\ page = "devices"
    /\ ui = [rows |-> NoRows, editingDevice |-> None, deleteTarget |-> None,
             loading |-> TRUE, panelOpen |-> FALSE, saving |-> FALSE, deleting |-> FALSE]
    /\ srv \in OneRow
    /\ calls = {Call(1, "listDevices", [for |-> "mount"])} /\ writes = 0 /\ crossed = FALSE

DevicesRefresh ==
    /\ DevicesRefreshOffered
    /\ ui' = [ui EXCEPT !.loading = TRUE]
    /\ Asks("listDevices", [for |-> "mount"])
    /\ UNCHANGED <<page, srv>>

\* A failure to load is the caller's to report; the button has no one to do it.
DevicesRefreshed(c) ==
    /\ c \in Ended("listDevices")
    /\ ui' = [ui EXCEPT !.rows = IF c.at = "ok" THEN c.data.rows ELSE @,
                        !.loading = FALSE,
                        !.saving = @ /\ c.arg.for # "save",
                        !.deleting = @ /\ c.arg.for # "delete"]
    /\ Done(c) /\ UNCHANGED <<page, srv>>

DevicesOpenCreate ==
    /\ ~DevicesCovered
    /\ ui' = [ui EXCEPT !.panelOpen = TRUE, !.editingDevice = None]
    /\ Local

DevicesOpenEdit(i) ==
    /\ i \in DevicesRows
    /\ ui' = [ui EXCEPT !.panelOpen = TRUE, !.editingDevice = i]
    /\ Local

ClosePanel ==
    /\ ui.panelOpen
    /\ ui' = [ui EXCEPT !.panelOpen = FALSE, !.editingDevice = None]
    /\ Local

DevicesSave ==
    /\ DevicesSaveOffered
    /\ ui' = [ui EXCEPT !.saving = TRUE]
    /\ \E v \in Device :
          \/ /\ ui.editingDevice # None
             /\ Asks("updateDevice", [id |-> ui.editingDevice, value |-> v])
          \/ ui.editingDevice = None /\ Asks("createDevice", [value |-> v])
    /\ UNCHANGED <<page, srv>>

\* mutant: saving is over before the list is there.
SavedEarly(c) ==
    /\ c \in Ended("createDevice") \cup Ended("updateDevice")
    /\ \/ /\ c.at = "failed"
          /\ ui' = [ui EXCEPT !.saving = FALSE]
          /\ Done(c)
       \/ /\ c.at = "ok"
          /\ ui' = [ui EXCEPT !.panelOpen = FALSE, !.editingDevice = None, !.loading = TRUE,
                              !.saving = FALSE]
          /\ Then(c, "listDevices", [for |-> "save"])
    /\ UNCHANGED <<page, srv>>

\* Whatever panel is open by now closes, and the list is loaded.
DevicesSaved(c) ==
    /\ c \in Ended("createDevice") \cup Ended("updateDevice")
    /\ \/ /\ c.at = "failed"
          /\ ui' = [ui EXCEPT !.saving = FALSE]
          /\ Done(c)
       \/ /\ c.at = "ok"
          /\ ui' = [ui EXCEPT !.panelOpen = FALSE, !.editingDevice = None, !.loading = TRUE]
          /\ Then(c, "listDevices", [for |-> "save"])
    /\ UNCHANGED <<page, srv>>

DevicesConfirmDelete(i) ==
    /\ i \in DevicesRows
    /\ ui' = [ui EXCEPT !.deleteTarget = i]
    /\ Local

DevicesCloseDelete ==
    /\ ui.deleteTarget # None
    /\ ui' = [ui EXCEPT !.deleteTarget = None]
    /\ Local

DevicesDoDelete ==
    /\ DevicesDeleteOffered
    /\ ui' = [ui EXCEPT !.deleting = TRUE]
    /\ Asks("deleteDevice", [id |-> ui.deleteTarget])
    /\ UNCHANGED <<page, srv>>

\* mutant: the list is not read again.
DevicesDeletedOnly(c) ==
    /\ c \in Ended("deleteDevice")
    /\ ui' = [ui EXCEPT !.deleteTarget = None, !.deleting = FALSE]
    /\ Done(c) /\ UNCHANGED <<page, srv>>

DevicesDeleted(c) ==
    /\ c \in Ended("deleteDevice")
    /\ \/ /\ c.at = "failed"
          /\ ui' = [ui EXCEPT !.deleting = FALSE]
          /\ Done(c)
       \/ /\ c.at = "ok"
          /\ ui' = [ui EXCEPT !.deleteTarget = None, !.loading = TRUE]
          /\ Then(c, "listDevices", [for |-> "delete"])
    /\ UNCHANGED <<page, srv>>

DevicesServes(c) == ServesRows(c, {"listDevices"}, {"createDevice"}, {"updateDevice"},
                        {"deleteDevice"})

DevicesNext ==
    \/ \E i \in Item : DevicesOpenEdit(i) \/ DevicesConfirmDelete(i)
    \/ DevicesRefresh \/ DevicesOpenCreate \/ ClosePanel \/ DevicesSave
    \/ DevicesCloseDelete \/ DevicesDoDelete
    \/ \E c \in calls : \/ DevicesRefreshed(c) \/ DevicesSaved(c) \/ DevicesDeleted(c)
                        \/ DevicesServes(c) \/ Fails(c)

-----------------------------------------------------------------------------

\* Whatever panels were closed and opened meanwhile: once everything is answered
\* and no call crossed another, the page lists the devices the node stores.
ListsDevices == Settled => ui.rows = srv.rows

\* Saving and deleting are over when the list that ends them is there: a panel or
\* a dialog opened meanwhile can not start another one before, and none is over
\* for good with its button still disabled.
ButtonsFollowCalls ==
    /\ ui.saving = (\E c \in calls : c.op \in {"createDevice", "updateDevice"}
                                     \/ c.arg = [for |-> "save"])
    /\ ui.deleting = (\E c \in calls : c.op = "deleteDevice" \/ c.arg = [for |-> "delete"])

=============================================================================
