------------------------ MODULE SharedAllowlistsPage ------------------------
(* views/SharedAllowlists.vue: allowlists with a name, assigned to profiles.  *)
(* A list is its domains and whether an entry of it runs out some day, which  *)
(* the page neither shows nor sends.                                          *)
EXTENDS Page

SharedAllowlist == [domains : Value, expires : BOOLEAN]
EntriesFromText(text) == [domains |-> text, expires |-> FALSE]

SharedTypeOK ==
    /\ TypedCalls
    /\ ui.rows \in [Item -> SharedAllowlist \cup {None}]
    /\ srv.rows \in [Item -> SharedAllowlist \cup {None}]
    /\ ui.modal \in [create : BOOLEAN, id : Item] \cup {None}
    /\ ui.deleteTarget \in Item \cup {None}
    /\ {ui.loading, ui.saving, ui.deleting} \subseteq BOOLEAN

\* What the page offers: its rows, unless a dialog covers them.
SharedCovered == ui.modal # None \/ ui.deleteTarget # None
SharedRows == IF SharedCovered \/ ui.loading THEN {} ELSE Ids(ui.rows)
SharedSaveOffered == ui.modal # None /\ ~ui.saving
SharedDeleteOffered == ui.deleteTarget # None /\ ~ui.deleting

SharedInit ==
    /\ page = "shared"
    /\ ui = [rows |-> NoRows, modal |-> None, deleteTarget |-> None,
             loading |-> TRUE, saving |-> FALSE, deleting |-> FALSE]
    /\ \E i \in Item, e \in BOOLEAN :
          srv = [rows |-> [NoRows EXCEPT ![i] = [domains |-> 1, expires |-> e]]]
    /\ calls = {Call(1, "listSharedAllowlists", [for |-> "mount"])}
    /\ writes = 0 /\ crossed = FALSE

\* load is also what a save and a removal end with: they are over with it.
SharedLoaded(c) ==
    /\ c \in Ended("listSharedAllowlists")
    /\ ui' = [ui EXCEPT !.rows = IF c.at = "ok" THEN c.data.rows ELSE @,
                        !.loading = FALSE,
                        !.saving = @ /\ c.arg.for # "save",
                        !.deleting = @ /\ c.arg.for # "delete"]
    /\ Done(c) /\ UNCHANGED <<page, srv>>

SharedOpenCreate ==
    /\ ~SharedCovered
    /\ \E i \in Item : ui' = [ui EXCEPT !.modal = [create |-> TRUE, id |-> i]]
    /\ Local

SharedOpenEdit(i) ==
    /\ i \in SharedRows
    /\ ui' = [ui EXCEPT !.modal = [create |-> FALSE, id |-> i]]
    /\ Local

SharedConfirmDelete(i) ==
    /\ i \in SharedRows
    /\ ui' = [ui EXCEPT !.deleteTarget = i]
    /\ Local

\* mutant: closing the dialog counts as the end of its call.
CloseDialogOver ==
    /\ SharedCovered
    /\ ui' = [ui EXCEPT !.modal = None, !.deleteTarget = None, !.saving = FALSE]
    /\ Local

\* Cancel and the backdrop, also while the dialog's own call is under way.
SharedCloseDialog ==
    /\ SharedCovered
    /\ ui' = [ui EXCEPT !.modal = None, !.deleteTarget = None]
    /\ Local

SaveModal ==
    /\ SharedSaveOffered
    /\ ui' = [ui EXCEPT !.saving = TRUE]
    /\ \E text \in Value :
          Asks(IF ui.modal.create THEN "createSharedAllowlist" ELSE "updateSharedAllowlist",
               [id |-> ui.modal.id, value |-> EntriesFromText(text)])
    /\ UNCHANGED <<page, srv>>

\* Whatever dialog is open by now closes.
SharedSaved(c) ==
    /\ c \in Ended("createSharedAllowlist") \cup Ended("updateSharedAllowlist")
    /\ \/ /\ c.at = "failed"
          /\ ui' = [ui EXCEPT !.saving = FALSE]
          /\ Done(c)
       \/ /\ c.at = "ok"
          /\ ui' = [ui EXCEPT !.modal = None, !.loading = TRUE]
          /\ Then(c, "listSharedAllowlists", [for |-> "save"])
    /\ UNCHANGED <<page, srv>>

SharedDoDelete ==
    /\ SharedDeleteOffered
    /\ ui' = [ui EXCEPT !.deleting = TRUE]
    /\ Asks("deleteSharedAllowlist", [id |-> ui.deleteTarget])
    /\ UNCHANGED <<page, srv>>

\* mutant: the lists are not read again.
SharedDeletedOnly(c) ==
    /\ c \in Ended("deleteSharedAllowlist")
    /\ ui' = [ui EXCEPT !.deleteTarget = None, !.deleting = FALSE]
    /\ Done(c) /\ UNCHANGED <<page, srv>>

SharedDeleted(c) ==
    /\ c \in Ended("deleteSharedAllowlist")
    /\ \/ /\ c.at = "failed"
          /\ ui' = [ui EXCEPT !.deleteTarget = None, !.deleting = FALSE]
          /\ Done(c)
       \/ /\ c.at = "ok"
          /\ ui' = [ui EXCEPT !.deleteTarget = None, !.loading = TRUE]
          /\ Then(c, "listSharedAllowlists", [for |-> "delete"])
    /\ UNCHANGED <<page, srv>>

\* The node: an id is the administrator's choice and taken only once.
SharedServes(c) ==
    /\ c.at = "sent"
    /\ \/ c.op = "listSharedAllowlists" /\ Answers(c, [rows |-> srv.rows]) /\ UNCHANGED srv
       \/ /\ c.op # "listSharedAllowlists"
          /\ (c.op = "createSharedAllowlist") = (c.arg.id \in Ids(srv.rows))
          /\ Refuses(c)
       \/ /\ c.op # "listSharedAllowlists"
          /\ (c.op = "createSharedAllowlist") = (c.arg.id \notin Ids(srv.rows))
          /\ srv' = [srv EXCEPT !.rows[c.arg.id] =
                        IF c.op = "deleteSharedAllowlist" THEN None ELSE c.arg.value]
          /\ Answers(c, None)
    /\ UNCHANGED <<page, ui>>

SharedNext ==
    \/ \E i \in Item : SharedOpenEdit(i) \/ SharedConfirmDelete(i)
    \/ SharedOpenCreate \/ SharedCloseDialog \/ SaveModal \/ SharedDoDelete
    \/ \E c \in calls : \/ SharedLoaded(c) \/ SharedSaved(c) \/ SharedDeleted(c)
                        \/ SharedServes(c) \/ Fails(c)

-----------------------------------------------------------------------------

\* Whatever dialogs were closed and opened meanwhile: once everything is answered
\* and no call crossed another, the page shows the lists the node stores.
SharedShowsStored == Settled => ui.rows = srv.rows

\* Saving is over when the list that ends it is there: no other save starts
\* before, and the page does not stay in it.
OneSave ==
    /\ ui.saving = (\E c \in calls :
                      \/ c.op \in {"createSharedAllowlist", "updateSharedAllowlist"}
                      \/ c.op = "listSharedAllowlists" /\ c.arg.for = "save")
    /\ Cardinality(Pending("createSharedAllowlist") \cup Pending("updateSharedAllowlist")) <= 1

\* An entry of a list that runs out some day keeps doing so when an administrator
\* edits something else about the list.  Not so: the form sends texts, and the
\* node takes them for the whole of every entry.
EditKeepsExpiry ==
    [][\A i \in Item : ui.rows[i] # None /\ srv.rows[i] # None /\ srv.rows[i].expires
          /\ srv'.rows[i] # None => srv'.rows[i].expires]_pageVars

=============================================================================
