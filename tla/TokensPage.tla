----------------------------- MODULE TokensPage -----------------------------
(* views/Tokens.vue: the API tokens, their labels and the one time a secret   *)
(* is shown.  The value of a row is its label.                                *)
EXTENDS Page

APIToken == Value

TokensTypeOK ==
    /\ TypedCalls /\ StoreType
    /\ ui.rows \in [Item -> APIToken \cup {None}]
    /\ {ui.deleteTarget, ui.renameTarget, ui.minted} \subseteq Item \cup {None}
    /\ {ui.loading, ui.showCreate, ui.creating, ui.renaming, ui.deleting} \subseteq BOOLEAN

\* What the page offers: the toolbar and the rows, unless a dialog covers them.
TokensCovered == ui.showCreate \/ ui.minted # None \/ ui.renameTarget # None
           \/ ui.deleteTarget # None
TokensRefreshOffered == ~TokensCovered /\ ~ui.loading
TokensRows == IF TokensCovered THEN {} ELSE Ids(ui.rows)
TokensCreateOffered == ui.showCreate /\ ~ui.creating
RenameOffered == ui.renameTarget # None /\ ~ui.renaming
RevokeOffered == ui.deleteTarget # None /\ ~ui.deleting

TokensInit ==
    /\ page = "tokens"
    /\ ui = [rows |-> NoRows, deleteTarget |-> None, renameTarget |-> None, minted |-> None,
             loading |-> TRUE, showCreate |-> FALSE, creating |-> FALSE,
             renaming |-> FALSE, deleting |-> FALSE]
    /\ srv \in OneRow
    /\ calls = {Call(1, "listTokens", None)} /\ writes = 0 /\ crossed = FALSE

TokensRefresh ==
    /\ TokensRefreshOffered
    /\ ui' = [ui EXCEPT !.loading = TRUE]
    /\ Asks("listTokens", None)
    /\ UNCHANGED <<page, srv>>

TokensRefreshed(c) ==
    /\ c \in Ended("listTokens")
    /\ ui' = [ui EXCEPT !.loading = FALSE, !.rows = IF c.at = "ok" THEN c.data.rows ELSE @]
    /\ Done(c) /\ UNCHANGED <<page, srv>>

TokensOpenCreate ==
    /\ ~TokensCovered
    /\ ui' = [ui EXCEPT !.showCreate = TRUE]
    /\ Local

TokensSubmitCreate ==
    /\ TokensCreateOffered
    /\ ui' = [ui EXCEPT !.creating = TRUE]
    /\ \E v \in APIToken : Asks("createToken", [value |-> v])
    /\ UNCHANGED <<page, srv>>

\* mutant: the secret is shown and the list left alone.
CreatedOnly(c) ==
    /\ c \in Ended("createToken")
    /\ ui' = IF c.at = "failed" THEN [ui EXCEPT !.creating = FALSE]
             ELSE [ui EXCEPT !.creating = FALSE, !.showCreate = FALSE, !.minted = c.data.id]
    /\ Done(c) /\ UNCHANGED <<page, srv>>

\* The answer carries the secret, which is shown over whatever is open.
TokensCreated(c) ==
    /\ c \in Ended("createToken")
    /\ ui' = IF c.at = "failed" THEN [ui EXCEPT !.creating = FALSE]
             ELSE [ui EXCEPT !.creating = FALSE, !.showCreate = FALSE,
                             !.minted = c.data.id, !.rows[c.data.id] = c.data.value]
    /\ Done(c) /\ UNCHANGED <<page, srv>>

OpenRename(i) ==
    /\ i \in TokensRows
    /\ ui' = [ui EXCEPT !.renameTarget = i]
    /\ Local

SubmitRename ==
    /\ RenameOffered
    /\ ui' = [ui EXCEPT !.renaming = TRUE]
    /\ \E v \in APIToken : Asks("renameToken", [id |-> ui.renameTarget, value |-> v])
    /\ UNCHANGED <<page, srv>>

\* mutant: the label in the list stays the old one.
RenamedOnly(c) ==
    /\ c \in Ended("renameToken")
    /\ ui' = [ui EXCEPT !.renaming = FALSE,
                        !.renameTarget = IF c.at = "ok" THEN None ELSE @]
    /\ Done(c) /\ UNCHANGED <<page, srv>>

Renamed(c) ==
    /\ c \in Ended("renameToken")
    /\ ui' = IF c.at = "failed" THEN [ui EXCEPT !.renaming = FALSE]
             ELSE [ui EXCEPT !.renaming = FALSE, !.renameTarget = None,
                             !.rows = IF c.data.id \in Ids(@)
                                      THEN [@ EXCEPT ![c.data.id] = c.data.value] ELSE @]
    /\ Done(c) /\ UNCHANGED <<page, srv>>

TokensConfirmDelete(i) ==
    /\ i \in TokensRows
    /\ ui' = [ui EXCEPT !.deleteTarget = i]
    /\ Local

TokensDoDelete ==
    /\ RevokeOffered
    /\ ui' = [ui EXCEPT !.deleting = TRUE]
    /\ Asks("deleteToken", [id |-> ui.deleteTarget])
    /\ UNCHANGED <<page, srv>>

\* Which row goes is asked again after the call: it is that of the dialog that
\* is open by then, and without one the handler ends in its catch.
Revoked(c) ==
    /\ c \in Ended("deleteToken")
    /\ ui' = [ui EXCEPT !.deleting = FALSE, !.deleteTarget = None,
                        !.rows = IF c.at = "ok" /\ ui.deleteTarget # None
                                 THEN [@ EXCEPT ![ui.deleteTarget] = None] ELSE @]
    /\ Done(c) /\ UNCHANGED <<page, srv>>

\* Done, Cancel and the backdrops.  Nobody waits for a revocation any more once
\* its dialog is closed.
TokensCloseDialog ==
    /\ TokensCovered
    /\ ui' = IF ui.deleteTarget # None THEN [ui EXCEPT !.deleteTarget = None]
             ELSE IF ui.renameTarget # None THEN [ui EXCEPT !.renameTarget = None]
             ELSE IF ui.showCreate THEN [ui EXCEPT !.showCreate = FALSE]
             ELSE [ui EXCEPT !.minted = None]
    /\ crossed' = (crossed \/ (ui.deleteTarget # None /\ ui.deleting))
    /\ UNCHANGED <<page, srv, calls, writes>>

TokensServes(c) == ServesRows(c, {"listTokens"}, {"createToken"}, {"renameToken"}, {"deleteToken"})

TokensNext ==
    \/ \E i \in Item : OpenRename(i) \/ TokensConfirmDelete(i)
    \/ TokensRefresh \/ TokensOpenCreate \/ TokensSubmitCreate \/ SubmitRename
    \/ TokensDoDelete \/ TokensCloseDialog
    \/ \E c \in calls : \/ TokensRefreshed(c) \/ TokensCreated(c) \/ Renamed(c)
                        \/ Revoked(c)
                        \/ TokensServes(c) \/ Fails(c)

-----------------------------------------------------------------------------

\* Once everything is answered, no call crossed another and no revocation was
\* left alone, the page lists the tokens that work, with their labels.
ListsTokens == Settled => ui.rows = srv.rows

\* The secret that is shown belongs to a token that works and, if nothing
\* crossed its creation, to one the page lists.
SecretIsOfToken ==
    ui.minted # None /\ ~crossed => ui.minted \in Ids(ui.rows) \/ Pending("listTokens") # {}

\* A revocation that succeeded takes the token off the list, and no other one.
\* Not so: with the dialog closed the row stays, and with the one of another token
\* open that one's row goes.
RevocationShows ==
    [][\A c \in Ok("deleteToken") : c \notin calls'
          => Ids(ui'.rows) = Ids(ui.rows) \ {c.arg.id}]_pageVars

=============================================================================
