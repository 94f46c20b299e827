---------------------------- MODULE CategoriesPage ----------------------------
(* views/Categories.vue: the catalog of categories, their upstream URLs and    *)
(* the profiles that subscribe to them.  Item names categories; a card has the *)
(* profiles and whether its URL is overridden.  What is typed is left out.     *)
EXTENDS Page

CategoriesProfile == {"default", "kids"}
Category == [profiles : SUBSET CategoriesProfile, override : BOOLEAN]
Card == [Item -> Category]
NoCards == [i \in Item |-> [profiles |-> {}, override |-> FALSE]]
Target == [name : Item, profile : CategoriesProfile]

CategoriesTypeOK ==
    /\ TypedCalls /\ {ui.cards, srv.cards} \subseteq Card
    /\ {ui.editingUrl, ui.enableTarget} \subseteq Item \cup {None}
    /\ ui.pendingDisable \in Target \cup {None} /\ ui.disablingKey \in Target \cup {None}
    /\ {ui.loading, ui.bulkEnabling, ui.urlSaving, ui.enableSubmitting,
        ui.disableSubmitting} \subseteq BOOLEAN

UnenabledForDefault == {i \in Item : "default" \notin ui.cards[i].profiles}
AvailableProfilesFor(i) == CategoriesProfile \ ui.cards[i].profiles

\* What the page offers: the cards once they are loaded, unless a dialog covers
\* them; the editor of a URL is part of its card.
CategoriesCovered == ui.enableTarget # None \/ ui.pendingDisable # None
CategoriesBulkOffered == ~CategoriesCovered /\ UnenabledForDefault # {} /\ ~ui.bulkEnabling
CategoriesRefreshOffered == ~CategoriesCovered /\ ~ui.loading
Cards == IF CategoriesCovered \/ ui.loading THEN {} ELSE Item
EditorOf(i) == i \in Cards /\ ui.editingUrl = i /\ ~ui.urlSaving
EnableOffered == ui.enableTarget # None /\ ~ui.enableSubmitting
\* mutant: the button does not wait for the call under way.
DisableAlways == ui.pendingDisable # None

DisableOffered == ui.pendingDisable # None /\ ~ui.disableSubmitting

\* A call that enables one category alone is told from one of several.
ASSUME CategoriesAssumption == \A names \in SUBSET Item : names # None

CategoriesInit ==
    /\ page = "categories"
    /\ ui = [cards |-> NoCards, editingUrl |-> None, enableTarget |-> None,
             pendingDisable |-> None, disablingKey |-> None, loading |-> TRUE,
             bulkEnabling |-> FALSE, urlSaving |-> FALSE, enableSubmitting |-> FALSE,
             disableSubmitting |-> FALSE]
    /\ LET i == CHOOSE j \in Item : TRUE
       IN srv = [cards |-> [NoCards EXCEPT ![i].profiles = {"kids"}]]
    /\ calls = {Call(1, "listProfiles", None)} /\ writes = 0 /\ crossed = FALSE

\* The list and the profiles are asked for together, as one call here.
CategoriesRefresh ==
    /\ CategoriesRefreshOffered
    /\ ui' = [ui EXCEPT !.loading = TRUE]
    /\ Asks("listProfiles", None)
    /\ UNCHANGED <<page, srv>>

CategoriesRefreshed(c) ==
    /\ c \in Ended("listProfiles")
    /\ ui' = [ui EXCEPT !.loading = FALSE, !.cards = IF c.at = "ok" THEN c.data.cards ELSE @]
    /\ Done(c) /\ UNCHANGED <<page, srv>>

\* A category at a time, whatever becomes of each, and then the list.
EnableAllForDefault ==
    /\ CategoriesBulkOffered
    /\ ui' = [ui EXCEPT !.bulkEnabling = TRUE]
    /\ \E i \in UnenabledForDefault :
          Asks("enableCategory", [name |-> i, profile |-> "default",
                                  rest |-> UnenabledForDefault \ {i}])
    /\ UNCHANGED <<page, srv>>

\* mutant: the list is not read again at the end.
BulkEnabledOnly(c) ==
    /\ c \in Ended("enableCategory") /\ c.arg.rest # None
    /\ IF c.arg.rest = {} THEN Done(c) /\ ui' = [ui EXCEPT !.bulkEnabling = FALSE]
       ELSE UNCHANGED ui /\ \E i \in c.arg.rest :
               Then(c, "enableCategory",
                    [name |-> i, profile |-> "default", rest |-> c.arg.rest \ {i}])
    /\ UNCHANGED <<page, srv>>

BulkEnabled(c) ==
    /\ c \in Ended("enableCategory") /\ c.arg.rest # None
    /\ IF c.arg.rest = {} THEN Then(c, "listCategories", [of |-> "bulk"])
       ELSE \E i \in c.arg.rest :
               Then(c, "enableCategory",
                    [name |-> i, profile |-> "default", rest |-> c.arg.rest \ {i}])
    /\ UNCHANGED <<page, ui, srv>>

\* One editor is open at a time; it opens again on another card while the first
\* one is being saved.
OpenUrlEditor(i) ==
    /\ i \in Cards /\ ui.editingUrl # i
    /\ ui' = [ui EXCEPT !.editingUrl = i]
    /\ Local

CloseUrlEditor ==
    /\ ui.editingUrl # None /\ EditorOf(ui.editingUrl)
    /\ ui' = [ui EXCEPT !.editingUrl = None]
    /\ Local

SaveUrl(i) ==
    /\ EditorOf(i)
    /\ \E o \in BOOLEAN : /\ ~o => ui.cards[i].override
                          /\ Asks("updateCategoryURL", [name |-> i, override |-> o])
    /\ ui' = [ui EXCEPT !.urlSaving = TRUE]
    /\ UNCHANGED <<page, srv>>

UrlSaved(c) ==
    /\ c \in Ended("updateCategoryURL")
    /\ \/ c.at = "failed" /\ Done(c) /\ ui' = [ui EXCEPT !.urlSaving = FALSE]
       \/ c.at = "ok" /\ Then(c, "listCategories", [of |-> "url"]) /\ UNCHANGED ui
    /\ UNCHANGED <<page, srv>>

OpenEnable(i) ==
    /\ i \in Cards /\ AvailableProfilesFor(i) # {}
    /\ ui' = [ui EXCEPT !.enableTarget = i]
    /\ Local

ConfirmEnable ==
    /\ EnableOffered
    /\ ui' = [ui EXCEPT !.enableSubmitting = TRUE]
    /\ \E p \in AvailableProfilesFor(ui.enableTarget) :
          Asks("enableCategory", [name |-> ui.enableTarget, profile |-> p, rest |-> None])
    /\ UNCHANGED <<page, srv>>

Enabled(c) ==
    /\ c \in Ended("enableCategory") /\ c.arg.rest = None
    /\ \/ c.at = "failed" /\ Done(c) /\ ui' = [ui EXCEPT !.enableSubmitting = FALSE]
       \/ c.at = "ok" /\ Then(c, "listCategories", [of |-> "enable"]) /\ UNCHANGED ui
    /\ UNCHANGED <<page, srv>>

AskDisable(i) ==
    /\ i \in Cards
    /\ \E p \in ui.cards[i].profiles :
          /\ ui.disablingKey # [name |-> i, profile |-> p]
          /\ ui' = [ui EXCEPT !.pendingDisable = [name |-> i, profile |-> p]]
    /\ Local

ConfirmDisable ==
    /\ DisableOffered
    /\ ui' = [ui EXCEPT !.disableSubmitting = TRUE, !.disablingKey = ui.pendingDisable]
    /\ Asks("disableCategory", ui.pendingDisable)
    /\ UNCHANGED <<page, srv>>

Disabled(c) ==
    /\ c \in Ended("disableCategory")
    /\ \/ /\ c.at = "failed" /\ Done(c)
          /\ ui' = [ui EXCEPT !.disableSubmitting = FALSE, !.disablingKey = None]
       \/ c.at = "ok" /\ Then(c, "listCategories", [of |-> "disable"]) /\ UNCHANGED ui
    /\ UNCHANGED <<page, srv>>

\* The reload each of them ends with; a failed one is reported and forgotten.
Reloaded(c) ==
    /\ c \in Ended("listCategories")
    /\ LET now == [ui EXCEPT !.cards = IF c.at = "ok" THEN c.data.cards ELSE @]
       IN ui' = CASE c.arg.of = "bulk"   -> [now EXCEPT !.bulkEnabling = FALSE]
                  [] c.arg.of = "url" ->
                        [now EXCEPT !.urlSaving = FALSE, !.editingUrl = None]
                  [] c.arg.of = "enable" -> [now EXCEPT !.enableSubmitting = FALSE,
                                                        !.enableTarget = None]
                  [] OTHER -> [now EXCEPT !.disableSubmitting = FALSE, !.disablingKey = None,
                                          !.pendingDisable = None]
    /\ Done(c) /\ UNCHANGED <<page, srv>>

\* Cancel, the backdrops and Escape: the dialog that disables closes while the
\* call is under way, and then opens for another profile.
CategoriesClose ==
    /\ \/ /\ ui.pendingDisable # None
          /\ ui' = [ui EXCEPT !.pendingDisable = None]
       \/ /\ ui.pendingDisable = None /\ EnableOffered
          /\ ui' = [ui EXCEPT !.enableTarget = None]
    /\ Local

CategoriesServes(c) ==
    /\ c.at = "sent"
    /\ \/ c.op \in {"listCategories", "listProfiles"} /\ Answers(c, srv) /\ UNCHANGED srv
       \/ /\ c.op = "enableCategory"
          /\ srv' = [cards |-> [srv.cards EXCEPT ![c.arg.name].profiles = @ \cup {c.arg.profile}]]
          /\ Answers(c, None)
       \/ /\ c.op = "disableCategory"
          /\ srv' = [cards |-> [srv.cards EXCEPT ![c.arg.name].profiles = @ \ {c.arg.profile}]]
          /\ Answers(c, None)
       \/ /\ c.op = "updateCategoryURL"
          /\ srv' = [cards |-> [srv.cards EXCEPT ![c.arg.name].override = c.arg.override]]
          /\ Answers(c, None)
    /\ UNCHANGED <<page, ui>>

CategoriesNext ==
    \/ \E i \in Item : OpenUrlEditor(i) \/ SaveUrl(i) \/ OpenEnable(i) \/ AskDisable(i)
    \/ CategoriesRefresh \/ EnableAllForDefault \/ CloseUrlEditor \/ ConfirmEnable
    \/ ConfirmDisable
    \/ CategoriesClose
    \/ \E c \in calls : \/ CategoriesRefreshed(c) \/ BulkEnabled(c) \/ UrlSaved(c)
                        \/ Enabled(c)
                        \/ Disabled(c) \/ Reloaded(c) \/ CategoriesServes(c) \/ Fails(c)

-----------------------------------------------------------------------------

\* Once everything is answered and nothing was missed since the last read, the
\* cards show the profiles that subscribe and the URLs in force.
ShowsCatalog == Settled => ui.cards = srv.cards

\* One subscription is ended at a time and the key of its chip is marked until
\* its reload is back, although the dialog may be closed and opened again.
MarksWhatItDisables ==
    LET ending == {c.arg : c \in Pending("disableCategory")}
    IN /\ Cardinality(ending) <= 1
       /\ \A t \in ending : ui.disablingKey = t

\* A dialog that asks whether to disable stays until it is answered.  It does
\* not: the reload of the one before closes whatever dialog is open by then.
CategoriesDialogIsOnesOwn ==
    [][\A c \in Ended("listCategories") :
          c \notin calls' /\ c.arg.of = "disable" /\ ui.pendingDisable # None
             => ui.pendingDisable = ui.disablingKey]_pageVars

=============================================================================
