---------------------------- MODULE AllowlistPage ----------------------------
(* views/Allowlist.vue: the domains that are never blocked, for everybody or  *)
(* for one profile.  Texts and the filter box are left out.                   *)
EXTENDS Page

Global == "global"
Scope == {Global, "profile"}

\* A domain as it was typed: the node stores it in lower case.
Typed == [name : Item, mixed : {FALSE}] \cup [name : MixedItem, mixed : {TRUE}]

\* The list is shown sorted: what matters is how often a domain is in it.
NoEntries == [d \in Typed |-> 0]
InList(entries) == {d \in Typed : entries[d] > 0}
AllowlistListing(names) == [d \in Typed |-> IF d.name \in names /\ ~d.mixed THEN 1 ELSE 0]
Lower(n) == [name |-> n, mixed |-> FALSE]

AllowlistTypeOK ==
    /\ TypedCalls
    /\ ui.entries \in [Typed -> Nat]
    /\ ui.busyRows \subseteq Typed /\ ui.pendingRemove \in Typed \cup {None}
    /\ {ui.loading, ui.adding, ui.bulkOpen, ui.bulkBusy, ui.removing,
        ui.profiles, ui.listening} \subseteq BOOLEAN
    /\ ui.scope \in Scope /\ srv \in [Scope -> SUBSET Item]

\* What the page offers: the scopes, the form and the rows of the list, unless
\* the dialog covers them.
AllowlistCovered == ui.pendingRemove # None
AllowlistShown == InList(ui.entries)
ScopesOffered ==
    IF AllowlistCovered THEN {} ELSE {Global} \cup IF ui.profiles THEN Scope ELSE {}
AddOffered == ~AllowlistCovered /\ ~ui.adding
BulkButtonOffered == AddOffered /\ ui.scope = Global /\ ~ui.bulkBusy
AllowlistBulkOffered == ~AllowlistCovered /\ ui.bulkOpen /\ ui.scope = Global /\ ~ui.bulkBusy
RemoveOffered == IF AllowlistCovered \/ ui.loading THEN {} ELSE AllowlistShown \ ui.busyRows

\* onMounted waits for the profiles before it loads the list and listens for
\* Escape.
AllowlistInit ==
    /\ page = "allowlist"
    /\ ui = [entries |-> NoEntries, busyRows |-> {}, pendingRemove |-> None, loading |-> TRUE,
             adding |-> FALSE, bulkOpen |-> FALSE, bulkBusy |-> FALSE, removing |-> FALSE,
             profiles |-> FALSE, listening |-> FALSE, scope |-> Global]
    /\ srv \in {[s \in Scope |-> IF s = Global THEN names ELSE {}] : names \in {{}, Item}}
    /\ calls = {Call(1, "listProfiles", None)} /\ writes = 0 /\ crossed = FALSE

AllowlistMounted(c) ==
    /\ c \in Ended("listProfiles")
    /\ ui' = [ui EXCEPT !.profiles = c.at = "ok", !.listening = TRUE, !.loading = TRUE]
    /\ Then(c, "listAllowlist", [scope |-> ui.scope])
    /\ UNCHANGED <<page, srv>>

\* Choosing a scope empties the list and loads the other one; the bulk box
\* closes, what it is doing goes on.
OnScopeChange(s) ==
    /\ s \in ScopesOffered \ {ui.scope}
    /\ ui' = [ui EXCEPT !.scope = s, !.entries = NoEntries, !.loading = TRUE,
                        !.bulkOpen = FALSE]
    /\ Asks("listAllowlist", [scope |-> s])
    /\ UNCHANGED <<page, srv>>

AllowlistRefreshed(c) ==
    /\ c \in Ended("listAllowlist")
    /\ ui' = [ui EXCEPT !.entries = IF c.at = "ok" THEN c.data.rows ELSE @, !.loading = FALSE]
    /\ Done(c) /\ UNCHANGED <<page, srv>>


SubmitAdd(d) ==
    /\ AddOffered /\ d \notin AllowlistShown
    /\ ui' = [ui EXCEPT !.adding = TRUE]
    /\ Asks("addAllowlist", [scope |-> ui.scope, domains |-> {d}, bulk |-> FALSE])
    /\ UNCHANGED <<page, srv>>

\* The domain joins whatever list is shown by now.
Added(c) ==
    /\ c \in Ended("addAllowlist") /\ ~c.arg.bulk
    /\ LET entries == IF c.at = "ok" THEN [ui.entries EXCEPT ![c.data.row] = @ + 1]
                      ELSE ui.entries
       IN ui' = [ui EXCEPT !.adding = FALSE, !.entries = entries]
    /\ Done(c) /\ UNCHANGED <<page, srv>>

OpenBulk ==
    /\ BulkButtonOffered
    /\ ui' = [ui EXCEPT !.bulkOpen = ~@]
    /\ Local

\* submitBulk adds what is not shown yet, one domain at a time, always to the
\* global list; domains is what is left to do.
SubmitBulk(todo) ==
    /\ AllowlistBulkOffered
    /\ todo \ AllowlistShown # {}
    /\ ui' = [ui EXCEPT !.bulkBusy = TRUE]
    /\ Asks("addAllowlist", [scope |-> Global, domains |-> todo \ AllowlistShown,
                               bulk |-> TRUE])
    /\ UNCHANGED <<page, srv>>

BulkAdded(c) ==
    /\ c \in Ended("addAllowlist") /\ c.arg.bulk
    /\ \E d \in c.arg.domains :
          /\ d = CHOOSE e \in c.arg.domains : TRUE
          /\ LET entries == IF c.at = "ok" THEN [ui.entries EXCEPT ![d] = @ + 1] ELSE ui.entries
                 todo == c.arg.domains \ (InList(entries) \cup {d})
             IN /\ ui' = [ui EXCEPT !.entries = entries, !.bulkBusy = todo # {}]
                /\ \/ todo = {} /\ Done(c)
                   \/ todo # {} /\ Then(c, "addAllowlist",
                                              [c.arg EXCEPT !.domains = todo])
    /\ UNCHANGED <<page, srv>>

AskRemove(d) ==
    /\ d \in RemoveOffered
    /\ ui' = [ui EXCEPT !.pendingRemove = d]
    /\ Local

\* The button, the backdrop and Escape: only the backdrop does not care
\* whether the removal is under way.
CloseRemove ==
    /\ ui.pendingRemove # None
    /\ ui' = [ui EXCEPT !.pendingRemove = None]
    /\ Local

\* mutant: the button does not look whether a removal is under way.
ConfirmRemoveAgain ==
    /\ ui.pendingRemove # None
    /\ ui' = [ui EXCEPT !.removing = TRUE, !.busyRows = @ \cup {ui.pendingRemove}]
    /\ Asks("removeAllowlist", [scope |-> ui.scope, domain |-> ui.pendingRemove])
    /\ UNCHANGED <<page, srv>>

ConfirmRemove ==
    /\ ui.pendingRemove # None /\ ~ui.removing
    /\ ui' = [ui EXCEPT !.removing = TRUE, !.busyRows = @ \cup {ui.pendingRemove}]
    /\ Asks("removeAllowlist", [scope |-> ui.scope, domain |-> ui.pendingRemove])
    /\ UNCHANGED <<page, srv>>

\* mutant: the row goes although the node refused.
RemovedAnyway(c) ==
    /\ c \in Ended("removeAllowlist")
    /\ ui' = [ui EXCEPT !.entries[c.arg.domain] = 0, !.pendingRemove = None,
                        !.busyRows = @ \ {c.arg.domain}, !.removing = FALSE]
    /\ Done(c) /\ UNCHANGED <<page, srv>>

Removed(c) ==
    /\ c \in Ended("removeAllowlist")
    /\ ui' = [ui EXCEPT
          !.entries = IF c.at = "ok" THEN [@ EXCEPT ![c.arg.domain] = 0] ELSE @,
          !.pendingRemove = None, !.busyRows = @ \ {c.arg.domain}, !.removing = FALSE]
    /\ Done(c) /\ UNCHANGED <<page, srv>>

AllowlistOnKey ==
    /\ ui.listening
    /\ \/ ui.pendingRemove # None /\ ~ui.removing
          /\ ui' = [ui EXCEPT !.pendingRemove = None]
       \/ (ui.pendingRemove = None \/ ui.removing) /\ ui.bulkOpen /\ ~ui.bulkBusy
          /\ ui' = [ui EXCEPT !.bulkOpen = FALSE]
    /\ Local

\* The node: an addition that is there already and a removal that is not are
\* refused; the global list is searched as typed, a profile's in lower case.
AllowlistServes(c) ==
    /\ c.at = "sent"
    /\ \/ c.op = "listProfiles" /\ Answers(c, None) /\ UNCHANGED srv
       \/ /\ c.op = "listAllowlist"
          /\ Answers(c, [rows |-> AllowlistListing(srv[c.arg.scope])]) /\ UNCHANGED srv
       \/ /\ c.op = "addAllowlist"
          /\ \E d \in c.arg.domains :
                /\ d = CHOOSE e \in c.arg.domains : TRUE
                /\ \/ d.name \in srv[c.arg.scope] /\ Refuses(c)
                   \/ /\ d.name \notin srv[c.arg.scope]
                      /\ srv' = [srv EXCEPT ![c.arg.scope] = @ \cup {d.name}]
                      /\ Answers(c, [row |-> d])
       \/ /\ c.op = "removeAllowlist"
          /\ LET d == c.arg.domain
                 found == d.name \in srv[c.arg.scope] /\ (c.arg.scope = Global => ~d.mixed)
             IN \/ ~found /\ Refuses(c)
                \/ /\ found /\ Answers(c, None)
                   /\ srv' = [srv EXCEPT ![c.arg.scope] = @ \ {d.name}]
    /\ UNCHANGED <<page, ui>>

AllowlistNext ==
    \/ \E s \in Scope : OnScopeChange(s)
    \/ \E d \in Typed : SubmitAdd(d) \/ AskRemove(d)
    \/ \E todo \in SUBSET {Lower(n) : n \in Item} : SubmitBulk(todo)
    \/ OpenBulk \/ CloseRemove \/ ConfirmRemove \/ AllowlistOnKey
    \/ \E c \in calls : \/ AllowlistMounted(c) \/ AllowlistRefreshed(c) \/ Added(c)
                        \/ BulkAdded(c)
                        \/ Removed(c) \/ AllowlistServes(c) \/ Fails(c)

-----------------------------------------------------------------------------

\* Once everything is answered and no call crossed another, the list shows the
\* domains of the chosen scope, each once: the patches that additions, bulk
\* additions and removals make to it amount to what loading it would show.
ShowsScope ==
    Settled =>
        /\ {d.name : d \in AllowlistShown} = srv[ui.scope]
        /\ \A d \in AllowlistShown : ui.entries[d] = 1

\* However often the dialog is closed and opened for another domain meanwhile,
\* one removal is under way at a time, and the rows that are busy are its own.
OneRemoval ==
    /\ ui.busyRows = {c.arg.domain : c \in Pending("removeAllowlist")}
    /\ Cardinality(Pending("removeAllowlist")) <= 1

\* What the page says above the list of a profile: these are the entries of the
\* profile that is chosen, whatever was under way when it was chosen.  Not so: the
\* answer about the scope that was chosen before fills the list of this one.
RowsBelongToScope ==
    calls = {} =>
        {d.name : d \in AllowlistShown} \subseteq srv[ui.scope]

=============================================================================
