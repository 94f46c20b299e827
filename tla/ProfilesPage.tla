----------------------------- MODULE ProfilesPage -----------------------------
(* views/Profiles.vue: the list, the dialog that creates a profile or edits   *)
(* one, and the removal.  What the page does for one profile aside, its pause *)
(* and its block page, is in ProfilePausePage.  The default profile, which    *)
(* cannot be removed, and the lists a profile chooses from are left out.      *)
EXTENDS Page, SequencesExt

\* Bound: edits of the forms, all in all.
ProfilesMaxEdits == 1

ProfilesDomain == {1}

\* A profile: macs stands for the three fields that identify a client for good
\* (client-ids, MACs, hostnames), dnssec for what else an update may change.
ProfileRow == [id : Item, macs : Value, allow : SUBSET ProfilesDomain,
            dnssec : {None, "validate"}]
ASSUME ProfilesAssumption == None \notin ProfileRow

New(i) == [id |-> i, macs |-> 1, allow |-> {}, dnssec |-> None]
FormState == [macs : Value, allow : SUBSET ProfilesDomain, dnssec : {None, "validate"}]
FormOf(p) == [macs |-> p.macs, allow |-> p.allow, dnssec |-> p.dnssec]
EmptyForm == FormOf(New(CHOOSE i \in Item : TRUE))

ProfilesTypeOK ==
    /\ TypedCalls
    /\ ToSet(ui.profiles) \subseteq ProfileRow /\ ui.original \in ProfileRow \cup {None}
    /\ ui.pendingDelete \in Item \cup {None}
    /\ ui.form \in FormState
    /\ ui.entries \subseteq ProfilesDomain /\ ui.edits \in 0..ProfilesMaxEdits
    /\ ui.mode \in {"create", "edit"} /\ ui.modalTab \in {"settings", "allowlist"}
    /\ {ui.loading, ui.showModal, ui.submitting, ui.adding, ui.deleting,
        ui.entryDeleting} \subseteq BOOLEAN
    /\ \A i \in Item : srv[i] # None => srv[i] \in ProfileRow /\ srv[i].id = i

\* What the page offers: the rows, unless a dialog covers them, and in the
\* dialog the tab that is open.
ProfilesCovered == ui.showModal \/ ui.pendingDelete # None
ProfilesRows == IF ProfilesCovered \/ ui.loading THEN {} ELSE ToSet(ui.profiles)
Tab(t) == ui.showModal /\ ui.mode = "edit" /\ ui.modalTab = t
AllowlistTab == Tab("allowlist")
SettingsTab == ui.showModal /\ (ui.mode = "create" \/ ui.modalTab = "settings")

ProfilesInit ==
    /\ page = "profiles"
    /\ ui = [profiles |-> << >>, loading |-> TRUE, showModal |-> FALSE, mode |-> "create",
             modalTab |-> "settings", original |-> None, form |-> EmptyForm, entries |-> {},
             submitting |-> FALSE, adding |-> FALSE,
             entryDeleting |-> FALSE, pendingDelete |-> None,
             deleting |-> FALSE, edits |-> 0]
    /\ srv \in {[i \in Item |-> IF i \in ids THEN New(i) ELSE None] :
                   ids \in {{CHOOSE i \in Item : TRUE}, Item}}
    /\ calls = {Call(1, "listProfiles", None)} /\ writes = 0 /\ crossed = FALSE

ProfilesStored == {i \in Item : srv[i] # None}

ProfilesRefreshed(c) ==
    /\ c \in Ended("listProfiles")
    /\ ui' = [ui EXCEPT !.loading = FALSE,
                        !.profiles = IF c.at = "ok" THEN c.data.profiles ELSE @]
    /\ Done(c) /\ UNCHANGED <<page, srv>>

\* What a closed dialog holds is set again when it opens, but for original.
ProfilesClose(u) ==
    [u EXCEPT !.showModal = FALSE, !.modalTab = "settings", !.form = EmptyForm, !.entries = {}]

ProfilesOpenCreate ==
    /\ ~ProfilesCovered
    /\ ui' = [ui EXCEPT !.showModal = TRUE, !.mode = "create", !.original = None,
                        !.modalTab = "settings", !.form = EmptyForm]
    /\ Local

\* The dialog starts from the row; what the row is replaced by later does not
\* reach original.
ProfilesOpenEdit(p) ==
    /\ p \in ProfilesRows
    /\ ui' = [ui EXCEPT !.showModal = TRUE, !.mode = "edit", !.modalTab = "settings",
                        !.original = p, !.form = FormOf(p), !.entries = p.allow]
    /\ Local

\* mutant: the dialog closes while it is being saved.
ProfilesCloseModalAnytime ==
    /\ ui.showModal
    /\ ui' = ProfilesClose(ui)
    /\ Local

ProfilesCloseModal ==
    /\ ui.showModal /\ ~ui.submitting
    /\ ui' = ProfilesClose(ui)
    /\ Local

EditForm ==
    /\ SettingsTab /\ ui.edits < ProfilesMaxEdits
    /\ \E f \in FormState : \E k \in DOMAIN f :
          /\ f # ui.form /\ f = [ui.form EXCEPT ![k] = f[k]]
          /\ ui' = [ui EXCEPT !.form = f, !.edits = @ + 1]
    /\ Local

\* A change back to no DNSSEC mode of its own is sent as a field that is left out.
ArraysEqual(k) == ui.form[k] = ui.original[k]
Patch ==
    LET dirty == {k \in DOMAIN ui.form : ~ArraysEqual(k)}
    IN [k \in dirty |-> ui.form[k]]

SubmitModal ==
    /\ SettingsTab /\ ~ui.submitting
    /\ \/ /\ ui.mode = "create"
          /\ ui' = [ui EXCEPT !.submitting = TRUE]
          /\ \E i \in Item :
                Asks("createProfile",
                     [profile |-> [New(i) EXCEPT !.macs = ui.form.macs, !.allow = ui.form.allow,
                                      !.dnssec = ui.form.dnssec]])
       \/ /\ ui.mode = "edit" /\ DOMAIN Patch = {}
          /\ ui' = ProfilesClose(ui)
          /\ UNCHANGED <<calls, writes, crossed>>
       \/ /\ ui.mode = "edit" /\ DOMAIN Patch # {}
          /\ ui' = [ui EXCEPT !.submitting = TRUE]
          /\ Asks("updateProfile", [id |-> ui.original.id, patch |-> Patch])
    /\ UNCHANGED <<page, srv>>

\* The first row with the id, if there is one.
First(rows, i) ==
    {n \in DOMAIN rows : rows[n].id = i /\ \A m \in 1..(n - 1) : rows[m].id # i}
Replaced(rows, i, p) == [n \in DOMAIN rows |-> IF n \in First(rows, i) THEN p ELSE rows[n]]

\* mutant: the row gets what was sent, not what the node answered.
SubmittedLocally(c) ==
    /\ c \in Ended("createProfile") \cup Ended("updateProfile")
    /\ \/ c.at = "failed" /\ ui' = [ui EXCEPT !.submitting = FALSE]
       \/ /\ c.at = "ok"
          /\ ui' = [ProfilesClose(ui) EXCEPT !.submitting = FALSE,
                        !.profiles = IF c.op = "createProfile" THEN Append(@, c.data)
                                     ELSE Replaced(@, c.arg.id, c.arg.patch @@ ui.original)]
    /\ Done(c) /\ UNCHANGED <<page, srv>>

ProfilesSubmitted(c) ==
    /\ c \in Ended("createProfile") \cup Ended("updateProfile")
    /\ \/ c.at = "failed" /\ ui' = [ui EXCEPT !.submitting = FALSE]
       \/ /\ c.at = "ok"
          /\ ui' = [ProfilesClose(ui) EXCEPT !.submitting = FALSE,
                        !.profiles = IF c.op = "createProfile" THEN Append(@, c.data)
                                     ELSE Replaced(@, c.arg.id, c.data)]
    /\ Done(c) /\ UNCHANGED <<page, srv>>

OpenAllowlistTab ==
    /\ ui.showModal /\ ui.mode = "edit" /\ ~AllowlistTab
    /\ ui' = [ui EXCEPT !.modalTab = "allowlist"]
    /\ AsksAside("listProfileAllowlist", [id |-> ui.original.id, then |-> "open"])
    /\ UNCHANGED <<page, srv>>

OpenSettingsTab ==
    /\ AllowlistTab
    /\ ui' = [ui EXCEPT !.modalTab = "settings"]
    /\ Local

Shows(u, entries) == IF u.showModal THEN [u EXCEPT !.entries = entries] ELSE u

AllowlistOpened(c) ==
    /\ c \in Ended("listProfileAllowlist") /\ c.arg.then = "open"
    /\ ui' = Shows(ui, IF c.at = "ok" THEN c.data.entries ELSE ui.entries)
    /\ Done(c) /\ UNCHANGED <<page, srv>>

SubmitAllowlistAdd(d) ==
    /\ AllowlistTab /\ ~ui.adding
    /\ ui' = [ui EXCEPT !.adding = TRUE]
    /\ Asks("addProfileAllowlist", [id |-> ui.original.id, domain |-> d])
    /\ UNCHANGED <<page, srv>>

DeleteAllowlistEntry(d) ==
    /\ AllowlistTab /\ d \in ui.entries /\ ~ui.entryDeleting
    /\ ui' = [ui EXCEPT !.entryDeleting = TRUE]
    /\ Asks("removeProfileAllowlist", [id |-> ui.original.id, domain |-> d])
    /\ UNCHANGED <<page, srv>>

Over(op) ==
    IF op = "addProfileAllowlist" THEN [ui EXCEPT !.adding = FALSE]
    ELSE [ui EXCEPT !.entryDeleting = FALSE]

\* The list is read again, of the profile the dialog is about by now.
AllowlistWritten(c) ==
    /\ c \in Ended("addProfileAllowlist") \cup Ended("removeProfileAllowlist")
    /\ \/ /\ c.at = "failed" \/ ui.original = None
          /\ ui' = Over(c.op) /\ Done(c)
       \/ /\ c.at = "ok" /\ ui.original # None
          /\ ThenAside(c, "listProfileAllowlist", [id |-> ui.original.id, then |-> c.op])
          /\ UNCHANGED ui
    /\ UNCHANGED <<page, srv>>

\* Keeps the row and the text area in step, of whatever is open by now.
AllowlistListed(c) ==
    /\ c \in Ended("listProfileAllowlist") /\ c.arg.then # "open"
    /\ ui' = IF c.at = "failed" THEN Over(c.arg.then)
             ELSE IF ui.original = None THEN Shows(Over(c.arg.then), c.data.entries)
             ELSE [Shows(Over(c.arg.then), c.data.entries) EXCEPT
                     !.form.allow = IF ui.showModal THEN c.data.entries ELSE @,
                     !.profiles = [n \in DOMAIN ui.profiles |->
                        IF n \in First(ui.profiles, ui.original.id)
                        THEN [ui.profiles[n] EXCEPT !.allow = c.data.entries]
                        ELSE ui.profiles[n]]]
    /\ Done(c) /\ UNCHANGED <<page, srv>>

ProfilesAskDelete(p) ==
    /\ p \in ProfilesRows
    /\ ui' = [ui EXCEPT !.pendingDelete = p.id]
    /\ Local

\* The button, the backdrop and Escape, while the removal is under way too.
ProfilesCancelDelete ==
    /\ ui.pendingDelete # None
    /\ ui' = [ui EXCEPT !.pendingDelete = None]
    /\ Local

ProfilesConfirmDelete ==
    /\ ui.pendingDelete # None /\ ~ui.deleting
    /\ ui' = [ui EXCEPT !.deleting = TRUE]
    /\ Asks("deleteProfile", [id |-> ui.pendingDelete])
    /\ UNCHANGED <<page, srv>>

ProfilesDeleted(c) ==
    /\ c \in Ended("deleteProfile")
    /\ ui' = IF c.at = "failed" THEN [ui EXCEPT !.deleting = FALSE]
             ELSE [ui EXCEPT !.deleting = FALSE, !.pendingDelete = None,
                             !.profiles = Kept(@, {n \in DOMAIN @ : @[n].id # c.arg.id})]
    /\ Done(c) /\ UNCHANGED <<page, srv>>

\* The node.  Creating a profile replaces the one that has its id; an update
\* changes what the patch of the handler knows.
Updated(p, c) ==
    [k \in DOMAIN p |->
        IF k \in DOMAIN c.arg.patch \ {"macs"} /\ c.arg.patch[k] # None THEN c.arg.patch[k]
        ELSE p[k]]

OfProfile == {"updateProfile", "listProfileAllowlist", "addProfileAllowlist",
              "removeProfileAllowlist"}

ProfilesServes(c) ==
    /\ c.at = "sent"
    /\ \/ /\ c.op = "listProfiles" /\ UNCHANGED srv
          /\ Answers(c, [profiles |-> [n \in 1..Cardinality(ProfilesStored) |->
                                          srv[SetToSeq(ProfilesStored)[n]]]])
       \/ /\ c.op = "createProfile"
          /\ srv' = [srv EXCEPT ![c.arg.profile.id] = c.arg.profile]
          /\ Answers(c, c.arg.profile)
       \/ /\ c.op = "deleteProfile"
          /\ srv' = [srv EXCEPT ![c.arg.id] = None] /\ Answers(c, None)
       \/ c.op \in OfProfile /\ c.arg.id \notin ProfilesStored /\ Refuses(c)
       \/ /\ c.op = "updateProfile" /\ c.arg.id \in ProfilesStored
          /\ LET p == Updated(srv[c.arg.id], c)
             IN srv' = [srv EXCEPT ![c.arg.id] = p] /\ Answers(c, p)
       \/ /\ c.op = "listProfileAllowlist" /\ c.arg.id \in ProfilesStored
          /\ Answers(c, [entries |-> srv[c.arg.id].allow]) /\ UNCHANGED srv
       \/ /\ c.op = "addProfileAllowlist" /\ c.arg.id \in ProfilesStored
          /\ \/ c.arg.domain \in srv[c.arg.id].allow /\ Refuses(c)
             \/ /\ c.arg.domain \notin srv[c.arg.id].allow /\ Answers(c, None)
                /\ srv' = [srv EXCEPT ![c.arg.id].allow = @ \cup {c.arg.domain}]
       \/ /\ c.op = "removeProfileAllowlist" /\ c.arg.id \in ProfilesStored
          /\ \/ c.arg.domain \notin srv[c.arg.id].allow /\ Refuses(c)
             \/ /\ c.arg.domain \in srv[c.arg.id].allow /\ Answers(c, None)
                /\ srv' = [srv EXCEPT ![c.arg.id].allow = @ \ {c.arg.domain}]
    /\ UNCHANGED <<page, ui>>

ProfilesNext ==
    \/ \E p \in ProfilesRows : ProfilesOpenEdit(p) \/ ProfilesAskDelete(p)
    \/ \E d \in ProfilesDomain : SubmitAllowlistAdd(d) \/ DeleteAllowlistEntry(d)
    \/ ProfilesOpenCreate \/ ProfilesCloseModal \/ EditForm \/ SubmitModal
    \/ OpenAllowlistTab \/ OpenSettingsTab
    \/ ProfilesCancelDelete \/ ProfilesConfirmDelete
    \/ \E c \in calls : \/ ProfilesRefreshed(c) \/ ProfilesSubmitted(c)
                        \/ AllowlistOpened(c)
                        \/ AllowlistWritten(c) \/ AllowlistListed(c)
                        \/ ProfilesDeleted(c) \/ ProfilesServes(c) \/ Fails(c)

-----------------------------------------------------------------------------

\* Once everything is answered and no call crossed another, the list has the
\* profiles the node stores, and each as it is stored: the domains apart,
\* and unless somebody created a profile under the id of another.
ListsProfiles ==
    Settled /\ ~ui.loading =>
        /\ {p.id : p \in ToSet(ui.profiles)} = ProfilesStored
        /\ Len(ui.profiles) = Cardinality(ProfilesStored) =>
              \A p \in ToSet(ui.profiles) :
                  FormOf(p) = [FormOf(srv[p.id]) EXCEPT !.allow = p.allow]

\* Nothing closes the dialog, or opens another, while what it saves is under
\* way: the dialog that closes when the answer comes is the one that saved.
DialogWaitsForSave ==
    /\ \A c \in Pending("updateProfile") :
          ui.showModal /\ ui.mode = "edit" /\ ui.original.id = c.arg.id
    /\ \A c \in Pending("createProfile") : ui.showModal /\ ui.mode = "create"
    /\ Cardinality(Pending("updateProfile") \cup Pending("createProfile"))
          = (IF ui.submitting THEN 1 ELSE 0)

\* What the dialog was told to save is what the node stores when it closes.  Not
\* so of client-ids, MACs and hostnames, which the handler of the update drops.
SaveKeepsWhatWasTyped ==
    [][\A c \in Ok("updateProfile") \ calls' :
          \A k \in DOMAIN c.arg.patch : c.data[k] = c.arg.patch[k]]_pageVars

\* Creating a profile never replaces another one.  Not so: the node takes an id
\* that is taken for the profile to write.
CreateIsNew ==
    [][\A i \in Item : srv[i] # None /\ srv'[i] # None /\ srv[i] # srv'[i] =>
          \A c \in Pending("createProfile") : c \in calls']_pageVars

\* "Keep the profile list and Settings-tab textarea in sync": with the domains of
\* the profile that is open, not with those of one that was open before.  Not so:
\* which profile it is, is asked when the answer comes.
TextareaIsOfProfile ==
    [][\A c \in Ok("listProfileAllowlist") \ calls' :
          ui.showModal /\ ui.mode = "edit" /\ c.arg.then # "open" =>
              c.arg.id = ui.original.id]_pageVars

=============================================================================
