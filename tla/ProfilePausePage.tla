--------------------------- MODULE ProfilePausePage ---------------------------
(* views/Profiles.vue, what it does for one profile aside: the column and the *)
(* dialog of the pauses, and the tab of its block page.  The profiles are     *)
(* there already.  A pause ends by itself at the node; how long it lasts and  *)
(* the texts are left out.                                                    *)
EXTENDS Page

\* Bound: edits of the block page.
ProfilePauseMaxEdits == 1

ProfilePausePauseState == BOOLEAN   \* whether it is active
ProfileBlockPage == {None, 1}

ProfilePauseTypeOK ==
    /\ TypedCalls
    /\ ui.profilePauses \in [Item -> ProfilePausePauseState \cup {None}]
    /\ {ui.profilePauseTarget, ui.original} \subseteq Item \cup {None}
    /\ {ui.loading, ui.submitting, ui.error, ui.saving} \subseteq BOOLEAN
    /\ ui.blockPage \in ProfileBlockPage /\ ui.edits \in 0..ProfilePauseMaxEdits
    /\ srv \in [pause : [Item -> ProfilePausePauseState], page : [Item -> ProfileBlockPage]]

\* What the page offers: the column, unless a dialog covers it, and in the
\* dialog of the pause one button or the other.
ProfilePauseCovered == ui.profilePauseTarget # None \/ ui.original # None
ProfilePauseOpenOffered == IF ProfilePauseCovered THEN {} ELSE Item
Active == ui.profilePauses[ui.profilePauseTarget] = TRUE
ButtonsOffered == ui.profilePauseTarget # None /\ ~ui.loading /\ ~ui.submitting
ProfilePauseResumeOffered == ButtonsOffered /\ Active
ProfilePausePauseOffered == ButtonsOffered /\ ~Active

\* The list is there; the pauses are asked for, all at once.
ProfilePauseInit ==
    /\ page = "profilepause"
    /\ ui = [profilePauses |-> [i \in Item |-> None], profilePauseTarget |-> None,
             loading |-> FALSE, submitting |-> FALSE, error |-> FALSE, original |-> None,
             blockPage |-> None, saving |-> FALSE, edits |-> 0]
    /\ srv \in [pause : [Item -> BOOLEAN], page : {[i \in Item |-> None]}]
    /\ calls = {Call(1, "getProfilePause", [id |-> i, opens |-> FALSE]) : i \in Item}
    /\ writes = 0 /\ crossed = FALSE

OpenProfilePause(i) ==
    /\ i \in ProfilePauseOpenOffered
    /\ ui' = [ui EXCEPT !.profilePauseTarget = i, !.loading = TRUE, !.error = FALSE]
    /\ AsksAside("getProfilePause", [id |-> i, opens |-> TRUE])
    /\ UNCHANGED <<page, srv>>

ProfilePauseGotPause(c) ==
    /\ c \in Ended("getProfilePause")
    /\ ui' = [ui EXCEPT
          !.loading = @ /\ ~c.arg.opens,
          !.profilePauses[c.arg.id] = IF c.at = "ok" THEN c.data.active
                                      ELSE IF c.arg.opens /\ @ = None THEN FALSE ELSE @]
    /\ Done(c) /\ UNCHANGED <<page, srv>>

\* mutant: closing the dialog counts as the end of its call.
ClosePauseOver ==
    /\ ui.profilePauseTarget # None
    /\ ui' = [ui EXCEPT !.profilePauseTarget = None, !.submitting = FALSE]
    /\ Local

\* The button, the backdrop and Escape, whatever is under way.
ClosePause ==
    /\ ui.profilePauseTarget # None
    /\ ui' = [ui EXCEPT !.profilePauseTarget = None]
    /\ Local

\* Without a valid duration nothing is sent.
ActivateProfilePause ==
    /\ ProfilePausePauseOffered
    /\ \/ ui' = [ui EXCEPT !.error = TRUE] /\ Local
       \/ /\ ui' = [ui EXCEPT !.error = FALSE, !.submitting = TRUE]
          /\ AsksAside("setProfilePause", [id |-> ui.profilePauseTarget])
          /\ UNCHANGED <<page, srv>>

ResumeProfileFiltering ==
    /\ ProfilePauseResumeOffered
    /\ ui' = [ui EXCEPT !.submitting = TRUE]
    /\ AsksAside("clearProfilePause", [id |-> ui.profilePauseTarget])
    /\ UNCHANGED <<page, srv>>

\* mutant: the profile is the one of the dialog that is open by now.
SubmittedToDialog(c) ==
    /\ c \in Ended("setProfilePause") \cup Ended("clearProfilePause")
    /\ ui' = IF c.at = "failed" THEN [ui EXCEPT !.submitting = FALSE, !.error = TRUE]
             ELSE [ui EXCEPT !.submitting = FALSE, !.profilePauseTarget = None,
                     !.profilePauses = [i \in Item |-> IF i = ui.profilePauseTarget
                                        THEN c.op = "setProfilePause" ELSE @[i]]]
    /\ Done(c) /\ UNCHANGED <<page, srv>>

\* The profile is the one the call was about, the dialog whatever is open.
ProfilePauseSubmitted(c) ==
    /\ c \in Ended("setProfilePause") \cup Ended("clearProfilePause")
    /\ ui' = IF c.at = "failed" THEN [ui EXCEPT !.submitting = FALSE, !.error = TRUE]
             ELSE [ui EXCEPT !.submitting = FALSE, !.profilePauseTarget = None,
                             !.profilePauses[c.arg.id] = (c.op = "setProfilePause")]
    /\ Done(c) /\ UNCHANGED <<page, srv>>

\* The dialog of a profile, with the tab of the block page in front: it shows
\* what the row held when the list was read.
ProfilePauseOpenEdit(i) ==
    /\ i \in ProfilePauseOpenOffered
    /\ ui' = [ui EXCEPT !.original = i, !.blockPage = None]
    /\ Local

EditBlockPage ==
    /\ ui.original # None /\ ui.edits < ProfilePauseMaxEdits
    /\ \E v \in ProfileBlockPage \ {ui.blockPage} :
          ui' = [ui EXCEPT !.blockPage = v, !.edits = @ + 1]
    /\ Local

SaveBlockPageTab ==
    /\ ui.original # None /\ ~ui.saving
    /\ ui' = [ui EXCEPT !.saving = TRUE]
    /\ AsksAside("patchProfileBlockPage", [id |-> ui.original, page |-> ui.blockPage])
    /\ UNCHANGED <<page, srv>>

\* "Saved.": the answer is not looked at, the row stays as it was.
BlockPageSaved(c) ==
    /\ c \in Ended("patchProfileBlockPage")
    /\ ui' = [ui EXCEPT !.saving = FALSE]
    /\ Done(c) /\ UNCHANGED <<page, srv>>

ProfilePauseCloseModal ==
    /\ ui.original # None
    /\ ui' = [ui EXCEPT !.original = None, !.blockPage = None]
    /\ Local

\* The node.  A resumption of what is not paused is refused; a pause ends when
\* its time has come.
ProfilePauseServes(c) ==
    /\ c.at = "sent"
    /\ \/ /\ c.op = "getProfilePause" /\ UNCHANGED srv
          /\ Answers(c, [active |-> srv.pause[c.arg.id]])
       \/ /\ c.op = "setProfilePause"
          /\ srv' = [srv EXCEPT !.pause[c.arg.id] = TRUE] /\ Answers(c, None)
       \/ c.op = "clearProfilePause" /\ ~srv.pause[c.arg.id] /\ Refuses(c)
       \/ /\ c.op = "clearProfilePause" /\ srv.pause[c.arg.id]
          /\ srv' = [srv EXCEPT !.pause[c.arg.id] = FALSE] /\ Answers(c, None)
       \/ /\ c.op = "patchProfileBlockPage"
          /\ srv' = [srv EXCEPT !.page[c.arg.id] = c.arg.page] /\ Answers(c, None)
    /\ UNCHANGED <<page, ui>>

PauseEnds(i) ==
    /\ srv.pause[i]
    /\ srv' = [srv EXCEPT !.pause[i] = FALSE]
    /\ UNCHANGED <<page, ui, calls, writes, crossed>>

ProfilePauseNext ==
    \/ \E i \in Item : OpenProfilePause(i) \/ ProfilePauseOpenEdit(i) \/ PauseEnds(i)
    \/ ClosePause \/ ActivateProfilePause \/ ResumeProfileFiltering
    \/ EditBlockPage \/ SaveBlockPageTab \/ ProfilePauseCloseModal
    \/ \E c \in calls : \/ ProfilePauseGotPause(c) \/ ProfilePauseSubmitted(c)
                        \/ BlockPageSaved(c)
                        \/ ProfilePauseServes(c) \/ Fails(c)

-----------------------------------------------------------------------------

\* A profile whose filter is paused is not shown as filtering, once everything
\* is answered, no call crossed another and no answer was missed; whatever
\* dialogs were closed and opened over calls under way.
NoPauseHidden ==
    Settled => \A i \in Item : srv.pause[i] => ui.profilePauses[i] = TRUE

\* One pause or resumption at a time, for all profiles together: the buttons stay
\* disabled until it is over, in the dialog of another profile too.
OnePauseAtATime ==
    Cardinality(Pending("setProfilePause") \cup Pending("clearProfilePause"))
        = (IF ui.submitting THEN 1 ELSE 0)

\* The column tells what the node does: a pause that ended is not shown.  Not so:
\* nothing reads the pauses again.
ChipFollowsNode ==
    Settled => \A i \in Item : ui.profilePauses[i] = TRUE => srv.pause[i]

\* The dialog of one profile is not closed by the answer about another.  Not so:
\* it is, when the first one was closed with its call under way.
ProfilePauseDialogIsOnesOwn ==
    [][\A c \in calls \ calls' :
          c.op \in {"setProfilePause", "clearProfilePause"} /\ ui.profilePauseTarget # None
             /\ ui'.profilePauseTarget = None => c.arg.id = ui.profilePauseTarget]_pageVars

\* A dialog that is opened again shows the block page that was saved before.  Not
\* so: the row it opens from is the one the list was read with.
BlockPageReopens ==
    [][\A i \in Item : ui.original = None /\ ui'.original = i /\ Settled =>
          ui'.blockPage = srv.page[i]]_pageVars

=============================================================================
