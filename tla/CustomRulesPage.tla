--------------------------- MODULE CustomRulesPage ---------------------------
(* views/CustomRules.vue: the text of the cluster-wide rules and its editor.   *)
(* A text is a value, None the empty one.                                      *)
EXTENDS Page

Rules == Value \cup {None}

CustomRulesTypeOK ==
    /\ TypedCalls
    /\ {ui.draft, ui.original, srv.rules} \subseteq Rules
    /\ {ui.saving, ui.errorMsg, ui.savedAt, ui.savedAtTimer} \subseteq BOOLEAN

CustomRulesDirty == ui.draft # ui.original
DiscardOffered == ~ui.saving /\ CustomRulesDirty
CustomRulesSaveOffered == ~ui.saving

CustomRulesInit ==
    /\ page = "customrules"
    /\ ui = [draft |-> None, original |-> None, saving |-> FALSE, errorMsg |-> FALSE,
             savedAt |-> FALSE, savedAtTimer |-> FALSE]
    /\ \E v \in Rules : srv = [rules |-> v]
    /\ calls = {Call(1, "getCustomRules", None)} /\ writes = 0 /\ crossed = FALSE

\* What was typed before the text came is gone.
CustomRulesLoaded(c) ==
    /\ c \in Ended("getCustomRules")
    /\ ui' = IF c.at = "failed" THEN [ui EXCEPT !.errorMsg = TRUE]
             ELSE [ui EXCEPT !.draft = c.data.rules, !.original = c.data.rules]
    /\ Done(c) /\ UNCHANGED <<page, srv>>

Dismiss ==
    /\ ui.errorMsg
    /\ ui' = [ui EXCEPT !.errorMsg = FALSE]
    /\ Local

OnEdit(v) ==
    /\ v # ui.draft
    /\ ui' = [ui EXCEPT !.draft = v, !.errorMsg = FALSE, !.savedAt = FALSE]
    /\ Local

DiscardChanges ==
    /\ DiscardOffered
    /\ ui' = [ui EXCEPT !.draft = ui.original, !.errorMsg = FALSE, !.savedAt = FALSE]
    /\ Local

\* Save is offered before the text has come, and then sends an empty one.
CustomRulesSave ==
    /\ CustomRulesSaveOffered
    /\ ui' = [ui EXCEPT !.saving = TRUE, !.errorMsg = FALSE]
    /\ Asks("putCustomRules", [rules |-> ui.draft])
    /\ UNCHANGED <<page, srv>>

\* mutant: what Discard goes back to stays the old text.
SavedDraftOnly(c) ==
    /\ c \in Ended("putCustomRules")
    /\ ui' = IF c.at = "failed" THEN [ui EXCEPT !.saving = FALSE, !.errorMsg = TRUE]
             ELSE [ui EXCEPT !.saving = FALSE, !.draft = c.data.rules,
                             !.savedAt = TRUE, !.savedAtTimer = TRUE]
    /\ Done(c) /\ UNCHANGED <<page, srv>>

\* The editor shows what was saved, whatever was typed since.
CustomRulesSaved(c) ==
    /\ c \in Ended("putCustomRules")
    /\ ui' = IF c.at = "failed" THEN [ui EXCEPT !.saving = FALSE, !.errorMsg = TRUE]
             ELSE [ui EXCEPT !.saving = FALSE, !.original = c.data.rules,
                             !.draft = c.data.rules, !.savedAt = TRUE, !.savedAtTimer = TRUE]
    /\ Done(c) /\ UNCHANGED <<page, srv>>

SavedTimer ==
    /\ ui.savedAtTimer
    /\ ui' = [ui EXCEPT !.savedAt = FALSE, !.savedAtTimer = FALSE]
    /\ Local

\* A text that does not parse is refused as a whole.
CustomRulesServes(c) ==
    /\ c.at = "sent"
    /\ \/ c.op = "getCustomRules" /\ Answers(c, srv) /\ UNCHANGED srv
       \/ c.op = "putCustomRules" /\ srv' = c.arg /\ Answers(c, c.arg)
       \/ c.op = "putCustomRules" /\ c.arg.rules # None /\ Refuses(c)
    /\ UNCHANGED <<page, ui>>

CustomRulesNext ==
    \/ \E v \in Rules : OnEdit(v)
    \/ Dismiss \/ DiscardChanges \/ CustomRulesSave \/ SavedTimer
    \/ \E c \in calls : \/ CustomRulesLoaded(c) \/ CustomRulesSaved(c)
                        \/ CustomRulesServes(c) \/ Fails(c)

-----------------------------------------------------------------------------

\* Once everything is answered and no call crossed another, what Discard goes
\* back to is what the node stores, and "Saved" stands over nothing else.
DiscardsToStored ==
    Settled => /\ ui.original = srv.rules
               /\ ui.savedAt => ui.draft = srv.rules

\* What is typed while a save is under way is still there when it ends.  Not so:
\* the editor then shows what was saved.
TypingSurvivesSave ==
    [][\A c \in Ok("putCustomRules") : c \notin calls' /\ ui.draft # c.arg.rules
          => ui'.draft = ui.draft]_pageVars

\* A save sends nothing the editor did not first get from the node or somebody.
\* It does: before the text has come the editor is empty and Save is offered.
SavesWhatWasSeen ==
    [][\A c \in calls' \ calls : c.op = "putCustomRules"
          => Pending("getCustomRules") = {}]_pageVars

=============================================================================
