----------------------------- MODULE SettingsPage -----------------------------
(* views/Settings.vue: one form per section, each with its own Save, and the  *)
(* jobs of the page: purging the cache, exporting, backing up, restoring.     *)
EXTENDS Page, Sequences

\* Bound: edits of the forms, all in all.
SettingsMaxEdits == 2

Section == {"dns", "filtering", "query_log", "auth", "block_page", "backup"}
KeysOf(s) == IF s = "query_log" THEN {"max_entries", "retention"} ELSE {s}
Settings == {"dns", "filtering", "max_entries", "retention", "auth"}
SettingsKey == Settings \cup {"block_page", "backup"}

\* The calls of a job, one after the other.
Job == [purge |-> <<"purgeDNSCache", "getDNSCacheStats">>, export |-> <<"exportConfig">>,
        trigger |-> <<"triggerBackup", "listBackups">>]

\* What a save carries, and a call of a job.
SettingsSaveArg ==
    [section : Section, values : UNION {[KeysOf(s) -> Value \cup {0}] : s \in Section}]
SettingsJobArg == [job : DOMAIN Job]

ASSUME SettingsAssumption == None \notin SettingsSaveArg \cup SettingsJobArg

SettingsTypeOK ==
    /\ TypedCalls
    /\ {ui.form, srv.stored} \subseteq [SettingsKey -> Value \cup {0}]
    /\ {ui.dirty, ui.saving} \subseteq SUBSET Section
    /\ ui.busy \subseteq DOMAIN Job /\ ui.edits \in 0..SettingsMaxEdits
    /\ {ui.loading, ui.settings, ui.selectedFile, ui.restoreConfirm, ui.restoring}
          \subseteq BOOLEAN
    /\ ui.restored \in {None, "ok", "failed"}
    /\ {srv.backups, ui.storedBackups} \subseteq 0..MaxWrites

\* What the page offers once it has loaded, unless the dialog covers it.
SettingsCovered == ui.loading \/ ~ui.settings \/ ui.restoreConfirm
SettingsEditOffered == IF SettingsCovered THEN {} ELSE SettingsKey
\* mutant: Save does not wait for the one under way.
DnsSaveAlways == ~SettingsCovered /\ "dns" \in ui.dirty

DnsSaveOffered == ~SettingsCovered /\ "dns" \in ui.dirty \ ui.saving
FilteringSaveOffered == ~SettingsCovered /\ "filtering" \in ui.dirty \ ui.saving
BlockPageSaveOffered == ~SettingsCovered /\ "block_page" \in ui.dirty \ ui.saving
QueryLogSaveOffered == ~SettingsCovered /\ "query_log" \in ui.dirty \ ui.saving
SessionTimeoutSaveOffered == ~SettingsCovered /\ "auth" \in ui.dirty \ ui.saving
ScheduleSaveOffered == ~SettingsCovered /\ "backup" \notin ui.saving
PurgeOffered == ~SettingsCovered /\ "purge" \notin ui.busy
ExportOffered == ~SettingsCovered /\ "export" \notin ui.busy
TriggerOffered == ~SettingsCovered /\ "trigger" \notin ui.busy
RestoreOffered == ~SettingsCovered /\ ui.selectedFile /\ ~ui.restoring

\* 0 is what a form holds before anything was loaded into it.
SettingsInit ==
    /\ page = "settings"
    /\ ui = [form |-> [k \in SettingsKey |-> 0], dirty |-> {}, saving |-> {},
             busy |-> {}, edits |-> 0, loading |-> TRUE, settings |-> FALSE,
             selectedFile |-> FALSE, restoreConfirm |-> FALSE, restoring |-> FALSE,
             restored |-> None, storedBackups |-> 0]
    /\ srv = [stored |-> [k \in SettingsKey |-> 1], backups |-> 0]
    /\ calls = {Call(1, "getSettings", None)} /\ writes = 0 /\ crossed = FALSE

\* mutant: the marks go, and only the section that was saved is filled.
ApplyMarksOnly(u, values) ==
    [u EXCEPT !.settings = TRUE,
              !.form = [k \in SettingsKey |-> IF k = "dns" THEN values[k] ELSE @[k]],
              !.dirty = @ \ {"dns", "filtering", "query_log", "auth"}]

\* The answer of any call about the settings fills the forms of every section it
\* is about, and takes their marks away.
ApplySettings(u, values) ==
    [u EXCEPT !.settings = TRUE,
              !.form = [k \in SettingsKey |-> IF k \in Settings THEN values[k] ELSE u.form[k]],
              !.dirty = @ \ {"dns", "filtering", "query_log", "auth"}]
ApplyBlockPage(u, values) ==
    [u EXCEPT !.form["block_page"] = values["block_page"], !.dirty = @ \ {"block_page"}]

\* onMounted: the settings and the block page, the cache, the backups; the page
\* shows nothing before it has tried all of them.
SettingsLoaded(c) ==
    /\ ui.loading /\ c \in Ended("getSettings")
    /\ \/ c.at = "failed" /\ ui' = [ui EXCEPT !.loading = FALSE] /\ Done(c)
       \/ /\ c.at = "ok"
          /\ ui' = ApplyBlockPage(ApplySettings(ui, c.data.stored), c.data.stored)
          /\ ThenAside(c, "getDNSCacheStats", None)
    /\ UNCHANGED <<page, srv>>

LoadBackupData(c) ==
    /\ ui.loading /\ c \in Ended("getDNSCacheStats")
    /\ ThenAside(c, "getBackupSettings", None)
    /\ UNCHANGED <<page, ui, srv>>

BackupDataLoaded(c) ==
    /\ c \in Ended("getBackupSettings")
    /\ ui' = IF c.at = "failed" THEN [ui EXCEPT !.loading = FALSE]
             ELSE [ui EXCEPT !.loading = FALSE, !.form["backup"] = c.data.stored["backup"],
                             !.storedBackups = c.data.backups]
    /\ Done(c) /\ UNCHANGED <<page, srv>>

\* Any field of a form, a route that is added or removed.  The schedule has no
\* mark: its Save is always offered; what is kept here is that it was edited.
MarkDirty(k) ==
    /\ k \in SettingsEditOffered /\ ui.edits < SettingsMaxEdits
    /\ \E v \in Value \ {ui.form[k]} :
          ui' = [ui EXCEPT !.form[k] = v, !.edits = @ + 1,
                           !.dirty = @ \cup {s \in Section : k \in KeysOf(s)}]
    /\ Local

\* mutant: every section is sent along.
SaveAll(s, op) ==
    /\ ui' = [ui EXCEPT !.saving = @ \cup {s}]
    /\ Asks(op, [section |-> s, values |-> ui.form])
    /\ UNCHANGED <<page, srv>>

\* A Save sends what its form holds, of its own section only.
SettingsSave(s, op) ==
    /\ ui' = [ui EXCEPT !.saving = @ \cup {s}]
    /\ Asks(op, [section |-> s, values |-> [k \in KeysOf(s) |-> ui.form[k]]])
    /\ UNCHANGED <<page, srv>>

SaveDns == DnsSaveOffered /\ SettingsSave("dns", "patchSettings")
SaveFiltering == FilteringSaveOffered /\ SettingsSave("filtering", "patchSettings")
SaveQueryLog == QueryLogSaveOffered /\ SettingsSave("query_log", "patchSettings")
SaveSessionTimeout == SessionTimeoutSaveOffered /\ SettingsSave("auth", "patchSettings")
SaveBlockPage == BlockPageSaveOffered /\ SettingsSave("block_page", "patchBlockPageConfig")
SaveBackupSchedule == ScheduleSaveOffered /\ SettingsSave("backup", "putBackupSettings")

\* The section says "Saved.", for two seconds that are left out.
SavedSection(c) ==
    /\ c \in Ended("patchSettings") \cup Ended("patchBlockPageConfig")
             \cup Ended("putBackupSettings")
    /\ LET s == c.arg.section
           u == [ui EXCEPT !.saving = @ \ {s}] IN
          \/ c.at = "failed" /\ ui' = u
          \/ c.at = "ok" /\ c.op = "patchSettings" /\ ui' = ApplySettings(u, c.data.stored)
          \/ /\ c.at = "ok" /\ c.op = "patchBlockPageConfig"
             /\ ui' = ApplyBlockPage(u, c.data.stored)
          \/ /\ c.at = "ok" /\ c.op = "putBackupSettings"
             /\ ui' = [u EXCEPT !.form["backup"] = c.data.stored["backup"],
                                !.dirty = @ \ {"backup"}]
    /\ Done(c) /\ UNCHANGED <<page, srv>>

\* Bound: one job at a time.
StartJob(j) ==
    /\ ui.busy = {}
    /\ ui' = [ui EXCEPT !.busy = @ \cup {j}]
    /\ AsksAside(Head(Job[j]), [job |-> j])
    /\ UNCHANGED <<page, srv>>

OnPurgeCache == PurgeOffered /\ StartJob("purge")
DownloadBackup == ExportOffered /\ StartJob("export")
DoTriggerBackup == TriggerOffered /\ StartJob("trigger")

\* A job goes on to its second call, which is not made when the first fails.
JobStep(c) ==
    /\ c.arg \in [job : DOMAIN Job] /\ c.at # "sent"
    /\ LET steps == Job[c.arg.job]
           last == steps[Len(steps)] IN
       \/ /\ c.at = "ok" /\ c.op # last
          /\ ThenAside(c, last, c.arg) /\ UNCHANGED ui
       \/ /\ c.at = "failed" \/ c.op = last
          /\ ui' = [ui EXCEPT !.busy = @ \ {c.arg.job},
                       !.storedBackups = IF c.at = "ok" /\ c.op = "listBackups"
                                         THEN c.data.backups ELSE @]
          /\ Done(c)
    /\ UNCHANGED <<page, srv>>

OnBackupFileSelected ==
    /\ ~SettingsCovered /\ ~ui.restoring /\ ~ui.selectedFile
    /\ ui' = [ui EXCEPT !.selectedFile = TRUE, !.restored = None]
    /\ Local

OpenRestore == RestoreOffered /\ ui' = [ui EXCEPT !.restoreConfirm = TRUE] /\ Local
CloseRestore == ui.restoreConfirm /\ ui' = [ui EXCEPT !.restoreConfirm = FALSE] /\ Local

DoRestore ==
    /\ ui.restoreConfirm /\ ~ui.restoring
    /\ ui' = [ui EXCEPT !.restoreConfirm = FALSE, !.restoring = TRUE, !.restored = None]
    /\ Asks("importConfig", None)
    /\ UNCHANGED <<page, srv>>

\* What was restored is read again; if that fails the restore is said to have
\* failed.
Restored(c) ==
    /\ c \in Ended("importConfig")
    /\ \/ c.at = "ok" /\ Then(c, "getSettings", None)
          /\ ui' = [ui EXCEPT !.selectedFile = FALSE]
       \/ c.at = "failed" /\ Done(c)
          /\ ui' = [ui EXCEPT !.restoring = FALSE, !.restored = "failed"]
    /\ UNCHANGED <<page, srv>>

RestoreRead(c) ==
    /\ ui.restoring /\ c \in Ended("getSettings")
    /\ ui' = IF c.at = "failed" THEN [ui EXCEPT !.restoring = FALSE, !.restored = "failed"]
             ELSE [ApplyBlockPage(ApplySettings(ui, c.data.stored), c.data.stored)
                      EXCEPT !.restoring = FALSE, !.restored = "ok"]
    /\ Done(c) /\ UNCHANGED <<page, srv>>

\* The node.  The settings, the block page and the restore each write the whole
\* configuration, without a lock: they read it, edit what they read and import that.
\* The backup schedule is kept beside it.
WritesWhole == {"patchSettings", "patchBlockPageConfig", "importConfig"}

\* The patch of the settings knows no retention.  An archive brings other settings,
\* all but those of the sessions.
SettingsPatched(c, stored) ==
    [k \in SettingsKey |-> IF k \in DOMAIN c.arg.values \ {"retention"} THEN c.arg.values[k]
                   ELSE stored[k]]
SettingsEdited(c) ==
    IF c.op = "importConfig" THEN [k \in SettingsKey |-> IF k = "auth" THEN c.data[k] ELSE 2]
    ELSE SettingsPatched(c, c.data)

\* WithWriteLock: the snapshot that is edited, and the import of what it became.
SettingsSnapshot(c) ==
    /\ c.op \in WritesWhole /\ c.data = None
    /\ calls' = (calls \ {c}) \cup {[c EXCEPT !.data = srv.stored]}
    /\ UNCHANGED <<srv, writes, crossed>>

SettingsImport(c) ==
    /\ c.op \in WritesWhole /\ c.data # None
    /\ srv' = [srv EXCEPT !.stored = [SettingsEdited(c) EXCEPT !["backup"] = srv.stored["backup"]]]
    /\ \/ c.op = "importConfig" /\ Answers(c, None)
       \/ c.op # "importConfig" /\ Answers(c, [stored |-> [srv'.stored EXCEPT !["auth"] = 0]])

\* The answer of a save leaves the session timeout out, which reads as 0.
SettingsServes(c) ==
    /\ c.at = "sent"
    /\ \/ /\ c.op \in {"getSettings", "getBackupSettings", "listBackups"}
          /\ Answers(c, srv) /\ UNCHANGED srv
       \/ SettingsSnapshot(c) \/ SettingsImport(c)
       \/ /\ c.op = "putBackupSettings"
          /\ srv' = [srv EXCEPT !.stored = SettingsPatched(c, srv.stored)]
          /\ Answers(c, [stored |-> srv'.stored])
       \/ /\ c.op \in {"purgeDNSCache", "getDNSCacheStats", "exportConfig"}
          /\ Answers(c, None) /\ UNCHANGED srv
       \/ /\ c.op = "triggerBackup" /\ Answers(c, None)
          /\ \E n \in {0, 1} : srv' = [srv EXCEPT !.backups = @ + n]
    /\ UNCHANGED <<page, ui>>

SettingsNext ==
    \/ \E k \in SettingsKey : MarkDirty(k)
    \/ SaveDns \/ SaveFiltering \/ SaveQueryLog \/ SaveSessionTimeout \/ SaveBlockPage
    \/ SaveBackupSchedule \/ OnPurgeCache \/ DownloadBackup
    \/ DoTriggerBackup \/ OnBackupFileSelected \/ OpenRestore \/ CloseRestore \/ DoRestore
    \/ \E c \in calls : \/ SettingsLoaded(c) \/ LoadBackupData(c) \/ BackupDataLoaded(c)
                        \/ SavedSection(c) \/ JobStep(c) \/ Restored(c) \/ RestoreRead(c)
                        \/ SettingsServes(c) \/ Fails(c)

-----------------------------------------------------------------------------

\* Whatever was saved, restored and re-read in whatever order: once nothing is
\* under way and no call crossed another, a form without a mark shows what the
\* node stores.  The session timeout is left out: see ShowsTimeout.
CleanFormsShowStored ==
    Settled /\ ui.settings =>
        \A s \in Section \ ui.dirty : \A k \in KeysOf(s) \ {"auth", "backup"} :
            ui.form[k] = srv.stored[k]

\* The field of the session timeout shows the timeout, not what an answer that
\* leaves it out reads as.  Not so: the answer of every save leaves it out.
ShowsTimeout ==
    Settled /\ ui.settings /\ "auth" \notin ui.dirty => ui.form["auth"] = srv.stored["auth"]

\* Where "Saved." appears, the form shows what was sent: the node stored it.  Not
\* so of the retention, which the node drops.
SavedMeansStored ==
    [][\A c \in calls \ calls' : c.op = "patchSettings" /\ c.at = "ok" =>
          \A k \in DOMAIN c.arg.values \ {"auth"} : ui'.form[k] = c.arg.values[k]]_pageVars

\* Saving one section leaves what is typed in the others alone.  Not so: the answer
\* fills them all.
OtherEditsSurvive ==
    [][\A s \in ui.dirty \ ui'.dirty : s \in ui.saving \ ui'.saving \/ ui.restoring]_pageVars

\* A section whose Save is disabled because it is being saved has its call under
\* way, and no second one; a restore that is under way is the only one.
OneSaveEach ==
    /\ \A s \in Section :
          Cardinality({c \in calls : c.arg # None /\ "section" \in DOMAIN c.arg
                                     /\ c.arg.section = s})
             = (IF s \in ui.saving THEN 1 ELSE 0)
    /\ Cardinality(Pending("importConfig")) <= (IF ui.restoring THEN 1 ELSE 0)

\* While no two calls crossed, what a save changes at the node is its own section and
\* what is typed in the others is not sent along: the configuration it imports is the
\* one that is stored, but for that section (settings.go UpdateSettings).
LoneSaveStaysInsideStep ==
    ~crossed => \A k \in SettingsKey : srv'.stored[k] # srv.stored[k] =>
        \E c \in calls : \/ c.op = "importConfig"
                        \/ /\ c.arg # None /\ "section" \in DOMAIN c.arg
                           /\ k \in KeysOf(c.arg.section)

\* In every step.
LoneSaveStaysInside == [][LoneSaveStaysInsideStep]_pageVars

\* An answered save stays, while another one is under way.  Not so: each imports the
\* whole configuration as it read it, and the later import takes back what the
\* earlier one changed.
SavesTakeNothingBack ==
    [][\A k \in SettingsKey, c \in calls :
          /\ srv'.stored[k] # srv.stored[k] /\ c.at = "ok" /\ c.op = "patchSettings"
          /\ k \in DOMAIN c.arg.values
          => \E d \in calls \ {c} : \/ d.op = "importConfig"
                                   \/ /\ d.arg # None /\ "section" \in DOMAIN d.arg
                                      /\ k \in KeysOf(d.arg.section)]_pageVars

\* "Restore failed" means that the configuration is the old one.  Not so: it is
\* also said when only the read that follows failed, or the answer was lost.
FailedRestoreChangedNothing ==
    [][ui'.restored = "failed" /\ ui.restored # "failed" =>
          Ok("importConfig") = {} /\ ui'.selectedFile]_pageVars

=============================================================================
