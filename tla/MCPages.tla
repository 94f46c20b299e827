------------------------------- MODULE MCPages -------------------------------
(* The views of the web interface together, one of them mounted, for TLC with *)
(* two names and two calls at a time.                                         *)
EXTENDS AllowlistPage, AuditPage, BlocklistsPage, CategoriesPage, ClientsPage,
    CustomRulesPage, DevicesPage, LocalDnsPage, PausePage, ProfilePausePage,
    ProfilesPage, QueryLogPage, SchedulesPage, ScheduleGrid, SessionPage, SettingsPage,
    SharedAllowlistsPage, TestDomainPage, TokensPage, WebhooksPage

Mounted ==
    \/ AllowlistInit
    \/ AuditInit
    \/ BlocklistsInit
    \/ CategoriesInit
    \/ ClientsInit
    \/ CustomRulesInit
    \/ DevicesInit
    \/ LocalDnsInit
    \/ PauseInit
    \/ ProfilePauseInit
    \/ ProfilesInit
    \/ QueryLogInit
    \/ SchedulesInit
    \/ GridInit
    \/ SessionInit
    \/ SettingsInit
    \/ SharedInit
    \/ TestDomainInit
    \/ TokensInit
    \/ WebhooksInit

Steps ==
    \/ page = "allowlist" /\ AllowlistNext
    \/ page = "audit" /\ AuditNext
    \/ page = "blocklists" /\ BlocklistsNext
    \/ page = "categories" /\ CategoriesNext
    \/ page = "clients" /\ ClientsNext
    \/ page = "customrules" /\ CustomRulesNext
    \/ page = "devices" /\ DevicesNext
    \/ page = "localdns" /\ LocalDnsNext
    \/ page = "pause" /\ PauseNext
    \/ page = "profilepause" /\ ProfilePauseNext
    \/ page = "profiles" /\ ProfilesNext
    \/ page = "querylog" /\ QueryLogNext
    \/ page = "schedules" /\ SchedulesNext
    \/ page = "schedulegrid" /\ GridNext
    \/ page = "session" /\ SessionNext
    \/ page = "settings" /\ SettingsNext
    \/ page = "shared" /\ SharedNext
    \/ page = "testdomain" /\ TestDomainNext
    \/ page = "tokens" /\ TokensNext
    \/ page = "webhooks" /\ WebhooksNext

Spec == Mounted /\ [][Steps]_pageVars

-----------------------------------------------------------------------------

\* The refs of the view that is mounted, and what it calls, have their types.
ViewsTypeOK ==
    /\ page = "allowlist" => AllowlistTypeOK
    /\ page = "audit" => AuditTypeOK
    /\ page = "blocklists" => BlocklistsTypeOK
    /\ page = "categories" => CategoriesTypeOK
    /\ page = "clients" => ClientsTypeOK
    /\ page = "customrules" => CustomRulesTypeOK
    /\ page = "devices" => DevicesTypeOK
    /\ page = "localdns" => LocalDnsTypeOK
    /\ page = "pause" => PauseTypeOK
    /\ page = "profilepause" => ProfilePauseTypeOK
    /\ page = "profiles" => ProfilesTypeOK
    /\ page = "querylog" => QueryLogTypeOK
    /\ page = "schedules" => SchedulesTypeOK
    /\ page = "schedulegrid" => GridTypeOK
    /\ page = "session" => SessionTypeOK
    /\ page = "settings" => SettingsTypeOK
    /\ page = "shared" => SharedTypeOK
    /\ page = "testdomain" => TestDomainTypeOK
    /\ page = "tokens" => TokensTypeOK
    /\ page = "webhooks" => WebhooksTypeOK

(* What the views keep.  The parts are stated in full in the modules.          *)

\* Once everything is answered and no call crossed another, every view shows what the
\* node stores: changes made row by row, rolled back, merged from a poll or read again
\* amount to what loading the view anew would show.  Who is in the shell holds a token
\* the node issued, and a setup that was answered well is stored.
ViewsShowNode ==
    /\ page = "allowlist" => ShowsScope
    /\ page = "audit" => ShowsQuery
    /\ page = "blocklists" => BlocklistsShowsStored
    /\ page = "categories" => ShowsCatalog
    /\ page = "clients" => ShowsNetwork
    /\ page = "customrules" => DiscardsToStored
    /\ page = "devices" => ListsDevices
    /\ page = "localdns" => LocalDnsShowsStored
    /\ page = "pause" => ShowsPause
    /\ page = "profilepause" => NoPauseHidden
    /\ page = "profiles" => ListsProfiles
    /\ page = "querylog" => ShowsLog
    /\ page = "schedules" => ShowsSchedules
    /\ page = "session" => AnsweredSetupIsStored
    /\ page = "session" => ShellIsSignedIn
    /\ page = "settings" => CleanFormsShowStored
    /\ page = "shared" => SharedShowsStored
    /\ page = "tokens" => ListsTokens
    /\ page = "webhooks" => ListsEndpoints

\* What a view has begun is under way once, and its button or row is marked for as long
\* as it is and no longer, whatever dialogs come and go meanwhile.
ViewsDoOneThing ==
    /\ page = "allowlist" => OneRemoval
    /\ page = "blocklists" => BusyUnlessCrossed
    /\ page = "categories" => MarksWhatItDisables
    /\ page = "devices" => ButtonsFollowCalls
    /\ page = "profilepause" => OnePauseAtATime
    /\ page = "schedules" => OneChangeEach
    /\ page = "session" => ButtonFollowsCall
    /\ page = "settings" => OneSaveEach
    /\ page = "shared" => OneSave

\* An answer is taken for what it answers, also while calls cross: rows keep their ids,
\* nothing is listed twice, and dialog, verdict and secret are those of the request.
ViewsMixNothingUp ==
    /\ page = "localdns" => RowsStayThemselves
    /\ page = "profiles" => DialogWaitsForSave
    /\ page = "querylog" => NothingTwice
    /\ page = "session" => LogoutIsOfOneLogin
    /\ page = "testdomain" => OneOutcome
    /\ page = "tokens" => SecretIsOfToken

\* An edit changes no more than it says: the mouse the cell it is on, letting go of it
\* none, and a save that crosses no other call the section it is of.
EditsStayInside ==
    [][/\ page = "schedulegrid" => DragSetsOneCellStep
       /\ page = "schedulegrid" => ReleaseKeepsCellsStep
       /\ page = "settings" => LoneSaveStaysInsideStep]_pageVars

=============================================================================
