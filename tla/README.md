# skoed: TLA+ verification

skoed is a self-hosted DNS filter written in Go (`src/apps/skoed`), with a web
interface (`src/web`, Vue) and a browser extension (`src/web/extension`). Several
nodes form a cluster: configuration, DHCP leases, API tokens, audit rows and
more live in a bbolt file on every node, changed only by commands that one Raft
log orders; any node answers reads and DNS queries from its own file and
forwards writes to the leader. This directory holds TLA+ models of the parts
where steps of several actors meet, the TLC runs that check them on small
instances, and theorems about them checked by TLAPS. Every definition is
translated from the source; `PROJECT.json` names the lines each one stands
for. Raft itself (hashicorp/raft), bbolt, the DNS and DHCP clients, the
operating system's clock, the browser and the network are external and modelled only by
what the code relies on.

## Inventory

| Component | Where (`src/apps/skoed`) | State | Operations | Hard parts |
|---|---|---|---|---|
| Replicated store | `internal/cluster/store.go`, `commands.go`, `fsm.go`, `raft.go` | one bbolt file per node, Raft's log and snapshots | `Apply` of 50 command kinds, `Snapshot`, `Persist`, `Restore` | restart replays the log onto a durable file; snapshot races apply; commands that read what they change |
| Enrolment | `internal/cluster/cluster.go` (`CreateJoinToken`, `EnrollNode`, `RemoveMember`, `registerSelfAfterLeader`), `cmd/skoed/main.go` (`joinExistingCluster`) | token and member rows, Raft configuration | issue, consume, add voter, record, remove | concurrent joins, retries after a lost reply, leader changes between the steps |
| App cache | `internal/api/app.go` | cached config, filter engine, token maps | `NewApp`, `onApply`, `rebuildTokenCache` | boot races apply; `Restore` notifies nobody |
| Config writes | `internal/api/app.go` (`WithWriteLock`), `internal/api/handlers/*` | the configuration buckets | settings, blocklists, allowlist, local DNS, profiles, pauses | read-modify-write of the whole configuration without a lock |
| Blocklist refresh | `internal/refresh/scheduler.go`, `handlers/blocklists.go` | refresh stamps and domains of each blocklist row | leader tick, download, upsert | a row written back after a long download; slots shared by failing lists |
| DoH resolver refresh | `internal/dohresolvers/scheduler.go` | resolver snapshot, failure status | leader tick, force refresh | collapsing concurrent refreshes |
| DHCP lease replication | `internal/dhcp/manager.go`, `internal/cluster/dhcp_lease.go` | local leases, replicated snapshot, anomalies | poll, replicate, apply | coalescing against a failed write, leadership changes |
| DHCP servers | `internal/dhcp/server.go`, `server6.go` | pools, leases, static assignments | discover, request, release, reserve | pool exhaustion, failover, late persistence |
| ARP check | `internal/dhcp/arp_check.go` | probe results | reconcile | stale probe |
| DNS path | `internal/dns/*` | response cache, upstream connections, encrypted listeners | query, forward, recurse, purge | stale cache after a policy change, upstream failover |
| Filter engine | `internal/filter/*` | immutable engine per configuration | decide for a client, domain, time | precedence of profiles, schedules, pauses, allowlists |
| Shadow YAML | `internal/cluster/shadow_yaml.go` | `config.yaml` mirror | debounce, write, stop | coalescing, failure, flush at shutdown |
| Write forwarding | `internal/api/middleware/forward.go`, `internal/cluster/write_forwarder.go` | none | reverse proxy to the leader | a forward that times out after the leader applied it |
| Audit | `internal/api/audit_middleware.go` | audit rows | append after each mutation, trim | asynchronous append, order of stamps |
| Certificates | `internal/cluster/mtls*.go`, `cluster.go` (`RotateCerts`) | CA and leaves on disk and in memory | rotate, reload | CA written before the command commits |
| DNSCrypt keys | `internal/cluster/dnscrypt.go`, `cmd/skoed/main.go` | replicated key pair | rotate on the leader | two leaders rotating in turn |
| Backups | `internal/config/backup*.go`, `handlers/backup.go` | archive files, last hash | scheduled and manual backup, restore | restore is an import |
| Upgrade | `internal/upgrade/*`, `handlers/cluster_upgrade.go` | binary on disk, rollout status | check, swap, rolling upgrade | one node of several failing |
| Webhooks, SSE | `internal/webhook`, `internal/api/sse` | bounded queues | fire, retry | a full queue |
| Sessions, tokens, login | `internal/api/session.go`, `internal/auth`, `cluster/api_token.go` | node-local sessions, replicated tokens | login, logout, lookup | a changed password that the next apply undoes |
| Query log, aggregates | `internal/log/*`, `cluster.go` (`CommitHourlyAggregate`) | ring, hourly counts | flush, forward, prune | a retry counted twice |
| Block page, metrics, firewall rules, CLI, netguard | `internal/blockpage`, `metrics`, `firewallrules`, `cli`, `netguard` | none or counters | rendering | pure input and output |
| Operator | `src/apps/skoed-operator` | Kubernetes objects | reconcile | external API |
| Web UI | `src/web/src/views/*.vue`, `api/endpoints.ts`, `api/client.ts` | the refs of each view: rows, forms, dialogs, rows that are busy, timers | load, edit, save, delete, poll | answers out of order or lost, dialogs closed and reopened around an await, rows changed in place |
| Session, shell, dashboard | `src/web/src/stores/auth.ts`, `router.ts`, `Login.vue`, `Setup.vue`, `Account.vue`, `layouts/Shell.vue`, other views | token, user, what the probe found; pollers | probe, set up, log in and out, change the password, poll | a log-out answered after the next login; a failing health call looks like a first start |
| Browser extension | `src/web/extension` | one stream, back-off, badge, 50 stored events | connect, read, store, reconnect | the browser stops the worker at any moment; two streams at once |


How the parts meet: every write ends in `applyAsLeader`, that is in Raft's log
(*replicated store*); `fsm.Apply` changes the node's file in one transaction and
then calls the *app cache*'s `onApply`, which rebuilds the filter engine and the
token maps, purges the DNS cache, reconfigures listeners and hands the lease
mirror to the *lease replication*'s manager. *Configuration writes* read that
cached configuration and commit it back. Leadership changes start and stop the
*DHCP servers* (their own goroutine in `main.go`); the lease poll and the
refresh schedulers look at `IsLeader` at each turn. *Enrolment* changes who
votes. Clients see the system through DNS, DHCP and the management API. The *web UI*
calls that API, one view at a time, through whichever node it was loaded from; the
*browser extension* reads the node's stream of events.

## What makes each part correct

The properties marked ✓ are checked now (names of the definitions in
parentheses); the others are the plan.

- **Store**: nodes that have applied the same log hold the same keyed rows,
  whatever was replayed or restored (✓ `KeyedRowsConverge`, proved).
- **Enrolment**: a token admits one request (✓ `TokenSingleUse`, proved); no more
  voters than tokens (✓ `NoMoreVotersThanTokens`, proved); restarted servers agree
  with the others (✓ `CaughtUpServersAgree`, proved); every request is answered
  (✓ `JoinRequestAnswered`).
- **App cache**: what a serving node has in memory is its file's, but for what a failed
  read, an installed snapshot or boot made it miss, until the next rebuild that succeeds
  (✓ `ServesItsFile`, proved).
- **Configuration writes**: one at a time, each changes one thing, also if it was given up
  and its entry is applied later (✓ `KeepsPromiseAlone`, proved); what was written while no
  other write was under way is undone by none of the later ones that cross
  (✓ `WritesAloneStay`, proved); overlapping ones do not keep each other's changes
  (`DistributedWritesKept`, refuted).
- **Lease replication**: committed leases are served, or none (✓ `FollowServesCommitted`, proved);
  a view once had is never lost (✓ `NeverEmptyAgain`, proved); what the source reports
  and what the detector finds reach every node (✓ `SourceFollowed`,
  `AnomaliesFollowed`).
- **DHCP server**: no address is held twice (✓ `HandoverGivesOnce`, proved; refuted for a
  crash between acknowledgement and replication); the serving node knows every
  lease in use (✓ `HandoverKeepsLeases`, proved); a pinned address is its client's
  (✓ `PinHolds`, `PinIsOffered`, proved).
- **Filter engine**: a pause lifts blocks and causes none (✓ `PauseOnlyLifts`, proved), and
  only for those it is for (✓ `PauseSparesOthers`, proved); the engine in use judges by
  the store as it is, unless its last rebuild failed, a snapshot was installed or the node
  came up without a configuration (✓ `EngineFollowsConfig`, proved); a rebuild touches nobody but
  clients that need a lookup (✓ `RebuildWindowHarmless`, proved); the tester tells the
  truth (✓ `TesterAgrees`, proved); an edit of a profile stays inside it
  (✓ `ProfileChangeStaysInside`, proved), deleting a schedule opens nothing, nor does a second
  binding (✓ `SchedulesFailClosed`, proved). The pause of a profile suspends it
  (`ProfilePauseSuspends`, refuted).
- **Views**: once everything is answered the view shows what the node stores, whatever failed or
  was rolled back (✓ `ViewsShowNode`, proved for five views); what was begun is under way once,
  and marked for as long as it is (✓ `ViewsDoOneThing`, proved); answers are taken for what they
  answer (✓ `ViewsMixNothingUp`, proved); a drag over the grid, and the save of a section that no
  other save overlaps, change what they say and no more (✓ `EditsStayInside`). Nobody is in the
  shell without a token the node issued, a setup that was answered is stored, a log-out ends its
  own session (✓ parts of the first three).
- **Browser extension**: in Chrome one stream, and an event stored once (✓ `ChromeStoresOnce`,
  proved); in Firefox a stream is left alone (✓ `FirefoxKeepsStream`, proved); in either a
  connection again in the end (✓ `NeverGivesUp`, proved, and `ConnectsAgain`).
- **Blocklist refresh**: every due list is refreshed in the end, however many
  fail. **Shadow YAML**: the mirror becomes current, also at shutdown.
  **DNS path**: no answer from before a policy change after it. **DNSCrypt,
  certificates**: one key in force per generation. **Aggregates**: counts are
  conserved. **Upgrade**: a majority keeps running.

## Modules

| Module | Models | Lines |
|---|---|---|
| `StoreCommands` | what a command does to a bbolt file | 189 |
| `ReplicatedStore` (extends it) | log, files, replay, snapshots | 205 |
| `AppCache` (extends that) | caches beside the file, boot, rebuilds and their failures | 180 |
| `Enrollment` | tokens, joins, membership | 534 |
| `ConfigPromise` | abstract: one write takes effect once, or is refused, or in doubt | 38 |
| `ConfigWrites` (refines it) | handlers, imports, typed commands, Raft's log, refresh | 464 |
| `LeaseReplication` | source polling, mirror, anomalies | 378 |
| `DhcpServer` | DHCPv4 server, its clients, failover | 463 |
| `FilterEngine` | who is blocked; the engine's life; the commands that change it | 618 |
| `Endpoints`, `Page` | the calls of the web UI; calls under way, answered, lost | 64, 147 |
| `AllowlistPage` … `WebhooksPage` (18, on `Page`) | one view each | 95–313 |
| `SessionPage` (on `Page`) | who is signed in: probe, guard, forms, and the node's sessions and credential | 312 |
| `ScheduleGrid` (on `Page`) | the windows of a schedule as cells of a grid | 225 |
| `EventExtension` | both background scripts of the extension | 379 |
| `EnrollmentProofs` | single use of tokens; voters are paid for; caught-up servers agree | 1634 |
| `ReplicatedStoreProofs` | keyed rows converge; nodes serve their files; both scenes | 1706 |
| `LeaseReplicationProofs` | types, no empty view, committed leases or none; both scenes | 1113 |
| `DhcpServerProofs` | a handover keeps leases and gives no address twice; pins hold and are offered | 3546 |
| `FilterEngineProofs` | all that is checked of `FilterEngine`, proved | 1338 |
| `ConfigWritesProofs` | writes alone stay; refinement of `ConfigPromise`; both scenes | 2285 |
| `EventExtensionProofs` | types, no giving up, events once, Firefox's stream | 1109 |
| `PagesProofs` | the views: answers are not mixed up, one thing under way once, five show the node | 7243 |
| `MCPages` | all views as one specification: the one that is mounted moves | 137 |
| `MCStoreScenes`, `MCConfigScenes`, `MCLeaseScenes`, `MCDhcpScenes` | two circumstances of one component as one specification | 35–60 |
| `MCFilterEngine` | constants of the runs, as sets of rows and requests | 46 |

In the modules a definition whose comment begins with "mutant" is a faulty
variant of the definition that follows it. None is part of a specification;
`PROJECT.json` pairs each with the property that must fail when it takes the
other's place.

### StoreCommands, ReplicatedStore

State: `log` (Raft's committed log; Raft itself is not modelled), `db[n]` (the
bbolt file), `applied[n]`, `snap[n]` and `snapping[n]` (the last snapshot and the
index of the one being written). `canon` is history: the outcome of every prefix of
the log.

`Apply(db, c)` is `Store.Apply`: `Accepts` says whether `applyTx` returns an
error, which rolls the transaction back; `Effect` is the transaction. Each field
of a file is one *shape* of command: keyed rows, rows an import rewrites, a
cascade, a read-modify-write, a counter with trimming. `ApplyEntry` is
`fsm.Apply`. `StartSnapshot` is `fsm.Snapshot`, which keeps only the database
handle; `PersistSnapshot` is `snapshot.Persist`, which copies the file *later* and
so may hold entries past its index. `InstallSnapshot` is `fsm.Restore` on a node
too far behind. `Restart` is the process coming back: `NewRaft` restores the last
snapshot or, with none, applies the log from the start to the file as it is,
because the file is durable and the index is not. `Standalone` nodes had been a
cluster of one; `ResetRaftForJoin` wipes their Raft state and keeps their file.

### AppCache

Adds what `App` keeps in memory and the phases of `NewApp`: `Prime` (build config
and engine), `Subscribe` (`onApply`), `ReadTokens` and `StoreTokens` (the two halves of
`rebuildTokenCache`, between which an apply may rebuild the maps already). `Prime` and
`ReadTokens` may find the file unreadable, and the node comes up without.
`ApplyAndNotify` is `fsm.Apply`; what `onApply` does next, in Raft's FSM goroutine, is in
`todo`: `RebuildConfig`, then `RebuildTokens`, or the early return of either
(`RebuildFails`, `RebuildTokensFails`). `InstallUnnoticed` is `fsm.Restore`, which calls
nobody. `missed` is history: the parts in memory that a change of the file has passed by,
in one of these ways or between the steps of boot, since they were last rebuilt.

### Enrollment

State: token and member rows per server (`tokens`, `members`), the log and what
each server has applied of it, the Raft configuration (`voters`), the joining
process (`join`, `attempts`, `boot` — its config file's token) and one handler per
request (`req`). `CheckToken`, `SubmitConsume`, `AddVoter`, `SubmitMember` are the
steps of `EnrollNode`; `ApplyEntry` applies an entry on a server and wakes the
handler that waits for it with the command's result. `AddVoterUnconfirmed` and
`HandlerFails` are Raft's errors: an error says nothing of whether the command is
in. `Post`, `Receive`, `ClientTimeout`, `GiveUp` are `joinExistingCluster`, whose
retry presents the same token while the earlier handler goes on. `RemoveServer`,
`RemoveMemberRow`, `RemoveMemberFails` are `RemoveMember`; `RegisterSelf` is the
seed's goroutine. The wall clock is one for all nodes (`now`): the timestamp in
the command decides expiry, not the applying node's clock.

### ConfigPromise, ConfigWrites

`file` is the replicated configuration, `log` the entries of Raft's log that are still to be
applied, `req[r]` a handler with the command it holds, `job[l]` the scheduler's refresh of a
blocklist. A write has four steps: it reads (`ReadCopy`, `Check` or `ReadProfile`), submits
its command to Raft (`Submit`), has it applied when its turn comes (`Apply`), and is answered
(`Answered`); anything else may happen in between. `ReadCopy` is the first half of
`App.WithWriteLock`, which takes no lock: it takes `Store.Snapshot` (`Snapshot`, in which
allowlist entries with a note or expiry, the global pause and profiles are not carried over),
runs the handler's function on it (`Edit`), and holds an import of all of it, which wipes the
buckets it carries (`Import`). `Check` is the look of a handler with a command of its own,
`ReadProfile` that of `UpdateProfile`; `Fetch` is the download of a manual refresh,
`StartRefresh`, `FinishRefresh` and `LoseRefresh` the scheduler's.

`Decline` is the node that is not the leader, or Raft's timeout before an entry is taken.
`LoseLeadership` fails the futures of everything in the log: all callers get an error, and the
next leader has a prefix of those entries. It applies what it has before anything submitted to
itself, because in Raft an entry of an earlier term can only commit before those of the
current one, and its FSM goes through the log in order; so an entry in doubt may be applied
after its caller was answered and after other handlers have *read*, and before whatever those
submit. `alone` is history: the requests whose command was applied while no other write had
read what it would write over, or was on its way.

`ConfigPromise` is what an API promises: a request takes effect once, before its answer, or is
refused, or is given up and then in doubt until its entry was applied or is gone.
`KeepsPromise` instantiates it `WITH conf <- Carried(file)` (the part an import carries) and
`stage` read off the handlers and the log.

### LeaseReplication

`source` is what the DHCP source reports; `store[n]` the replicated lease bucket and anomaly rows;
`mgr[n]` the fields of `dhcp.Manager` (`leases` the snapshot served, `asked` = `lastApplied`,
`history`, `shown` = the anomaly list). `pollOnce` is `BeginPoll`, then `FetchFails`, `Deposed`,
`Coalesce` (nothing new) or `Offer` followed by `Commit` or `ReplicateFails`, then `FinishPoll`;
`asked` is set before the command is tried, as in the code, and is the empty list when a process
starts: a first poll that finds nothing is coalesced away (`manager.go:220`). `Apply` is an apply
and the `onApply` that rebuilds the manager from the store; `ReplicateAnomaly` and `AnomalyFails`
are the goroutine of one anomaly. The connectors (dnsmasq, Kea, router APIs) are external: they
return the source's leases or an error.

### DhcpServer

`table[n]` is the lease table in memory, `bucket`/`store[n]` the replicated rows
and how far a node has applied them, `config` the committed settings with the
static assignments, `serving[n]` whether the node's server listens, `event[n]` a
leadership change its goroutine has yet to handle. A handler is two steps with the
mutex given up in between: `Discover` then `Allocate`; `Request` then `Renew`,
`AckOwn` or `ReserveAt`; a REQUEST need not name an address. `Release` is one.
`sending[n]` are the goroutines that
replicate lease events after the packet went out (`Persist`), in any order; a commit that
fails is logged and forgotten (`PersistFails`). A process that restarts has `booting[n]` until
`BootServer`, the block of `main.go` that builds the server without its pins and, on a leader,
loads the leases and starts it; `FollowLeadership` comes only then.
`Pin`, `Unpin`, `Switch` are the API writes with the `UpdateConfig` they run;
`FollowLeadership` is the goroutine of `main.go`: `UpdateConfig`, `LoadLeases`, start
or stop. Clients are part of the model (`offer`, `held`): a property about a table
alone would not say whether two machines use one address. Time is discrete;
a lease lasts `LeaseTime`.

Six constants state under which circumstances a run looks: `Quiet` (leadership moves only while
nothing is being handled, replicated or applied, and to a process that has come up), `Settled` (a
client waits for its last packet to be handled and its events to be replicated before it sends the
next), `PinFree` (only addresses and clients without a lease in any table, packet in hand or
replicated row are pinned), `PinReleased` (pinned clients may release), `ReleaseAlone` (a RELEASE
comes when no REQUEST is being handled: the delete of the released lease and the upsert of whoever
takes the address next run in two goroutines, which may commit in either order), `Commits` (a
leader's commit of a lease event succeeds; FALSE in the scene of the pins). The listed runs take
the benign side of these and show that the server is right there, through restarts, elections,
lost replies and changes of settings. A client has any number of DISCOVERs but one REQUEST in hand
at a server: two goroutines of one client's REQUESTs are outside the model. The configurations
kept beside them take the other side and show what goes wrong (below).

### FilterEngine

State: `store` (the configuration in the node's bbolt file), `cfg` (`App.cfg`), `eng` and
`builtAt` (the engine in use, as the configuration it was built from, and when), `pending` (an
apply whose `onApply` is still to read the store), `missed` (history: the store has changed, or
boot could not read it, since the last rebuild that got through), `wired` (the lookups it has been
given), `lease` (what the lease table says of each client), `now`. A query reads only, so it is an
operator: `Verdict` is `ServeDNS` as far as it decides who is blocked (SafeSearch, then the
engine), `Blocks` is `EvaluateForClientID` in its order — pause of everything, custom rules,
allowances, the walk over the matched profiles, the lists nobody uses — and `Matched` is
`profilesMatchingLockedWithIdentity`: a device, else an identity, else the union of the matches by
address and by a dynamic lease. `Built` is `NewProfiled`, which drops allowances that have run out
*when it is called*; pauses and schedules are judged at the query. `Apply` is the commit of a
command in the store, `Swap` the `onApply` up to the swap of the engine, or `SwapFails` its early
return; `WireLease` and `WireDevice` are the two lookups it sets afterwards. Between any two of
these queries are answered. `Restored` is `fsm.Restore`, which tells nobody. `Restart` is
`NewApp`, which sets the lookups in the other order; `BootsWithout` the one that cannot read the
store and goes on with no configuration. The handlers are translated with what they do to the
whole row, on what they look at (`cfg`, or the store where they read it); `Saved` is the import by
which some of them store the configuration, and what it loses. A handler's look and the apply of
its command are one step here; `ConfigWrites` takes them apart.

Abstracted: the three identities (Client-ID, MAC, hostname) are one, a profile's
networks are a set of clients, lists hold domains and rules are two sets of domains,
tried in the code's order. Deadlines are one step away or past the bound.

### The views: Endpoints, Page, one module each

`Page` is what the views share. The browser's script is single-threaded: what a handler does up to
its next `await` is one step, and so is what it does once it has the answer. `calls` are the calls
under way, each sent, answered or failed; the answers are taken in any order; `Fails` covers a
refusal, a call that was lost before the node did anything and one whose answer was lost *after*
it took effect (`client.ts` gives up after 15 s and retries nothing; what the node does with a
call it has begun it finishes first). `srv` is what the node stores of the view's resource, and
every view has an action for what another administrator, or time, changes there. `ui` holds the
refs of the view by their names in the source. What a view *offers* (a button that is neither
disabled nor covered by a dialog) is an operator read off the template, since that is what keeps
calls apart.

`crossed` is a history variable: whether a call was under way beside one that writes or
was about something else, or an answer was missed, since the last read that was sent
alone. The properties about what is shown have `Settled` as their premise: with calls that
crossed they are false, which each module records with a statement marked "Not so".

Each of the 18 page modules is one part of a view: `AllowlistPage` (scope, adding, bulk,
removal), `SharedAllowlistsPage`, `BlocklistsPage` (rows with work of their own in flight) and
`PausePage` (the card of the global pause, with its ticker), `CategoriesPage`, `ProfilesPage` (list
and form) and `ProfilePausePage` (dialog, column and block page), `SchedulesPage` (list, form,
bindings) and `ScheduleGrid` (windows to cells and back, no calls), `SettingsPage` (one form per
section, jobs, restore), `DevicesPage`, `ClientsPage`, `LocalDnsPage` (rows edited in place),
`CustomRulesPage`, `QueryLogPage` (pages, scopes and the poll), `AuditPage`, `TokensPage`,
`WebhooksPage`, `TestDomainPage`. `MCPages` mounts any of them.

`SessionPage` is about all views: which route is on, whether somebody is signed in, with
which token. `SessionGoes` is the guard of `router.ts`, `Arrives` a navigation that passed it
(a view that is on already keeps its refs). The probe is two calls, the setup two calls
(`SetUpDone` goes on to the login), and `mine` is the call the form on the screen waits
for: a form that was left and opened again waits for none of the earlier ones. On the node
`mem` is the credential in `auth.Store` and `kept` the replicated one; the handlers that
store one take three steps (`Checks`, `SetsPassword`, `Commits`), and `Applies`, the
`onApply` of anybody's command, may come between any two. A handler whose caller is gone
works on with nobody to answer (`of = None`). `Restart` empties memory and sessions.

The node of a view is an atomic store, but for `SettingsPage` and `SessionPage`. The handlers of
settings, block page and archive take a snapshot of the whole configuration and import it
edited, under no lock (`SettingsSnapshot`, `SettingsImport`), so of two saves that overlap the
later takes back the other: `SavesTakeNothingBack`, refuted. What is checked is the save that
no other overlaps (`LoneSaveStaysInside`, in `EditsStayInside`). The handlers behind local DNS,
blocklists and the removal of an allowlist entry go through the same function; for those it is
`ConfigWrites` that shows what becomes of overlapping writes, and the view's node does each in
one step.

Abstracted: one view is mounted at a time and mostly not left again (the timers and
listeners that some views start after an `await`, and so may leak, are modelled where a
module says so); the calls of a `Promise.all` count as one; texts, sorting, search boxes
and formats are left out.

### EventExtension

Both background scripts: Chrome's service worker, which the browser stops at any moment
(`WorkerStops`: callbacks, timers, streams are gone, storage stays) and an alarm wakes, and
Firefox's background page. `opening` are the calls of `openConnection` that wait for the
settings, `conn` the fetches, `current` the controller the script knows of, `storing` the two
halves of `storeRecentEvent`. Two things differ: Chrome's `openConnection` aborts the
connection before, whose `catch` schedules a reconnect of its own, which aborts this one;
Firefox's does not abort and may hold several. The node (`/api/v1/events`) is external:
it accepts a good token, buffers, drops for a slow reader, and goes away.

## Runs

| Run | Bounds | Distinct states | Shows |
|---|---|---|---|
| `Enrollment_safety` | 3 nodes, 1 token, 1 attempt each, 1 restart, log of 3, expiry possible | 755,595 | at most one request passes; voters are paid for; replayed files agree |
| `Enrollment_live` | 2 nodes, 1 token, 2 attempts of one node | 131,252 | every handler answers |
| `Store_scenes` | 2 nodes, 1 restart, 1 snapshot; *rows*: one row of each kind, any log of 3 commands; *cached*: list and token commands, log of 2, any rebuild may fail | 1,461,937 | convergence; nodes serve their files but for what they missed |
| `Config_scenes` | 3 requests; *mixed*: most operations, 2 in flight, 1 scheduler refresh; *turns*: one at a time, what an import carries; 1 list, 2 URLs | 1,645,081 | writes alone stay; refinement of `ConfigPromise` |
| `Config_distributed` | 2 requests in flight | | **violated**: writes of different things undo each other |
| `Lease_scenes` | 2 nodes, 1 client with 2 MACs, 1 change, 1 crash; *follow*: 1 other command; *failing*: 1 lost leadership, 1 refused apply | 235,912 | served and spoofed leases arrive everywhere; a view is never lost |
| `Dhcp_scenes` | *handover*: 2 nodes, 2 clients, 1 address, 2 restarts, 3 ticks of a lease of 2; *pinned*: 1 node, 2 clients, 2 addresses (1 in the pool), 2 changes, 1 leadership lost, upserts that fail | 1,021,097 | failover between settled states; pins hold |
| `Dhcp_crash` | 2 nodes, 2 clients, 1 address, 1 crash at any moment | | **violated**: an acknowledged lease is forgotten |
| `Filter_verdicts` | 2 clients, 2 domains (one a subdomain of the other), 2 lists (one of a category), 2 schedules of either mode, 2 profiles, 3 starting configurations, any 2 commands, snapshots, boots or lease changes, rebuilds that fail, 1 tick | 266,935 | who is blocked, and how it follows the configuration |
| `Filter_pause` | the same | | **violated**: a paused profile's client is blocked by `default` |
| `Web_pages` | each of 20 page modules: 2 names, 2 calls under way, 2 writing calls (1 in `Profiles` and `Schedules`, 3 in `SessionPage`) | 2,185,211 | what the views show, mark and change |
| `Ext_streams` | both browsers, 3 connections, a good and a bad token, 1 event, 1 change of settings, 1 outage, 1 stop of the worker | 69,299 | one stream, one copy of an event, connected again for ever |

A run named *scenes* is one specification with a variable `scene` chosen at the start and
never changed: two instances of one component that ask different questions need different
bounds, and each is small by itself. A property of one scene says so in its premise, and
the type invariant covers both.

Why these bounds are enough to be interesting:

- *Enrolment.* A second use of a token needs two requests; the case that makes it
  hard is a server restarted between the pre-read and the consume, replaying a
  log of issue–consume–consume, so a log of three and one restart reach it.
  Two attempts of one node (the live run) reach the retry after a client timeout.
- *Store.* Replay that is not idempotent shows with two commands on one row and a
  restart after the second; a snapshot that ran ahead of its index needs an apply
  between `StartSnapshot` and `PersistSnapshot`; installation needs the second
  node behind it. Three commands allow put–delete–put, bind–delete
  schedule–bind, pause–upsert–resume and an import between two row commands.
  Nodes are symmetric.
- *Configuration.* Every conflict is between two handlers, or a handler and the
  scheduler's job; the third request sets up the state they start from. Leadership may be
  lost at any step, with every prefix of the log surviving.
- *Leases.* One change of the source and one of the MAC makes an anomaly; one
  event of each failing kind is taken at every point of a poll.
- *DHCP.* A conflict needs two clients and one address; a lease of 2 ticks within
  3 has a moment before, at and after its end. The scene *pinned* has an address outside
  the pool and an exhausted pool.
- *Filter.* Precedence shows between two profiles, one of them `default`, and two
  clients, one of them in neither. The three starting configurations (right after setup; two
  profiles with a common list and schedules; clients known by identity and device, an
  allowance that runs out, a pause that runs) put two commands within reach of every
  pair of features, and one tick passes every deadline.
- *Views.* What goes wrong goes wrong between two calls: of one row, of two rows, of a
  write and a read, and between a call and a dialog that is closed and opened for the
  other name. Two writes let a row be changed, and changed or removed again; three let
  somebody sign in, out and in, or set up, log in and change the password. The grid has
  two days of three hours, which have a first, a middle and a last one.
- *Extension.* Two streams at once, one of them aborted, and one to come.

`CHECK_DEADLOCK FALSE` stands in every configuration since bounded logs, requests
and clocks run out: the model stops where its bounds end.

### The three refuted statements

`Config_distributed`: request r1 reads the configuration; r2 commits a write of
something else, with a command of its own or an import; r1 commits its copy, in which
r2's change is missing, and both have been answered "ok". `handler.go:29` says that
`WithWriteLock` "acquires the write lock"; it takes none (`app.go:633`).

`Dhcp_crash`: `sendAck` sends the DHCPACK and then starts the goroutine that
replicates the lease. A leader that dies in between takes the lease along; the next
leader's table lacks it and gives the address to another client while the first
still holds it. `dhcp-persistence-dhcpv6.feature:54` says the lease "is written to
Raft state before ACK is sent".

`Filter_pause`: both `default` and another profile use a list; the other profile is
paused. A client of that profile is matched by address, and a default profile without
identifiers matches *every* client by address (`engine.go:454-459`), not only those
nothing else matches, as `engine.go:433` has it. Its walk finds the list and the
client stays blocked. `filtering-pause.feature:17` sets up exactly this ("the default
profile uses the "ads" blocklist") and expects at `:96` that the query of the paused
profile's client is resolved. With a profile matched by Client-ID, MAC, hostname or
device, the match is exclusive and the pause works.

### Stated and refuted

The modules also state what a reader of the code or its documentation might expect and
what TLC refutes; these definitions are marked "Not so" or named below. They are the
record behind notes in `PROJECT.json`'s hazards, and the place to start from when the code
changes. To see a counterexample take the configuration in the second column, put the
definition in the place of its invariants and properties, and change the constants named.

| Definition | Module; configuration; constants | Counterexample |
|---|---|---|
| `TokenSpentOnlyBySuccessfulJoin` | `Enrollment`; `Enrollment_live` | the consume commits, then AddVoter fails; the node needs a new token |
| `SeedEventuallyListed` | `Enrollment`; `Enrollment_live`, `MaxAttempts = 0` | the goroutine of the self-registration ends after one try |
| `SameAuditEverywhere` | `MCStoreScenes`; `Store_scenes`, `Log1 <- AuditCommands` | a replay appends the rows again under new sequence numbers |
| `ReplayKeepsCeiling` | the same, `Log1 <- ImportCommands` | the second pass of an import does not find "never configured" any more |
| `JoinReplacesLocalData` | the same, `Log1 <- ImportCommands`, `Standalone = {n2}`, `Leftover <- OneToken` | rows of its former life stay beside the cluster's |
| `SnapshotIsPointInTime` | the same, `Log1 <- TokCommands` | `Persist` copies the file as it is by then |
| `Cached!TokenMapsFresh` | `MCStoreScenes`; `Store_scenes` | `Restore` notifies nobody; the first build may overwrite a newer one |
| `UnchangedRefreshOnlyStamps` | `MCConfigScenes`; `Config_distributed`, `Ops <- RefreshOps`, `MaxRefresh = 1` | a refresh writes back the row it read before the download |
| `PatchLeavesPause` | the same, `Ops <- ProfileOps` | the upsert carries the pause it read |
| `ArchiveKeepsCredentials` | the same, `Ops <- ArchiveOps` | an import of an archive keeps the credentials it read |
| `OfferedIsCommitted` | `LeaseReplication`; `Lease_scenes` with `Spec`, `MaxFail = 1` | a refused snapshot is not offered again: the next poll coalesces |
| `SkippedOnlyIfCommitted`, `PollsCommitInOrder` | the same, `MaxLoss = 2`, `MaxFail = 0` | `asked` survives a leadership lost and regained; so does a slow poll; and a restarted leader takes a source that became empty for nothing new |
| `OnePollAtATime` | the same, `MaxLoss = 1` | a poll in flight outlives leadership |
| `LastPollReported`, `AnomaliesLinger` | the same, `MaxLoss = 0` | a coalesced poll does not stamp the store; any apply rebuilds the list of anomalies before the goroutine's commit |
| `HeldIsInTable` | `DhcpServer`; `Dhcp_crash`, `MaxCrash = 0`, `MaxLoss = 1`, `Quiet = TRUE`, `Settled = FALSE`, `MaxTime = 3` | events commit out of order; two allocations for one client |
| `NoAddressHeldTwice` | the same with `Settled = TRUE`, `MaxLoss = 2`; or `MaxAdmin = 2` | the old table is kept under the loaded rows when leadership returns; `PutDhcpSettings` does not load |
| `PinOfferedToOne` | the same with `Settled = TRUE`, `MaxAdmin = 1`, `PinFree = FALSE` | an address in use may be pinned to another client |
| `OffersThePin` | the same with `Settled = TRUE`, `MaxAdmin = 1`, two addresses in `Addr` and `Pool`, `MaxTime = 2`, and `PinFree = FALSE` or `PinReleased = TRUE` | a pin of an address in use, across a failover or after a release, does not hold |
| `ExpiredIsReclaimed` | the same with `MaxTime = 5` | nothing reclaims a lease: the pool only shrinks |
| `HeldIsInTable` | `DhcpServer`; `Dhcp_crash`, `MaxCrash = 2`, `Quiet = TRUE`, `ReleaseAlone = FALSE` | a client that was offered the address requests it while its holder releases it; the upsert commits before the delete, and the next restart forgets the lease |
| `DeviceAlwaysKnown` | `MCFilterEngine`; `Filter_pause` | between the swap of the engine and `SetDeviceLookup` a client is judged by its address |
| `ExpiryHonoured` | the same | an allowance ends with the next applied command, whenever that is |
| `DeletedProfileFallsBack` | the same | devices keep the deleted name; and a list nobody uses any more applies to everyone |
| `AllowanceKept`, `GlobalPauseKept` | the same | toggling a blocklist imports the configuration, with plain allowances only and without the pause |
| `RowsBelongToScope`, `EditKeepsExpiry`, `RefetchedAfterMutation`, `CreateIsNew`, `TextareaIsOfProfile`, `ChipFollowsNode`, `CategoriesDialogIsOnesOwn`, `ProfilePauseDialogIsOnesOwn`, `LoginSurvivesLogout`, `AnsweredChangeIsStored`, `SessionsHaveAnAccount`, `OneRowEach`, `BindsNoPairTwice`, `ReleaseKeepsWindows`, `ReleaseWritesClock`, `ShowsTimeout`, `OtherEditsSurvive`, `SavesTakeNothingBack`, `FailedRestoreChangedNothing`, `FailedSaveRollsBack`, `TypingSurvivesSave`, `PauseStopsRefresh`, `RevocationShows`, `TestsOneAtATime` | the page modules; `Web_pages`, the name itself under its `page = …` premise | each module says above its statement what happens instead |
| `FreshNodeShowsSetup`, `PasswordChangeSignsOut` | `SessionPage`, in the same way | two scenarios of `specs/functional/web-ui.feature` (lines 18 and 95) that the views do not carry out |
| `OneConnection`, `RecentNewestFirst`, `StaysOpen` | `EventExtension`; `Ext_streams` (with `MaxEvents = 2`, `Keep = 2`, `Buffer = 2` for the second) | Firefox opens one connection for `onStartup` and one for `onInstalled`; two streams store in either order; in Chrome the failure of an aborted stream aborts the next |

`PinHolds` had a counterexample of its own, which its proof brought up: the invariant was not
inductive while `PinFree` asked only that no table and no packet had the address. Pin m1 to an
address, take the pin away, pin m2 to it, and let the leadership go and come back: if the
*replicated* row still says m1 (its delete or the new upsert was never committed), `LoadLeases`
puts that row over the table, and m2's pin is gone. It takes three changes; the run had two.
`PinFree` therefore asks for "no replicated row" as well (`Unused`), and the case is in the
hazard at `server.go:145`. With it the theorem holds for any number of changes and nodes.

## Fairness

Safety runs use `Init /\ [][Next]_vars`. Where something must eventually happen:

- `Enrollment!FairSpec`: weak fairness of the joining process, of every handler
  and of the apply loop of every server, all of which are goroutines that the Go
  scheduler runs and that block only on what the guards say; and of the seed's
  registration. Nothing obliges Raft to elect or the clock to move: a handler
  waiting on a lost leader is answered because Raft fails its future
  (`HandlerFails`).
- `LeaseReplication!Fairness`: weak fairness of the poll loop, apply and the anomaly
  goroutines; weak fairness of electing a leader when there is none (Raft with a
  majority up, which the model assumes); *strong* fairness of a fetch that succeeds:
  it is disabled again and again by failing ones, and the assumption is that the
  source does not fail for ever. `SourceServedEverywhere` is false without it, and
  should be.
- `EventExtension!Fairness`: weak fairness of the steps of a handler, of the browser's
  alarm and of timers; *strong* fairness of a connection that succeeds. A connection
  attempt is disabled again and again by failures, the back-off doubles up to 30 s but
  never ends, and the assumption is that the node does not refuse for ever. Nobody
  is obliged to change the settings, to end a stream or to stop a worker.
- `DhcpServer!Fairness`: time, elections, handlers and goroutines run. Clients owe
  nothing: they need not renew.
- The views have no fairness: what they promise is about what they show once calls are
  answered, and nothing makes a node answer.

## Proofs

Checked by TLAPS for every value of the constants, under the assumptions named in the
modules and no others.

`EnrollmentProofs!TypeCorrect` and `EnrollmentProofs!SingleUse`: `Spec => []TypeOK`
and `Spec => []TokenSingleUse`, under `EnrollAssumption`. Neither bound, nor the
number of nodes or tokens, nor `TTL` matters. Single use is not inductive: a server
that restarted holds rows of entries it has yet to apply again, so a row says
"consumed" before the entry that consumed it, and the stale pre-read of
`EnrollNode` proves nothing. The strengthening `EnrollInv` says what does hold:

1. `CreatedOnce`, `RowsAreIssued`, `CheckedIsIssued`, `ConsumeFollowsCreate`: a
   token is created by one entry, rows exist only of issued tokens, and a consume
   comes after its create, since the pre-read found a row;
2. `RowTracksLog`: on a server that has applied a token's creation *since it
   restarted*, the row is a function of the log up to `applied`: consumed exactly if
   that part holds a `Timely` consume (the re-application of the create resets the
   row, which is why the replay is sound);
3. `WaiterOwnsEntry`: a handler waits for an entry of its own;
4. `WinnerIsFirst`: a winner's entry is the first timely consume of its token in
   the log, which is a fact of the log alone and so the same for all servers.

Two winners of one token then own the same entry, which carries its request. The
proof has a lemma for each group of actions (`FrameStep`: those that leave log and rows
alone; `CommitStep`: appends to the log; `ApplyStep`) with one step per conjunct, and
`NextInv` brings every action under one of them.

`EnrollmentProofs!VotersPaid`: `Spec => []NoMoreVotersThanTokens`. `AdmissionInv` adds to
`EnrollInv` that a handler past the consume step has won its token
(`PastConsumeWon`) and that every voter but the seed has a handler that won
(`VotersHavePaid`): `AddVoter` runs only after the consume was applied, and a voter
stays paid for when it is removed and its token is not given back. Single use makes
the map from a voter to the token in its configuration file injective, issued tokens
are finitely many because the log that issued them is finite, and the cardinalities
follow.

`EnrollmentProofs!CaughtUpAgree`: `Spec => []CaughtUpServersAgree`. A restarted server
holds member rows from its earlier life, so "the row is what the log says" is not
invariant. `AgreementInv` says it only of nodes that the part applied *since the
restart* mentions (`MembersTrackLog`), that no row is of a node the log never
mentions (`MembersListed`), and that an absent token has no expiry. At the end of
the log, every node the log mentions has been mentioned.

`ReplicatedStoreProofs!KeyedConverge`: `Spec => []KeyedRowsConverge`, assuming
`Standalone = {}` (the statement is false of a node that brought rows of its own:
`JoinReplacesLocalData`, above). A file that is being replayed holds cells from the future, and so
does a snapshot copied after its index. `FilesExplained` says that each cell (`Key`,
`Cell`) that differs from the log's outcome at the index has a command still to be
applied that will write it: outright (`Overwrites`) if only one of the two has the
row, since a command that changes a row only where there is one (`Sets`) would leave
them apart. This must hold at the applied index *and at every index before it*, because a
restart may go back to any snapshot's. `CellStep` classifies each command as
overwriting a cell, setting it if present, or leaving it; `AdvanceFile` is the step
from one index to the next. With the whole log applied no command is left to explain
a difference by.

`FilterEngineProofs` proves every property that `Filter_verdicts` checks, under
`FilterAssumption` and `StartAssumption` (a node boots with a configuration), for any
clients, domains, lists, profiles, schedules and windows:

- `TypesHold` takes each request apart: what it gives to `Apply` is a configuration
  (`WithRow`, `SavedTyped`, …), and `Apply` of a configuration keeps the types
  (`ApplyTyped`).
- `EngineIsOfStore` rests on `EngineOfStore`: the engine in use is what `App.cfg` built, at a time
  that is past, and `App.cfg` is the store's unless an `onApply` is pending or something was
  missed (`OfStore`). This, not the property, is inductive: a command makes an apply pending
  (`RequestApplies`), the swap ends that, and a rebuild that fails, an installed snapshot and a
  boot that cannot read the store are missed. From it the property follows for a state: the engine
  differs from a fresh one in its allowances alone (`PartsOfBuilt`), the fresh ones are among
  them, and `VerdictUpToAllowances` says what that can do to a verdict.
- `PausesOnlyLift`, `PausesSpareOthers`, `RebuildIsHarmless`: whom the profiles match is
  told by who they name (`MatchedDependsOn`), and the rest of a verdict grows with the
  profiles that are awake.
- `TesterTellsTruth` needs `OfStore` as well: the tester reads the plain allowances of
  `App.cfg` and the rest of the engine, and a plain allowance is never dropped when an
  engine is built.
- `ProfileChangesStayInside` and `SchedulesAreStrict` are about steps. Only a request
  changes the configuration (`ConfigChanges`); of the requests, only two touch the
  schedules and only one adds a binding (`OtherRequests`); and a change that suspends no
  further list and makes no further allowance count opens nothing (`NothingOpens`).

The theorems of the components with two scenes are about the specification the run checks,
`ScenesSpec`. Their lemmas are about a step of either scene, of which the bounds on failures
and changes are no part (`Step`, `Types`), so they hold however often these happen.

`ReplicatedStoreProofs!ScenesTyped`, `ScenesConverge`: types and convergence in both scenes. The
store beside a cache is another instance, whose definitions are distinct to the provers:
`SameApply` and `SameActions` say that they are the same functions, and `CachedStep` that
whatever the cache does, the store does a step of `Step`. `ScenesConverge` assumes
`Standalone = {}`, as `KeyedConverge` does.

`ReplicatedStoreProofs!ServesFile`: `ScenesSpec => []ServesItsFile`. The property is about the
moments between applies; `CachesInv` says for every moment, of boot and of `onApply` too, that
each part in memory is the file's, or is still to be rebuilt (`todo`, or the half of the token
maps in hand), or is among the `missed` (`Sees`). The hard steps are those that change the file
behind the caches: an apply queues both parts (`ApplySees`), `Restore` and a restart count as
missed what differs (`ReplacedSees`), and a rebuild that fails leaves the part missed
(`RebuildSees`). No index is ahead of the log and no snapshot ahead of its node (`LogInv`,
`Behind`), which is why a restart or an installed snapshot cannot pass for an apply.

`ConfigWritesProofs`, under `ConfigAssumption` and `OpsAssumption`, for any requests, lists,
domains, URLs, numbers of requests in flight, refreshes and lost leaderships:

- `ScenesTypes`: types.
- `ScenesStays`: `ScenesSpec => []WritesAloneStay`. `LastingInv` follows what a request wrote
  alone through everything that could undo it later: an entry has one owner, which waits for it
  or gave up (`Waiting`); what such a request asked is in the file (`Delivered`, `Finished`);
  and no command in a handler's hand, no entry of the log and no downloaded row takes it away
  again (`Undisturbed`, by `Safe`). `ReadKeeps` says that what is read while it is in the file
  is safe to write back, `CommandDelivers` that an applied command delivers what was asked.
- `TurnsKeepPromise` and `AloneKeepsPromise`: the refinement of `ConfigPromise` by requests
  that take turns, for `TurnsSpec` and for the scene of the run. A request that was given up has
  its turn until its entry was applied or is gone: whoever reads before would write the old
  configuration back, which the other scene has and `DistributedWritesKept` shows. `TurnInv`
  says what the one entry or command there is will do to the file (`Promised`). Each step maps to
  the whole effect on the part an import carries, at once or late, to an answer, to a refusal,
  to a loss, or to a stutter (`Simulates`, `StageMoves`). `CarriedImport` says what part of an
  import arrives, `EditEffect` that an edit of a copy is the promised effect.

`LeaseReplicationProofs`, under `LeaseAssumption`:

- `ScenesTyped`: types, bounds of the counters, and no index past the log, in both scenes.
- `NeverEmpty`: `ScenesSpec => []NeverEmptyAgain`. The property is inductive with the types,
  once one fact of the data is used: the empty snapshot is a snapshot
  (`SnapshotIsThere`; `LeaseSnapshot` returns nil only when none was ever committed).
  It rests on the mirror being rebuilt whole after every apply (`onApply`) and at boot.
- `FollowedAreCommitted`: `ScenesSpec => []FollowServesCommitted`, in the scene where nothing is
  lost or refused; restarts and replays are unbounded. A manager offers to Raft what it
  remembers as asked, and a poll that finds nothing new shows that without a commit, so
  `CommittedInv` follows it: what is remembered is committed, or is what the poll in hand is
  replicating; only the leader has a poll in hand; and a poll past its commit got what is
  committed. With failures it is false for the reason that `OfferedIsCommitted` is: a refused
  snapshot stays remembered as asked, and the next poll that sees the same one shows it.

`DhcpServerProofs!HandoverKeeps` and `HandoverGives`: `ScenesSpec => []HandoverKeepsLeases` and
`ScenesSpec => []HandoverGivesOnce`, that is `HeldIsInTable` and `NoAddressHeldTwice` in the scene
of the handover, under `Handover`: `Quiet`, `Settled`, `ReleaseAlone`, `Commits`, no leadership
lost without a restart, no change of settings. Restarts, lost packets, time, clients, nodes and
addresses are unbounded. Each assumption is needed; the table of refuted statements has a
counterexample for each (for `Quiet`, `Dhcp_crash` is). `HandoverInv` ties three copies of a lease
together:

1. the client's and the leader's: what is held and has not run out is a row of the
   leader's table, or the reply that will make it one is in hand (`HeldIsHad`, `RowsAreHad`,
   `OneInHand`), and the table has one row per address (`TableIsUnique`);
2. the leader's and the replicated rows': a held lease is in the bucket, or its upsert is
   among the goroutines still to commit (`HeldIsWritten`), such an upsert is of the row the
   table has (`PutsAreCurrent`), and a delete is not under way beside one for its address
   (`DelIsAlone`);
3. across a restart: nobody but the leader has a table (`LeaderServes`, `OthersAreEmpty`: why
   a leadership that moves *without* a restart is excluded), and leadership moves when
   nothing is to be committed, so the new leader's `LoadLeases` finds every held lease
   (`BucketInv`).

That no address is held twice is the consequence: two holders would be two rows of one
table with one address.

`DhcpServerProofs!ScenesTyped` asks nothing of the switches. Of several rows that name one
client, `LoadLeases` keeps the one it reads last, in an order the model leaves open; that there
is a last one is proved of every nonempty set of addresses from its being finite
(`LastIsThere`).

`DhcpServerProofs!PinsHold` and `PinsAreOffered`: a pinned address is its client's alone, and what
a pinned client is offered is its pin, in the scene of the pins, under `Pinning`: `Quiet`,
`Settled`, `PinFree`, no release by a pinned client. Changes of settings, leadership lost and
regained, restarts, upserts that fail, renewals and time are unbounded. `PinInv` says, for every
pin there is: no table, packet in hand, event under way or replicated row gives its address to
another or its client another (`TablesKeepOff`, `RowsKeepOff`; `Keeps` is the pairing), and the
table of the leader has it (`LeaderHasPins`); no two pins are the same (`PinsDiffer`); a client
has one packet in hand (`OneAtATime`), and only the leader handles and replicates
(`OthersAreIdle`). `RowsKeepOff` is what a handover needs, since `LoadLeases` puts rows over pins,
and what made `Unused` ask for the replicated rows too.

`EventExtensionProofs`, under `ExtensionAssumption`, for any number of events, streams, settings
and stops of the worker:

- `TypesHold`; the list is never longer than `Keep`.
- `KeepsTrying`: `Spec => []NeverGivesUp`, inductive with the types: each step that takes a
  connection, a timer or a call of `openConnection` away leaves another, or a stopped worker.
- `StoresOnce`: `Spec => []ChromeStoresOnce`. That no event is twice in the list needs to follow
  it everywhere: a stream's buffer has each event once (`QueuesInOrder`), what is being stored
  has left the buffer and is stored by one call (`StoringApart`), and whatever is in the list,
  or in the copy of it that a half-done `storeRecentEvent` will write back, is past
  (`ListsPast`): it is in no buffer and in no such call. It rests on there being one live
  stream, the current one (`OneLive`). TLC agreed for three events, a list and buffers of two
  (357,346 states) before it was proved.
- `KeepsStream`: `Spec => FirefoxKeepsStream`, an action property.

`PagesProofs`, under `PageAssumption` and the assumptions of the page modules
(`ProfilesAssumption`, `SessionAssumption` and the like: values that stand for nothing are not
values), for any number of names, rows, calls, writing calls and other administrators:

- `MixNothingUp`: `Spec => []ViewsMixNothingUp`, that is for local DNS, profiles, the query log,
  sign-in, the domain test and tokens.
- `DoOneThing`: `Spec => []ViewsDoOneThing`, for allowlist, blocklists, categories, devices, the
  pauses of profiles, schedules, sign-in, settings and shared lists.
- `ShowTheNode`: `ViewsShowNode` for tokens, local DNS, the query log, blocklists and sign-in.

What they rest on is said once for all views. `CallsInv`: calls are told apart, and no answer is
of a call to come. `Apart`: while nothing has crossed, what changes the node is under way alone,
so the answer to a read is still what the node holds when it is taken. For each page there is an
invariant of its own (`TokensInv`, …), which says what each kind of call under way knows, what
the dialogs hold, and which mark belongs to which call; one lemma shows that it holds when the
view is opened (`…Start`), one that the steps of the view, of the node and of the network keep
it (`…Keep`), one that the property follows (`…Show`). `PagesInv` has the one of the view that is
mounted.

Only model-checked: liveness (`JoinRequestAnswered`, `SourceFollowed`, `AnomaliesFollowed`,
`ConnectsAgain`), because TLAPS has no rule for fairness here; `ViewsShowNode` of the views not
named above, `ViewsTypeOK` and `EditsStayInside`.

## Not modelled, and why

Raft, bbolt, TLS and the wire formats of DNS and DHCP are libraries or encodings and are taken
as they are documented; one difference a reader should know of is that election, log and
configuration are one shared state, so a *partitioned* old leader that still answers is not in
the models. Disk corruption, clock skew between nodes, rendering (block page, CLI, metrics,
firewall rules) and the Kubernetes operator are left out. Of the web UI, `Cluster` and `Dhcp`
are lists with dialogs of the kinds modelled, `Dashboard`, `Stats`, `About`, `Landing` and the
frame of `Shell` only show, on timers of their own. Of the session, credentials changed on
another node are left out (the apply that brings the stored ones is there), as are calls that
reach the node after a reload. Of the filter, the policy of a block, the parsing of lists and
rules, DNSSEC modes, the DNS cache, the Firefox canary and imports of many allowances at once
are left out. Validation of request values is left out where it only refuses. Of the store's
fifty commands those are modelled that differ in shape; the rest put or delete one row by its
key. Forced re-enrolment is left out.

## Plan

In this order:

1. `SessionPage` composed with a view: a 401 in the middle of it, which `client.ts`
   leaves to the view; the pollers of `Shell` and `Dashboard`.
2. `ShadowWriter` with an abstract mirror: content, pending signal, debounce, the
   temporary and the final file, stop. A stale file means a notification or a write
   is pending, or the last write failed; stop flushes.
3. `BlocklistRefresh`: due lists, download slots, oldest first; no list starves.
4. The DNS cache around a change of policy, composed with `FilterEngine`.
5. `HourlyAggregates`: flush, hour change, retry and stop; conservation of counts.
6. The pause-expiry watcher with the webhook queue; DNSCrypt and CA rotation; DoH
   refresh; write forwarding with the audit middleware; the rolling upgrade; the
   DHCPv6 server as an instance of `DhcpServer`.
7. Proofs: `ViewsShowNode` for the other views, over the lemmas of `PagesProofs`; `EditsStayInside`.
