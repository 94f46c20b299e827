---------------------------- MODULE FilterEngine ----------------------------
(***************************************************************************)
(* What one node answers a DNS client, and how the answer follows the      *)
(* configuration.  A command is written to the store first; then           *)
(* App.onApply reads the store, builds a new filter.Engine from the whole  *)
(* configuration, puts both in the place of the old ones, and only then    *)
(* gives the engine its two lookups, first the origin of leases and then   *)
(* the device registry.  Where it cannot read the store it leaves          *)
(* everything as it was, and a snapshot that Raft restores tells nobody.   *)
(* Between two applies the engine stays as it was built while the clock    *)
(* runs: deadlines of pauses and windows of schedules are judged at each   *)
(* query, but an allowance that has run out is dropped when an engine is   *)
(* built.                                                                  *)
(*                                                                         *)
(* A query only reads, so what a client is told is an operator on the      *)
(* state.  The answer to a domain on the local list, the Firefox canary,   *)
(* the policy of a block (NXDOMAIN, null address, redirect) and the cache  *)
(* behind the verdict are left out: none of them changes who is blocked.   *)
(* The three identities a lease yields (Client-ID, MAC, hostname) are one. *)
(* A handler's reading and the command it sends are one step here: what    *)
(* comes between them is the subject of ConfigWrites.                      *)
(***************************************************************************)
EXTENDS Integers, FiniteSets

CONSTANTS Client, Domain, List, Sched,
          Profile,      \* numbers, in the order of the profiles' keys
          Default,      \* the reserved profile
          None,
          Above,        \* Above[d]: d and the domains it is a subdomain of
          Holds,        \* Holds[l]: the domains on a blocklist
          Managed,      \* the blocklists of the built-in categories
          Rewritable,   \* domains SafeSearch knows
          Window,       \* Window[s]: the times inside a schedule's windows
          AllowInside,  \* the schedules of mode allow_only_inside
          Start,        \* configurations the node may boot with
          MaxTime,      \* bound on the clock
          MaxChange     \* bound on applied commands and lease changes

Never == MaxTime + 1

ASSUME FilterAssumption ==
    /\ Profile \subseteq Nat /\ Default \in Profile
    /\ None \notin Profile /\ None \notin Sched
    /\ MaxTime \in Nat /\ MaxChange \in Nat
    /\ Above \in [Domain -> SUBSET Domain] /\ Holds \in [List -> SUBSET Domain]
    /\ Managed \subseteq List /\ AllowInside \subseteq Sched
    /\ Window \in [Sched -> SUBSET Nat]

VARIABLES
    store,    \* the configuration in the store
    pending,  \* a command is in the store that onApply has not come to yet
    missed,   \* history: the store has changed and onApply did not follow
    cfg,      \* App.cfg
    eng,      \* App.filterEng, as the configuration it was built from
    builtAt,  \* when it was built
    wired,    \* the lookups it has been given
    now,      \* the clock
    lease,    \* lease[c]: the client's DHCP lease, known to dhcp.Manager
    changes

vars == <<store, pending, missed, cfg, eng, builtAt, wired, now, lease, changes>>

\* An allowance: until when, and in the windows of which schedule.
Entry == [domain : Domain, until : 0..Never, sched : Sched \cup {None}]
Pause == [until : 0..Never, clients : SUBSET Client]
Binding == [sched : Sched, prof : Profile, list : List]
ProfileRow == [lists : SUBSET List, allow : SUBSET Entry, ips : SUBSET Client,
               ids : SUBSET Client, dyn : BOOLEAN, safe : BOOLEAN, pause : Pause]
Device == [prof : Profile, by : {"ip", "id"}]
Config == [lists : SUBSET List, allow : SUBSET Entry,
           rules : [allow : SUBSET Domain, block : SUBSET Domain],
           profiles : SUBSET Profile, prof : [Profile -> ProfileRow],
           shared : [entries : SUBSET Entry, profs : SUBSET Profile],
           scheds : SUBSET Sched, binds : SUBSET Binding,
           gpause : [until : 0..Never, profs : SUBSET Profile],
           dev : [Client -> Device \cup {None}]]

ASSUME StartAssumption == Start \subseteq Config

Lookups == {"lease", "device"}
NoPause == [until |-> 0, clients |-> {}]
NoGlobalPause == [until |-> 0, profs |-> {}]
Blank == [lists |-> {}, allow |-> {}, ips |-> {}, ids |-> {}, dyn |-> FALSE,
          safe |-> FALSE, pause |-> NoPause]
Nothing == [lists |-> {}, allow |-> {}, rules |-> [allow |-> {}, block |-> {}],
            profiles |-> {}, prof |-> [p \in Profile |-> Blank],
            shared |-> [entries |-> {}, profs |-> {}],
            scheds |-> {}, binds |-> {}, gpause |-> NoGlobalPause,
            dev |-> [c \in Client |-> None]]

TypeOK ==
    /\ store \in Config /\ cfg \in Config /\ eng \in Config
    /\ pending \in BOOLEAN /\ missed \in BOOLEAN
    /\ builtAt \in 0..MaxTime /\ now \in 0..MaxTime
    /\ wired \subseteq Lookups
    /\ lease \in [Client -> {"none", "dynamic", "fixed"}]
    /\ changes \in 0..MaxChange

-----------------------------------------------------------------------------
(* The engine.                                                             *)

\* splitAllowlistEntries: what has run out is dropped.
Live(entries, t) == {e \in entries : t < e.until}

\* New and NewProfiled.
Built(c, t) ==
    [c EXCEPT !.allow = Live(@, t),
              !.prof = [p \in Profile |-> [c.prof[p] EXCEPT !.allow = Live(@, t)]],
              !.shared.entries = Live(@, t)]

\* domainSet.matches.
Covers(apices, d) == apices \cap Above[d] # {}

AllowsUngated(e, entries, d, t) ==    \* mutant: without its schedule it counts at any time
    \E x \in entries : /\ x.domain \in Above[d]
                       /\ x.sched \in e.scheds => t \in Window[x.sched]

\* matches and checkScheduledAllowlist: an allowance whose schedule is gone or
\* outside its windows does not count.
Allows(e, entries, d, t) ==
    \E x \in entries : /\ x.domain \in Above[d]
                       /\ x.sched = None \/ (x.sched \in e.scheds /\ t \in Window[x.sched])

SuppressedByAny(e, p, l, t) ==        \* mutant: one binding is enough to suppress
    \E b \in e.binds : /\ b.prof = p /\ b.list = l /\ b.sched \in e.scheds
                       /\ (b.sched \in AllowInside) = (t \in Window[b.sched])

\* EvaluateSchedules: of several bindings the strictest one counts.
Suppressed(e, p, l, t) ==
    LET bound == {b \in e.binds : b.prof = p /\ b.list = l /\ b.sched \in e.scheds}
    IN  /\ bound # {}
        /\ \A b \in bound : (b.sched \in AllowInside) = (t \in Window[b.sched])

\* The device registry: a match by address needs no lease.
OfDevice(e, w, c, known) ==
    /\ "device" \in w /\ e.dev[c] # None
    /\ e.dev[c].by = "ip" \/ known

FirstOf(S) == CHOOSE p \in S : \A q \in S : p <= q

ByAddress(e, c) ==
    {p \in e.profiles : \/ c \in e.prof[p].ips
                        \/ p = Default /\ e.prof[p].ips = {} /\ e.prof[p].ids = {}}

DynamicUnlessKnown(e, w, c) ==        \* mutant: without the lookup every client counts
    IF "lease" \in w /\ lease[c] # "dynamic" THEN {} ELSE {p \in e.profiles : e.prof[p].dyn}

\* Clients with a dynamic lease, as soon as the engine can ask for leases.
Dynamic(e, w, c) ==
    IF "lease" \in w /\ lease[c] = "dynamic" THEN {p \in e.profiles : e.prof[p].dyn} ELSE {}

\* profilesMatchingLockedWithIdentity: a device, else an identity, else the
\* union of the address matches.  "known": the caller has an identity.
Matched(e, w, c, known) ==
    LET ids == {p \in e.profiles : known /\ c \in e.prof[p].ids}
        union == ByAddress(e, c) \cup Dynamic(e, w, c)
    IN  IF OfDevice(e, w, c, known) THEN {e.dev[c].prof}
        ELSE IF ids # {} THEN {FirstOf(ids)}
        ELSE IF union # {} THEN union
        ELSE {Default}

AllPaused(e, t) == t < e.gpause.until /\ e.gpause.profs = {}

PausedWhole(e, p, c, t) ==            \* mutant: the clients of a pause are not looked at
    \/ p \in e.profiles /\ t < e.prof[p].pause.until
    \/ t < e.gpause.until /\ p \in e.gpause.profs

\* A pause of some clients pauses those only.
Paused(e, p, c, t) ==
    \/ /\ p \in e.profiles /\ t < e.prof[p].pause.until
       /\ e.prof[p].pause.clients = {} \/ c \in e.prof[p].pause.clients
    \/ t < e.gpause.until /\ p \in e.gpause.profs

Hit(e, l, d) == l \in e.lists /\ Covers(Holds[l], d)

\* Without a row for it the default profile means every blocklist.
BlockedBy(e, p, d, t) ==
    IF p \in e.profiles
    THEN \E l \in e.prof[p].lists : Hit(e, l, d) /\ ~Suppressed(e, p, l, t)
    ELSE p = Default /\ \E l \in e.lists : Hit(e, l, d)

\* Blocklists no profile uses apply to everyone, those of categories do not.
Orphans(e) == {l \in e.lists \ Managed : \A p \in e.profiles : l \notin e.prof[p].lists}

AllowedForAny(e, matched, d, t) ==    \* mutant: the allowances of all profiles count
    \/ Allows(e, e.allow, d, t)
    \/ \E p \in e.profiles : Allows(e, e.prof[p].allow, d, t)
    \/ Allows(e, e.shared.entries, d, t)

AllowedFor(e, matched, d, t) ==
    \/ Allows(e, e.allow, d, t)
    \/ \E p \in matched \cap e.profiles : Allows(e, e.prof[p].allow, d, t)
    \/ matched \cap e.shared.profs # {} /\ Allows(e, e.shared.entries, d, t)

\* Mutant: paused profiles do not match, and without a match the default one does.
BlocksUnmatched(e, matched, c, d, t) ==
    LET awake == {p \in matched : ~Paused(e, p, c, t)}
        walked == IF awake = {} THEN {Default} ELSE awake
    IN  /\ ~AllPaused(e, t)
        /\ ~Covers(e.rules.allow, d)
        /\ \/ Covers(e.rules.block, d)
           \/ /\ ~AllowedFor(e, matched, d, t)
              /\ \/ \E p \in walked : BlockedBy(e, p, d, t)
                 \/ \E l \in Orphans(e) : Hit(e, l, d)

\* EvaluateForClientID, for a client the given profiles match.
Blocks(e, matched, c, d, t) ==
    /\ ~AllPaused(e, t)
    /\ ~Covers(e.rules.allow, d)
    /\ \/ Covers(e.rules.block, d)
       \/ /\ ~AllowedFor(e, matched, d, t)
          /\ \/ \E p \in matched : ~Paused(e, p, c, t) /\ BlockedBy(e, p, d, t)
             \/ \E l \in Orphans(e) : Hit(e, l, d)

Rewrites(e, matched, d) ==
    d \in Rewritable /\ \E p \in matched \cap e.profiles : e.prof[p].safe

\* ServeDNS for a client the engine e is asked about at time t.
Verdict(e, w, c, d, t) ==
    LET matched == Matched(e, w, c, lease[c] # "none")
    IN  IF Rewrites(e, matched, d) THEN "rewritten"
        ELSE IF Blocks(e, matched, c, d, t) THEN "blocked" ELSE "forwarded"

Answer(c, d) == Verdict(eng, wired, c, d, now)

Plain(entries) == {e \in entries : e.until = Never /\ e.sched = None}

TestedAny(c, d) ==                    \* mutant: allowances under a schedule count as plain ones
    LET matched == Matched(eng, wired, c, FALSE)
    IN  IF \E e \in cfg.allow : e.domain \in Above[d] THEN "forwarded"
        ELSE IF Blocks(eng, matched, c, d, now) THEN "blocked"
        ELSE IF Rewrites(eng, matched, d) THEN "rewritten" ELSE "forwarded"

\* evaluateTestDomain, which knows no identity and asks for SafeSearch last.
Tested(c, d) ==
    LET matched == Matched(eng, wired, c, FALSE)
    IN  IF \E e \in Plain(cfg.allow) : e.domain \in Above[d] THEN "forwarded"
        ELSE IF Blocks(eng, matched, c, d, now) THEN "blocked"
        ELSE IF Rewrites(eng, matched, d) THEN "rewritten" ELSE "forwarded"

-----------------------------------------------------------------------------
(* Applies.                                                                *)

AsBuilt == <<cfg, eng, builtAt, wired>>

Init ==
    /\ store \in Start /\ pending = FALSE /\ missed = FALSE
    /\ cfg = store
    /\ eng = Built(cfg, 0) /\ builtAt = 0
    /\ wired = Lookups
    /\ now = 0
    /\ lease = [c \in Client |-> "none"]
    /\ changes = 0

\* onApply is a part of the apply: the next one waits for its last step.
Idle == ~pending /\ wired = Lookups

\* A command leaves the configuration c in the store.
Apply(c) ==
    /\ Idle /\ changes < MaxChange
    /\ store' = c
    /\ pending' = TRUE
    /\ changes' = changes + 1
    /\ UNCHANGED <<missed, AsBuilt, now, lease>>

SwapIfListsChanged ==                 \* mutant: the engine only when the blocklists are others
    /\ pending /\ pending' = FALSE
    /\ cfg' = store /\ missed' = FALSE
    /\ eng' = IF store.lists = cfg.lists THEN eng ELSE Built(store, now)
    /\ builtAt' = now
    /\ wired' = {}
    /\ UNCHANGED <<store, now, lease, changes>>

\* onApply, to the end of its write lock.
Swap ==
    /\ pending /\ pending' = FALSE
    /\ cfg' = store /\ missed' = FALSE
    /\ eng' = Built(store, now) /\ builtAt' = now
    /\ wired' = {}
    /\ UNCHANGED <<store, now, lease, changes>>

\* onApply, where the store cannot be read.
SwapFails ==
    /\ pending /\ pending' = FALSE
    /\ changes < MaxChange /\ changes' = changes + 1
    /\ missed' = TRUE
    /\ UNCHANGED <<store, AsBuilt, now, lease>>

\* fsm.Restore: a snapshot of the leader's takes the place of the store.  It may
\* hold any configuration; the ones a node may boot with stand for them.
Restored(c) ==
    /\ Idle /\ changes < MaxChange
    /\ store' = c
    /\ missed' = TRUE
    /\ changes' = changes + 1
    /\ UNCHANGED <<pending, AsBuilt, now, lease>>

WireLease ==
    /\ "lease" \notin wired
    /\ wired' = wired \cup {"lease"}
    /\ UNCHANGED <<store, pending, missed, cfg, eng, builtAt, now, lease, changes>>

WireDevice ==
    /\ wired = {"lease"}
    /\ wired' = Lookups
    /\ UNCHANGED <<store, pending, missed, cfg, eng, builtAt, now, lease, changes>>

Boot(c) ==
    /\ changes < MaxChange
    /\ pending' = FALSE
    /\ cfg' = c
    /\ eng' = Built(c, now) /\ builtAt' = now
    /\ changes' = changes + 1
    /\ UNCHANGED <<store, now, lease>>

\* NewApp gives the new engine the devices; SetDhcpManager follows.
Restart == Boot(store) /\ missed' = FALSE /\ wired' = {"device"}

\* NewApp, where the store cannot be read, goes on without a configuration.
BootsWithout == Boot(Nothing) /\ missed' = TRUE /\ wired' = {"device"}

Tick ==
    /\ now < MaxTime
    /\ now' = now + 1
    /\ UNCHANGED <<store, pending, missed, AsBuilt, lease, changes>>

LeaseChanges(c, kind) ==
    /\ changes < MaxChange /\ lease[c] # kind
    /\ lease' = [lease EXCEPT ![c] = kind]
    /\ changes' = changes + 1
    /\ UNCHANGED <<store, pending, missed, AsBuilt, now>>

-----------------------------------------------------------------------------
(* The handlers.  What they look at is App.cfg, which may be older than    *)
(* the store; a save of the whole configuration reads the store itself.    *)

\* importM1Config, by which a handler saves the whole configuration: neither
\* the allowances with an expiry or a schedule nor the global pause survive.
Saved(c) == [c EXCEPT !.allow = Plain(@), !.gpause = NoGlobalPause]

ToggleList(l) ==
    Apply(Saved([store EXCEPT !.lists = IF l \in @ THEN @ \ {l} ELSE @ \cup {l}]))

\* AddAllowlistEntry: only a plain entry is in the way, any other is replaced.
AddAllowance(e) ==
    /\ \A x \in Plain(cfg.allow) : x.domain # e.domain
    /\ Apply([store EXCEPT !.allow = {x \in @ : x.domain # e.domain} \cup {e}])

RemoveAllowance(d) ==
    /\ \E x \in Plain(store.allow) : x.domain = d
    /\ Apply(Saved([store EXCEPT !.allow = {x \in @ : x.domain # d}]))

SetRules(r) == Apply([store EXCEPT !.rules = r])

\* EnsureDefaultProfile.
EnsureDefault ==
    /\ Default \notin store.profiles
    /\ Apply([store EXCEPT !.profiles = @ \cup {Default}, !.prof[Default] = Blank])

\* CreateProfile writes a whole row, over one that is there.
CreateProfile(p, row) ==
    /\ p = Default => ~row.dyn
    /\ Apply([store EXCEPT !.profiles = @ \cup {p}, !.prof[p] = row])

\* The rows that a profile's row becomes are made of App.cfg's.
Upsert(p, row) ==
    /\ p \in cfg.profiles
    /\ Apply([store EXCEPT !.profiles = @ \cup {p}, !.prof[p] = row])

\* UpdateProfile, one field at a time.
UpdateProfile(p, row) == (p = Default => ~row.dyn) /\ Upsert(p, row)

UpdateSome(p) ==
    \/ \E ls \in SUBSET List : UpdateProfile(p, [cfg.prof[p] EXCEPT !.lists = ls])
    \/ \E cs \in SUBSET Client : UpdateProfile(p, [cfg.prof[p] EXCEPT !.ips = cs])
    \/ UpdateProfile(p, [cfg.prof[p] EXCEPT !.dyn = ~@])
    \/ UpdateProfile(p, [cfg.prof[p] EXCEPT !.safe = ~@])

AddProfileAllowance(p, e) ==
    /\ \A x \in cfg.prof[p].allow : x.domain # e.domain
    /\ Upsert(p, [cfg.prof[p] EXCEPT !.allow = @ \cup {e}])

RemoveProfileAllowance(p, e) ==
    /\ e \in cfg.prof[p].allow
    /\ Upsert(p, [cfg.prof[p] EXCEPT !.allow = @ \ {e}])

\* Only the row goes: bindings, devices and shared lists keep the name.
DeleteProfile(p) ==
    /\ p # Default
    /\ Apply([store EXCEPT !.profiles = @ \ {p}, !.prof[p] = Blank])

\* The store refuses the pause of a profile it does not have.
PauseProfile(p, until, clients) ==
    /\ p \in cfg.profiles \cap store.profiles /\ now < until
    /\ Apply([store EXCEPT !.prof[p].pause = [until |-> until, clients |-> clients]])

ResumeProfileBlank(p) ==              \* mutant: the whole state of the pause goes
    /\ p \in cfg.profiles \cap store.profiles /\ now < store.prof[p].pause.until
    /\ Apply([store EXCEPT !.prof[p].pause = None])

ResumeProfile(p) ==
    /\ p \in cfg.profiles \cap store.profiles /\ now < store.prof[p].pause.until
    /\ Apply([store EXCEPT !.prof[p].pause = NoPause])

PauseAll(until, profs) ==
    /\ profs \subseteq cfg.profiles \cup {Default} /\ now < until
    /\ Apply([store EXCEPT !.gpause = [until |-> until, profs |-> profs]])

ResumeAll ==
    /\ now < store.gpause.until
    /\ Apply([store EXCEPT !.gpause = NoGlobalPause])

PutSchedule(s) == Apply([store EXCEPT !.scheds = @ \cup {s}])

\* With the bindings of the schedule.
DeleteSchedule(s) ==
    Apply([store EXCEPT !.scheds = @ \ {s}, !.binds = {b \in @ : b.sched # s}])

\* Nothing asks whether the schedule, the profile or the list exists.
Bind(b) == Apply([store EXCEPT !.binds = @ \cup {b}])
Unbind(b) == Apply([store EXCEPT !.binds = @ \ {b}])

PutShared(s) == Apply([store EXCEPT !.shared = s])

PutDevice(c, d) ==
    /\ d.prof \in cfg.profiles
    /\ Apply([store EXCEPT !.dev[c] = d])

DeleteDevice(c) ==
    /\ cfg.dev[c] # None
    /\ Apply([store EXCEPT !.dev[c] = None])

\* The requests enumerated: deadlines of one step or past the bound, allowances with
\* an expiry or a schedule, not both, new profiles for one client with all blocklists or
\* none, at most one domain in the rules, a shared list of one entry for one profile,
\* bindings not there yet.
Until == {now + 1, Never}
SomeEntry == {e \in [domain : Domain, until : Until, sched : Sched \cup {None}] :
                 e.until = Never \/ e.sched = None}
SomeRules == [allow : {{}} \cup {{d} : d \in Domain}, block : {{}} \cup {{d} : d \in Domain}]

ProfileRequest(p) ==
    \/ \E ls \in {{}, List}, c \in Client :
          \/ CreateProfile(p, [Blank EXCEPT !.lists = ls, !.ips = {c}])
          \/ CreateProfile(p, [Blank EXCEPT !.lists = ls, !.ids = {c}])
    \/ UpdateSome(p) \/ DeleteProfile(p) \/ ResumeProfile(p)
    \/ \E e \in SomeEntry : AddProfileAllowance(p, e)
    \/ \E e \in cfg.prof[p].allow : RemoveProfileAllowance(p, e)
    \/ \E u \in Until, cs \in SUBSET Client : PauseProfile(p, u, cs)

Request ==
    \/ \E p \in Profile : ProfileRequest(p)
    \/ \E l \in List : ToggleList(l)
    \/ \E e \in SomeEntry : AddAllowance(e)
    \/ \E d \in Domain : RemoveAllowance(d)
    \/ \E r \in SomeRules : SetRules(r)
    \/ EnsureDefault \/ ResumeAll
    \/ \E u \in Until, ps \in SUBSET Profile : PauseAll(u, ps)
    \/ \E s \in Sched : PutSchedule(s) \/ DeleteSchedule(s)
    \/ \E b \in Binding \ store.binds : Bind(b)
    \/ \E b \in store.binds : Unbind(b)
    \/ \E e \in SomeEntry, p \in Profile : PutShared([entries |-> {e}, profs |-> {p}])
    \/ \E c \in Client : DeleteDevice(c) \/ \E d \in Device : PutDevice(c, d)

Next ==
    \/ Request \/ Swap \/ SwapFails \/ WireLease \/ WireDevice
    \/ Restart \/ BootsWithout \/ Tick
    \/ \E c \in Start : Restored(c)
    \/ \E c \in Client, k \in {"none", "dynamic", "fixed"} : LeaseChanges(c, k)

Spec == Init /\ [][Next]_vars

-----------------------------------------------------------------------------
(* Properties.                                                             *)

WithoutPauseOf(e, p) == [e EXCEPT !.prof[p].pause = NoPause]
WithoutPauses(e) ==
    [e EXCEPT !.gpause = NoGlobalPause,
              !.prof = [p \in Profile |-> [e.prof[p] EXCEPT !.pause = NoPause]]]

\* What a node would tell c if its engine were e and knew both lookups.
Says(e, c, d) == Verdict(e, Lookups, c, d, now)

\* A pause lifts blocks and never causes one: what a client is refused it would
\* be refused without the pauses too, whichever list it then falls back on
\* (EvaluateForClientID, engine.go).
PauseOnlyLifts ==
    \A c \in Client, d \in Domain :
        Answer(c, d) = "blocked" => Verdict(WithoutPauses(eng), wired, c, d, now) = "blocked"

\* The pause of a profile for some clients changes nothing for another client
\* that the profile matches as well, and no pause changes anything for anyone
\* once its deadline has come, with no command to end it (engine.go, M35).
PauseSparesOthers ==
    \A p \in eng.profiles, c \in Client, d \in Domain :
        LET pause == eng.prof[p].pause
        IN  pause.until <= now \/ (pause.clients # {} /\ c \notin pause.clients)
            => Answer(c, d) = Verdict(WithoutPauseOf(eng, p), wired, c, d, now)

\* An engine that has its lookups judges by the configuration in the store as it
\* is now, from the end of onApply to the next command, unless a snapshot was
\* restored or the store could not be read since; and then it may err in one
\* direction only, by an allowance that ran out after it was built.  The next
\* command whose onApply gets through, and a restart, make good what was missed
\* (App.onApply, NewApp, splitAllowlistEntries).
EngineFollowsConfig ==
    LET Lasting(entries) == {e \in entries : now < e.until}
        fresh == [store EXCEPT
                     !.allow = Lasting(@),
                     !.prof = [p \in Profile |-> [store.prof[p] EXCEPT !.allow = Lasting(@)]],
                     !.shared = [store.shared EXCEPT !.entries = Lasting(@)]]
        RanOut == {e \in store.allow \cup store.shared.entries
                            \cup UNION {store.prof[p].allow : p \in Profile} :
                      builtAt < e.until /\ e.until <= now}
    IN  Idle /\ ~missed =>
            \A c \in Client, d \in Domain :
                \/ Answer(c, d) = Says(fresh, c, d)
                \/ /\ Answer(c, d) = "forwarded" /\ Says(fresh, c, d) = "blocked"
                   /\ \E e \in RanOut : e.domain \in Above[d]

\* While a new engine still lacks its lookups, only clients with a device or a
\* dynamic lease can be answered otherwise than by the complete engine
\* (wireLeaseOriginLookup and wireDeviceLookup, app.go).
RebuildWindowHarmless ==
    \A c \in Client, d \in Domain :
        lease[c] # "dynamic" /\ eng.dev[c] = None => Answer(c, d) = Says(eng, c, d)

\* The tester of an administrator says what a client would be answered, except
\* for a client known by its identity, for a domain that SafeSearch rewrites,
\* and where a custom rule overrides an allowance (test_domain.go).
TesterAgrees ==
    \A c \in Client, d \in Domain :
        LET byIdentity == /\ lease[c] # "none"
                          /\ \/ \E p \in eng.profiles : c \in eng.prof[p].ids
                             \/ eng.dev[c] # None /\ eng.dev[c].by = "id"
            overridden == Covers(cfg.rules.block, d) /\ Covers({e.domain : e \in cfg.allow}, d)
        IN  ~byIdentity /\ ~overridden /\ d \notin Rewritable => Tested(c, d) = Answer(c, d)

\* What a client is told before and after a command, the wiring aside.
Before(c, d) == Says(Built(store, now), c, d)
After(c, d) == (Says(Built(store, now), c, d))'

SameSelectors(p) ==
    /\ store'.prof[p].ips = store.prof[p].ips
    /\ store'.prof[p].ids = store.prof[p].ids
    /\ store'.prof[p].dyn = store.prof[p].dyn

\* To edit, pause or give allowances to one profile changes nothing for a client
\* it does not match, unless a blocklist comes to be used by no profile, or is
\* no longer so (UpdateProfile; walkOrphanBlocklists).
ProfileChangeStaysInside ==
    [][\A p \in store.profiles :
          /\ store' # store /\ store' = [store EXCEPT !.prof[p] = store'.prof[p]]
          /\ SameSelectors(p)
          => \A c \in Client, d \in Domain :
                \/ p \in Matched(store, Lookups, c, lease[c] # "none")
                \/ Before(c, d) = After(c, d)
                \/ \E l \in List : /\ l \in Orphans(store) <=> l \notin Orphans(store')
                                  /\ d \in Domain /\ Covers(Holds[l], d)]_vars

\* What lets nothing through that was blocked before.
OpensNothing ==
    \A c \in Client, d \in Domain : Before(c, d) = "blocked" => After(c, d) = "blocked"

\* To delete a schedule opens nothing, even where an allowance or another profile
\* still names it, unless a binding to another schedule suspends a list; and to
\* bind a further schedule to a list that is bound already opens nothing: the
\* strictest binding counts (DeleteSchedule, checkScheduledAllowlist,
\* EvaluateSchedules).
SchedulesFailClosed ==
    [][/\ \A s \in store.scheds :
             /\ pending' /\ store'.scheds = store.scheds \ {s}
             /\ \A b \in store'.binds : b.sched \notin store'.scheds
             => OpensNothing
       /\ \A b \in store'.binds \ store.binds :
             /\ pending'
             /\ \E x \in store.binds : /\ x.prof = b.prof /\ x.list = b.list
                                      /\ x.sched \in store.scheds
             => OpensNothing]_vars

\* Not so: while the profile of a client is paused, no list of that profile
\* blocks it (filtering-pause.feature, the list "ads" of both "default" and
\* "kids").  The default profile without identifiers matches every client.
ProfilePauseSuspends ==
    \A p \in eng.profiles \ {Default}, c \in Client, d \in Domain :
        /\ wired = Lookups /\ c \in eng.prof[p].ips
        /\ Paused(eng, p, c, now) /\ eng.dev[c] = None
        /\ ~Covers(eng.rules.block, d)
        => Answer(c, d) # "blocked" \/ \E l \in Orphans(eng) : Hit(eng, l, d)

\* Not so: the device of a client is known to every engine that answers it.
\* Between the change of engines and wireDeviceLookup it is judged by address.
DeviceAlwaysKnown ==
    \A c \in Client, d \in Domain : Answer(c, d) = Says(eng, c, d)

\* Not so: an allowance ends at its expiry (allowlist-scheduling.feature).  The
\* engine keeps it until something else is applied.
ExpiryHonoured ==
    wired = Lookups =>
        \A c \in Client, d \in Domain : Answer(c, d) = Says(Built(cfg, now), c, d)

\* Not so: to delete a profile makes its clients clients of the default profile
\* (per-client-profiles.feature).  A device keeps the name of the profile.
DeletedProfileFallsBack ==
    wired = Lookups =>
        \A c \in Client :
            Matched(eng, wired, c, lease[c] # "none") \subseteq eng.profiles \cup {Default}

\* Not so: only a request that names an allowance removes it.  A handler that
\* saves the whole configuration drops those with an expiry or a schedule.
AllowanceKept ==
    [][\A e \in store.allow :
          e \notin store'.allow => \A x \in store.allow \ store'.allow : x.domain = e.domain]_vars

\* Not so: a pause of all filtering lasts until its deadline or its end by hand;
\* a change of the blocklists ends it as well.
GlobalPauseKept ==
    [][store.lists # store'.lists => store'.gpause = store.gpause]_vars

=============================================================================
