------------------------- MODULE FilterEngineProofs -------------------------
(***************************************************************************)
(* What FilterEngine promises of every network, configuration and clock:   *)
(* its types, when the engine in use is the one the store's configuration  *)
(* builds, and what pauses and the change of engines may do to an answer.  *)
(***************************************************************************)
EXTENDS FilterEngine, TLAPS

-----------------------------------------------------------------------------
(* Types.                                                                  *)

\* Entries that have not run out are some of the entries.
LEMMA LiveTyped ==
    ASSUME NEW S, NEW entries \in SUBSET S, NEW t
    PROVE  Live(entries, t) \in SUBSET S
BY DEF Live

\* A profile's row without those that have is a row.
LEMMA RowTyped ==
    ASSUME NEW row \in ProfileRow, NEW t
    PROVE  [row EXCEPT !.allow = Live(@, t)] \in ProfileRow
BY LiveTyped DEF ProfileRow

\* A configuration with other allowances is one ...
LEMMA WithAllow ==
    ASSUME NEW c \in Config, NEW x \in SUBSET Entry
    PROVE  [c EXCEPT !.allow = x] \in Config
BY DEF Config

\* ... with other rows of profiles ...
LEMMA WithProf ==
    ASSUME NEW c \in Config, NEW x \in [Profile -> ProfileRow]
    PROVE  [c EXCEPT !.prof = x] \in Config
BY DEF Config

\* ... with other shared allowances ...
LEMMA WithShared ==
    ASSUME NEW c \in Config, NEW x \in SUBSET Entry
    PROVE  [c EXCEPT !.shared.entries = x] \in Config
<1>1. [c.shared EXCEPT !.entries = x] \in [entries : SUBSET Entry, profs : SUBSET Profile]
  BY DEF Config
<1> QED  BY <1>1 DEF Config

\* ... or with one other row.
LEMMA WithRow ==
    ASSUME NEW c \in Config, NEW p \in Profile, NEW row \in ProfileRow
    PROVE  [c EXCEPT !.prof[p] = row] \in Config
<1>1. [c.prof EXCEPT ![p] = row] \in [Profile -> ProfileRow]
  BY DEF Config
<1> QED  BY <1>1 DEF Config

\* An engine is built of a configuration's parts.
LEMMA BuiltTyped ==
    ASSUME NEW c \in Config, NEW t PROVE Built(c, t) \in Config
<1> DEFINE rows == [p \in Profile |-> [c.prof[p] EXCEPT !.allow = Live(@, t)]]
           a == Live(c.allow, t)
           s == Live(c.shared.entries, t)
           c1 == [c EXCEPT !.allow = a]
           c2 == [c1 EXCEPT !.prof = rows]
           c3 == [c2 EXCEPT !.shared.entries = s]
<1>1. rows \in [Profile -> ProfileRow]
  BY RowTyped DEF Config
<1>2. a \in SUBSET Entry /\ s \in SUBSET Entry
  BY LiveTyped DEF Config
<1>3. Built(c, t) = c3
  BY DEF Built, Config
<1> HIDE DEF rows, a, s
<1>4. c1 \in Config
  BY <1>2, WithAllow
<1> HIDE DEF c1
<1>5. c2 \in Config
  BY <1>4, <1>1, WithProf
<1> HIDE DEF c2
<1>6. c3 \in Config
  BY <1>5, <1>2, WithShared
<1> QED  BY <1>3, <1>6

\* Storing a configuration keeps the types.
LEMMA ApplyTyped ==
    ASSUME TypeOK, NEW c \in Config, Apply(c) PROVE TypeOK'
<1>1. changes + 1 \in 0..MaxChange
  BY FilterAssumption DEF TypeOK, Apply
<1> QED  BY <1>1 DEF TypeOK, Apply, AsBuilt

\* Saving the whole configuration leaves one.
LEMMA SavedTyped ==
    ASSUME NEW c \in Config PROVE Saved(c) \in Config
<1>1. NoGlobalPause \in [until : 0..Never, profs : SUBSET Profile]
  BY FilterAssumption DEF NoGlobalPause, Never
<1>2. Plain(c.allow) \in SUBSET Entry
  BY DEF Plain, Config
<1> QED  BY <1>1, <1>2 DEF Saved, Config

\* A new profile's row is a row.
LEMMA BlankTyped == Blank \in ProfileRow /\ NoPause \in Pause
<1>1. NoPause \in Pause
  BY FilterAssumption DEF NoPause, Pause, Never
<1> QED  BY <1>1 DEF Blank, ProfileRow

\* A node without its store has a configuration all the same.
LEMMA NothingTyped == Nothing \in Config
<1>1. NoGlobalPause \in [until : 0..Never, profs : SUBSET Profile]
  BY FilterAssumption DEF NoGlobalPause, Never
<1>2. [p \in Profile |-> Blank] \in [Profile -> ProfileRow]
  BY BlankTyped
<1> QED  BY <1>1, <1>2 DEF Nothing, Config

\* The times and entries a request may carry.
LEMMA RequestTyped ==
    ASSUME TypeOK PROVE Until \subseteq 0..Never /\ SomeEntry \subseteq Entry
<1>1. Until \subseteq 0..Never
  BY FilterAssumption DEF TypeOK, Until, Never
<1> QED  BY <1>1 DEF SomeEntry, Entry

\* What a request does to one profile keeps the types.
LEMMA ProfileRequestTyped ==
    ASSUME TypeOK, NEW p \in Profile, ProfileRequest(p) PROVE TypeOK'
<1> USE DEF TypeOK
<1> DEFINE row == cfg.prof[p]
           stored == store.prof[p]
<1>0. store \in Config /\ row \in ProfileRow /\ stored \in ProfileRow
  BY DEF Config
<1>1. ASSUME NEW r \in ProfileRow, Apply([store EXCEPT !.profiles = @ \cup {p}, !.prof[p] = r])
      PROVE  TypeOK'
  <2> DEFINE c0 == [store EXCEPT !.profiles = @ \cup {p}]
  <2>1. c0 \in Config
    BY <1>0 DEF Config
  <2>2. [c0 EXCEPT !.prof[p] = r] \in Config
    BY <2>1, WithRow
  <2> QED  BY <1>1, <2>2, ApplyTyped
<1>2. ASSUME NEW ls \in SUBSET List, NEW c \in Client,
             CreateProfile(p, [Blank EXCEPT !.lists = ls, !.ips = {c}])
             \/ CreateProfile(p, [Blank EXCEPT !.lists = ls, !.ids = {c}])
      PROVE  TypeOK'
  <2> DEFINE r1 == [Blank EXCEPT !.lists = ls, !.ips = {c}]
             r2 == [Blank EXCEPT !.lists = ls, !.ids = {c}]
  <2>1. r1 \in ProfileRow /\ r2 \in ProfileRow
    BY BlankTyped DEF ProfileRow
  <2>2. ASSUME NEW r \in ProfileRow, CreateProfile(p, r) PROVE TypeOK'
    BY <1>1, <2>2 DEF CreateProfile
  <2> HIDE DEF r1, r2
  <2> QED  BY <1>2, <2>1, <2>2 DEF r1, r2
<1>3. CASE UpdateSome(p)
  <2>1. ASSUME NEW r \in ProfileRow, UpdateProfile(p, r) PROVE TypeOK'
    BY <2>1, <1>1 DEF UpdateProfile, Upsert
  <2>2. \A ls \in SUBSET List : [row EXCEPT !.lists = ls] \in ProfileRow
    BY <1>0 DEF ProfileRow
  <2>3. \A cs \in SUBSET Client : [row EXCEPT !.ips = cs] \in ProfileRow
    BY <1>0 DEF ProfileRow
  <2>4. [row EXCEPT !.dyn = ~@] \in ProfileRow /\ [row EXCEPT !.safe = ~@] \in ProfileRow
    BY <1>0 DEF ProfileRow
  <2> QED  BY <1>3, <2>1, <2>2, <2>3, <2>4 DEF UpdateSome
<1>4. CASE DeleteProfile(p)
  <2> DEFINE c0 == [store EXCEPT !.profiles = @ \ {p}]
  <2>1. c0 \in Config
    BY <1>0 DEF Config
  <2>2. [c0 EXCEPT !.prof[p] = Blank] \in Config
    BY <2>1, BlankTyped, WithRow
  <2> QED  BY <1>4, <2>2, ApplyTyped DEF DeleteProfile
<1>5. ASSUME NEW pause \in Pause, Apply([store EXCEPT !.prof[p].pause = pause]) PROVE TypeOK'
  <2>1. [stored EXCEPT !.pause = pause] \in ProfileRow
    BY <1>0 DEF ProfileRow
  <2>2. [store EXCEPT !.prof[p].pause = pause]
        = [store EXCEPT !.prof[p] = [stored EXCEPT !.pause = pause]]
    BY <1>0 DEF Config, ProfileRow
  <2> QED  BY <1>0, <1>5, <2>1, <2>2, WithRow, ApplyTyped
<1>6. CASE ResumeProfile(p)
  BY <1>5, <1>6, BlankTyped DEF ResumeProfile
<1>7. ASSUME NEW allow \in SUBSET Entry, Upsert(p, [row EXCEPT !.allow = allow])
      PROVE  TypeOK'
  <2>1. [row EXCEPT !.allow = allow] \in ProfileRow
    BY <1>0 DEF ProfileRow
  <2> QED  BY <1>1, <1>7, <2>1 DEF Upsert
<1>8. row.allow \in SUBSET Entry
  BY <1>0 DEF ProfileRow
<1>9. ASSUME NEW e \in SomeEntry, AddProfileAllowance(p, e) PROVE TypeOK'
  <2>1. row.allow \cup {e} \in SUBSET Entry
    BY <1>8, RequestTyped
  <2>2. Upsert(p, [row EXCEPT !.allow = row.allow \cup {e}])
    BY <1>9 DEF AddProfileAllowance
  <2> QED  BY <1>7, <2>1, <2>2
<1>10. ASSUME NEW e \in row.allow, RemoveProfileAllowance(p, e) PROVE TypeOK'
  <2>1. row.allow \ {e} \in SUBSET Entry
    BY <1>8
  <2>2. Upsert(p, [row EXCEPT !.allow = row.allow \ {e}])
    BY <1>10 DEF RemoveProfileAllowance
  <2> QED  BY <1>7, <2>1, <2>2
<1>11. ASSUME NEW u \in Until, NEW cs \in SUBSET Client, PauseProfile(p, u, cs) PROVE TypeOK'
  <2>1. [until |-> u, clients |-> cs] \in Pause
    BY RequestTyped DEF Pause
  <2> QED  BY <1>5, <1>11, <2>1 DEF PauseProfile
<1> HIDE DEF row, TypeOK
<1> QED  BY <1>2, <1>3, <1>4, <1>6, <1>9, <1>10, <1>11 DEF ProfileRequest, row

\* So does every request.
LEMMA RequestKeepsTypes ==
    ASSUME TypeOK, Request PROVE TypeOK'
<1>0. store \in Config
  BY DEF TypeOK
<1>1. CASE \E p \in Profile : ProfileRequest(p)
  BY <1>1, ProfileRequestTyped
<1>2. ASSUME NEW l \in List, ToggleList(l) PROVE TypeOK'
  <2> DEFINE c == [store EXCEPT !.lists = IF l \in @ THEN @ \ {l} ELSE @ \cup {l}]
  <2>1. c \in Config
    BY <1>0 DEF Config
  <2> QED  BY <1>2, <2>1, SavedTyped, ApplyTyped DEF ToggleList
<1>3. ASSUME NEW e \in SomeEntry, AddAllowance(e) PROVE TypeOK'
  <2>1. {x \in store.allow : x.domain # e.domain} \cup {e} \in SUBSET Entry
    BY <1>0, RequestTyped DEF Config
  <2> QED  BY <1>0, <1>3, <2>1, WithAllow, ApplyTyped DEF AddAllowance
<1>4. ASSUME NEW d \in Domain, RemoveAllowance(d) PROVE TypeOK'
  <2>1. {x \in store.allow : x.domain # d} \in SUBSET Entry
    BY <1>0 DEF Config
  <2> QED  BY <1>0, <1>4, <2>1, WithAllow, SavedTyped, ApplyTyped DEF RemoveAllowance
<1>5. ASSUME NEW r \in SomeRules, SetRules(r) PROVE TypeOK'
  <2>1. r \in [allow : SUBSET Domain, block : SUBSET Domain]
    BY DEF SomeRules
  <2>2. [store EXCEPT !.rules = r] \in Config
    BY <1>0, <2>1 DEF Config
  <2> QED  BY <1>5, <2>2, ApplyTyped DEF SetRules
<1>6. CASE EnsureDefault
  <2> DEFINE c0 == [store EXCEPT !.profiles = @ \cup {Default}]
  <2>1. c0 \in Config
    BY <1>0, FilterAssumption DEF Config
  <2>2. [c0 EXCEPT !.prof[Default] = Blank] \in Config
    BY <2>1, FilterAssumption, BlankTyped, WithRow
  <2> QED  BY <1>6, <2>2, ApplyTyped DEF EnsureDefault
<1>7. ASSUME NEW g \in [until : 0..Never, profs : SUBSET Profile], Apply([store EXCEPT !.gpause = g])
      PROVE  TypeOK'
  <2>1. [store EXCEPT !.gpause = g] \in Config
    BY <1>0 DEF Config
  <2> QED  BY <1>7, <2>1, ApplyTyped
<1>8. CASE ResumeAll
  <2>1. NoGlobalPause \in [until : 0..Never, profs : SUBSET Profile]
    BY FilterAssumption DEF NoGlobalPause, Never
  <2> QED  BY <1>7, <1>8, <2>1 DEF ResumeAll
<1>9. ASSUME NEW u \in Until, NEW ps \in SUBSET Profile, PauseAll(u, ps) PROVE TypeOK'
  <2>1. [until |-> u, profs |-> ps] \in [until : 0..Never, profs : SUBSET Profile]
    BY RequestTyped
  <2> QED  BY <1>7, <1>9, <2>1 DEF PauseAll
<1>10. ASSUME NEW s \in Sched, PutSchedule(s) \/ DeleteSchedule(s) PROVE TypeOK'
  <2>1. [store EXCEPT !.scheds = @ \cup {s}] \in Config
    BY <1>0 DEF Config
  <2>2. [store EXCEPT !.scheds = @ \ {s}, !.binds = {b \in @ : b.sched # s}] \in Config
    BY <1>0 DEF Config
  <2> QED  BY <1>10, <2>1, <2>2, ApplyTyped DEF PutSchedule, DeleteSchedule
<1>11. ASSUME NEW b, (b \in Binding /\ Bind(b)) \/ Unbind(b) PROVE TypeOK'
  <2>1. /\ b \in Binding => [store EXCEPT !.binds = @ \cup {b}] \in Config
        /\ [store EXCEPT !.binds = @ \ {b}] \in Config
    BY <1>0 DEF Config
  <2> QED  BY <1>11, <2>1, ApplyTyped DEF Bind, Unbind
<1>12. ASSUME NEW e \in SomeEntry, NEW p \in Profile,
              PutShared([entries |-> {e}, profs |-> {p}])
       PROVE  TypeOK'
  <2> DEFINE s == [entries |-> {e}, profs |-> {p}]
  <2>1. s \in [entries : SUBSET Entry, profs : SUBSET Profile]
    BY RequestTyped
  <2>2. [store EXCEPT !.shared = s] \in Config
    BY <1>0, <2>1 DEF Config
  <2> QED  BY <1>12, <2>2, ApplyTyped DEF PutShared
<1>13. ASSUME NEW c \in Client, NEW d \in Device \cup {None}, Apply([store EXCEPT !.dev[c] = d])
       PROVE  TypeOK'
  <2>1. [store.dev EXCEPT ![c] = d] \in [Client -> Device \cup {None}]
    BY <1>0 DEF Config
  <2>2. [store EXCEPT !.dev[c] = d] \in Config
    BY <1>0, <2>1 DEF Config
  <2> QED  BY <1>13, <2>2, ApplyTyped
<1>14. ASSUME NEW c \in Client, DeleteDevice(c) \/ \E d \in Device : PutDevice(c, d)
       PROVE  TypeOK'
  BY <1>13, <1>14 DEF DeleteDevice, PutDevice
<1> QED
  BY <1>1, <1>2, <1>3, <1>4, <1>5, <1>6, <1>8, <1>9, <1>10, <1>11, <1>12, <1>14 DEF Request

\* No request, wiring, restart or change of a lease leaves a store or an engine
\* that is not a configuration (the handlers of the settings, app.go).
THEOREM TypesHold == Spec => []TypeOK
<1>1. Init => TypeOK
  <2> SUFFICES ASSUME Init PROVE TypeOK
    OBVIOUS
  <2>1. store \in Config /\ cfg = store /\ Built(cfg, 0) \in Config
    BY StartAssumption, BuiltTyped DEF Init
  <2>2. /\ eng = Built(cfg, 0) /\ pending = FALSE /\ missed = FALSE /\ wired = Lookups
        /\ builtAt = 0 /\ now = 0 /\ changes = 0 /\ lease = [c \in Client |-> "none"]
    BY DEF Init
  <2>3. pending \in BOOLEAN /\ missed \in BOOLEAN
    BY <2>2
  <2>4. store \in Config /\ cfg \in Config /\ eng \in Config
    BY <2>1, <2>2
  <2>5. 0 \in 0..MaxTime /\ 0 \in 0..MaxChange
    BY FilterAssumption
  <2>6. lease \in [Client -> {"none", "dynamic", "fixed"}]
    BY <2>2
  <2> QED  BY <2>2, <2>3, <2>4, <2>5, <2>6 DEF TypeOK
<1>2. TypeOK /\ [Next]_vars => TypeOK'
  <2> SUFFICES ASSUME TypeOK, [Next]_vars PROVE TypeOK'
    OBVIOUS
  <2>1. CASE Request
    BY <2>1, RequestKeepsTypes
  <2>2. CASE WireLease
    BY <2>2 DEF TypeOK, WireLease, Lookups
  <2>3. CASE WireDevice
    BY <2>3 DEF TypeOK, WireDevice, Lookups
  <2>4. CASE Restart \/ BootsWithout
    <3>1. ASSUME NEW c \in Config, Boot(c), missed' \in BOOLEAN, wired' = {"device"} PROVE TypeOK'
      <4>1. Built(c, now) \in Config
        BY BuiltTyped
      <4>2. changes + 1 \in 0..MaxChange
        BY <3>1, FilterAssumption DEF TypeOK, Boot
      <4> QED  BY <3>1, <4>1, <4>2 DEF TypeOK, Boot, Lookups
    <3>2. store \in Config /\ Nothing \in Config
      BY NothingTyped DEF TypeOK
    <3> QED  BY <2>4, <3>1, <3>2 DEF Restart, BootsWithout
  <2>5. CASE Tick
    BY <2>5, FilterAssumption DEF TypeOK, Tick, AsBuilt
  <2>6. ASSUME NEW c \in Client, NEW k \in {"none", "dynamic", "fixed"}, LeaseChanges(c, k)
        PROVE  TypeOK'
    BY <2>6, FilterAssumption DEF TypeOK, LeaseChanges, AsBuilt
  <2>7. CASE UNCHANGED vars
    BY <2>7 DEF TypeOK, vars
  <2>8. CASE Swap
    <3>1. Built(store, now) \in Config
      BY BuiltTyped DEF TypeOK
    <3> QED  BY <2>8, <3>1 DEF TypeOK, Swap
  <2>9. CASE SwapFails
    <3>1. changes + 1 \in 0..MaxChange
      BY <2>9, FilterAssumption DEF TypeOK, SwapFails
    <3> QED  BY <2>9, <3>1 DEF TypeOK, SwapFails, AsBuilt
  <2>10. ASSUME NEW c \in Start, Restored(c) PROVE TypeOK'
    <3>1. c \in Config /\ changes + 1 \in 0..MaxChange
      BY <2>10, StartAssumption, FilterAssumption DEF TypeOK, Restored
    <3> QED  BY <2>10, <3>1 DEF TypeOK, Restored, AsBuilt
  <2> QED
    BY <2>1, <2>2, <2>3, <2>4, <2>5, <2>6, <2>7, <2>8, <2>9, <2>10 DEF Next
<1> QED  BY <1>1, <1>2, PTL DEF Spec

-----------------------------------------------------------------------------
(* Pauses and the change of engines.                                       *)

\* Whom the profiles match is told by who they name, not by what they block.
LEMMA MatchedDependsOn ==
    ASSUME NEW e \in Config, NEW f \in Config, NEW w, NEW c \in Client, NEW known \in BOOLEAN,
           e.profiles = f.profiles, e.dev = f.dev,
           \A p \in Profile : /\ e.prof[p].ips = f.prof[p].ips
                              /\ e.prof[p].ids = f.prof[p].ids
                              /\ e.prof[p].dyn = f.prof[p].dyn
    PROVE  Matched(e, w, c, known) = Matched(f, w, c, known)
<1>0. e.profiles \subseteq Profile
  BY DEF Config
<1>1. OfDevice(e, w, c, known) <=> OfDevice(f, w, c, known)
  BY DEF OfDevice
<1>2. ByAddress(e, c) = ByAddress(f, c)
  BY <1>0 DEF ByAddress
<1>3. Dynamic(e, w, c) = Dynamic(f, w, c)
  BY <1>0 DEF Dynamic
<1>4. {p \in e.profiles : known /\ c \in e.prof[p].ids}
      = {p \in f.profiles : known /\ c \in f.prof[p].ids}
  BY <1>0
<1> QED  BY <1>1, <1>2, <1>3, <1>4 DEF Matched

\* A client with neither a device nor a dynamic lease is matched the same by an
\* engine without its lookups.
LEMMA LookupsNotAsked ==
    ASSUME NEW e, NEW w, NEW c, NEW known, lease[c] # "dynamic", e.dev[c] = None
    PROVE  Matched(e, w, c, known) = Matched(e, Lookups, c, known)
<1>1. ~OfDevice(e, w, c, known) /\ ~OfDevice(e, Lookups, c, known)
  BY DEF OfDevice
<1>2. Dynamic(e, w, c) = Dynamic(e, Lookups, c)
  BY DEF Dynamic
<1> QED  BY <1>1, <1>2 DEF Matched

\* Between the change of engines and the second lookup a client without a device
\* and without a dynamic lease is told what the complete engine tells it
\* (wireLeaseOriginLookup and wireDeviceLookup, app.go).
THEOREM RebuildIsHarmless == Spec => []RebuildWindowHarmless
<1>1. RebuildWindowHarmless
  <2> SUFFICES ASSUME NEW c \in Client, NEW d \in Domain,
                      lease[c] # "dynamic", eng.dev[c] = None
               PROVE  Answer(c, d) = Says(eng, c, d)
    BY DEF RebuildWindowHarmless
  <2>1. Matched(eng, wired, c, lease[c] # "none") = Matched(eng, Lookups, c, lease[c] # "none")
    BY LookupsNotAsked
  <2> QED  BY <2>1 DEF Answer, Says, Verdict
<1> QED  BY <1>1, PTL

\* What is left of a configuration without its pauses.
LEMMA Unpaused ==
    ASSUME NEW e \in Config
    PROVE  LET f == WithoutPauses(e)
           IN  /\ f \in Config
               /\ f.lists = e.lists /\ f.allow = e.allow /\ f.rules = e.rules
               /\ f.profiles = e.profiles /\ f.shared = e.shared /\ f.scheds = e.scheds
               /\ f.binds = e.binds /\ f.dev = e.dev /\ f.gpause = NoGlobalPause
               /\ \A p \in Profile : f.prof[p] = [e.prof[p] EXCEPT !.pause = NoPause]
<1> DEFINE rows == [p \in Profile |-> [e.prof[p] EXCEPT !.pause = NoPause]]
<1>1. ASSUME NEW p \in Profile PROVE [e.prof[p] EXCEPT !.pause = NoPause] \in ProfileRow
  <2>1. e.prof[p] \in ProfileRow /\ NoPause \in Pause
    BY BlankTyped DEF Config
  <2> QED  BY <2>1 DEF ProfileRow
<1>r. rows \in [Profile -> ProfileRow]
  BY <1>1
<1>2. NoGlobalPause \in [until : 0..Never, profs : SUBSET Profile]
  BY FilterAssumption DEF NoGlobalPause, Never
<1>3. WithoutPauses(e) = [e EXCEPT !.gpause = NoGlobalPause, !.prof = rows]
  BY DEF WithoutPauses
<1>4. \A p \in Profile : rows[p] = [e.prof[p] EXCEPT !.pause = NoPause]
  OBVIOUS
<1> HIDE DEF rows
<1> QED  BY <1>r, <1>2, <1>3, <1>4 DEF Config

\* What is allowed, suppressed, orphaned or blocked by a profile is told by the
\* lists, the allowances and the schedules; nothing of it asks for a pause.
LEMMA VerdictParts ==
    ASSUME NEW e \in Config, NEW f \in Config, NEW matched, NEW d \in Domain, NEW t,
           f.lists = e.lists, f.profiles = e.profiles,
           f.scheds = e.scheds, f.binds = e.binds,
           \A p \in Profile : f.prof[p].lists = e.prof[p].lists
    PROVE  /\ \A p : BlockedBy(f, p, d, t) <=> BlockedBy(e, p, d, t)
           /\ Orphans(f) = Orphans(e)
           /\ \A l : Hit(f, l, d) <=> Hit(e, l, d)
<1>0. e.profiles \subseteq Profile
  BY DEF Config
<1>1. \A l : Hit(f, l, d) <=> Hit(e, l, d)
  BY DEF Hit
<1>2. \A p, l : Suppressed(f, p, l, t) <=> Suppressed(e, p, l, t)
  BY DEF Suppressed
<1>3. Orphans(f) = Orphans(e)
  BY <1>0 DEF Orphans
<1>4. ASSUME NEW p PROVE BlockedBy(f, p, d, t) <=> BlockedBy(e, p, d, t)
  BY <1>0, <1>1, <1>2 DEF BlockedBy
<1> QED  BY <1>1, <1>3, <1>4

\* What is allowed is told by allowances and schedules.
LEMMA AllowedForDependsOn ==
    ASSUME NEW e \in Config, NEW f \in Config, NEW matched, NEW d \in Domain, NEW t,
           f.allow = e.allow, f.profiles = e.profiles, f.shared = e.shared, f.scheds = e.scheds,
           \A p \in Profile : f.prof[p].allow = e.prof[p].allow
    PROVE  AllowedFor(f, matched, d, t) <=> AllowedFor(e, matched, d, t)
<1>0. e.profiles \subseteq Profile
  BY DEF Config
<1>1. \A x : Allows(f, x, d, t) <=> Allows(e, x, d, t)
  BY DEF Allows
<1> QED  BY <1>0, <1>1 DEF AllowedFor

\* A pause lifts blocks and never causes one, whichever lists and profiles a
\* client then falls back on (EvaluateForClientID, engine.go).
THEOREM PausesOnlyLift == Spec => []PauseOnlyLifts
<1>1. TypeOK => PauseOnlyLifts
  <2> SUFFICES ASSUME TypeOK, NEW c \in Client, NEW d \in Domain, Answer(c, d) = "blocked"
               PROVE  Verdict(WithoutPauses(eng), wired, c, d, now) = "blocked"
    BY DEF PauseOnlyLifts
  <2> DEFINE f == WithoutPauses(eng)
             known == lease[c] # "none"
             m == Matched(eng, wired, c, known)
  <2>0. eng \in Config /\ eng.profiles \subseteq Profile /\ now \in Nat
    BY FilterAssumption DEF TypeOK, Config
  <2>1. /\ f \in Config
        /\ f.lists = eng.lists /\ f.allow = eng.allow /\ f.rules = eng.rules
        /\ f.profiles = eng.profiles /\ f.shared = eng.shared /\ f.scheds = eng.scheds
        /\ f.binds = eng.binds /\ f.dev = eng.dev /\ f.gpause = NoGlobalPause
        /\ \A p \in Profile : f.prof[p] = [eng.prof[p] EXCEPT !.pause = NoPause]
    BY <2>0, Unpaused
  <2> HIDE DEF f
  <2>2. \A p \in Profile : /\ f.prof[p].lists = eng.prof[p].lists
                           /\ f.prof[p].allow = eng.prof[p].allow
                           /\ f.prof[p].ips = eng.prof[p].ips
                           /\ f.prof[p].ids = eng.prof[p].ids
                           /\ f.prof[p].dyn = eng.prof[p].dyn
                           /\ f.prof[p].safe = eng.prof[p].safe
                           /\ f.prof[p].pause = NoPause
    <3> SUFFICES ASSUME NEW p \in Profile
                 PROVE  /\ f.prof[p].lists = eng.prof[p].lists
                        /\ f.prof[p].allow = eng.prof[p].allow
                        /\ f.prof[p].ips = eng.prof[p].ips
                        /\ f.prof[p].ids = eng.prof[p].ids
                        /\ f.prof[p].dyn = eng.prof[p].dyn
                        /\ f.prof[p].safe = eng.prof[p].safe
                        /\ f.prof[p].pause = NoPause
      OBVIOUS
    <3>1. eng.prof[p] \in ProfileRow
      BY <2>0 DEF Config
    <3>2. f.prof[p] = [eng.prof[p] EXCEPT !.pause = NoPause]
      BY <2>1
    <3> QED  BY <3>1, <3>2 DEF ProfileRow
  <2>3. Matched(f, wired, c, known) = m
    <3>1. known \in BOOLEAN
      OBVIOUS
    <3> HIDE DEF known
    <3> QED  BY <2>0, <2>1, <2>2, <3>1, MatchedDependsOn
  <2> HIDE DEF m
  <2>4. Rewrites(f, m, d) <=> Rewrites(eng, m, d)
    BY <2>0, <2>1, <2>2 DEF Rewrites
  <2>5. AllowedFor(f, m, d, now) <=> AllowedFor(eng, m, d, now)
    BY <2>0, <2>1, <2>2, AllowedForDependsOn
  <2>6. /\ \A p : BlockedBy(f, p, d, now) <=> BlockedBy(eng, p, d, now)
        /\ Orphans(f) = Orphans(eng)
        /\ \A l : Hit(f, l, d) <=> Hit(eng, l, d)
    BY <2>0, <2>1, <2>2, VerdictParts
  <2>7. ~AllPaused(f, now)
    BY <2>0, <2>1 DEF AllPaused, NoGlobalPause
  <2>8. \A p : ~Paused(f, p, c, now)
    BY <2>0, <2>1, <2>2 DEF Paused, NoPause, NoGlobalPause
  <2>9. ~Rewrites(eng, m, d) /\ Blocks(eng, m, c, d, now)
    BY DEF Answer, Verdict, m, known
  <2>10. Blocks(f, m, c, d, now)
    BY <2>1, <2>5, <2>6, <2>7, <2>8, <2>9 DEF Blocks
  <2> QED  BY <2>3, <2>4, <2>9, <2>10 DEF Verdict, f, known
<1> QED  BY <1>1, TypesHold, PTL

\* Two configurations that differ in allowances and pauses only.
LikeButAllowances(e, f) ==
    /\ f.lists = e.lists /\ f.rules = e.rules /\ f.profiles = e.profiles
    /\ f.scheds = e.scheds /\ f.binds = e.binds /\ f.dev = e.dev
    /\ \A p \in Profile : /\ f.prof[p].lists = e.prof[p].lists
                          /\ f.prof[p].ips = e.prof[p].ips
                          /\ f.prof[p].ids = e.prof[p].ids
                          /\ f.prof[p].dyn = e.prof[p].dyn
                          /\ f.prof[p].safe = e.prof[p].safe

\* If the pauses say the same to a client, it is told the same unless an
\* allowance of one of the two makes the difference.
LEMMA VerdictUpToAllowances ==
    ASSUME NEW e \in Config, NEW f \in Config, NEW w, NEW c \in Client, NEW d \in Domain, NEW t,
           LikeButAllowances(e, f),
           AllPaused(f, t) <=> AllPaused(e, t),
           \A p \in Profile : Paused(f, p, c, t) <=> Paused(e, p, c, t),
           \A p : p \notin Profile => ~BlockedBy(e, p, d, t),
           NEW m, m = Matched(e, w, c, lease[c] # "none")
    PROVE  \/ Verdict(e, w, c, d, t) = Verdict(f, w, c, d, t)
           \/ /\ AllowedFor(e, m, d, t) /\ ~AllowedFor(f, m, d, t)
              /\ Verdict(e, w, c, d, t) = "forwarded" /\ Verdict(f, w, c, d, t) = "blocked"
           \/ ~AllowedFor(e, m, d, t) /\ AllowedFor(f, m, d, t)
<1> DEFINE known == lease[c] # "none"
<1>0. e.profiles \subseteq Profile
  BY DEF Config
<1>1. Matched(f, w, c, known) = m
  <2>1. known \in BOOLEAN
    OBVIOUS
  <2> HIDE DEF known
  <2>2. Matched(e, w, c, known) = Matched(f, w, c, known)
    BY <2>1, MatchedDependsOn DEF LikeButAllowances
  <2> QED  BY <2>2 DEF known
<1>2. /\ \A p : BlockedBy(f, p, d, t) <=> BlockedBy(e, p, d, t)
      /\ Orphans(f) = Orphans(e)
      /\ \A l : Hit(f, l, d) <=> Hit(e, l, d)
  BY VerdictParts DEF LikeButAllowances
<1>3. Rewrites(f, m, d) <=> Rewrites(e, m, d)
  BY <1>0 DEF Rewrites, LikeButAllowances
<1>4. (\E p \in m : ~Paused(f, p, c, t) /\ BlockedBy(f, p, d, t))
      <=> (\E p \in m : ~Paused(e, p, c, t) /\ BlockedBy(e, p, d, t))
  BY <1>2
<1>5. f.rules = e.rules
  BY DEF LikeButAllowances
<1>6. \/ Blocks(e, m, c, d, t) <=> Blocks(f, m, c, d, t)
      \/ /\ AllowedFor(e, m, d, t) /\ ~AllowedFor(f, m, d, t)
         /\ ~Blocks(e, m, c, d, t) /\ Blocks(f, m, c, d, t)
      \/ ~AllowedFor(e, m, d, t) /\ AllowedFor(f, m, d, t)
  BY <1>2, <1>4, <1>5 DEF Blocks
<1> QED  BY <1>1, <1>3, <1>6 DEF Verdict, known

\* A profile that is not one of the node's blocks nothing.
LEMMA ProfilesBlock ==
    ASSUME NEW e \in Config, NEW p, p \notin Profile, NEW d, NEW t
    PROVE  ~BlockedBy(e, p, d, t)
BY FilterAssumption DEF BlockedBy, Config

\* A pause of some clients is none to another client of the profile, and a pause
\* whose deadline has come is none to anyone, with no command to end it
\* (pauseCoversClientLocked, engine.go).
THEOREM PausesSpareOthers == Spec => []PauseSparesOthers
<1>1. TypeOK => PauseSparesOthers
  <2> SUFFICES ASSUME TypeOK, NEW p \in eng.profiles, NEW c \in Client, NEW d \in Domain,
                      \/ eng.prof[p].pause.until <= now
                      \/ eng.prof[p].pause.clients # {} /\ c \notin eng.prof[p].pause.clients
               PROVE  Answer(c, d) = Verdict(WithoutPauseOf(eng, p), wired, c, d, now)
    BY DEF PauseSparesOthers
  <2> DEFINE row == [eng.prof[p] EXCEPT !.pause = NoPause]
             f == WithoutPauseOf(eng, p)
             m == Matched(eng, wired, c, lease[c] # "none")
  <2>0. eng \in Config /\ p \in Profile /\ eng.prof[p] \in ProfileRow /\ now \in Nat
    BY FilterAssumption DEF TypeOK, Config
  <2>1. row \in ProfileRow
    BY <2>0, BlankTyped DEF ProfileRow
  <2>2. f = [eng EXCEPT !.prof[p] = row]
    BY <2>0 DEF WithoutPauseOf, Config, ProfileRow
  <2>3. f \in Config
    BY <2>0, <2>1, <2>2, WithRow
  <2>4. /\ row.lists = eng.prof[p].lists /\ row.allow = eng.prof[p].allow
        /\ row.ips = eng.prof[p].ips /\ row.ids = eng.prof[p].ids
        /\ row.dyn = eng.prof[p].dyn /\ row.safe = eng.prof[p].safe
        /\ row.pause = NoPause
    BY <2>0 DEF ProfileRow
  <2> HIDE DEF row
  <2>5. /\ f.lists = eng.lists /\ f.allow = eng.allow /\ f.rules = eng.rules
        /\ f.profiles = eng.profiles /\ f.shared = eng.shared /\ f.scheds = eng.scheds
        /\ f.binds = eng.binds /\ f.dev = eng.dev /\ f.gpause = eng.gpause
        /\ f.prof = [eng.prof EXCEPT ![p] = row]
    BY <2>0, <2>2 DEF Config
  <2> HIDE DEF f
  <2>6. f.prof[p] = row /\ \A q \in Profile \ {p} : f.prof[q] = eng.prof[q]
    BY <2>0, <2>5 DEF Config
  <2>7. LikeButAllowances(eng, f)
    BY <2>4, <2>5, <2>6 DEF LikeButAllowances
  <2>8. \A q \in Profile : f.prof[q].allow = eng.prof[q].allow
    BY <2>4, <2>6
  <2>9. AllPaused(f, now) <=> AllPaused(eng, now)
    BY <2>5 DEF AllPaused
  <2>10. ASSUME NEW q \in Profile PROVE Paused(f, q, c, now) <=> Paused(eng, q, c, now)
    <3>1. CASE q = p
      <4>1. eng.prof[p].pause.until \in Int
        BY <2>0, FilterAssumption DEF ProfileRow, Pause, Never
      <4>2. ~(now < f.prof[p].pause.until)
        BY <2>0, <2>4, <2>6 DEF NoPause
      <4> QED  BY <2>0, <2>5, <3>1, <4>1, <4>2 DEF Paused
    <3>2. CASE q # p
      BY <2>5, <2>6, <3>2 DEF Paused
    <3> QED  BY <3>1, <3>2
  <2>11. AllowedFor(f, m, d, now) <=> AllowedFor(eng, m, d, now)
    BY <2>0, <2>3, <2>5, <2>8, AllowedForDependsOn
  <2>12. \A q : q \notin Profile => ~BlockedBy(eng, q, d, now)
    BY <2>0, ProfilesBlock
  <2> HIDE DEF m
  <2>13. Verdict(eng, wired, c, d, now) = Verdict(f, wired, c, d, now)
    BY <2>0, <2>3, <2>7, <2>9, <2>10, <2>11, <2>12, VerdictUpToAllowances DEF m
  <2> QED  BY <2>13 DEF Answer, f
<1> QED  BY <1>1, TypesHold, PTL

-----------------------------------------------------------------------------
(* The engine and the store.                                               *)

\* A request leaves a configuration in the store, and the engine as it is.
LEMMA RequestApplies == ASSUME Request PROVE \E h : Apply(h)
<1>2. ASSUME NEW p \in Profile, ProfileRequest(p) PROVE \E h : Apply(h)
  BY <1>2
     DEF ProfileRequest, CreateProfile, UpdateSome, UpdateProfile, Upsert, DeleteProfile,
         ResumeProfile, AddProfileAllowance, RemoveProfileAllowance, PauseProfile
<1>3. ASSUME NEW l \in List, ToggleList(l) PROVE \E h : Apply(h)
  BY <1>3 DEF ToggleList
<1>4. ASSUME NEW e, AddAllowance(e) PROVE \E h : Apply(h)
  BY <1>4 DEF AddAllowance
<1>5. ASSUME NEW d, RemoveAllowance(d) PROVE \E h : Apply(h)
  BY <1>5 DEF RemoveAllowance
<1>6. ASSUME NEW r, SetRules(r) PROVE \E h : Apply(h)
  BY <1>6 DEF SetRules
<1>7. CASE EnsureDefault \/ ResumeAll
  BY <1>7 DEF EnsureDefault, ResumeAll
<1>8. ASSUME NEW u, NEW ps, PauseAll(u, ps) PROVE \E h : Apply(h)
  BY <1>8 DEF PauseAll
<1>9. ASSUME NEW s, PutSchedule(s) \/ DeleteSchedule(s) PROVE \E h : Apply(h)
  BY <1>9 DEF PutSchedule, DeleteSchedule
<1>10. ASSUME NEW b, Bind(b) \/ Unbind(b) PROVE \E h : Apply(h)
  BY <1>10 DEF Bind, Unbind
<1>11. ASSUME NEW s, PutShared(s) PROVE \E h : Apply(h)
  BY <1>11 DEF PutShared
<1>12. ASSUME NEW c, DeleteDevice(c) \/ \E d \in Device : PutDevice(c, d) PROVE \E h : Apply(h)
  BY <1>12 DEF DeleteDevice, PutDevice
<1> QED
  BY <1>2, <1>3, <1>4, <1>5, <1>6, <1>7, <1>8, <1>9, <1>10, <1>11, <1>12 DEF Request

\* The engine in use is the one App.cfg built, at some time that is past; and
\* App.cfg is what the store holds, unless onApply is to come or has been missed.
OfStore ==
    /\ eng = Built(cfg, builtAt) /\ builtAt <= now
    /\ ~pending /\ ~missed => cfg = store

\* Nothing but a command, a snapshot and a failure parts the engine and the store,
\* and the next onApply or start brings them together.
LEMMA EngineOfStore == Spec => []OfStore
<1>1. Init => OfStore
  BY DEF Init, OfStore
<1>2. TypeOK /\ OfStore /\ [Next]_vars => OfStore'
  <2> SUFFICES ASSUME TypeOK, OfStore, [Next]_vars PROVE OfStore'
    OBVIOUS
  <2>0. builtAt \in Int /\ now \in Int
    BY DEF TypeOK
  <2>1. CASE Request
    <3>1. PICK c : Apply(c)
      BY <2>1, RequestApplies
    <3> QED  BY <3>1 DEF Apply, AsBuilt, OfStore
  <2>2. CASE Swap
    BY <2>0, <2>2 DEF Swap, OfStore
  <2>3. CASE SwapFails
    BY <2>3 DEF SwapFails, AsBuilt, OfStore
  <2>4. ASSUME NEW c \in Start, Restored(c) PROVE OfStore'
    BY <2>4 DEF Restored, AsBuilt, OfStore
  <2>5. CASE Restart \/ BootsWithout
    BY <2>0, <2>5 DEF Restart, BootsWithout, Boot, OfStore
  <2>6. CASE WireLease \/ WireDevice
    BY <2>6 DEF WireLease, WireDevice, OfStore
  <2>7. CASE Tick
    BY <2>0, <2>7 DEF Tick, AsBuilt, OfStore
  <2>8. ASSUME NEW c \in Client, NEW k \in {"none", "dynamic", "fixed"}, LeaseChanges(c, k)
        PROVE  OfStore'
    BY <2>8 DEF LeaseChanges, AsBuilt, OfStore
  <2>9. CASE UNCHANGED vars
    BY <2>9 DEF vars, OfStore
  <2> QED  BY <2>1, <2>2, <2>3, <2>4, <2>5, <2>6, <2>7, <2>8, <2>9 DEF Next
<1> QED  BY <1>1, <1>2, TypesHold, PTL DEF Spec

\* The parts of an engine.
LEMMA PartsOfBuilt ==
    ASSUME NEW c \in Config, NEW t
    PROVE  LET e == Built(c, t)
           IN  /\ e \in Config
               /\ e.lists = c.lists /\ e.rules = c.rules /\ e.profiles = c.profiles
               /\ e.scheds = c.scheds /\ e.binds = c.binds /\ e.gpause = c.gpause
               /\ e.dev = c.dev /\ e.shared.profs = c.shared.profs
               /\ e.allow = Live(c.allow, t)
               /\ e.shared.entries = Live(c.shared.entries, t)
               /\ \A p \in Profile : /\ e.prof[p].lists = c.prof[p].lists
                                     /\ e.prof[p].ips = c.prof[p].ips
                                     /\ e.prof[p].ids = c.prof[p].ids
                                     /\ e.prof[p].dyn = c.prof[p].dyn
                                     /\ e.prof[p].safe = c.prof[p].safe
                                     /\ e.prof[p].pause = c.prof[p].pause
                                     /\ e.prof[p].allow = Live(c.prof[p].allow, t)
<1> DEFINE rows == [p \in Profile |-> [c.prof[p] EXCEPT !.allow = Live(@, t)]]
           a == Live(c.allow, t)
           s == Live(c.shared.entries, t)
           e == Built(c, t)
<1>1. e \in Config
  BY BuiltTyped
<1>2. e = [c EXCEPT !.allow = a, !.prof = rows, !.shared.entries = s]
  BY DEF Built, Config
<1>3. ASSUME NEW p \in Profile
      PROVE  /\ rows[p].lists = c.prof[p].lists /\ rows[p].ips = c.prof[p].ips
             /\ rows[p].ids = c.prof[p].ids /\ rows[p].dyn = c.prof[p].dyn
             /\ rows[p].safe = c.prof[p].safe /\ rows[p].pause = c.prof[p].pause
             /\ rows[p].allow = Live(c.prof[p].allow, t)
  <2>1. c.prof[p] \in ProfileRow
    BY DEF Config
  <2>2. rows[p] = [c.prof[p] EXCEPT !.allow = Live(c.prof[p].allow, t)]
    OBVIOUS
  <2> HIDE DEF rows
  <2> QED  BY <2>1, <2>2 DEF ProfileRow
<1> HIDE DEF rows, a, s
<1>4. /\ e.lists = c.lists /\ e.rules = c.rules /\ e.profiles = c.profiles
      /\ e.scheds = c.scheds /\ e.binds = c.binds /\ e.gpause = c.gpause
      /\ e.dev = c.dev /\ e.allow = a /\ e.prof = rows
      /\ e.shared = [c.shared EXCEPT !.entries = s]
  BY <1>2 DEF Config
<1>5. e.shared.profs = c.shared.profs /\ e.shared.entries = s
  BY <1>4 DEF Config
<1> QED  BY <1>1, <1>3, <1>4, <1>5 DEF a, s

\* A row that two configurations have in common is built the same.
LEMMA SameRowBuilt ==
    ASSUME NEW b \in Config, NEW c \in Config, NEW t, NEW p \in Profile, b.prof[p] = c.prof[p]
    PROVE  LET e == Built(b, t).prof[p]
               f == Built(c, t).prof[p]
           IN  /\ f.lists = e.lists /\ f.allow = e.allow /\ f.ips = e.ips /\ f.ids = e.ids
               /\ f.dyn = e.dyn /\ f.safe = e.safe /\ f.pause = e.pause
<1> DEFINE e == Built(b, t).prof[p]
           f == Built(c, t).prof[p]
<1>1. /\ e.lists = b.prof[p].lists /\ e.allow = Live(b.prof[p].allow, t)
      /\ e.ips = b.prof[p].ips /\ e.ids = b.prof[p].ids /\ e.dyn = b.prof[p].dyn
      /\ e.safe = b.prof[p].safe /\ e.pause = b.prof[p].pause
  BY PartsOfBuilt
<1>2. /\ f.lists = c.prof[p].lists /\ f.allow = Live(c.prof[p].allow, t)
      /\ f.ips = c.prof[p].ips /\ f.ids = c.prof[p].ids /\ f.dyn = c.prof[p].dyn
      /\ f.safe = c.prof[p].safe /\ f.pause = c.prof[p].pause
  BY PartsOfBuilt
<1> HIDE DEF e, f
<1>3. /\ f.lists = e.lists /\ f.allow = e.allow /\ f.ips = e.ips /\ f.ids = e.ids
      /\ f.dyn = e.dyn /\ f.safe = e.safe /\ f.pause = e.pause
  BY <1>1, <1>2
<1> QED  BY <1>3 DEF e, f

\* With its lookups, and nothing missed since the last onApply that got
\* through, an engine judges by the configuration in the store as it is now,
\* but for an allowance that ran out after the engine was built, by which it
\* still lets a domain through (App.onApply, splitAllowlistEntries).
THEOREM EngineIsOfStore == Spec => []EngineFollowsConfig
<1>1. TypeOK /\ OfStore => EngineFollowsConfig
  <2> DEFINE Lasting(entries) == {x \in entries : now < x.until}
             fresh == [store EXCEPT
                          !.allow = Lasting(@),
                          !.prof = [p \in Profile |-> [store.prof[p] EXCEPT !.allow = Lasting(@)]],
                          !.shared = [store.shared EXCEPT !.entries = Lasting(@)]]
             RanOut == {x \in store.allow \cup store.shared.entries
                                  \cup UNION {store.prof[p].allow : p \in Profile} :
                          builtAt < x.until /\ x.until <= now}
  <2> SUFFICES ASSUME TypeOK, OfStore, Idle, ~missed, NEW c \in Client, NEW d \in Domain
               PROVE  \/ Answer(c, d) = Says(fresh, c, d)
                      \/ /\ Answer(c, d) = "forwarded" /\ Says(fresh, c, d) = "blocked"
                         /\ \E x \in RanOut : x.domain \in Above[d]
    BY DEF EngineFollowsConfig
  <2> DEFINE f == Built(store, now)
             m == Matched(eng, Lookups, c, lease[c] # "none")
  <2>0. /\ store \in Config /\ eng \in Config /\ builtAt \in Int /\ now \in Int /\ builtAt <= now
        /\ cfg = store /\ wired = Lookups
    BY DEF TypeOK, OfStore, Idle
  <2>1. fresh = f
    BY <2>0 DEF Built, Live, Config
  <2> HIDE DEF fresh
  <2>2. eng = Built(store, builtAt)
    BY <2>0 DEF OfStore
  <2>3. /\ f \in Config
        /\ f.lists = eng.lists /\ f.rules = eng.rules /\ f.profiles = eng.profiles
        /\ f.scheds = eng.scheds /\ f.binds = eng.binds /\ f.gpause = eng.gpause
        /\ f.dev = eng.dev /\ f.shared.profs = eng.shared.profs
        /\ \A p \in Profile : /\ f.prof[p].lists = eng.prof[p].lists
                              /\ f.prof[p].ips = eng.prof[p].ips
                              /\ f.prof[p].ids = eng.prof[p].ids
                              /\ f.prof[p].dyn = eng.prof[p].dyn
                              /\ f.prof[p].safe = eng.prof[p].safe
                              /\ f.prof[p].pause = eng.prof[p].pause
    BY <2>0, <2>2, PartsOfBuilt
  <2>4. /\ eng.allow = Live(store.allow, builtAt) /\ f.allow = Live(store.allow, now)
        /\ eng.shared.entries = Live(store.shared.entries, builtAt)
        /\ f.shared.entries = Live(store.shared.entries, now)
        /\ \A p \in Profile : /\ eng.prof[p].allow = Live(store.prof[p].allow, builtAt)
                              /\ f.prof[p].allow = Live(store.prof[p].allow, now)
    BY <2>0, <2>2, PartsOfBuilt
  <2> HIDE DEF f
  <2>5. LikeButAllowances(eng, f)
    BY <2>3 DEF LikeButAllowances
  <2>6. AllPaused(f, now) <=> AllPaused(eng, now)
    BY <2>3 DEF AllPaused
  <2>7. \A p \in Profile : Paused(f, p, c, now) <=> Paused(eng, p, c, now)
    BY <2>3 DEF Paused
  <2>8. \A p : p \notin Profile => ~BlockedBy(eng, p, d, now)
    BY <2>0, ProfilesBlock
  <2>9. \/ Verdict(eng, Lookups, c, d, now) = Verdict(f, Lookups, c, d, now)
        \/ /\ AllowedFor(eng, m, d, now) /\ ~AllowedFor(f, m, d, now)
           /\ Verdict(eng, Lookups, c, d, now) = "forwarded"
           /\ Verdict(f, Lookups, c, d, now) = "blocked"
        \/ ~AllowedFor(eng, m, d, now) /\ AllowedFor(f, m, d, now)
    <3> HIDE DEF m
    <3> QED  BY <2>0, <2>3, <2>5, <2>6, <2>7, <2>8, VerdictUpToAllowances DEF m
  <2> HIDE DEF m
  \* An entry that has not run out now had not run out then.
  <2>10. ASSUME NEW entries \in SUBSET Entry
         PROVE  /\ Allows(f, Live(entries, now), d, now) => Allows(eng, Live(entries, builtAt), d, now)
                /\ /\ Allows(eng, Live(entries, builtAt), d, now)
                   /\ ~Allows(f, Live(entries, now), d, now)
                   => \E x \in entries : builtAt < x.until /\ x.until <= now /\ x.domain \in Above[d]
    <3>1. \A x \in entries : x.until \in Int
      BY FilterAssumption DEF Entry, Never
    <3> QED  BY <2>0, <2>3, <3>1 DEF Allows, Live
  <2>11. /\ store.allow \in SUBSET Entry /\ store.shared.entries \in SUBSET Entry
         /\ \A p \in Profile : store.prof[p].allow \in SUBSET Entry
    BY <2>0 DEF Config, ProfileRow
  <2>12. eng.profiles \subseteq Profile
    BY <2>0 DEF Config
  <2>13. AllowedFor(f, m, d, now) => AllowedFor(eng, m, d, now)
    BY <2>3, <2>4, <2>10, <2>11, <2>12 DEF AllowedFor
  <2>14. AllowedFor(eng, m, d, now) /\ ~AllowedFor(f, m, d, now)
         => \E x \in RanOut : x.domain \in Above[d]
    <3> SUFFICES ASSUME AllowedFor(eng, m, d, now), ~AllowedFor(f, m, d, now)
                 PROVE  \E x \in RanOut : x.domain \in Above[d]
      OBVIOUS
    <3>1. CASE Allows(eng, eng.allow, d, now)
      BY <2>4, <2>10, <2>11, <3>1 DEF AllowedFor
    <3>2. CASE \E p \in m \cap eng.profiles : Allows(eng, eng.prof[p].allow, d, now)
      <4>1. PICK p \in m \cap eng.profiles : Allows(eng, eng.prof[p].allow, d, now)
        BY <3>2
      <4>2. p \in Profile /\ ~Allows(f, f.prof[p].allow, d, now)
        BY <2>3, <2>12 DEF AllowedFor
      <4>3. \E x \in store.prof[p].allow :
               builtAt < x.until /\ x.until <= now /\ x.domain \in Above[d]
        BY <2>4, <2>10, <2>11, <4>1, <4>2
      <4> QED  BY <4>2, <4>3
    <3>3. CASE m \cap eng.shared.profs # {} /\ Allows(eng, eng.shared.entries, d, now)
      BY <2>3, <2>4, <2>10, <2>11, <3>3 DEF AllowedFor
    <3> QED  BY <3>1, <3>2, <3>3 DEF AllowedFor
  <2> HIDE DEF RanOut
  <2> QED  BY <2>0, <2>1, <2>9, <2>13, <2>14 DEF Answer, Says
<1> QED  BY <1>1, TypesHold, EngineOfStore, PTL

-----------------------------------------------------------------------------
(* The tester.                                                             *)

\* A client no profile knows by its identity is matched as one without any.
LEMMA IdentityNotAsked ==
    ASSUME NEW e, NEW w, NEW c, NEW known \in BOOLEAN,
           known => /\ \A p \in e.profiles : c \notin e.prof[p].ids
                    /\ e.dev[c] # None => e.dev[c].by = "ip"
    PROVE  Matched(e, w, c, known) = Matched(e, w, c, FALSE)
<1>1. OfDevice(e, w, c, known) <=> OfDevice(e, w, c, FALSE)
  BY DEF OfDevice
<1>2. {p \in e.profiles : known /\ c \in e.prof[p].ids}
      = {p \in e.profiles : FALSE /\ c \in e.prof[p].ids}
  OBVIOUS
<1> QED  BY <1>1, <1>2 DEF Matched

\* What the tester says is what the client is answered, but for a client known by
\* its identity, a domain that SafeSearch rewrites, and a custom rule that
\* overrides an allowance (evaluateTestDomain, test_domain.go).
THEOREM TesterTellsTruth == Spec => []TesterAgrees
<1>1. TypeOK /\ OfStore => TesterAgrees
  <2> SUFFICES ASSUME TypeOK, OfStore, NEW c \in Client, NEW d \in Domain,
                      ~(/\ lease[c] # "none"
                        /\ \/ \E p \in eng.profiles : c \in eng.prof[p].ids
                           \/ eng.dev[c] # None /\ eng.dev[c].by = "id"),
                      ~(Covers(cfg.rules.block, d) /\ Covers({e.domain : e \in cfg.allow}, d)),
                      d \notin Rewritable
               PROVE  Tested(c, d) = Answer(c, d)
    BY DEF TesterAgrees
  <2> DEFINE known == lease[c] # "none"
             m == Matched(eng, wired, c, FALSE)
  <2>0. cfg \in Config /\ eng = Built(cfg, builtAt) /\ builtAt \in 0..MaxTime
    BY DEF TypeOK, OfStore
  <2>1. Matched(eng, wired, c, known) = m
    <3>1. eng.dev[c] # None => eng.dev[c].by \in {"ip", "id"}
      BY DEF TypeOK, Config, Device
    <3>2. known => /\ \A p \in eng.profiles : c \notin eng.prof[p].ids
                   /\ eng.dev[c] # None => eng.dev[c].by = "ip"
      BY <3>1
    <3>3. known \in BOOLEAN
      OBVIOUS
    <3> HIDE DEF known
    <3> QED  BY <3>2, <3>3, IdentityNotAsked
  <2> HIDE DEF m
  <2>2. ~Rewrites(eng, m, d)
    BY DEF Rewrites
  <2>3. Answer(c, d) = IF Blocks(eng, m, c, d, now) THEN "blocked" ELSE "forwarded"
    BY <2>1, <2>2 DEF Answer, Verdict, known
  <2>4. CASE \E e \in Plain(cfg.allow) : e.domain \in Above[d]
    <3>1. PICK e \in Plain(cfg.allow) : e.domain \in Above[d]
      BY <2>4
    <3>2. e \in cfg.allow /\ e.until = Never /\ e.sched = None
      BY <3>1 DEF Plain
    <3>3. builtAt < e.until
      BY <2>0, <3>2, FilterAssumption DEF Never
    <3>4. eng.allow = Live(cfg.allow, builtAt) /\ eng.rules = cfg.rules
      BY <2>0, PartsOfBuilt
    <3>5. e \in eng.allow
      BY <3>2, <3>3, <3>4 DEF Live
    <3>6. AllowedFor(eng, m, d, now)
      BY <3>1, <3>2, <3>5 DEF AllowedFor, Allows
    <3>7. Covers({x.domain : x \in cfg.allow}, d)
      BY <3>1, <3>2 DEF Covers
    <3>8. ~Covers(eng.rules.block, d)
      BY <3>4, <3>7
    <3>9. ~Blocks(eng, m, c, d, now)
      BY <3>6, <3>8 DEF Blocks
    <3> QED  BY <2>3, <2>4, <3>9 DEF Tested
  <2>5. CASE ~\E e \in Plain(cfg.allow) : e.domain \in Above[d]
    BY <2>2, <2>3, <2>5 DEF Tested, m
  <2> QED  BY <2>4, <2>5
<1> QED  BY <1>1, TypesHold, EngineOfStore, PTL

-----------------------------------------------------------------------------
(* Commands.                                                               *)

\* Only a command and a snapshot change the configuration, and they take no time.
LEMMA ConfigChanges ==
    ASSUME TypeOK, [Next]_vars, store' # store
    PROVE  /\ now' = now /\ lease' = lease /\ store' \in Config
           /\ pending' => Request
<1>1. Request \/ \E c \in Start : Restored(c)
  BY DEF Next, Swap, SwapFails, WireLease, WireDevice, Restart, BootsWithout, Boot, Tick,
         LeaseChanges, vars
<1>2. CASE Request
  <2>1. PICK c : Apply(c)
    BY <1>2, RequestApplies
  <2> QED  BY <1>2, <2>1, RequestKeepsTypes DEF Apply, TypeOK
<1>3. CASE \E c \in Start : Restored(c)
  BY <1>3, StartAssumption DEF Restored, Idle
<1> QED  BY <1>1, <1>2, <1>3

\* After a command clients are judged by what its configuration builds.
LEMMA AfterCommand ==
    ASSUME now' = now, lease' = lease, NEW c, NEW d
    PROVE  After(c, d) = Says(Built(store', now), c, d)
<1>1. \A e, known : Matched(e, Lookups, c, known)' = Matched(e', Lookups, c, known')
  BY DEF Matched, OfDevice, ByAddress, Dynamic, Lookups
<1> QED  BY <1>1 DEF After, Says, Verdict

\* To edit, pause or give allowances to one profile changes nothing for a client
\* it does not match, unless a blocklist comes to be used by no profile, or is no
\* longer so (UpdateProfile; walkOrphanBlocklists, engine.go).
THEOREM ProfileChangesStayInside == Spec => ProfileChangeStaysInside
<1> DEFINE Inside ==
        \A p \in store.profiles :
            /\ store' # store /\ store' = [store EXCEPT !.prof[p] = store'.prof[p]]
            /\ SameSelectors(p)
            => \A c \in Client, d \in Domain :
                  \/ p \in Matched(store, Lookups, c, lease[c] # "none")
                  \/ Before(c, d) = After(c, d)
                  \/ \E l \in List : /\ l \in Orphans(store) <=> l \notin Orphans(store')
                                    /\ d \in Domain /\ Covers(Holds[l], d)
<1>1. TypeOK /\ [Next]_vars => Inside
  <2> SUFFICES ASSUME TypeOK, [Next]_vars, NEW p \in store.profiles, NEW c \in Client, NEW d \in Domain,
                      store' # store, store' = [store EXCEPT !.prof[p] = store'.prof[p]],
                      SameSelectors(p),
                      p \notin Matched(store, Lookups, c, lease[c] # "none"),
                      \A l \in List : (l \in Orphans(store) <=> l \notin Orphans(store'))
                                     => ~Covers(Holds[l], d)
               PROVE  Before(c, d) = After(c, d)
    OBVIOUS
  <2> DEFINE known == lease[c] # "none"
             m == Matched(store, Lookups, c, known)
             e == Built(store, now)
             f == Built(store', now)
  <2>0. /\ store \in Config /\ store' \in Config /\ p \in Profile
        /\ now' = now /\ lease' = lease
    BY ConfigChanges DEF TypeOK, Config
  <2>1. /\ store'.lists = store.lists /\ store'.allow = store.allow /\ store'.rules = store.rules
        /\ store'.profiles = store.profiles /\ store'.shared = store.shared
        /\ store'.scheds = store.scheds /\ store'.binds = store.binds
        /\ store'.gpause = store.gpause /\ store'.dev = store.dev
        /\ \A q \in Profile \ {p} : store'.prof[q] = store.prof[q]
    BY <2>0 DEF Config
  <2>2. /\ e \in Config /\ f \in Config
        /\ e.lists = store.lists /\ e.rules = store.rules /\ e.profiles = store.profiles
        /\ e.scheds = store.scheds /\ e.binds = store.binds /\ e.gpause = store.gpause
        /\ e.dev = store.dev
        /\ \A q \in Profile : /\ e.prof[q].lists = store.prof[q].lists
                              /\ e.prof[q].ips = store.prof[q].ips
                              /\ e.prof[q].ids = store.prof[q].ids
                              /\ e.prof[q].dyn = store.prof[q].dyn
                              /\ f.prof[q].lists = store'.prof[q].lists
    BY <2>0, PartsOfBuilt
  <2>3. /\ f.lists = e.lists /\ f.allow = e.allow /\ f.rules = e.rules
        /\ f.profiles = e.profiles /\ f.scheds = e.scheds /\ f.binds = e.binds
        /\ f.gpause = e.gpause /\ f.dev = e.dev
        /\ f.shared.profs = e.shared.profs /\ f.shared.entries = e.shared.entries
    BY <2>0, <2>1, PartsOfBuilt
  <2>4. \A q \in Profile \ {p} :
            /\ f.prof[q].lists = e.prof[q].lists /\ f.prof[q].allow = e.prof[q].allow
            /\ f.prof[q].ips = e.prof[q].ips /\ f.prof[q].ids = e.prof[q].ids
            /\ f.prof[q].dyn = e.prof[q].dyn /\ f.prof[q].safe = e.prof[q].safe
            /\ f.prof[q].pause = e.prof[q].pause
    BY <2>0, <2>1, SameRowBuilt
  <2>5. /\ f.prof[p].ips = e.prof[p].ips /\ f.prof[p].ids = e.prof[p].ids
        /\ f.prof[p].dyn = e.prof[p].dyn
    BY <2>0, PartsOfBuilt DEF SameSelectors
  <2> HIDE DEF e, f
  <2>6. Matched(e, Lookups, c, known) = m /\ Matched(f, Lookups, c, known) = m
    <3>1. known \in BOOLEAN
      OBVIOUS
    <3> HIDE DEF known
    <3>2. Matched(e, Lookups, c, known) = Matched(store, Lookups, c, known)
      BY <2>0, <2>2, <3>1, MatchedDependsOn
    <3>3. Matched(f, Lookups, c, known) = Matched(e, Lookups, c, known)
      <4>1. \A q \in Profile : /\ f.prof[q].ips = e.prof[q].ips
                               /\ f.prof[q].ids = e.prof[q].ids
                               /\ f.prof[q].dyn = e.prof[q].dyn
        BY <2>4, <2>5
      <4> QED  BY <2>2, <2>3, <3>1, <4>1, MatchedDependsOn
    <3> QED  BY <3>2, <3>3
  <2>7. p \notin m
    OBVIOUS
  <2> HIDE DEF m
  <2>8. e.profiles \subseteq Profile /\ e.lists \subseteq List
    BY <2>2 DEF Config
  <2>9. Rewrites(f, m, d) <=> Rewrites(e, m, d)
    BY <2>3, <2>4, <2>7, <2>8 DEF Rewrites
  <2>10. AllowedFor(f, m, d, now) <=> AllowedFor(e, m, d, now)
    <3>1. \A x : Allows(f, x, d, now) <=> Allows(e, x, d, now)
      BY <2>3 DEF Allows
    <3> QED  BY <2>3, <2>4, <2>7, <2>8, <3>1 DEF AllowedFor
  <2>11. \A l : Hit(f, l, d) <=> Hit(e, l, d)
    BY <2>3 DEF Hit
  <2>12. \A q \in m : /\ Paused(f, q, c, now) <=> Paused(e, q, c, now)
                      /\ BlockedBy(f, q, d, now) <=> BlockedBy(e, q, d, now)
    <3>1. \A q, l : Suppressed(f, q, l, now) <=> Suppressed(e, q, l, now)
      BY <2>3 DEF Suppressed
    <3>2. \A q \in m : q # p
      BY <2>7
    <3>3. ASSUME NEW q \in m PROVE Paused(f, q, c, now) <=> Paused(e, q, c, now)
      BY <2>3, <2>4, <2>8, <3>2 DEF Paused
    <3>4. ASSUME NEW q \in m PROVE BlockedBy(f, q, d, now) <=> BlockedBy(e, q, d, now)
      BY <2>3, <2>4, <2>8, <2>11, <3>1, <3>2 DEF BlockedBy
    <3> QED  BY <3>3, <3>4
  <2>13. (\E l \in Orphans(f) : Hit(f, l, d)) <=> (\E l \in Orphans(e) : Hit(e, l, d))
    <3>1. Orphans(e) = Orphans(store)
      BY <2>0, <2>2, VerdictParts
    <3>2. Orphans(f) = Orphans(store')
      <4>1. /\ store'.lists = f.lists /\ store'.profiles = f.profiles
            /\ store'.scheds = f.scheds /\ store'.binds = f.binds
        BY <2>1, <2>2, <2>3
      <4> QED  BY <2>0, <2>2, <4>1, VerdictParts
    <3>3. Orphans(e) \subseteq List /\ Orphans(f) \subseteq List
      BY <2>3, <2>8 DEF Orphans
    <3>4. \A l : Hit(e, l, d) => Covers(Holds[l], d)
      BY DEF Hit
    <3> QED  BY <2>11, <3>1, <3>2, <3>3, <3>4
  <2>14. Blocks(f, m, c, d, now) <=> Blocks(e, m, c, d, now)
    <3>1. AllPaused(f, now) <=> AllPaused(e, now)
      BY <2>3 DEF AllPaused
    <3> QED  BY <2>3, <2>10, <2>12, <2>13, <3>1 DEF Blocks
  <2>15. Says(e, c, d) = Says(f, c, d)
    BY <2>6, <2>9, <2>14 DEF Says, Verdict, known
  <2> QED  BY <2>0, <2>15, AfterCommand DEF Before, e, f
<1>2. TypeOK /\ [Next]_vars => [Inside]_vars
  BY <1>1
<1> QED  BY <1>2, TypesHold, PTL DEF Spec, ProfileChangeStaysInside

\* A request that touches the schedules or their bindings is one of four.
LEMMA OtherRequests ==
    ASSUME TypeOK, Request
    PROVE  \/ store'.scheds = store.scheds /\ store'.binds \subseteq store.binds
           \/ \E s \in Sched : PutSchedule(s) \/ DeleteSchedule(s)
           \/ \E b \in Binding : Bind(b)
<1> DEFINE Alike(c) == c.scheds = store.scheds /\ c.binds \subseteq store.binds
<1>0. store \in Config
  BY DEF TypeOK
<1>1. ASSUME NEW c, Apply(c), Alike(c)
      PROVE  store'.scheds = store.scheds /\ store'.binds \subseteq store.binds
  BY <1>1 DEF Apply
<1>2. \A c \in Config : Saved(c).scheds = c.scheds /\ Saved(c).binds = c.binds
  BY DEF Saved, Config
<1>3. ASSUME NEW p \in Profile, ProfileRequest(p) PROVE \E c : Apply(c) /\ Alike(c)
  <2>1. \A ps, row : Alike([store EXCEPT !.profiles = ps, !.prof[p] = row])
    BY <1>0 DEF Config
  <2>2. \A x : /\ Alike([store EXCEPT !.prof[p] = x]) /\ Alike([store EXCEPT !.prof[p].pause = x])
               /\ Alike([store EXCEPT !.prof[p].allow = x])
    BY <1>0 DEF Config
  <2> HIDE DEF Alike
  <2>3. ASSUME NEW row, CreateProfile(p, row) PROVE \E c : Apply(c) /\ Alike(c)
    BY <2>1, <2>3 DEF CreateProfile
  <2>4. ASSUME NEW row, UpdateProfile(p, row) PROVE \E c : Apply(c) /\ Alike(c)
    BY <2>1, <2>4 DEF UpdateProfile, Upsert
  <2>5. CASE DeleteProfile(p)
    BY <2>1, <2>5 DEF DeleteProfile
  <2>6. CASE ResumeProfile(p)
    BY <2>2, <2>6 DEF ResumeProfile
  <2>7. ASSUME NEW e, AddProfileAllowance(p, e) \/ RemoveProfileAllowance(p, e)
        PROVE  \E c : Apply(c) /\ Alike(c)
    BY <2>1, <2>7 DEF AddProfileAllowance, RemoveProfileAllowance, Upsert
  <2>8. ASSUME NEW u, NEW cs, PauseProfile(p, u, cs) PROVE \E c : Apply(c) /\ Alike(c)
    BY <2>2, <2>8 DEF PauseProfile
  <2> QED
    BY <1>3, <2>3, <2>4, <2>5, <2>6, <2>7, <2>8 DEF ProfileRequest, UpdateSome
<1>4. ASSUME NEW l \in List, ToggleList(l) PROVE \E c : Apply(c) /\ Alike(c)
  <2> DEFINE c == [store EXCEPT !.lists = IF l \in @ THEN @ \ {l} ELSE @ \cup {l}]
  <2>1. c \in Config /\ c.scheds = store.scheds /\ c.binds = store.binds
    BY <1>0 DEF Config
  <2> QED  BY <1>2, <1>4, <2>1 DEF ToggleList
<1>5. ASSUME NEW d \in Domain, RemoveAllowance(d) PROVE \E c : Apply(c) /\ Alike(c)
  <2> DEFINE kept == {x \in store.allow : x.domain # d}
             c == [store EXCEPT !.allow = kept]
  <2>1. kept \in SUBSET Entry
    BY <1>0 DEF Config
  <2>2. c \in Config /\ c.scheds = store.scheds /\ c.binds = store.binds
    <3> HIDE DEF kept
    <3> QED  BY <1>0, <2>1 DEF Config
  <2>3. Apply(Saved(c))
    BY <1>5 DEF RemoveAllowance
  <2> HIDE DEF c
  <2> QED  BY <1>2, <2>2, <2>3
<1>6. \A x : /\ Alike([store EXCEPT !.allow = x]) /\ Alike([store EXCEPT !.rules = x])
             /\ Alike([store EXCEPT !.gpause = x]) /\ Alike([store EXCEPT !.shared = x])
  BY <1>0 DEF Config
<1>7. \A c, x : Alike([store EXCEPT !.dev[c] = x])
  BY <1>0 DEF Config
<1>8. \A ps, x : Alike([store EXCEPT !.profiles = ps, !.prof[Default] = x])
  BY <1>0 DEF Config
<1>9. \A b : Alike([store EXCEPT !.binds = @ \ {b}])
  BY <1>0 DEF Config
<1> HIDE DEF Alike
<1>10. ASSUME NEW e, AddAllowance(e) PROVE \E c : Apply(c) /\ Alike(c)
  BY <1>6, <1>10 DEF AddAllowance
<1>11. ASSUME NEW r, SetRules(r) PROVE \E c : Apply(c) /\ Alike(c)
  BY <1>6, <1>11 DEF SetRules
<1>12. ASSUME EnsureDefault PROVE \E c : Apply(c) /\ Alike(c)
  BY <1>8, <1>12 DEF EnsureDefault
<1>13. ASSUME ResumeAll PROVE \E c : Apply(c) /\ Alike(c)
  BY <1>6, <1>13 DEF ResumeAll
<1>14. ASSUME NEW u, NEW ps, PauseAll(u, ps) PROVE \E c : Apply(c) /\ Alike(c)
  BY <1>6, <1>14 DEF PauseAll
<1>15. ASSUME NEW b, Unbind(b) PROVE \E c : Apply(c) /\ Alike(c)
  BY <1>9, <1>15 DEF Unbind
<1>16. ASSUME NEW x, PutShared(x) PROVE \E c : Apply(c) /\ Alike(c)
  BY <1>6, <1>16 DEF PutShared
<1>17. ASSUME NEW c, DeleteDevice(c) \/ \E d \in Device : PutDevice(c, d)
       PROVE  \E h : Apply(h) /\ Alike(h)
  BY <1>7, <1>17 DEF DeleteDevice, PutDevice
<1>18. \/ \E c : Apply(c) /\ Alike(c)
       \/ \E s \in Sched : PutSchedule(s) \/ DeleteSchedule(s)
       \/ \E b \in Binding : Bind(b)
  BY <1>3, <1>4, <1>5, <1>10, <1>11, <1>12, <1>13, <1>14, <1>15, <1>16, <1>17 DEF Request
<1> QED  BY <1>1, <1>18

\* A change of schedules and bindings alone, which suspends no further list and
\* makes no further allowance count, opens nothing.
LEMMA NothingOpens ==
    ASSUME TypeOK, [Next]_vars, store' # store,
           /\ store'.lists = store.lists /\ store'.allow = store.allow /\ store'.rules = store.rules
           /\ store'.profiles = store.profiles /\ store'.shared = store.shared
           /\ store'.gpause = store.gpause /\ store'.dev = store.dev /\ store'.prof = store.prof,
           store'.scheds \subseteq store.scheds,
           \A p, l : Suppressed(store', p, l, now) => Suppressed(store, p, l, now)
    PROVE  OpensNothing
<1> SUFFICES ASSUME NEW c \in Client, NEW d \in Domain, Before(c, d) = "blocked"
             PROVE  After(c, d) = "blocked"
  BY DEF OpensNothing
<1> DEFINE known == lease[c] # "none"
           e == Built(store, now)
           f == Built(store', now)
           m == Matched(e, Lookups, c, known)
<1>0. store \in Config /\ store' \in Config /\ now' = now /\ lease' = lease
  BY ConfigChanges DEF TypeOK
<1>1. /\ e \in Config /\ f \in Config
      /\ f.lists = e.lists /\ f.rules = e.rules /\ f.profiles = e.profiles
      /\ f.gpause = e.gpause /\ f.dev = e.dev /\ f.allow = e.allow
      /\ f.shared.profs = e.shared.profs /\ f.shared.entries = e.shared.entries
      /\ e.scheds = store.scheds /\ f.scheds = store'.scheds
      /\ e.binds = store.binds /\ f.binds = store'.binds
  BY <1>0, PartsOfBuilt
<1>2. \A q \in Profile :
          /\ f.prof[q].lists = e.prof[q].lists /\ f.prof[q].allow = e.prof[q].allow
          /\ f.prof[q].ips = e.prof[q].ips /\ f.prof[q].ids = e.prof[q].ids
          /\ f.prof[q].dyn = e.prof[q].dyn /\ f.prof[q].safe = e.prof[q].safe
          /\ f.prof[q].pause = e.prof[q].pause
  BY <1>0, SameRowBuilt
<1> HIDE DEF e, f
<1>3. Matched(f, Lookups, c, known) = m
  <2>1. known \in BOOLEAN
    OBVIOUS
  <2> HIDE DEF known
  <2> QED  BY <1>1, <1>2, <2>1, MatchedDependsOn
<1> HIDE DEF m
<1>4. e.profiles \subseteq Profile
  BY <1>1 DEF Config
<1>5. Rewrites(f, m, d) <=> Rewrites(e, m, d)
  BY <1>1, <1>2, <1>4 DEF Rewrites
<1>6. AllowedFor(f, m, d, now) => AllowedFor(e, m, d, now)
  <2>1. \A x : Allows(f, x, d, now) => Allows(e, x, d, now)
    BY <1>1 DEF Allows
  <2> QED  BY <1>1, <1>2, <1>4, <2>1 DEF AllowedFor
<1>7. \A l : Hit(f, l, d) <=> Hit(e, l, d)
  BY <1>1 DEF Hit
<1>8. \A q, l : Suppressed(f, q, l, now) => Suppressed(e, q, l, now)
  <2>1. \A q, l : Suppressed(f, q, l, now) <=> Suppressed(store', q, l, now)
    BY <1>1 DEF Suppressed
  <2>2. \A q, l : Suppressed(e, q, l, now) <=> Suppressed(store, q, l, now)
    BY <1>1 DEF Suppressed
  <2> QED  BY <2>1, <2>2
<1>9. ASSUME NEW q, BlockedBy(e, q, d, now) PROVE BlockedBy(f, q, d, now)
  BY <1>1, <1>2, <1>4, <1>7, <1>8, <1>9 DEF BlockedBy
<1>10. \A q : Paused(f, q, c, now) <=> Paused(e, q, c, now)
  BY <1>1, <1>2, <1>4 DEF Paused
<1>11. Orphans(f) = Orphans(e)
  BY <1>1, <1>2, <1>4 DEF Orphans
<1>12. AllPaused(f, now) <=> AllPaused(e, now)
  BY <1>1 DEF AllPaused
<1>13. ~Rewrites(e, m, d) /\ Blocks(e, m, c, d, now)
  BY DEF Before, Says, Verdict, e, m, known
<1>14. Blocks(f, m, c, d, now)
  BY <1>1, <1>6, <1>7, <1>9, <1>10, <1>11, <1>12, <1>13 DEF Blocks
<1>15. Says(f, c, d) = "blocked"
  BY <1>3, <1>5, <1>13, <1>14 DEF Says, Verdict, known
<1> QED  BY <1>0, <1>15, AfterCommand DEF f

\* To delete a schedule opens nothing unless the binding of another one suspends a
\* list, and to bind a list that is bound already opens nothing: the strictest
\* binding counts (DeleteSchedule, checkScheduledAllowlist, EvaluateSchedules).
THEOREM SchedulesAreStrict == Spec => SchedulesFailClosed
<1> DEFINE Deletes ==
        \A s \in store.scheds :
            /\ pending' /\ store'.scheds = store.scheds \ {s}
            /\ \A b \in store'.binds : b.sched \notin store'.scheds
            => OpensNothing
           Binds ==
        \A b \in store'.binds \ store.binds :
            /\ pending'
            /\ \E x \in store.binds : /\ x.prof = b.prof /\ x.list = b.list
                                     /\ x.sched \in store.scheds
            => OpensNothing
<1>1. TypeOK /\ [Next]_vars => Deletes
  <2> SUFFICES ASSUME TypeOK, [Next]_vars, NEW s \in store.scheds,
                      pending', store'.scheds = store.scheds \ {s},
                      \A b \in store'.binds : b.sched \notin store'.scheds
               PROVE  OpensNothing
    OBVIOUS
  <2>0. store \in Config /\ store' # store
    BY DEF TypeOK
  <2>1. Request
    BY <2>0, ConfigChanges
  <2>2. \A b \in Binding : ~Bind(b)
    BY <2>0 DEF Bind, Apply, Config
  <2>3. \A r \in Sched : ~PutSchedule(r)
    BY <2>0 DEF PutSchedule, Apply, Config
  <2>4. PICK r \in Sched : DeleteSchedule(r)
    BY <2>1, <2>2, <2>3, OtherRequests
  <2>5. store' = [store EXCEPT !.scheds = @ \ {r}, !.binds = {b \in @ : b.sched # r}]
    BY <2>4 DEF DeleteSchedule, Apply
  <2>6. /\ store'.lists = store.lists /\ store'.allow = store.allow /\ store'.rules = store.rules
        /\ store'.profiles = store.profiles /\ store'.shared = store.shared
        /\ store'.gpause = store.gpause /\ store'.dev = store.dev /\ store'.prof = store.prof
    BY <2>0, <2>5 DEF Config
  <2>7. \A p, l : ~Suppressed(store', p, l, now)
    BY DEF Suppressed
  <2> QED  BY <2>0, <2>6, <2>7, NothingOpens
<1>2. TypeOK /\ [Next]_vars => Binds
  <2> SUFFICES ASSUME TypeOK, [Next]_vars, NEW b \in store'.binds \ store.binds, pending',
                      NEW x \in store.binds, x.prof = b.prof, x.list = b.list,
                      x.sched \in store.scheds
               PROVE  OpensNothing
    OBVIOUS
  <2>0. store \in Config /\ store' # store
    BY DEF TypeOK
  <2>1. Request
    BY <2>0, ConfigChanges
  <2>2. ASSUME NEW s \in Sched, PutSchedule(s) \/ DeleteSchedule(s) PROVE FALSE
    <3>1. CASE PutSchedule(s)
      <4>1. store' = [store EXCEPT !.scheds = @ \cup {s}]
        BY <3>1 DEF PutSchedule, Apply
      <4>2. store'.binds = store.binds
        BY <2>0, <4>1 DEF Config
      <4> QED  BY <4>2
    <3>2. CASE DeleteSchedule(s)
      <4>1. store' = [store EXCEPT !.scheds = @ \ {s}, !.binds = {y \in @ : y.sched # s}]
        BY <3>2 DEF DeleteSchedule, Apply
      <4>2. store'.binds = {y \in store.binds : y.sched # s}
        BY <2>0, <4>1 DEF Config
      <4> QED  BY <4>2
    <3> QED  BY <2>2, <3>1, <3>2
  <2>3. PICK n \in Binding : Bind(n)
    BY <2>1, <2>2, OtherRequests
  <2>4. store' = [store EXCEPT !.binds = @ \cup {n}]
    BY <2>3 DEF Bind, Apply
  <2>5. /\ store'.lists = store.lists /\ store'.allow = store.allow /\ store'.rules = store.rules
        /\ store'.profiles = store.profiles /\ store'.shared = store.shared
        /\ store'.gpause = store.gpause /\ store'.dev = store.dev /\ store'.prof = store.prof
        /\ store'.scheds = store.scheds /\ store'.binds = store.binds \cup {b}
    BY <2>0, <2>4 DEF Config
  <2>6. ASSUME NEW p, NEW l, Suppressed(store', p, l, now) PROVE Suppressed(store, p, l, now)
    <3> DEFINE old == {y \in store.binds : y.prof = p /\ y.list = l /\ y.sched \in store.scheds}
               new == {y \in store'.binds : y.prof = p /\ y.list = l /\ y.sched \in store'.scheds}
    <3>1. old \subseteq new /\ new \subseteq old \cup {b}
      BY <2>5
    <3>2. b \in new => x \in old
      OBVIOUS
    <3>3. new # {} /\ \A y \in new : (y.sched \in AllowInside) = (now \in Window[y.sched])
      BY <2>6 DEF Suppressed
    <3>4. old # {}
      BY <3>1, <3>2, <3>3
    <3> QED  BY <3>1, <3>3, <3>4 DEF Suppressed
  <2> QED  BY <2>0, <2>5, <2>6, NothingOpens
<1>3. TypeOK /\ [Next]_vars => [Deletes /\ Binds]_vars
  BY <1>1, <1>2
<1> QED  BY <1>3, TypesHold, PTL DEF Spec, SchedulesFailClosed

=============================================================================
