--------------------------- MODULE EventExtension ---------------------------
(***************************************************************************)
(* The browser extension: one stream of server-sent events from a node,    *)
(* the badge, the list of recent events and the notifications.  Chrome     *)
(* runs it as a service worker that may be stopped at any moment and is    *)
(* woken by an alarm or a message (extension/background/service-worker.js);*)
(* Firefox runs a background page (extension/background/background.js).    *)
(* The scripts are single-threaded: what lies between two callbacks is one *)
(* step.  Back-off delays are time and left out: a timer fires some time.  *)
(***************************************************************************)
EXTENDS Naturals, Sequences, FiniteSets, SequencesExt

CONSTANTS
    Browsers,     \* the flavours to look at, a subset of {"chrome", "firefox"}
    Conn,         \* connections that may exist at the same time
    None,         \* no connection (a null controller)
    Key,          \* pairs of URL and API token that were ever saved
    GoodKey,      \* the pairs the node accepts
    Keep,         \* length of the list of recent events (10)
    Buffer,       \* events the node buffers for a slow client (32)
    MaxEvents, MaxSaves, MaxDrops, MaxStops, MaxTimers   \* bounds

ASSUME ExtensionAssumption ==
    /\ Browsers \subseteq {"chrome", "firefox"}
    /\ IsFiniteSet(Conn) /\ GoodKey \subseteq Key /\ None \notin Conn \cup Key
    /\ {Keep, Buffer} \subseteq Nat \ {0}
    /\ {MaxEvents, MaxSaves, MaxDrops, MaxStops, MaxTimers} \subseteq Nat

VARIABLES
    browser,    \* which of the two scripts runs
    key,        \* storage: skoed_url and api_token, None if one is missing
    chosen,     \* storage: whether notify_events is there
    recent,     \* storage: recent_events, newest first
    awake,      \* whether the script is running
    opening,    \* openConnection calls that wait for the settings
    timers,     \* reconnect timers that will fire
    current,    \* controller / evtSource: a connection, "spent", or None
    conn,       \* the fetches: state, events on the way to the reader
    storing,    \* storeRecentEvent calls under way
    notified,   \* events a notification was decided for
    badge,      \* what the toolbar shows
    node,       \* whether the node can be reached
    events, saves, drops, stops     \* counters of the bounds

vars == <<browser, key, chosen, recent, awake, opening, timers, current, conn,
          storing, notified, badge, node, events, saves, drops, stops>>
counters == <<events, saves, drops, stops>>
storage == <<key, chosen, recent>>

NoConn == [st |-> "none", key |-> None, queue |-> << >>]
NewConn(k) == [st |-> "fetching", key |-> k, queue |-> << >>]
In(st) == {c \in Conn : conn[c].st = st}
Live == In("fetching") \cup In("open")
Free == In("none")

Connection == [st : {"none", "fetching", "open", "aborting"}, key : Key \cup {None},
               queue : Seq(1..MaxEvents)]
Storing == [event : 1..MaxEvents, from : Conn, seen : Seq(1..MaxEvents) \cup {<<None>>}]

TypeOK ==
    /\ browser \in Browsers
    /\ key \in Key \cup {None} /\ chosen \in BOOLEAN /\ awake \in BOOLEAN
    /\ recent \in Seq(1..MaxEvents) /\ Len(recent) <= Keep
    /\ opening \in Nat /\ timers \in 0..MaxTimers
    /\ current \in Conn \cup {None, "spent"}
    /\ conn \in [Conn -> Connection]
    /\ \A c \in Conn : Len(conn[c].queue) <= Buffer
    /\ storing \subseteq Storing
    /\ notified \subseteq 1..MaxEvents
    /\ badge \in {"connected", "disconnected", "unconfigured"}
    /\ node \in BOOLEAN
    /\ events \in 0..MaxEvents /\ saves \in 0..MaxSaves
    /\ drops \in 0..MaxDrops /\ stops \in 0..MaxStops

\* The browser has started or the extension was updated, or both: onStartup
\* and onInstalled each call openConnection.
Init ==
    /\ browser \in Browsers
    /\ \/ key = None /\ chosen \in BOOLEAN
       \/ key \in Key /\ chosen = TRUE
    /\ recent = << >> /\ awake = TRUE
    /\ opening \in 1..2 /\ timers = 0 /\ current = None
    /\ conn = [c \in Conn |-> NoConn]
    /\ storing = {} /\ notified = {}
    /\ badge = "unconfigured" /\ node = TRUE
    /\ events = 0 /\ saves = 0 /\ drops = 0 /\ stops = 0

\* scheduleReconnect: every call of Chrome's adds a timer, Firefox keeps one.
Reconnects(n) == IF browser = "chrome" THEN n + 1 ELSE 1

\* What became of the controller that conn c was opened with.
Over(c) == IF current = c THEN "spent" ELSE current

-----------------------------------------------------------------------------
(* openConnection                                                          *)

\* mutant: the connection before is not aborted.
ChromeOpensBeside ==
    /\ browser = "chrome" /\ awake /\ opening > 0 /\ key # None
    /\ \E c \in Free :
          /\ c = CHOOSE d \in Free : TRUE
          /\ conn' = [conn EXCEPT ![c] = NewConn(key)]
          /\ current' = c
    /\ opening' = opening - 1
    /\ badge' = "disconnected"
    /\ UNCHANGED <<browser, storage, awake, timers, storing, notified, node, counters>>

\* The callback of storage.get: without settings the badge says so and what
\* is open stays open; Chrome aborts the connection before, Firefox does not.
ChromeOpens ==
    /\ browser = "chrome" /\ awake /\ opening > 0 /\ key # None
    /\ \E c \in Free :
          /\ c = CHOOSE d \in Free : TRUE
          /\ conn' = [d \in Conn |->
                        IF d = c THEN NewConn(key)
                        ELSE IF d = current /\ d \in Live
                        THEN [conn[d] EXCEPT !.st = "aborting"] ELSE conn[d]]
          /\ current' = c
    /\ opening' = opening - 1
    /\ badge' = "disconnected"
    /\ UNCHANGED <<browser, storage, awake, timers, storing, notified, node, counters>>

\* mutant: what the script holds is aborted first.
FirefoxOpensAlone ==
    /\ browser = "firefox" /\ opening > 0 /\ key # None
    /\ \E c \in Free :
          /\ c = CHOOSE d \in Free : TRUE
          /\ conn' = [d \in Conn |->
                        IF d = c THEN NewConn(key)
                        ELSE IF d = current /\ d \in Live
                        THEN [conn[d] EXCEPT !.st = "aborting"] ELSE conn[d]]
          /\ current' = c
    /\ opening' = opening - 1
    /\ badge' = "disconnected"
    /\ UNCHANGED <<browser, storage, awake, timers, storing, notified, node, counters>>

FirefoxOpens ==
    /\ browser = "firefox" /\ opening > 0 /\ key # None
    /\ \E c \in Free :
          /\ c = CHOOSE d \in Free : TRUE
          /\ conn' = [conn EXCEPT ![c] = NewConn(key)]
          /\ current' = c
    /\ opening' = opening - 1
    /\ badge' = "disconnected"
    /\ UNCHANGED <<browser, storage, awake, timers, storing, notified, node, counters>>

FindsNoSettings ==
    /\ awake /\ opening > 0 /\ key = None
    /\ opening' = opening - 1
    /\ badge' = "unconfigured"
    /\ UNCHANGED <<browser, storage, awake, timers, current, conn, storing, notified,
                   node, counters>>

\* The node answers the request with a stream.
Connects(c) ==
    /\ conn[c].st = "fetching" /\ node /\ conn[c].key \in GoodKey
    /\ conn' = [conn EXCEPT ![c].st = "open"]
    /\ badge' = "connected"
    /\ UNCHANGED <<browser, storage, awake, opening, timers, current, storing,
                   notified, node, counters>>

\* mutant: a refusal by the node is not tried again.
EndsForGood(c) ==
    /\ \/ conn[c].st = "fetching" /\ (~node \/ conn[c].key \notin GoodKey)
       \/ conn[c].st = "open" /\ ~node
       \/ conn[c].st = "aborting"
    /\ conn' = [conn EXCEPT ![c] = NoConn]
    /\ current' = Over(c)
    /\ timers' = IF conn[c].st = "fetching" /\ node THEN timers ELSE Reconnects(timers)
    /\ timers' <= MaxTimers
    /\ badge' = IF conn[c].st = "fetching" /\ node THEN badge ELSE "disconnected"
    /\ UNCHANGED <<browser, storage, awake, opening, storing, notified, node, counters>>

\* mutant: only a fetch that fails is tried again, not a stream that ends.
EndsQuietly(c) ==
    /\ \/ conn[c].st = "fetching" /\ (~node \/ conn[c].key \notin GoodKey)
       \/ conn[c].st = "open" /\ ~node
       \/ conn[c].st = "aborting"
    /\ conn' = [conn EXCEPT ![c] = NoConn]
    /\ current' = Over(c)
    /\ timers' = IF conn[c].st = "open" THEN timers ELSE Reconnects(timers)
    /\ timers' <= MaxTimers
    /\ badge' = IF conn[c].st = "fetching" /\ node THEN badge ELSE "disconnected"
    /\ UNCHANGED <<browser, storage, awake, opening, storing, notified, node, counters>>

\* The node refuses (the badge stays), cannot be reached, ends the stream, or
\* the fetch was aborted: each of them schedules a reconnect.
Ends(c) ==
    /\ \/ conn[c].st = "fetching" /\ (~node \/ conn[c].key \notin GoodKey)
       \/ conn[c].st = "open" /\ ~node
       \/ conn[c].st = "aborting"
    /\ conn' = [conn EXCEPT ![c] = NoConn]
    /\ current' = Over(c)
    /\ timers' = Reconnects(timers)
    /\ timers' <= MaxTimers
    /\ badge' = IF conn[c].st = "fetching" /\ node THEN badge ELSE "disconnected"
    /\ UNCHANGED <<browser, storage, awake, opening, storing, notified, node, counters>>

TimerFires ==
    /\ timers > 0
    /\ timers' = timers - 1 /\ opening' = opening + 1
    /\ UNCHANGED <<browser, storage, awake, current, conn, storing, notified, badge,
                   node, counters>>

-----------------------------------------------------------------------------
(* Events                                                                  *)

\* Broadcaster.Publish: a client whose buffer is full misses the event.
Publish ==
    /\ node /\ events < MaxEvents
    /\ events' = events + 1
    /\ conn' = [c \in Conn |->
                  IF conn[c].st = "open" /\ Len(conn[c].queue) < Buffer
                  THEN [conn[c] EXCEPT !.queue = Append(@, events + 1)] ELSE conn[c]]
    /\ UNCHANGED <<browser, storage, awake, opening, timers, current, storing,
                   notified, badge, node, saves, drops, stops>>

\* pump reads a chunk: storeRecentEvent and notify for each event in it.
Reads(c) ==
    /\ conn[c].st = "open"
    /\ \E n \in 1..Len(conn[c].queue) :
          LET chunk == ToSet(SubSeq(conn[c].queue, 1, n)) IN
          /\ conn' = [conn EXCEPT ![c].queue = SubSeq(@, n + 1, Len(@))]
          /\ storing' = storing \cup
                [event : chunk, from : {c}, seen : {<<None>>}]
          /\ notified' = IF chosen THEN notified \cup chunk ELSE notified
    /\ UNCHANGED <<browser, storage, awake, opening, timers, current, badge, node, counters>>

\* storeRecentEvent reads the list, and in the callback writes it back with
\* the event in front: what another call wrote in between is lost.
SeesRecent(s) ==
    /\ s \in storing /\ s.seen = <<None>>
    /\ storing' = (storing \ {s}) \cup {[s EXCEPT !.seen = recent]}
    /\ UNCHANGED <<browser, storage, awake, opening, timers, current, conn, notified,
                   badge, node, counters>>

\* mutant: the list is not cut.
StoresRecentAll(s) ==
    /\ s \in storing /\ s.seen # <<None>>
    /\ recent' = <<s.event>> \o s.seen
    /\ storing' = storing \ {s}
    /\ UNCHANGED <<browser, key, chosen, awake, opening, timers, current, conn, notified,
                   badge, node, counters>>

StoresRecent(s) ==
    /\ s \in storing /\ s.seen # <<None>>
    /\ LET all == <<s.event>> \o s.seen IN
          recent' = SubSeq(all, 1, IF Len(all) > Keep THEN Keep ELSE Len(all))
    /\ storing' = storing \ {s}
    /\ UNCHANGED <<browser, key, chosen, awake, opening, timers, current, conn, notified,
                   badge, node, counters>>

-----------------------------------------------------------------------------
(* The popup, the browser, the network                                     *)

\* The popup saves the settings, perhaps without a token, with the boxes it shows,
\* and sends a message, which wakes a stopped worker.
Saves(k) ==
    /\ saves < MaxSaves
    /\ saves' = saves + 1
    /\ key' = k /\ chosen' = TRUE

ChromeSaves ==
    /\ browser = "chrome"
    /\ \E k \in Key \cup {None} : Saves(k)
    /\ awake' = TRUE /\ opening' = opening + 1
    /\ UNCHANGED <<browser, recent, timers, current, conn, storing, notified, badge,
                   node, events, drops, stops>>

\* Firefox closes first: the connection it knows of and the timer.
FirefoxSaves ==
    /\ browser = "firefox"
    /\ \E k \in Key \cup {None} : Saves(k)
    /\ conn' = [c \in Conn |-> IF c = current /\ c \in Live
                               THEN [conn[c] EXCEPT !.st = "aborting"] ELSE conn[c]]
    /\ current' = None /\ timers' = 0 /\ opening' = opening + 1
    /\ UNCHANGED <<browser, recent, awake, storing, notified, badge, node, events,
                   drops, stops>>

\* Chrome stops the worker: callbacks, timers and connections are gone, the
\* storage and the badge stay.
WorkerStops ==
    /\ browser = "chrome" /\ awake /\ stops < MaxStops
    /\ stops' = stops + 1
    /\ awake' = FALSE /\ opening' = 0 /\ timers' = 0 /\ current' = None
    /\ conn' = [c \in Conn |-> NoConn] /\ storing' = {}
    /\ UNCHANGED <<browser, storage, notified, badge, node, events, saves, drops>>

\* The alarm starts a stopped worker, whose script begins with a null
\* controller; in a running one that ever connected it does nothing.
AlarmRings ==
    /\ browser = "chrome" /\ current = None /\ opening = 0
    /\ awake' = TRUE /\ opening' = 1
    /\ UNCHANGED <<browser, storage, timers, current, conn, storing, notified, badge,
                   node, counters>>

NodeGoes ==
    /\ node /\ drops < MaxDrops
    /\ node' = FALSE /\ drops' = drops + 1
    /\ UNCHANGED <<browser, storage, awake, opening, timers, current, conn, storing,
                   notified, badge, events, saves, stops>>

NodeReturns ==
    /\ ~node /\ node' = TRUE
    /\ UNCHANGED <<browser, storage, awake, opening, timers, current, conn, storing,
                   notified, badge, counters>>

Next ==
    \/ ChromeOpens \/ FirefoxOpens \/ FindsNoSettings \/ TimerFires
    \/ \E c \in Conn : Connects(c) \/ Ends(c) \/ Reads(c)
    \/ \E s \in storing : SeesRecent(s) \/ StoresRecent(s)
    \/ Publish \/ ChromeSaves \/ FirefoxSaves
    \/ WorkerStops \/ AlarmRings \/ NodeGoes \/ NodeReturns

Spec == Init /\ [][Next]_vars

\* Callbacks run, timers fire, fetches come to an end, the alarm rings every
\* minute; the node comes back.  A fetch that a timer cuts short again and again
\* is answered in the end, for the timers wait a second, and twice as long after
\* each failure.  Nobody has to save, publish or stop anything.
Fairness ==
    /\ WF_vars(ChromeOpens) /\ WF_vars(FirefoxOpens) /\ WF_vars(FindsNoSettings)
    /\ WF_vars(TimerFires) /\ WF_vars(AlarmRings) /\ WF_vars(NodeReturns)
    /\ \A c \in Conn : SF_vars(Connects(c)) /\ WF_vars(Ends(c))

FairSpec == Spec /\ Fairness

-----------------------------------------------------------------------------
(* What should hold                                                        *)

\* What the feature says of either browser: the extension does not open more
\* than one connection at a time.  Not so in Firefox: onStartup and onInstalled
\* open one each.
OneConnection == Cardinality(In("open")) <= 1

\* Chrome's script, which aborts the connection before it opens the next, never
\* has two streams open, whatever timers, alarms and messages ask for one; and an
\* event reaches the list of recent events once: a stream that is replaced is read
\* no further, so no event is stored from both.
ChromeStoresOnce ==
    browser = "chrome" =>
        /\ Cardinality(Live) <= 1
        /\ \A i, j \in 1..Len(recent) : recent[i] = recent[j] => i = j
        /\ \A s, t \in storing : s.event = t.event => s = t
        /\ \A s \in storing : s.event \notin ToSet(recent)

\* The list of recent events is in the order the node published them in,
\* newest first, as the popup shows it.  Not so: the calls
\* of two streams store an event and the one before it in either order.
RecentNewestFirst ==
    \A i, j \in 1..Len(recent) : i < j => recent[i] > recent[j]

\* A configured extension that is not connected always has something under way
\* that will try again: nothing that ends a stream, stops the worker or saves
\* settings leaves it waiting for nothing.
NeverGivesUp ==
    key # None =>
        \/ Live # {} \/ In("aborting") # {} \/ opening > 0 \/ timers > 0
        \/ browser = "chrome" /\ current = None

\* Firefox's script never takes down an open stream itself, except for new
\* settings: the timers that reconnect leave it alone.
FirefoxKeepsStream ==
    [][\A c \in Conn : browser = "firefox" /\ conn[c].st = "open" /\ node
          => conn'[c].st = "open" \/ saves' # saves]_vars

\* What the feature says of either browser: the connection stays open
\* indefinitely, that is, until the network or new settings end it.  Not so in
\* Chrome: an aborted fetch counts as a failure, whose timer aborts the next one.
StaysOpen ==
    [][\A c \in Conn : conn[c].st = "open" /\ conn'[c].st # "open"
          => ~node \/ saves' # saves \/ stops' # stops]_vars

\* With settings the node accepts, the extension is connected again and again,
\* whatever happened to network, worker and settings before.
ConnectsAgain ==
    (<>[](key \in GoodKey)) => []<>(In("open") # {})

=============================================================================
