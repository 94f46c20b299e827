------------------------------ MODULE AppCache ------------------------------
(***************************************************************************)
(* What a node's App keeps in memory of its bbolt file -- the cached       *)
(* config with the filter engine built from it, and the API token lookup   *)
(* maps -- and how it follows the replicated store: NewApp primes it,      *)
(* subscribes to applies and fills the token maps, while Raft, started     *)
(* before, may be applying entries all along; from then on onApply, run    *)
(* inside fsm.Apply after a successful command, rebuilds both, one after   *)
(* the other, unless it cannot read them.                                  *)
(***************************************************************************)
EXTENDS ReplicatedStore

VARIABLES
    phase,     \* phase[n]: how far NewApp has come on n
    cache,     \* cache[n]: the file App.cfg and the filter engine were built from
    toks,      \* toks[n]: the token lookup maps
    readToks,  \* readToks[n]: token rows NewApp has read and not yet stored
    todo,      \* todo[n]: what onApply has to rebuild next, in Raft's FSM goroutine
    missed     \* history: missed[n]: the parts that have not seen all of n's file

appVars == <<phase, cache, toks, readToks, todo, missed>>
allVars == <<vars, appVars>>

\* onApply is subscribed in the last three phases.
Phase == {"booting", "primed", "subscribed", "reading", "serving"}

SubscribedLast(n) == phase[n] = "serving"   \* mutant: the token maps are filled first
Subscribed(n) == phase[n] \in {"subscribed", "reading", "serving"}

Parts == {"config", "tokens"}

AppInit ==
    /\ Init
    \* a node joining through its own API has been serving all along
    /\ phase = [n \in Node |-> IF n \in Standalone THEN "serving" ELSE "booting"]
    /\ cache = [n \in Node |-> OwnDb(n)]
    /\ toks = [n \in Node |-> OwnDb(n).toks]
    /\ readToks = [n \in Node |-> {}]
    /\ todo = [n \in Node |-> "none"]
    /\ missed = [n \in Node |-> {}]

\* The parts a change of the file passes by: the config a node has primed and
\* not subscribed for, the token rows it has read and not stored.
PassedBy(n) == CASE phase[n] = "primed" -> {"config"}
                 [] phase[n] = "reading" -> {"tokens"}
                 [] OTHER -> {}

\* fsm.Apply; the FSM goroutine goes on with onApply when the command succeeded.
ApplyAndNotify(n) ==
    LET accepted == Accepts(db[n], log[applied[n] + 1]) IN
    /\ todo[n] = "none"
    /\ ApplyEntry(n)
    /\ todo' = [todo EXCEPT ![n] = IF accepted /\ Subscribed(n) THEN "config" ELSE "none"]
    /\ missed' = [missed EXCEPT ![n] = IF accepted THEN @ \cup PassedBy(n) ELSE @]
    /\ UNCHANGED <<phase, cache, toks, readToks>>

-----------------------------------------------------------------------------
(* onApply.                                                                *)

\* The config is read and the engine built from it ...
RebuildConfig(n) ==
    /\ todo[n] = "config"
    /\ cache' = [cache EXCEPT ![n] = db[n]]
    /\ missed' = [missed EXCEPT ![n] = @ \ {"config"}]
    /\ todo' = [todo EXCEPT ![n] = "tokens"]
    /\ UNCHANGED <<vars, phase, toks, readToks>>

\* ... or cannot be read, and onApply returns: nothing is rebuilt.
RebuildFails(n) ==
    /\ todo[n] = "config"
    /\ missed' = [missed EXCEPT ![n] = Parts]
    /\ todo' = [todo EXCEPT ![n] = "none"]
    /\ UNCHANGED <<vars, phase, cache, toks, readToks>>

\* The token maps are swapped.  Rows that NewApp read before will go over them.
RebuildTokens(n) ==
    /\ todo[n] = "tokens"
    /\ toks' = [toks EXCEPT ![n] = db[n].toks]
    /\ missed' = [missed EXCEPT ![n] = IF phase[n] = "reading" THEN @ ELSE @ \ {"tokens"}]
    /\ todo' = [todo EXCEPT ![n] = "none"]
    /\ UNCHANGED <<vars, phase, cache, readToks>>

RebuildTokensFails(n) ==
    /\ todo[n] = "tokens"
    /\ missed' = [missed EXCEPT ![n] = @ \cup {"tokens"}]
    /\ todo' = [todo EXCEPT ![n] = "none"]
    /\ UNCHANGED <<vars, phase, cache, toks, readToks>>

-----------------------------------------------------------------------------
(* Boot.                                                                   *)

RestartApp(n) ==
    /\ Restart(n)
    /\ phase' = [phase EXCEPT ![n] = "booting"]
    /\ cache' = [cache EXCEPT ![n] = EmptyDb]
    /\ toks' = [toks EXCEPT ![n] = {}]
    /\ readToks' = [readToks EXCEPT ![n] = {}]
    /\ todo' = [todo EXCEPT ![n] = "none"]
    /\ missed' = [missed EXCEPT ![n] = {}]

\* NewApp, step by step; a node whose file cannot be read starts on an empty
\* config and goes on.
Prime(n) ==
    /\ phase[n] = "booting"
    /\ phase' = [phase EXCEPT ![n] = "primed"]
    /\ \/ cache' = [cache EXCEPT ![n] = db[n]] /\ UNCHANGED missed
       \/ cache' = [cache EXCEPT ![n] = EmptyDb]
          /\ missed' = [missed EXCEPT ![n] = {"config"}]
    /\ UNCHANGED <<vars, toks, readToks, todo>>

Subscribe(n) ==
    /\ phase[n] = "primed"
    /\ phase' = [phase EXCEPT ![n] = "subscribed"]
    /\ UNCHANGED <<vars, cache, toks, readToks, todo, missed>>

\* rebuildTokenCache reads the rows and stores the maps under no common lock,
\* or cannot read the rows and leaves the maps alone.
ReadTokens(n) ==
    /\ phase[n] = "subscribed"
    /\ \/ /\ phase' = [phase EXCEPT ![n] = "reading"]
          /\ readToks' = [readToks EXCEPT ![n] = db[n].toks]
          /\ missed' = [missed EXCEPT ![n] = @ \ {"tokens"}]
       \/ /\ phase' = [phase EXCEPT ![n] = "serving"]
          /\ missed' = [missed EXCEPT ![n] = @ \cup {"tokens"}]
          /\ UNCHANGED readToks
    /\ UNCHANGED <<vars, cache, toks, todo>>

StoreTokens(n) ==
    /\ phase[n] = "reading"
    /\ phase' = [phase EXCEPT ![n] = "serving"]
    /\ toks' = [toks EXCEPT ![n] = readToks[n]]
    /\ readToks' = [readToks EXCEPT ![n] = {}]
    /\ UNCHANGED <<vars, cache, todo, missed>>

-----------------------------------------------------------------------------
(* What notifies nobody.                                                   *)

\* fsm.Restore runs where onApply does, and does not call it.
InstallUnnoticed(n, m) ==
    /\ todo[n] = "none"
    /\ InstallSnapshot(n, m)
    /\ missed' = [missed EXCEPT ![n] = Parts]
    /\ UNCHANGED <<phase, cache, toks, readToks, todo>>

Quiet ==
    /\ \/ \E c \in Log1 : Commit(c)
       \/ \E n \in Node : (todo[n] = "none" /\ StartSnapshot(n)) \/ PersistSnapshot(n)
    /\ UNCHANGED appVars

AppNext ==
    \/ Quiet
    \/ \E n \in Node : \/ ApplyAndNotify(n) \/ RebuildConfig(n) \/ RebuildFails(n)
                       \/ RebuildTokens(n) \/ RebuildTokensFails(n)
                       \/ RestartApp(n) \/ Prime(n) \/ Subscribe(n)
                       \/ ReadTokens(n) \/ StoreTokens(n)
    \/ \E n, m \in Node : InstallUnnoticed(n, m)

AppSpec == AppInit /\ [][AppNext]_allVars

-----------------------------------------------------------------------------
(* Properties.                                                             *)

\* What the comment on rebuildTokenCache says ("so the cache is always
\* fresh"): a serving node accepts the API tokens its file holds, no others.
TokenMapsFresh ==
    \A n \in Node : phase[n] = "serving" => toks[n] = db[n].toks

\* Between applies a serving node judges by its file as it is now, and accepts
\* the API tokens that are in it, whichever way boot, applies and rebuilds
\* interleaved, but for a part that missed a change: its rebuild failed, a
\* snapshot was installed, an apply came between NewApp's look at the file and
\* its subscription, or, for the token maps, its storing of what it had read.
\* What it missed it has again with the next rebuild that succeeds.
ServesItsFile ==
    \A n \in Node :
        phase[n] = "serving" /\ todo[n] = "none" =>
            /\ "config" \in missed[n] \/ cache[n] = db[n]
            /\ "tokens" \in missed[n] \/ toks[n] = db[n].toks

=============================================================================
