------------------------ MODULE EventExtensionProofs ------------------------
(***************************************************************************)
(* Proofs about the browser extension, for either browser, any number of   *)
(* connections, events, outages, saves and stops of the worker, and any    *)
(* lengths of the list and the buffer: Chrome's worker stores every event  *)
(* once, Firefox's page leaves its stream alone, and both keep trying.     *)
(***************************************************************************)
EXTENDS EventExtension, SequenceTheorems, FiniteSetTheorems, TLAPS

-----------------------------------------------------------------------------
(* Sequences without repetition.                                           *)

\* No element is twice in q.
Distinct(q) == \A i, j \in 1..Len(q) : q[i] = q[j] => i = j

\* What a sequence holds, by its indices.
LEMMA Elements ==
    ASSUME NEW S, NEW q \in Seq(S)
    PROVE  /\ ToSet(q) \subseteq S
           /\ \A e : e \in ToSet(q) <=> \E i \in 1..Len(q) : q[i] = e
  BY LenProperties DEF ToSet

\* The empty sequence.
LEMMA Empty == Distinct(<< >>) /\ ToSet(<< >>) = {}
  <1>1. << >> \in Seq(Nat) /\ Len(<< >>) = 0
    BY EmptySeq
  <1>2. \A i : i \notin 1..0
    OBVIOUS
  <1>3. \A e : e \in ToSet(<< >>) <=> \E i \in 1..Len(<< >>) : << >>[i] = e
    BY <1>1, Elements
  <1> QED
    BY <1>1, <1>2, <1>3 DEF Distinct

\* An element put at the end.
LEMMA Appended ==
    ASSUME NEW S, NEW q \in Seq(S), NEW e \in S
    PROVE  LET r == Append(q, e)
           IN  /\ r \in Seq(S) /\ Len(r) = Len(q) + 1
               /\ ToSet(r) = ToSet(q) \cup {e}
               /\ Distinct(q) /\ e \notin ToSet(q) => Distinct(r)
  <1> DEFINE r == Append(q, e)
  <1>1. /\ r \in Seq(S) /\ Len(r) = Len(q) + 1 /\ r[Len(q) + 1] = e
        /\ \A i \in 1..Len(q) : r[i] = q[i]
    BY AppendProperties
  <1>2. Len(q) \in Nat
    BY LenProperties
  <1>3. \A x : x \in ToSet(r) <=> x \in ToSet(q) \cup {e}
    <2>1. \A i : i \in 1..(Len(q) + 1) <=> i \in 1..Len(q) \/ i = Len(q) + 1
      BY <1>2
    <2> HIDE DEF r
    <2> QED
      BY <1>1, <2>1, Elements
  <1>4. ASSUME Distinct(q), e \notin ToSet(q)
        PROVE  Distinct(r)
    <2>1. \A i \in 1..Len(q) : q[i] # e
      BY <1>4, Elements
    <2> HIDE DEF r
    <2> QED
      BY <1>1, <1>2, <1>4, <2>1 DEF Distinct
  <1> QED
    BY <1>1, <1>3, <1>4

\* A sequence cut in two: the parts hold parts of it, and nothing in common.
LEMMA CutInTwo ==
    ASSUME NEW S, NEW q \in Seq(S), NEW n \in 0..Len(q)
    PROVE  LET a == SubSeq(q, 1, n)
               b == SubSeq(q, n + 1, Len(q))
           IN  /\ a \in Seq(S) /\ b \in Seq(S)
               /\ Len(a) = n /\ Len(b) = Len(q) - n
               /\ ToSet(a) \subseteq ToSet(q) /\ ToSet(b) \subseteq ToSet(q)
               /\ Distinct(q) => /\ Distinct(a) /\ Distinct(b)
                                 /\ ToSet(a) \cap ToSet(b) = {}
  <1> DEFINE a == SubSeq(q, 1, n)
             b == SubSeq(q, n + 1, Len(q))
  <1>1. Len(q) \in Nat /\ \A i \in 1..Len(q) : q[i] \in S
    BY LenProperties, ElementOfSeq
  <1>2. a \in Seq(S) /\ Len(a) = n /\ \A i \in 1..n : a[i] = q[i]
    <2>1. \A i \in 1..n : q[i] \in S
      BY <1>1
    <2>2. /\ a \in Seq(S) /\ Len(a) = (IF 1 <= n THEN n - 1 + 1 ELSE 0)
          /\ \A i \in 1..(n - 1 + 1) : a[i] = q[1 + i - 1]
      BY <1>1, <2>1, SubSeqProperties
    <2> HIDE DEF a
    <2> QED
      BY <2>2
  <1>3. /\ b \in Seq(S) /\ Len(b) = Len(q) - n
        /\ \A i \in 1..(Len(q) - n) : b[i] = q[n + i]
    <2>1. \A i \in (n + 1)..Len(q) : q[i] \in S
      BY <1>1
    <2>2. /\ b \in Seq(S)
          /\ Len(b) = (IF n + 1 <= Len(q) THEN Len(q) - (n + 1) + 1 ELSE 0)
          /\ \A i \in 1..(Len(q) - (n + 1) + 1) : b[i] = q[n + 1 + i - 1]
      BY <1>1, <2>1, SubSeqProperties
    <2> HIDE DEF b
    <2> QED
      BY <1>1, <2>2
  <1> HIDE DEF a, b
  <1>4. ToSet(a) \subseteq ToSet(q)
    BY <1>1, <1>2, Elements
  <1>5. ToSet(b) \subseteq ToSet(q)
    <2>1. \A i \in 1..(Len(q) - n) : n + i \in 1..Len(q)
      BY <1>1
    <2> QED
      BY <1>3, <2>1, Elements
  <1>6. ASSUME Distinct(q)
        PROVE  Distinct(a) /\ Distinct(b) /\ ToSet(a) \cap ToSet(b) = {}
    <2>1. Distinct(a)
      BY <1>1, <1>2, <1>6 DEF Distinct
    <2>2. Distinct(b)
      BY <1>1, <1>3, <1>6 DEF Distinct
    <2>3. ASSUME NEW i \in 1..n, NEW j \in 1..(Len(q) - n)
          PROVE  a[i] # b[j]
      <3>1. i \in 1..Len(q) /\ n + j \in 1..Len(q) /\ i # n + j
        BY <1>1
      <3>2. a[i] = q[i] /\ b[j] = q[n + j]
        BY <1>2, <1>3
      <3> QED
        BY <1>6, <3>1, <3>2 DEF Distinct
    <2>4. ASSUME NEW e, e \in ToSet(a), e \in ToSet(b)
          PROVE  FALSE
      <3>1. PICK i \in 1..n : a[i] = e
        BY <1>2, <2>4, Elements
      <3>2. PICK j \in 1..(Len(q) - n) : b[j] = e
        BY <1>3, <2>4, Elements
      <3> QED
        BY <2>3, <3>1, <3>2
    <2> QED
      BY <2>1, <2>2, <2>4
  <1> QED
    BY <1>2, <1>3, <1>4, <1>5, <1>6 DEF a, b

\* An element put in front.
LEMMA InFront ==
    ASSUME NEW S, NEW q \in Seq(S), NEW e \in S
    PROVE  LET r == <<e>> \o q
           IN  /\ r \in Seq(S) /\ Len(r) = Len(q) + 1
               /\ \A x : x \in ToSet(r) <=> x \in ToSet(q) \/ x = e
               /\ Distinct(q) /\ e \notin ToSet(q) => Distinct(r)
  <1> DEFINE r == <<e>> \o q
  <1>1. <<e>> \in Seq(S) /\ Len(<<e>>) = 1
    OBVIOUS
  <1>2. Len(q) \in Nat
    BY LenProperties
  <1>3. /\ r \in Seq(S) /\ Len(r) = 1 + Len(q)
        /\ \A i \in 1..(1 + Len(q)) : r[i] = IF i <= 1 THEN <<e>>[i] ELSE q[i - 1]
    BY <1>1, ConcatProperties
  <1> HIDE DEF r
  <1>4. r[1] = e /\ \A i \in 2..(1 + Len(q)) : r[i] = q[i - 1]
    BY <1>2, <1>3
  <1>5. \A x : x \in ToSet(r) <=> x \in ToSet(q) \/ x = e
    <2>1. \A i \in 1..Len(q) : i + 1 \in 2..(1 + Len(q)) /\ q[i] = r[i + 1]
      BY <1>2, <1>4
    <2>2. \A i \in 2..(1 + Len(q)) : i - 1 \in 1..Len(q)
      BY <1>2
    <2>3. \A i : i \in 1..Len(r) <=> i = 1 \/ i \in 2..(1 + Len(q))
      BY <1>2, <1>3
    <2>4. \A i \in 2..(1 + Len(q)) : i \in 1..Len(r)
      BY <2>3
    <2>5. \A x : x \in ToSet(r) <=> \E i \in 1..Len(r) : r[i] = x
      BY <1>3, Elements
    <2>6. \A x : x \in ToSet(q) <=> \E i \in 1..Len(q) : q[i] = x
      BY Elements
    <2>7. ASSUME NEW x \in ToSet(r)
          PROVE  x \in ToSet(q) \/ x = e
      BY <1>4, <2>2, <2>3, <2>5, <2>6, <2>7
    <2>8. ASSUME NEW x \in ToSet(q)
          PROVE  x \in ToSet(r)
      BY <2>1, <2>4, <2>5, <2>6
    <2>9. e \in ToSet(r)
      BY <1>4, <2>3, <2>5
    <2> QED
      BY <2>7, <2>8, <2>9
  <1>6. ASSUME Distinct(q), e \notin ToSet(q)
        PROVE  Distinct(r)
    <2>1. \A i \in 1..Len(q) : q[i] # e
      BY <1>6, Elements
    <2>2. ASSUME NEW i \in 1..Len(r), NEW j \in 1..Len(r), r[i] = r[j]
          PROVE  i = j
      <3>1. i # 1 => i - 1 \in 1..Len(q) /\ r[i] = q[i - 1]
        BY <1>2, <1>3, <1>4
      <3>2. j # 1 => j - 1 \in 1..Len(q) /\ r[j] = q[j - 1]
        BY <1>2, <1>3, <1>4
      <3>3. i # 1 /\ j # 1 => i - 1 = j - 1
        BY <1>6, <2>2, <3>1, <3>2 DEF Distinct
      <3> QED
        BY <1>2, <1>3, <1>4, <2>1, <2>2, <3>1, <3>2, <3>3
    <2> QED
      BY <2>2 DEF Distinct
  <1> QED
    BY <1>2, <1>3, <1>5, <1>6 DEF r

-----------------------------------------------------------------------------
(* Types.                                                                  *)

\* Connections that are free or begin carry nothing.
LEMMA NewType ==
    /\ \A k \in Key \cup {None} : NewConn(k) \in Connection
    /\ NoConn \in Connection /\ Len(NoConn.queue) = 0
    /\ \A k : NewConn(k).st = "fetching" /\ NewConn(k).queue = << >>
    /\ \A k : Len(NewConn(k).queue) = 0
  <1>1. << >> \in Seq(1..MaxEvents) /\ Len(<< >>) = 0
    BY EmptySeq
  <1> QED
    BY <1>1 DEF NoConn, NewConn, Connection

\* The browser has just started.
LEMMA TypesInit == Init => TypeOK
  <1> SUFFICES ASSUME Init
               PROVE  TypeOK
    OBVIOUS
  <1>1. << >> \in Seq(1..MaxEvents) /\ Len(<< >>) = 0
    BY EmptySeq
  <1>2. conn \in [Conn -> Connection] /\ \A c \in Conn : Len(conn[c].queue) = 0
    BY NewType DEF Init
  <1>3. opening \in Nat /\ timers \in 0..MaxTimers /\ events \in 0..MaxEvents
        /\ saves \in 0..MaxSaves /\ drops \in 0..MaxDrops /\ stops \in 0..MaxStops
    BY ExtensionAssumption DEF Init
  <1>4. Keep \in Nat /\ Buffer \in Nat
    BY ExtensionAssumption
  <1>5. recent \in Seq(1..MaxEvents) /\ Len(recent) <= Keep
    BY <1>1, <1>4 DEF Init
  <1>6. \A c \in Conn : Len(conn[c].queue) <= Buffer
    BY <1>2, <1>4
  <1> QED
    BY <1>2, <1>3, <1>5, <1>6 DEF Init, TypeOK

\* What the actions do to the connections, and what it leaves of their types.
LEMMA ConnTypes ==
    ASSUME TypeOK, [Next]_vars
    PROVE  conn' \in [Conn -> Connection] /\ \A c \in Conn : Len(conn'[c].queue) <= Buffer
  <1> USE DEF TypeOK
  <1>0. Buffer \in Nat
    BY ExtensionAssumption
  <1>1. CASE ChromeOpens
    <2>1. key \in Key
      BY <1>1 DEF ChromeOpens
    <2>2. PICK c \in Conn : conn' = [d \in Conn |->
                        IF d = c THEN NewConn(key)
                        ELSE IF d = current /\ d \in Live
                        THEN [conn[d] EXCEPT !.st = "aborting"] ELSE conn[d]]
      BY <1>1 DEF ChromeOpens, Free, In
    <2>3. \A d \in Conn : [conn[d] EXCEPT !.st = "aborting"] \in Connection
                          /\ [conn[d] EXCEPT !.st = "aborting"].queue = conn[d].queue
      BY DEF Connection
    <2> QED
      BY <1>0, <2>1, <2>2, <2>3, NewType
  <1>2. CASE FirefoxOpens
    <2>1. key \in Key
      BY <1>2 DEF FirefoxOpens
    <2>2. PICK c \in Conn : conn' = [conn EXCEPT ![c] = NewConn(key)]
      BY <1>2 DEF FirefoxOpens, Free, In
    <2> QED
      BY <1>0, <2>1, <2>2, NewType
  <1>3. ASSUME NEW c \in Conn, Connects(c)
        PROVE  conn' \in [Conn -> Connection] /\ \A d \in Conn : Len(conn'[d].queue) <= Buffer
    BY <1>3 DEF Connects, Connection
  <1>4. ASSUME NEW c \in Conn, Ends(c)
        PROVE  conn' \in [Conn -> Connection] /\ \A d \in Conn : Len(conn'[d].queue) <= Buffer
    BY <1>0, <1>4, NewType DEF Ends
  <1>5. CASE Publish
    <2>1. events + 1 \in 1..MaxEvents
      <3>1. events \in 0..MaxEvents /\ events < MaxEvents /\ MaxEvents \in Nat
        BY <1>5, ExtensionAssumption DEF Publish
      <3> HIDE DEF TypeOK
      <3> QED
        BY <3>1
    <2>2. ASSUME NEW c \in Conn, Len(conn[c].queue) < Buffer
          PROVE  /\ [conn[c] EXCEPT !.queue = Append(@, events + 1)] \in Connection
                 /\ Len([conn[c] EXCEPT !.queue = Append(@, events + 1)].queue) <= Buffer
      <3>1. conn[c].queue \in Seq(1..MaxEvents)
        BY DEF Connection
      <3>2. /\ Append(conn[c].queue, events + 1) \in Seq(1..MaxEvents)
            /\ Len(Append(conn[c].queue, events + 1)) = Len(conn[c].queue) + 1
            /\ Len(conn[c].queue) \in Nat
        BY <2>1, <3>1, Appended, LenProperties
      <3>3. Len(conn[c].queue) + 1 <= Buffer
        BY <1>0, <2>2, <3>2
      <3> QED
        BY <3>2, <3>3 DEF Connection
    <2> QED
      BY <1>5, <2>2 DEF Publish
  <1>6. ASSUME NEW c \in Conn, Reads(c)
        PROVE  conn' \in [Conn -> Connection] /\ \A d \in Conn : Len(conn'[d].queue) <= Buffer
    <2> DEFINE q == conn[c].queue
    <2>1. q \in Seq(1..MaxEvents) /\ Len(q) <= Buffer
      BY DEF Connection
    <2>2. PICK n \in 1..Len(q) : conn' = [conn EXCEPT ![c].queue = SubSeq(q, n + 1, Len(q))]
      BY <1>6 DEF Reads
    <2>3. Len(q) \in Nat
      BY <2>1, LenProperties
    <2>7. n \in 0..Len(q)
      BY <2>2, <2>3
    <2> HIDE DEF q
    <2>4. /\ SubSeq(q, n + 1, Len(q)) \in Seq(1..MaxEvents)
          /\ Len(SubSeq(q, n + 1, Len(q))) = Len(q) - n
      <3> DEFINE S == 1..MaxEvents
      <3>1. q \in Seq(S) /\ n \in 0..Len(q)
        BY <2>1, <2>7
      <3> HIDE DEF S, TypeOK
      <3>2. SubSeq(q, n + 1, Len(q)) \in Seq(S) /\ Len(SubSeq(q, n + 1, Len(q))) = Len(q) - n
        BY <3>1, CutInTwo
      <3> QED
        BY <3>2 DEF S
    <2>5. Len(SubSeq(q, n + 1, Len(q))) <= Buffer
      BY <1>0, <2>1, <2>3, <2>4, <2>7
    <2> QED
      BY <2>2, <2>4, <2>5 DEF Connection, q
  <1>7. CASE FirefoxSaves
    <2>1. conn' = [c \in Conn |-> IF c = current /\ c \in Live
                                  THEN [conn[c] EXCEPT !.st = "aborting"] ELSE conn[c]]
      BY <1>7 DEF FirefoxSaves
    <2>2. ASSUME NEW c \in Conn
          PROVE  /\ [conn[c] EXCEPT !.st = "aborting"] \in Connection
                 /\ [conn[c] EXCEPT !.st = "aborting"].queue = conn[c].queue
      BY DEF Connection
    <2> QED
      BY <2>1, <2>2
  <1>8. CASE WorkerStops
    BY <1>0, <1>8, NewType DEF WorkerStops
  <1>9. CASE UNCHANGED conn
    BY <1>9
  <1> QED
    BY <1>1, <1>2, <1>3, <1>4, <1>5, <1>6, <1>7, <1>8, <1>9
    DEF Next, vars, FindsNoSettings, TimerFires, SeesRecent, StoresRecent, ChromeSaves,
        AlarmRings, NodeGoes, NodeReturns

\* ... to the list and to what is being stored.
LEMMA StoringTypes ==
    ASSUME TypeOK, [Next]_vars
    PROVE  /\ storing' \subseteq Storing /\ notified' \subseteq 1..MaxEvents
           /\ recent' \in Seq(1..MaxEvents) /\ Len(recent') <= Keep
  <1> USE DEF TypeOK
  <1>1. ASSUME NEW c \in Conn, Reads(c)
        PROVE  /\ storing' \subseteq Storing /\ notified' \subseteq 1..MaxEvents
               /\ recent' = recent
    <2> DEFINE q == conn[c].queue
    <2>1. q \in Seq(1..MaxEvents)
      BY DEF Connection
    <2>2. PICK n \in 1..Len(q) :
            LET chunk == ToSet(SubSeq(q, 1, n))
            IN  /\ storing' = storing \cup [event : chunk, from : {c}, seen : {<<None>>}]
                /\ notified' = IF chosen THEN notified \cup chunk ELSE notified
      BY <1>1 DEF Reads
    <2>3. Len(q) \in Nat
      BY <2>1, LenProperties
    <2>7. n \in 0..Len(q)
      BY <2>2, <2>3
    <2>4. SubSeq(q, 1, n) \in Seq(1..MaxEvents)
      BY <2>1, <2>7, CutInTwo
    <2>5. ToSet(SubSeq(q, 1, n)) \subseteq 1..MaxEvents
      <3> DEFINE w == SubSeq(q, 1, n)
      <3> HIDE DEF w, q, TypeOK
      <3>1. w \in Seq(1..MaxEvents)
        BY <2>4 DEF w
      <3>2. ToSet(w) \subseteq 1..MaxEvents
        BY <3>1, Elements
      <3> QED
        BY <3>2 DEF w
    <2>6. recent' = recent
      BY <1>1 DEF Reads, storage
    <2> HIDE DEF q
    <2> QED
      BY <2>2, <2>5, <2>6 DEF Storing
  <1>2. ASSUME NEW s \in storing, SeesRecent(s)
        PROVE  /\ storing' \subseteq Storing /\ notified' = notified /\ recent' = recent
    BY <1>2 DEF SeesRecent, storage, Storing
  <1>3. ASSUME NEW s \in storing, StoresRecent(s)
        PROVE  /\ storing' \subseteq Storing /\ notified' = notified
               /\ recent' \in Seq(1..MaxEvents) /\ Len(recent') <= Keep
    <2> DEFINE all == <<s.event>> \o s.seen
               n == IF Len(all) > Keep THEN Keep ELSE Len(all)
    <2>1. s.event \in 1..MaxEvents /\ s.seen \in Seq(1..MaxEvents)
      BY <1>3 DEF StoresRecent, Storing
    <2>2. all \in Seq(1..MaxEvents) /\ Len(all) \in Nat
      BY <2>1, InFront, LenProperties
    <2>3. recent' = SubSeq(all, 1, n)
      BY <1>3 DEF StoresRecent
    <2>4. Keep \in Nat
      BY ExtensionAssumption
    <2> HIDE DEF all
    <2>5. n \in 0..Len(all) /\ n <= Keep
      BY <2>2, <2>4
    <2> HIDE DEF n, TypeOK
    <2>6. SubSeq(all, 1, n) \in Seq(1..MaxEvents) /\ Len(SubSeq(all, 1, n)) = n
      <3> DEFINE S == 1..MaxEvents
      <3>1. all \in Seq(S) /\ n \in 0..Len(all)
        BY <2>2, <2>5
      <3> HIDE DEF S
      <3>2. SubSeq(all, 1, n) \in Seq(S) /\ Len(SubSeq(all, 1, n)) = n
        BY <3>1, CutInTwo
      <3> QED
        BY <3>2 DEF S
    <2> QED
      BY <1>3, <2>3, <2>5, <2>6 DEF StoresRecent, TypeOK
  <1>4. CASE WorkerStops
    BY <1>4 DEF WorkerStops, storage
  <1>5. CASE UNCHANGED <<storing, notified, recent>>
    BY <1>5
  <1> QED
    BY <1>1, <1>2, <1>3, <1>4, <1>5
    DEF Next, vars, storage, ChromeOpens, FirefoxOpens, FindsNoSettings, TimerFires, Connects,
        Ends, Publish, ChromeSaves, FirefoxSaves, AlarmRings, NodeGoes, NodeReturns

\* The rest is switches and counters.
LEMMA SwitchTypes ==
    ASSUME TypeOK, [Next]_vars
    PROVE  /\ browser' \in Browsers
           /\ key' \in Key \cup {None} /\ chosen' \in BOOLEAN /\ awake' \in BOOLEAN
           /\ opening' \in Nat /\ timers' \in 0..MaxTimers
           /\ current' \in Conn \cup {None, "spent"}
           /\ badge' \in {"connected", "disconnected", "unconfigured"}
           /\ node' \in BOOLEAN
           /\ events' \in 0..MaxEvents /\ saves' \in 0..MaxSaves
           /\ drops' \in 0..MaxDrops /\ stops' \in 0..MaxStops
  <1> USE DEF TypeOK, storage, counters
  <1>0. MaxTimers \in Nat /\ MaxEvents \in Nat /\ MaxSaves \in Nat /\ MaxDrops \in Nat
        /\ MaxStops \in Nat
    BY ExtensionAssumption
  <1> USE <1>0
  <1>1. CASE ChromeOpens
    BY <1>1 DEF ChromeOpens, Free, In
  <1>2. CASE FirefoxOpens
    BY <1>2 DEF FirefoxOpens, Free, In
  <1>3. CASE FindsNoSettings
    BY <1>3 DEF FindsNoSettings
  <1>4. CASE TimerFires
    BY <1>4 DEF TimerFires
  <1>5. ASSUME NEW c \in Conn, Connects(c) \/ Reads(c)
        PROVE  UNCHANGED <<browser, key, chosen, awake, opening, timers, current, node,
                           events, saves, drops, stops>>
               /\ badge' \in {"connected", "disconnected", "unconfigured"}
    BY <1>5 DEF Connects, Reads
  <1>6. ASSUME NEW c \in Conn, Ends(c)
        PROVE  /\ UNCHANGED <<browser, key, chosen, awake, opening, node,
                              events, saves, drops, stops>>
               /\ timers' \in 0..MaxTimers
               /\ current' \in Conn \cup {None, "spent"}
               /\ badge' \in {"connected", "disconnected", "unconfigured"}
    BY <1>6 DEF Ends, Over, Reconnects
  <1>7. CASE Publish
    <2>1. /\ events < MaxEvents /\ events' = events + 1
          /\ UNCHANGED <<browser, key, chosen, awake, opening, timers, current, badge, node,
                         saves, drops, stops>>
      BY <1>7 DEF Publish
    <2> QED
      BY <1>0, <2>1
  <1>8. CASE ChromeSaves
    BY <1>8 DEF ChromeSaves, Saves
  <1>9. CASE FirefoxSaves
    <2>1. PICK k \in Key \cup {None} : Saves(k)
      BY <1>9 DEF FirefoxSaves
    <2>2. saves' \in 0..MaxSaves /\ key' \in Key \cup {None} /\ chosen' \in BOOLEAN
      BY <1>0, <2>1 DEF Saves
    <2>3. /\ current' = None /\ timers' = 0 /\ opening' = opening + 1
          /\ UNCHANGED <<browser, awake, badge, node, events, drops, stops>>
      BY <1>9 DEF FirefoxSaves
    <2> QED
      BY <1>0, <2>2, <2>3
  <1>10. CASE WorkerStops
    <2>1. stops < MaxStops /\ stops' = stops + 1
      BY <1>10 DEF WorkerStops
    <2>2. UNCHANGED <<browser, key, chosen, badge, node, events, saves, drops>>
          /\ awake' = FALSE /\ opening' = 0 /\ timers' = 0 /\ current' = None
      BY <1>10 DEF WorkerStops
    <2>3. awake' \in BOOLEAN
      BY <2>2, Zenon
    <2>4. stops' \in 0..MaxStops
      BY <2>1
    <2>5. opening' \in Nat /\ timers' \in 0..MaxTimers
      BY <2>2
    <2> QED
      BY <2>2, <2>3, <2>4, <2>5, Zenon
  <1>11. CASE AlarmRings
    BY <1>11 DEF AlarmRings
  <1>12. CASE NodeGoes \/ NodeReturns
    <2>1. UNCHANGED <<browser, key, chosen, awake, opening, timers, current, badge, events,
                      saves, stops>>
      BY <1>12 DEF NodeGoes, NodeReturns
    <2>2. node' \in BOOLEAN
      BY <1>12, Zenon DEF NodeGoes, NodeReturns
    <2>3. drops' = drops \/ (drops < MaxDrops /\ drops' = drops + 1)
      BY <1>12, Zenon DEF NodeGoes, NodeReturns
    <2>4. drops' \in 0..MaxDrops
      BY <2>3
    <2> QED
      BY <2>1, <2>2, <2>4, Zenon
  <1>13. ASSUME NEW s \in storing, SeesRecent(s) \/ StoresRecent(s)
        PROVE  UNCHANGED <<browser, key, chosen, awake, opening, timers, current, badge, node,
                           events, saves, drops, stops>>
    BY <1>13 DEF SeesRecent, StoresRecent
  <1>14. CASE UNCHANGED vars
    BY <1>14 DEF vars
  <1> QED
    BY <1>1, <1>2, <1>3, <1>4, <1>5, <1>6, <1>7, <1>8, <1>9, <1>10, <1>11, <1>12, <1>13, <1>14
    DEF Next

\* Every step keeps the types.
LEMMA TypesStep == TypeOK /\ [Next]_vars => TypeOK'
  BY ConnTypes, StoringTypes, SwitchTypes DEF TypeOK

\* Settings, list, connections and calls under way have the types stated, in either
\* browser: the list of recent events is never longer than storeRecentEvent cuts it.
THEOREM TypesHold == Spec => []TypeOK
  BY TypesInit, TypesStep, PTL DEF Spec

-----------------------------------------------------------------------------
(* Trying again.                                                           *)

\* A configured extension without a connection, a fetch that is being cancelled, a call
\* of openConnection or a timer is a stopped worker the alarm will start: every step of
\* the two scripts that takes one of them away leaves another.
THEOREM KeepsTrying == Spec => []NeverGivesUp
  <1>1. Init => NeverGivesUp
    BY DEF Init, NeverGivesUp
  <1>2. ASSUME TypeOK, NeverGivesUp, [Next]_vars
        PROVE  NeverGivesUp'
    <2> USE <1>2 DEF TypeOK
    <2>1. CASE ChromeOpens
      <3>1. PICK c \in Conn : conn'[c].st = "fetching"
        <4>1. key \in Key
          BY <2>1 DEF ChromeOpens
        <4> QED
          BY <2>1, <4>1, NewType DEF ChromeOpens, Free, In
      <3> QED
        BY <3>1 DEF NeverGivesUp, Live, In
    <2>2. CASE FirefoxOpens
      <3>1. PICK c \in Conn : conn'[c].st = "fetching"
        <4>1. key \in Key
          BY <2>2 DEF FirefoxOpens
        <4> QED
          BY <2>2, <4>1, NewType DEF FirefoxOpens, Free, In
      <3> QED
        BY <3>1 DEF NeverGivesUp, Live, In
    <2>3. CASE FindsNoSettings
      BY <2>3 DEF FindsNoSettings, storage, NeverGivesUp
    <2>4. CASE TimerFires
      BY <2>4 DEF TimerFires, NeverGivesUp
    <2>5. ASSUME NEW c \in Conn, Connects(c)
          PROVE  NeverGivesUp'
      <3>1. conn'[c].st = "open"
        BY <2>5 DEF Connects, Connection
      <3> QED
        BY <3>1 DEF NeverGivesUp, Live, In
    <2>6. ASSUME NEW c \in Conn, Ends(c)
          PROVE  NeverGivesUp'
      BY <2>6 DEF Ends, Reconnects, NeverGivesUp
    <2>7. ASSUME NEW c \in Conn, Reads(c)
          PROVE  NeverGivesUp'
      <3>1. \A d \in Conn : conn'[d].st = conn[d].st
        BY <2>7 DEF Reads, Connection
      <3> QED
        BY <2>7, <3>1 DEF Reads, storage, NeverGivesUp, Live, In
    <2>8. CASE Publish
      <3>1. \A d \in Conn : conn'[d].st = conn[d].st
        BY <2>8 DEF Publish, Connection
      <3> QED
        BY <2>8, <3>1 DEF Publish, storage, NeverGivesUp, Live, In
    <2>9. CASE ChromeSaves \/ FirefoxSaves
      BY <2>9 DEF ChromeSaves, FirefoxSaves, NeverGivesUp
    <2>10. CASE WorkerStops
      BY <2>10 DEF WorkerStops, NeverGivesUp
    <2>11. CASE AlarmRings
      BY <2>11 DEF AlarmRings, NeverGivesUp
    <2>12. CASE UNCHANGED <<browser, key, conn, opening, timers, current>>
      BY <2>12 DEF NeverGivesUp, Live, In
    <2> QED
      BY <1>2, <2>1, <2>2, <2>3, <2>4, <2>5, <2>6, <2>7, <2>8, <2>9, <2>10, <2>11, <2>12
      DEF Next, vars, storage, SeesRecent, StoresRecent, NodeGoes, NodeReturns
  <1> QED
    BY <1>1, <1>2, TypesHold, PTL DEF Spec

-----------------------------------------------------------------------------
(* Chrome stores every event once.                                         *)

\* An event that is neither on its way to the worker nor in its hands, nor still to come.
Past(e) ==
    /\ e <= events
    /\ \A c \in Live : e \notin ToSet(conn[c].queue)
    /\ \A s \in storing : s.event # e

\* What is alive is what the worker holds.
OneLive == \A c \in Live : c = current

\* A stream carries published events, each once.
QueuesInOrder ==
    \A c \in Live : /\ Distinct(conn[c].queue)
                    /\ \A e \in ToSet(conn[c].queue) : e <= events
                    /\ conn[c].st = "fetching" => conn[c].queue = << >>

\* What is being stored was read off the stream, and is stored by one call.
StoringApart ==
    \A s \in storing : /\ s.event <= events
                       /\ \A c \in Live : s.event \notin ToSet(conn[c].queue)
                       /\ \A t \in storing : s.event = t.event => s = t

\* The list, and every copy of it a call will write back, has past events, each once.
ListsPast ==
    /\ Distinct(recent) /\ \A e \in ToSet(recent) : Past(e)
    /\ \A s \in storing : s.seen # <<None>> =>
          Distinct(s.seen) /\ \A e \in ToSet(s.seen) : Past(e)

EventsOnce == QueuesInOrder /\ StoringApart /\ ListsPast

OnceInv == browser = "chrome" => OneLive /\ EventsOnce

\* Steps that read, publish and store nothing, and open streams empty.
LEMMA NothingMoves ==
    ASSUME TypeOK, EventsOnce, events' = events, recent' = recent, storing' \subseteq storing,
           \A c \in Live' : \/ conn'[c].queue = << >>
                            \/ /\ c \in Live /\ conn'[c].queue = conn[c].queue
                               /\ conn'[c].st = "fetching" => conn[c].st = "fetching"
    PROVE  EventsOnce'
  <1> USE DEF TypeOK
  <1>0. ToSet(<< >>) = {} /\ Distinct(<< >>)
    BY Empty
  <1>1. QueuesInOrder'
    <2> SUFFICES ASSUME NEW c \in Live'
                 PROVE  /\ Distinct(conn'[c].queue)
                        /\ \A e \in ToSet(conn'[c].queue) : e <= events'
                        /\ conn'[c].st = "fetching" => conn'[c].queue = << >>
      BY DEF QueuesInOrder, Distinct
    <2>1. CASE conn'[c].queue = << >>
      BY <1>0, <2>1
    <2>2. CASE c \in Live /\ conn'[c].queue = conn[c].queue
               /\ (conn'[c].st = "fetching" => conn[c].st = "fetching")
      BY <2>2 DEF EventsOnce, QueuesInOrder
    <2> QED
      BY <2>1, <2>2
  <1>2. \A c \in Live' : \/ ToSet(conn'[c].queue) = {}
                         \/ c \in Live /\ ToSet(conn'[c].queue) = ToSet(conn[c].queue)
    BY <1>0
  <1>3. \A e : Past(e) => Past(e)'
    BY <1>2 DEF Past
  <1>4. StoringApart'
    BY <1>2 DEF EventsOnce, StoringApart
  <1>5. ListsPast'
    BY <1>3 DEF EventsOnce, ListsPast, Distinct
  <1> QED
    BY <1>1, <1>4, <1>5 DEF EventsOnce

\* At the start nothing is alive, stored or being stored.
LEMMA OnceInit == Init => OnceInv
  <1> SUFFICES ASSUME Init
               PROVE  OnceInv
    OBVIOUS
  <1>1. Live = {} /\ storing = {} /\ recent = << >>
    BY DEF Init, Live, In, NoConn
  <1> QED
    BY <1>1, Empty DEF OnceInv, OneLive, EventsOnce, QueuesInOrder, StoringApart, ListsPast

\* Publishing gives the open streams an event nobody has yet.
LEMMA OncePublished ==
    ASSUME TypeOK, EventsOnce, Publish
    PROVE  EventsOnce'
  <1> USE DEF TypeOK
  <1>m. MaxEvents \in Nat /\ events \in 0..MaxEvents
    BY ExtensionAssumption
  <1>0. events < MaxEvents /\ events' = events + 1 /\ UNCHANGED <<recent, storing>>
    BY DEF Publish, storage
  <1>1. /\ events \in Nat /\ events' = events + 1 /\ events + 1 \in 1..MaxEvents
        /\ UNCHANGED <<recent, storing>>
    BY <1>m, <1>0
  <1>2. \A c \in Conn : conn[c].queue \in Seq(1..MaxEvents)
    BY DEF Connection
  <1>3. ASSUME NEW c \in Conn
        PROVE  /\ conn'[c].st = conn[c].st
               /\ \/ conn'[c].queue = conn[c].queue
                  \/ conn[c].st = "open" /\ conn'[c].queue = Append(conn[c].queue, events + 1)
    BY DEF Publish, Connection
  <1>4. Live' = Live /\ Live \subseteq Conn
    BY <1>3 DEF Live, In
  <1>5. ASSUME NEW c \in Live
        PROVE  /\ Distinct(conn'[c].queue)
               /\ ToSet(conn'[c].queue) \subseteq ToSet(conn[c].queue) \cup {events + 1}
               /\ conn'[c].st = "fetching" => conn'[c].queue = << >>
    <2>1. Distinct(conn[c].queue) /\ \A e \in ToSet(conn[c].queue) : e <= events
      BY <1>4 DEF EventsOnce, QueuesInOrder
    <2>2. events + 1 \notin ToSet(conn[c].queue)
      BY <1>1, <2>1
    <2>3. CASE conn'[c].queue = conn[c].queue
      BY <1>3, <1>4, <2>1, <2>3 DEF EventsOnce, QueuesInOrder
    <2>4. CASE conn[c].st = "open" /\ conn'[c].queue = Append(conn[c].queue, events + 1)
      <3>1. conn[c].queue \in Seq(1..MaxEvents)
        BY <1>2, <1>4
      <3>2. /\ ToSet(Append(conn[c].queue, events + 1)) = ToSet(conn[c].queue) \cup {events + 1}
            /\ Distinct(Append(conn[c].queue, events + 1))
        <4> DEFINE S == 1..MaxEvents
        <4>1. conn[c].queue \in Seq(S) /\ events + 1 \in S
          BY <1>1, <3>1
        <4> HIDE DEF S, TypeOK
        <4> QED
          BY <2>1, <2>2, <4>1, Appended
      <3> QED
        BY <1>3, <1>4, <2>4, <3>2
    <2> QED
      BY <1>3, <1>4, <2>3, <2>4
  <1>6. ASSUME NEW c \in Live, NEW e \in ToSet(conn[c].queue)
        PROVE  e <= events + 1
    <2>1. e \in 1..MaxEvents
      <3> DEFINE S == 1..MaxEvents
      <3>1. conn[c].queue \in Seq(S)
        BY <1>2, <1>4
      <3> HIDE DEF S, TypeOK
      <3>2. e \in S
        BY <3>1, Elements
      <3> QED
        BY <3>2 DEF S
    <2>2. e <= events
      BY DEF EventsOnce, QueuesInOrder
    <2> QED
      BY <1>1, <2>1, <2>2
  <1>7. QueuesInOrder'
    <2> SUFFICES ASSUME NEW c \in Live
                 PROVE  /\ Distinct(conn'[c].queue)
                        /\ \A e \in ToSet(conn'[c].queue) : e <= events'
                        /\ conn'[c].st = "fetching" => conn'[c].queue = << >>
      BY <1>4 DEF QueuesInOrder, Distinct
    <2> QED
      BY <1>1, <1>5, <1>6
  <1>8. ASSUME NEW e \in 1..MaxEvents, e <= events
        PROVE  /\ e <= events' /\ e # events + 1
               /\ \A c \in Live : e \notin ToSet(conn[c].queue) => e \notin ToSet(conn'[c].queue)
    <2>1. e <= events' /\ e # events + 1
      BY <1>1, <1>8
    <2> QED
      BY <1>5, <2>1
  <1>9. \A e \in 1..MaxEvents : Past(e) => Past(e)'
    BY <1>1, <1>4, <1>8 DEF Past
  <1>10. \A s \in storing : s.event \in 1..MaxEvents
    BY DEF Storing
  <1>11. StoringApart'
    BY <1>1, <1>4, <1>8, <1>10 DEF EventsOnce, StoringApart
  <1>12. /\ ToSet(recent) \subseteq 1..MaxEvents
         /\ \A s \in storing : s.seen # <<None>> => ToSet(s.seen) \subseteq 1..MaxEvents
    BY Elements DEF Storing
  <1>13. ListsPast'
    BY <1>1, <1>9, <1>12 DEF EventsOnce, ListsPast, Distinct
  <1> QED
    BY <1>7, <1>11, <1>13 DEF EventsOnce

\* A chunk leaves the stream for the worker's hands.
LEMMA OnceRead ==
    ASSUME TypeOK, OneLive, EventsOnce, NEW c \in Conn, Reads(c)
    PROVE  EventsOnce'
  <1> USE DEF TypeOK
  <1> DEFINE q == conn[c].queue
  <1>1. q \in Seq(1..MaxEvents) /\ Len(q) \in Nat /\ c \in Live
    BY LenProperties DEF Connection, Reads, Live, In
  <1>2. PICK n \in 1..Len(q) :
          /\ conn' = [conn EXCEPT ![c].queue = SubSeq(q, n + 1, Len(q))]
          /\ storing' = storing \cup
                [event : ToSet(SubSeq(q, 1, n)), from : {c}, seen : {<<None>>}]
    BY DEF Reads
  <1>3. n \in 0..Len(q)
    BY <1>1, <1>2
  <1>4. UNCHANGED <<recent, events, current>>
    BY DEF Reads, storage, counters
  <1> DEFINE chunk == ToSet(SubSeq(q, 1, n))
             rest == SubSeq(q, n + 1, Len(q))
  <1>5. /\ conn' = [conn EXCEPT ![c].queue = rest]
        /\ storing' = storing \cup [event : chunk, from : {c}, seen : {<<None>>}]
    BY <1>2
  <1>6. Live' = Live /\ Live = {c} /\ conn'[c].queue = rest /\ conn'[c].st = "open"
        /\ conn[c].st = "open"
    <2>1. \A d \in Conn : conn'[d].st = conn[d].st
      BY <1>5 DEF Connection
    <2>2. Live' = Live
      BY <2>1 DEF Live, In
    <2>3. Live = {c}
      BY <1>1 DEF OneLive
    <2> QED
      BY <1>5, <2>1, <2>2, <2>3 DEF Reads, Connection
  <1>7. Distinct(q) /\ \A e \in ToSet(q) : e <= events
    BY <1>1 DEF EventsOnce, QueuesInOrder
  <1> HIDE DEF q
  <1>8. /\ chunk \subseteq ToSet(q) /\ ToSet(rest) \subseteq ToSet(q)
        /\ Distinct(rest) /\ chunk \cap ToSet(rest) = {}
    BY <1>1, <1>3, <1>7, CutInTwo
  <1> HIDE DEF chunk, rest
  <1>9. QueuesInOrder'
    <2> SUFFICES ASSUME NEW d \in Live
                 PROVE  /\ Distinct(conn'[d].queue)
                        /\ \A e \in ToSet(conn'[d].queue) : e <= events'
                        /\ conn'[d].st = "fetching" => conn'[d].queue = << >>
      BY <1>6 DEF QueuesInOrder, Distinct
    <2> QED
      BY <1>4, <1>6, <1>7, <1>8
  <1>10. \A s \in storing : s.event \notin ToSet(q) /\ s.event <= events
    BY <1>1 DEF EventsOnce, StoringApart, q
  <1>11. \A s \in [event : chunk, from : {c}, seen : {<<None>>}] :
            s.event \in chunk /\ s.from = c /\ s.seen = <<None>>
            /\ s = [event |-> s.event, from |-> c, seen |-> <<None>>]
    OBVIOUS
  <1>12. StoringApart'
    <2>1. \A s \in storing' : /\ s.event <= events'
                              /\ s.event \notin ToSet(rest)
      BY <1>4, <1>5, <1>7, <1>8, <1>10, <1>11
    <2>2. ASSUME NEW s \in storing', NEW t \in storing', s.event = t.event
          PROVE  s = t
      <3>1. CASE s \in storing /\ t \in storing
        BY <2>2, <3>1 DEF EventsOnce, StoringApart
      <3>2. CASE s \notin storing /\ t \notin storing
        <4>1. s \in [event : chunk, from : {c}, seen : {<<None>>}]
              /\ t \in [event : chunk, from : {c}, seen : {<<None>>}]
          BY <1>5, <3>2
        <4>2. s = [event |-> s.event, from |-> c, seen |-> <<None>>]
              /\ t = [event |-> t.event, from |-> c, seen |-> <<None>>]
          BY <1>11, <4>1
        <4> QED
          BY <2>2, <4>2
      <3>3. CASE (s \in storing) # (t \in storing)
        BY <1>5, <1>8, <1>10, <1>11, <2>2, <3>3
      <3> QED
        BY <3>1, <3>2, <3>3
    <2> QED
      BY <1>6, <2>1, <2>2 DEF StoringApart
  <1>13. \A e : Past(e) => Past(e)'
    <2> SUFFICES ASSUME NEW e, Past(e)
                 PROVE  Past(e)'
      OBVIOUS
    <2>1. e \notin ToSet(q) /\ \A s \in storing : s.event # e
      BY <1>1 DEF Past, q
    <2>2. e \notin ToSet(rest) /\ e \notin chunk
      BY <1>8, <2>1
    <2>3. \A s \in storing' : s.event # e
      BY <1>5, <1>11, <2>1, <2>2
    <2> QED
      BY <1>4, <1>6, <2>2, <2>3 DEF Past
  <1>14. ListsPast'
    <2>1. Distinct(recent') /\ \A e \in ToSet(recent') : Past(e)'
      BY <1>4, <1>13 DEF EventsOnce, ListsPast
    <2>2. ASSUME NEW s \in storing', s.seen # <<None>>
          PROVE  Distinct(s.seen) /\ \A e \in ToSet(s.seen) : Past(e)'
      <3>1. s \in storing
        BY <1>5, <1>11, <2>2
      <3> QED
        BY <1>13, <2>2, <3>1 DEF EventsOnce, ListsPast
    <2> QED
      BY <2>1, <2>2 DEF ListsPast, Distinct
  <1> QED
    BY <1>9, <1>12, <1>14 DEF EventsOnce

\* A call that reads the list takes a copy of past events.
LEMMA OnceSeen ==
    ASSUME TypeOK, EventsOnce, NEW s \in storing, SeesRecent(s)
    PROVE  EventsOnce'
  <1> USE DEF TypeOK
  <1> DEFINE u == [s EXCEPT !.seen = recent]
  <1>1. storing' = (storing \ {s}) \cup {u} /\ UNCHANGED <<recent, events, conn>>
    BY DEF SeesRecent, storage, counters
  <1>2. u.event = s.event /\ u.seen = recent
    BY DEF Storing
  <1> HIDE DEF u
  <1>3. QueuesInOrder'
    BY <1>1 DEF EventsOnce, QueuesInOrder, Live, In, Distinct
  <1>4. Live' = Live
    BY <1>1 DEF Live, In
  <1>5. \A e : Past(e) => Past(e)'
    BY <1>1, <1>2, <1>4 DEF Past
  <1>6. StoringApart'
    BY <1>1, <1>2, <1>4 DEF EventsOnce, StoringApart
  <1>7. ListsPast'
    BY <1>1, <1>2, <1>5 DEF EventsOnce, ListsPast, Distinct
  <1> QED
    BY <1>3, <1>6, <1>7 DEF EventsOnce

\* A call that writes the list puts its own event in front of past ones.
LEMMA OnceStored ==
    ASSUME TypeOK, EventsOnce, NEW s \in storing, StoresRecent(s)
    PROVE  EventsOnce'
  <1> USE DEF TypeOK
  <1> DEFINE all == <<s.event>> \o s.seen
             n == IF Len(all) > Keep THEN Keep ELSE Len(all)
  <1>1. /\ recent' = SubSeq(all, 1, n) /\ s.seen # <<None>>
        /\ storing' = storing \ {s} /\ UNCHANGED <<events, conn>>
    BY DEF StoresRecent, counters
  <1>2. s.event \in 1..MaxEvents /\ s.seen \in Seq(1..MaxEvents)
    BY <1>1 DEF Storing
  <1>3. Distinct(s.seen) /\ \A e \in ToSet(s.seen) : Past(e)
    BY <1>1 DEF EventsOnce, ListsPast
  <1>4. s.event \notin ToSet(s.seen)
    BY <1>3 DEF Past
  <1>5. /\ all \in Seq(1..MaxEvents) /\ Len(all) \in Nat
        /\ Distinct(all) /\ ToSet(all) = ToSet(s.seen) \cup {s.event}
    <2>1. /\ all \in Seq(1..MaxEvents)
          /\ \A x : x \in ToSet(all) <=> x \in ToSet(s.seen) \/ x = s.event
          /\ Distinct(s.seen) /\ s.event \notin ToSet(s.seen) => Distinct(all)
      BY <1>2, InFront
    <2> HIDE DEF all
    <2> QED
      BY <1>3, <1>4, <2>1, LenProperties
  <1> HIDE DEF all
  <1>6. n \in 0..Len(all)
    <2>1. Len(all) \in Nat /\ Keep \in Nat
      BY <1>5, ExtensionAssumption
    <2> HIDE DEF TypeOK
    <2> QED
      BY <2>1
  <1> HIDE DEF n
  <1>7. Distinct(recent') /\ ToSet(recent') \subseteq ToSet(s.seen) \cup {s.event}
    BY <1>1, <1>5, <1>6, CutInTwo
  <1>8. Live' = Live
    BY <1>1 DEF Live, In
  <1>9. \A e : Past(e) => Past(e)'
    BY <1>1, <1>8 DEF Past
  <1>10. Past(s.event)'
    BY <1>1, <1>8 DEF EventsOnce, StoringApart, Past
  <1>11. QueuesInOrder'
    BY <1>1, <1>8 DEF EventsOnce, QueuesInOrder, Distinct
  <1>12. StoringApart'
    BY <1>1, <1>8 DEF EventsOnce, StoringApart
  <1>13. ListsPast'
    <2>1. \A e \in ToSet(recent') : Past(e)'
      BY <1>3, <1>7, <1>9, <1>10
    <2>2. \A t \in storing' : t.seen # <<None>> =>
            Distinct(t.seen) /\ \A e \in ToSet(t.seen) : Past(e)'
      BY <1>1, <1>9 DEF EventsOnce, ListsPast
    <2> QED
      BY <1>7, <2>1, <2>2 DEF ListsPast, Distinct
  <1> QED
    BY <1>11, <1>12, <1>13 DEF EventsOnce

\* The worker opens one stream at a time.
LEMMA OneLiveStep ==
    ASSUME TypeOK, browser = "chrome", OneLive, [Next]_vars
    PROVE  OneLive'
  <1> USE DEF TypeOK
  <1>1. CASE ChromeOpens
    <2>1. PICK c \in Conn :
            /\ conn' = [d \in Conn |-> IF d = c THEN NewConn(key)
                                       ELSE IF d = current /\ d \in Live
                                       THEN [conn[d] EXCEPT !.st = "aborting"] ELSE conn[d]]
            /\ current' = c
      BY <1>1 DEF ChromeOpens, Free, In
    <2>2. ASSUME NEW d \in Conn, d # c
          PROVE  d \notin Live'
      <3>1. CASE d \in Live
        <4>1. d = current
          BY <3>1 DEF OneLive
        <4>2. conn'[d].st = "aborting"
          BY <2>1, <2>2, <3>1, <4>1 DEF Connection
        <4> QED
          BY <4>2 DEF Live, In
      <3>2. CASE d \notin Live
        BY <2>1, <2>2, <3>2 DEF Live, In
      <3> QED
        BY <3>1, <3>2
    <2> QED
      BY <2>1, <2>2 DEF OneLive, Live, In
  <1>2. ASSUME NEW c \in Conn, Connects(c) \/ Reads(c)
        PROVE  OneLive'
    <2>1. /\ current' = current
          /\ \A d \in Conn : d \in Live' => d \in Live
      BY <1>2 DEF Connects, Reads, Connection, Live, In
    <2> QED
      BY <2>1 DEF OneLive, Live, In
  <1>3. ASSUME NEW c \in Conn, Ends(c)
        PROVE  OneLive'
    <2>1. \A d \in Conn : d \in Live' => d # c /\ d \in Live
      BY <1>3, NewType DEF Ends, Live, In, NoConn
    <2>2. current = c \/ current' = current
      BY <1>3 DEF Ends, Over
    <2> QED
      BY <2>1, <2>2 DEF OneLive, Live, In
  <1>4. CASE Publish
    <2>1. /\ current' = current
          /\ \A d \in Conn : conn'[d].st = conn[d].st
      BY <1>4 DEF Publish, Connection
    <2> QED
      BY <2>1 DEF OneLive, Live, In
  <1>5. CASE WorkerStops
    BY <1>5 DEF WorkerStops, OneLive, Live, In, NoConn
  <1>6. CASE UNCHANGED <<conn, current>>
    BY <1>6 DEF OneLive, Live, In
  <1> QED
    BY <1>1, <1>2, <1>3, <1>4, <1>5, <1>6
    DEF Next, vars, FirefoxOpens, FirefoxSaves, FindsNoSettings, TimerFires, SeesRecent,
        StoresRecent, ChromeSaves, AlarmRings, NodeGoes, NodeReturns

\* Every step of Chrome keeps events apart.
LEMMA EventsOnceStep ==
    ASSUME TypeOK, browser = "chrome", OneLive, EventsOnce, [Next]_vars
    PROVE  EventsOnce'
  <1> USE DEF TypeOK
  <1>1. CASE ChromeOpens
    <2>1. PICK c \in Conn :
            conn' = [d \in Conn |-> IF d = c THEN NewConn(key)
                                    ELSE IF d = current /\ d \in Live
                                    THEN [conn[d] EXCEPT !.st = "aborting"] ELSE conn[d]]
      BY <1>1 DEF ChromeOpens, Free, In
    <2>2. ASSUME NEW d \in Live'
          PROVE  conn'[d].queue = << >> \/ (d \in Live /\ conn'[d] = conn[d])
      <3>1. CASE d = c
        BY <2>1, <3>1, NewType
      <3>2. CASE d # c /\ d = current /\ d \in Live
        <4>3. d \in Conn
          BY DEF Live, In
        <4>1. conn'[d] = [conn[d] EXCEPT !.st = "aborting"] /\ conn[d] \in Connection
          BY <2>1, <3>2, <4>3
        <4>2. conn'[d].st = "aborting"
          BY <4>1 DEF Connection
        <4> QED
          BY <4>2 DEF Live, In
      <3>3. CASE d # c /\ ~(d = current /\ d \in Live)
        BY <2>1, <3>3 DEF Live, In
      <3> QED
        BY <3>1, <3>2, <3>3
    <2> QED
      BY <1>1, <2>2, NothingMoves DEF ChromeOpens, storage, counters
  <1>2. ASSUME NEW c \in Conn, Connects(c)
        PROVE  EventsOnce'
    <2>1. \A d \in Live' : /\ d \in Live /\ conn'[d].queue = conn[d].queue
                           /\ conn'[d].st = "fetching" => conn[d].st = "fetching"
      BY <1>2 DEF Connects, Live, In, Connection
    <2> QED
      BY <1>2, <2>1, NothingMoves DEF Connects, storage, counters
  <1>3. ASSUME NEW c \in Conn, Ends(c)
        PROVE  EventsOnce'
    <2>1. \A d \in Live' : d \in Live /\ conn'[d] = conn[d]
      BY <1>3 DEF Ends, Live, In, NoConn
    <2> QED
      BY <1>3, <2>1, NothingMoves DEF Ends, storage, counters
  <1>4. CASE WorkerStops
    <2>1. Live' = {} /\ storing' \subseteq storing /\ UNCHANGED <<events, recent>>
      BY <1>4 DEF WorkerStops, Live, In, NoConn, storage
    <2> QED
      BY <2>1, NothingMoves
  <1>5. CASE UNCHANGED <<events, recent, storing, conn>>
    <2>1. Live' = Live
      BY <1>5 DEF Live, In
    <2> QED
      BY <1>5, <2>1, NothingMoves
  <1>6. ASSUME NEW c \in Conn, Reads(c)
        PROVE  EventsOnce'
    BY <1>6, OnceRead
  <1>7. ASSUME NEW s \in storing, SeesRecent(s) \/ StoresRecent(s)
        PROVE  EventsOnce'
    BY <1>7, OnceSeen, OnceStored
  <1> QED
    BY <1>1, <1>2, <1>3, <1>4, <1>5, <1>6, <1>7, OncePublished
    DEF Next, vars, storage, counters, FirefoxOpens, FirefoxSaves, FindsNoSettings, TimerFires,
        ChromeSaves, Saves, AlarmRings, NodeGoes, NodeReturns

\* The invariant of Chrome, and none of Firefox, who may store an event twice.
LEMMA OnceHolds == Spec => [](TypeOK /\ OnceInv)
  <1>1. ASSUME TypeOK, OnceInv, [Next]_vars
        PROVE  OnceInv'
    <2>1. browser' = browser
      BY <1>1 DEF Next, vars, ChromeOpens, FirefoxOpens, FindsNoSettings, TimerFires, Connects,
         Ends, Reads, Publish, SeesRecent, StoresRecent, ChromeSaves, FirefoxSaves, WorkerStops,
         AlarmRings, NodeGoes, NodeReturns
    <2> QED
      BY <1>1, <2>1, OneLiveStep, EventsOnceStep DEF OnceInv
  <1> QED
    BY <1>1, OnceInit, TypesInit, TypesStep, PTL DEF Spec

\* Chrome's worker never has two streams alive, and no event is twice in the list or on its
\* way into it, whatever alarms, messages and timers open streams, however many events
\* a chunk has, and whenever the browser stops the worker.
THEOREM StoresOnce == Spec => []ChromeStoresOnce
  <1>1. TypeOK /\ OnceInv => ChromeStoresOnce
    <2> SUFFICES ASSUME TypeOK, OneLive, EventsOnce
                 PROVE  /\ Cardinality(Live) <= 1
                        /\ \A i, j \in 1..Len(recent) : recent[i] = recent[j] => i = j
                        /\ \A s, t \in storing : s.event = t.event => s = t
                        /\ \A s \in storing : s.event \notin ToSet(recent)
      BY DEF OnceInv, ChromeStoresOnce
    <2>1. Cardinality(Live) <= 1
      <3>1. Live = {} \/ Live = {current}
        BY DEF OneLive
      <3>2. Cardinality({}) = 0 /\ Cardinality({current}) = 1
        BY FS_EmptySet, FS_Singleton
      <3> QED
        BY <3>1, <3>2
    <2> QED
      BY <2>1 DEF EventsOnce, StoringApart, ListsPast, Past, Distinct
  <1> QED
    BY <1>1, OnceHolds, PTL

-----------------------------------------------------------------------------
(* Firefox and its stream.                                                 *)

\* A stream of Firefox that is open, while the node can be reached, is closed by new settings
\* only: no timer and no second call of openConnection takes it down.
THEOREM KeepsStream == Spec => FirefoxKeepsStream
  <1>1. ASSUME TypeOK, Next, NEW c \in Conn, browser = "firefox", conn[c].st = "open", node
        PROVE  conn'[c].st = "open" \/ saves' # saves
    <2> USE <1>1 DEF TypeOK
    <2>1. CASE FirefoxOpens
      BY <2>1 DEF FirefoxOpens, Free, In
    <2>2. ASSUME NEW d \in Conn, Connects(d) \/ Ends(d) \/ Reads(d)
          PROVE  conn'[c].st = "open"
      BY <2>2 DEF Connects, Ends, Reads, Connection
    <2>3. CASE Publish
      BY <2>3 DEF Publish, Connection
    <2>4. CASE FirefoxSaves
      BY <2>4 DEF FirefoxSaves, Saves
    <2>5. CASE UNCHANGED conn
      BY <2>5
    <2> QED
      BY <2>1, <2>2, <2>3, <2>4, <2>5 DEF Next, ChromeOpens, ChromeSaves, WorkerStops,
         FindsNoSettings, TimerFires, SeesRecent, StoresRecent, AlarmRings, NodeGoes, NodeReturns
  <1>2. TypeOK /\ [Next]_vars =>
          [\A c \in Conn : browser = "firefox" /\ conn[c].st = "open" /\ node
              => conn'[c].st = "open" \/ saves' # saves]_vars
    BY <1>1
  <1> QED
    BY <1>2, TypesHold, PTL DEF Spec, FirefoxKeepsStream
=============================================================================
