-------------------------- MODULE DhcpServerProofs --------------------------
(***************************************************************************)
(* Proofs about the scenes of the DHCP server, for every set of nodes,     *)
(* clients and addresses and every lease time: a handover between settled  *)
(* servers gives no address twice and forgets no lease, with any number of *)
(* restarts; a pin of what is unused holds, with any number of changes of  *)
(* settings, lost leaderships and restarts.                                *)
(*                                                                         *)
(* The second scene is an instance, Pins, of the module the first one      *)
(* extends; the definitions of an instance are others to the provers, so   *)
(* its types are proved again.                                             *)
(***************************************************************************)
EXTENDS MCDhcpScenes, FiniteSetTheorems, WellFoundedInduction, TLAPS

\* Leadership moves with processes only, when all is quiet; clients wait for what
\* they set off, and a release for the requests of others; nothing is configured, and
\* what the leader commits goes through.
Handover == Quiet /\ Settled /\ ReleaseAlone /\ Commits /\ MaxLoss = 0 /\ MaxAdmin = 0

-----------------------------------------------------------------------------
(* The invariant.                                                          *)

\* Settings are those of the start, on every node, and no lease is a pin.
SettingsStay ==
    /\ config.static = NoLeases /\ config.on
    /\ \A n \in Node : store[n].config = config
    /\ \A n \in Node, m \in Mac : ~Pinned(table[n][m])

\* Only a leader that has come up and followed its election serves.
LeaderServes ==
    \A n \in Node : /\ serving[n] => leader = n /\ ~event[n]
                    /\ event[n] => leader = n
                    /\ booting[n] => leader # n

\* A node that does not serve has nothing in memory.
OthersAreEmpty ==
    \A n \in Node : ~serving[n] =>
        /\ table[n] = NoLeases /\ request[n] = NoLeases /\ sending[n] = {}
        /\ \A m \in Mac : discover[n][m] = 0

Puts(n) == {e \in sending[n] : e.op = "put"}
Dels(n) == {e \in sending[n] : e.op = "del"}

Has(n, m, a) == table[n][m] # None /\ table[n][m].ip = a

\* No two clients have one address in the table.
TableIsUnique(n) ==
    \A m, k \in Mac : m # k /\ table[n][m] # None => ~Has(n, k, table[n][m].ip)

\* A client has one packet in hand, and its lease does not change behind it.
OneInHand(n) ==
    \A m \in Mac :
        /\ request[n][m] # None => discover[n][m] = 0 /\ request[n][m].found = table[n][m]
        /\ discover[n][m] \in {0, 1}
        /\ discover[n][m] = 1 => table[n][m] = None

\* A client that uses an address has it in the table.
HeldIsHad(n) == \A m \in Mac : Holds(m) => Has(n, m, held[m].ip)

\* An upsert under way is of the lease its client has, and of the last one.
PutsAreCurrent(n) ==
    \A e \in Puts(n) : /\ request[n][e.mac] = None
                       /\ Has(n, e.mac, e.ip)
                       /\ Holds(e.mac) => held[e.mac].exp <= e.exp

\* A delete under way is alone, and nobody uses the address.
DelIsAlone(n) ==
    \A e \in Dels(n) : /\ sending[n] = {e}
                       /\ request[n] = NoLeases
                       /\ \A m \in Mac : Holds(m) => held[m].ip # e.ip

Written(m) ==
    LET row == bucket[held[m].ip]
    IN  row # None /\ row.mac = m /\ row.exp >= held[m].exp

\* A lease in use is in the bucket, or on its way there.
HeldIsWritten(n) ==
    \A m \in Mac : Holds(m) =>
        \/ Written(m)
        \/ \E e \in Puts(n) : e.mac = m /\ e.ip = held[m].ip /\ e.exp >= held[m].exp

Live(a) == bucket[a] # None /\ bucket[a].exp >= now

\* A row that has not run out is of the lease its client has, or is being deleted.
RowsAreHad(n) ==
    \A a \in Addr : Live(a) =>
        Has(n, bucket[a].mac, a) \/ \E e \in Dels(n) : e.ip = a

ServerInv(n) ==
    /\ TableIsUnique(n) /\ OneInHand(n) /\ HeldIsHad(n)
    /\ PutsAreCurrent(n) /\ DelIsAlone(n) /\ HeldIsWritten(n) /\ RowsAreHad(n)

\* While nobody serves, the bucket says all there is to know.
BucketInv ==
    /\ \A n \in Node : store[n] = Committed
    /\ \A m \in Mac : Holds(m) => Written(m)
    /\ \A a, b \in Addr : Live(a) /\ Live(b) /\ bucket[a].mac = bucket[b].mac => a = b

HeldIsRecent == \A m \in Mac : held[m] # None => held[m].exp <= now + LeaseTime

HandoverInv ==
    /\ TypeOK /\ SettingsStay /\ LeaderServes /\ OthersAreEmpty
    /\ \A n \in Node : serving[n] => ServerInv(n)
    /\ (\A n \in Node : ~serving[n]) => BucketInv
    /\ HeldIsRecent /\ NoAddressHeldTwice

-----------------------------------------------------------------------------
(* Facts about states.                                                     *)

\* An update of one client's entry at one node.
LEMMA UpdateAt ==
    ASSUME NEW S, NEW f \in [Node -> [Mac -> S]], NEW n \in Node, NEW m \in Mac, NEW v \in S,
           NEW g, g = [f EXCEPT ![n][m] = v]
    PROVE  /\ g \in [Node -> [Mac -> S]]
           /\ g[n][m] = v
           /\ \A k \in Mac : k # m => g[n][k] = f[n][k]
           /\ \A o \in Node : o # n => g[o] = f[o]
  OBVIOUS

\* The same for the goroutines of a node.
LEMMA UpdateNode ==
    ASSUME NEW S, NEW f \in [Node -> S], NEW n \in Node, NEW v \in S,
           NEW g, g = [f EXCEPT ![n] = v]
    PROVE  /\ g \in [Node -> S]
           /\ g[n] = v
           /\ \A o \in Node : o # n => g[o] = f[o]
  OBVIOUS

\* At most one node serves.
LEMMA OneServer ==
    ASSUME HandoverInv
    PROVE  \A n, o \in Node : serving[n] /\ serving[o] => n = o
  BY DEF HandoverInv, LeaderServes

\* Who uses an address is alone with it, by the table of the node that serves.
LEMMA UsersAreApart ==
    ASSUME NEW n, HeldIsHad(n), TableIsUnique(n)
    PROVE  NoAddressHeldTwice
  BY DEF HeldIsHad, TableIsUnique, NoAddressHeldTwice, Has

\* What the server does leaves the other nodes as empty as they are.
LEMMA ServerStep ==
    ASSUME HandoverInv, NEW n \in Node, serving[n],
           UNCHANGED <<leader, event, booting, serving>>,
           \A o \in Node : o # n => /\ table'[o] = table[o] /\ request'[o] = request[o]
                                    /\ sending'[o] = sending[o]
                                    /\ discover'[o] = discover[o],
           TypeOK', SettingsStay', ServerInv(n)', HeldIsRecent'
    PROVE  HandoverInv'
  <1>1. \A o \in Node : o # n => ~serving[o]
    BY OneServer
  <1>2. LeaderServes'
    BY DEF HandoverInv, LeaderServes
  <1>3. OthersAreEmpty'
    BY <1>1 DEF HandoverInv, OthersAreEmpty
  <1>4. NoAddressHeldTwice'
    BY DEF ServerInv, HeldIsHad, TableIsUnique, NoAddressHeldTwice, Has
  <1>5. \A o \in Node : serving'[o] => o = n
    BY <1>1
  <1> QED
    BY <1>2, <1>3, <1>4, <1>5 DEF HandoverInv

-----------------------------------------------------------------------------
(* Steps outside the handlers.                                             *)

\* Nothing is leased yet and nobody serves.
LEMMA InvInit == DhcpAssumption /\ NoneIsNoRow /\ Handover /\ Init => HandoverInv
  <1> SUFFICES ASSUME DhcpAssumption, NoneIsNoRow, Handover, Init PROVE HandoverInv
    OBVIOUS
  <1>0. /\ MaxTime \in Nat /\ LeaseTime \in Nat /\ Never \in Nat /\ MaxLate \in Nat
        /\ MaxLoss \in Nat /\ MaxCrash \in Nat /\ MaxAdmin \in Nat
    BY DEF DhcpAssumption, Never
  <1>1. NoLeases \in [Mac -> Addr \cup {None}] /\ \A m \in Mac : NoLeases[m] = None
    BY DEF NoLeases
  <1>2. TypeOK
    <2>1. config \in Settings
      BY <1>1 DEF Init, Settings
    <2>2. bucket \in Rows
      BY DEF Init, Rows
    <2>3. store \in [Node -> [config : Settings, rows : Rows]]
      BY <2>1, <2>2 DEF Init, Committed
    <2>4. table \in [Node -> [Mac -> Lease \cup {None}]]
          /\ request \in [Node -> [Mac -> Requested \cup {None}]]
      BY DEF Init, Nothing, NoLeases
    <2>5. discover \in [Node -> [Mac -> 0..MaxLate]]
      BY <1>0 DEF Init
    <2>6. sending \in [Node -> SUBSET Event] /\ held \in [Mac -> Held \cup {None}]
      BY DEF Init, NoLeases
    <2>7. used \in [loss : 0..MaxLoss, crash : 0..MaxCrash, admin : 0..MaxAdmin]
      BY <1>0 DEF Init
    <2> QED
      BY <1>0, <1>1, <2>1, <2>2, <2>3, <2>4, <2>5, <2>6, <2>7 DEF TypeOK, Init
  <1>3. SettingsStay
    BY <1>1 DEF SettingsStay, Init, Committed, Nothing, Pinned
  <1>4. LeaderServes /\ OthersAreEmpty /\ (\A n \in Node : ~serving[n])
    BY DEF LeaderServes, OthersAreEmpty, Init, Nothing
  <1>5. \A m \in Mac : held[m] = None /\ ~Holds(m)
    BY <1>1 DEF Init, Holds
  <1>6. \A a \in Addr : ~Live(a)
    BY DEF Init, Live
  <1>7. BucketInv
    BY <1>5, <1>6 DEF BucketInv, Init
  <1> QED
    BY <1>2, <1>3, <1>4, <1>5, <1>7 DEF HandoverInv, HeldIsRecent, NoAddressHeldTwice

\* Time only ends the use of addresses and the life of rows.
LEMMA InvTick ==
    ASSUME DhcpAssumption, HandoverInv, Tick PROVE HandoverInv'
  <1>0. /\ MaxTime \in Nat /\ LeaseTime \in Nat /\ Never \in Nat /\ now \in 0..MaxTime
        /\ now' = now + 1 /\ now' \in 0..MaxTime
    BY DEF DhcpAssumption, Never, HandoverInv, TypeOK, Tick
  <1>1. /\ UNCHANGED <<leader, config, bucket, store, event, booting, serving, table>>
        /\ UNCHANGED <<discover, request, sending, offer, held, used>>
    BY DEF Tick, raft, server, client
  <1>2. TypeOK'
    BY <1>0, <1>1 DEF HandoverInv, TypeOK
  <1>t. /\ bucket \in Rows /\ held \in [Mac -> Held \cup {None}]
    BY DEF HandoverInv, TypeOK
  <1>3. \A m \in Mac : Holds(m)' => Holds(m)
    BY <1>0, <1>1, <1>t DEF Holds, Held, Times
  <1>4. \A a \in Addr : Live(a)' => Live(a)
    BY <1>0, <1>1, <1>t DEF Live, Rows, Persisted, Times
  <1>5. \A m \in Mac : Written(m) => Written(m)'
    BY <1>1 DEF Written
  <1>6. \A n \in Node, m \in Mac : \A a : Has(n, m, a) => Has(n, m, a)'
    BY <1>1 DEF Has
  <1>7. \A n \in Node : Puts(n)' = Puts(n) /\ Dels(n)' = Dels(n)
    BY <1>1 DEF Puts, Dels
  <1>8. SettingsStay' /\ LeaderServes' /\ OthersAreEmpty'
    BY <1>1 DEF HandoverInv, SettingsStay, LeaderServes, OthersAreEmpty
  <1>9. ASSUME NEW n \in Node, serving[n] PROVE ServerInv(n)'
    <2>0. ServerInv(n)
      BY <1>9 DEF HandoverInv
    <2>1. TableIsUnique(n)' /\ OneInHand(n)'
      BY <2>0, <1>1 DEF ServerInv, TableIsUnique, OneInHand, Has
    <2>2. HeldIsHad(n)'
      BY <2>0, <1>1, <1>3, <1>6 DEF ServerInv, HeldIsHad
    <2>3. PutsAreCurrent(n)'
      <3>1. \A e \in Puts(n) : e.mac \in Mac
        BY DEF Puts, HandoverInv, TypeOK, Event
      <3> QED
        BY <2>0, <3>1, <1>1, <1>3, <1>6, <1>7 DEF ServerInv, PutsAreCurrent
    <2>4. DelIsAlone(n)'
      BY <2>0, <1>1, <1>3, <1>7 DEF ServerInv, DelIsAlone
    <2>5. HeldIsWritten(n)'
      BY <2>0, <1>1, <1>3, <1>5, <1>7 DEF ServerInv, HeldIsWritten
    <2>6. RowsAreHad(n)'
      <3>1. \A a \in Addr : Live(a) => bucket[a].mac \in Mac
        BY <1>t DEF Live, Rows, Persisted
      <3> QED
        BY <2>0, <3>1, <1>1, <1>4, <1>6, <1>7 DEF ServerInv, RowsAreHad
    <2> QED
      BY <2>1, <2>2, <2>3, <2>4, <2>5, <2>6 DEF ServerInv
  <1>10. (\A n \in Node : ~serving[n]) => BucketInv'
    BY <1>1, <1>3, <1>4, <1>5 DEF HandoverInv, BucketInv, Committed
  <1>11. HeldIsRecent'
    BY <1>0, <1>1, <1>t DEF HandoverInv, HeldIsRecent, Held, Times
  <1>12. NoAddressHeldTwice'
    BY <1>1, <1>3 DEF HandoverInv, NoAddressHeldTwice
  <1> QED
    BY <1>1, <1>2, <1>8, <1>9, <1>10, <1>11, <1>12 DEF HandoverInv

\* What ServerInv and BucketInv are about.
LEMMA SameServer ==
    ASSUME NEW n, ServerInv(n),
           UNCHANGED <<now, bucket, table, discover, request, sending, held>>
    PROVE  ServerInv(n)'
  <1>1. TableIsUnique(n)' /\ OneInHand(n)' /\ HeldIsHad(n)'
    BY DEF ServerInv, TableIsUnique, OneInHand, HeldIsHad, Has, Holds
  <1>2. PutsAreCurrent(n)' /\ DelIsAlone(n)'
    BY DEF ServerInv, PutsAreCurrent, DelIsAlone, Has, Holds, Puts, Dels
  <1>3. HeldIsWritten(n)' /\ RowsAreHad(n)'
    BY DEF ServerInv, HeldIsWritten, RowsAreHad, Has, Holds, Puts, Dels, Written, Live
  <1> QED
    BY <1>1, <1>2, <1>3 DEF ServerInv

\* And what the bucket says of them.
LEMMA SameBucket ==
    ASSUME BucketInv, UNCHANGED <<now, bucket, held>>, \A n \in Node : store'[n] = Committed'
    PROVE  BucketInv'
  BY DEF BucketInv, Holds, Written, Live

\* Steps that change leadership, or what a node has applied, or what is offered.
LEMMA SameLeases ==
    ASSUME HandoverInv, TypeOK', LeaderServes', SettingsStay',
           UNCHANGED <<now, bucket, table, discover, request, sending, held, serving>>,
           (\A n \in Node : store[n] = Committed) => \A n \in Node : store'[n] = Committed'
    PROVE  HandoverInv'
  <1>1. OthersAreEmpty' /\ HeldIsRecent' /\ NoAddressHeldTwice'
    BY DEF HandoverInv, OthersAreEmpty, HeldIsRecent, NoAddressHeldTwice, Holds
  <1>2. \A n \in Node : serving'[n] => ServerInv(n)'
    BY SameServer DEF HandoverInv
  <1>3. (\A n \in Node : ~serving'[n]) => BucketInv'
    <2> SUFFICES ASSUME \A n \in Node : ~serving[n] PROVE BucketInv'
      OBVIOUS
    <2>1. BucketInv
      BY DEF HandoverInv
    <2>2. \A n \in Node : store'[n] = Committed'
      BY <2>1 DEF BucketInv
    <2> QED
      BY <2>1, <2>2, SameBucket
  <1> QED
    BY <1>1, <1>2, <1>3 DEF HandoverInv

\* A node applies what is committed.
LEMMA InvCatchUp ==
    ASSUME HandoverInv, NEW n \in Node, CatchUp(n) PROVE HandoverInv'
  <1>1. /\ store' = [store EXCEPT ![n] = Committed]
        /\ UNCHANGED <<now, leader, config, bucket, event, booting, serving, table>>
        /\ UNCHANGED <<discover, request, sending, offer, held, used>>
    BY DEF CatchUp, server, client
  <1>2. /\ config \in Settings /\ bucket \in Rows
        /\ store \in [Node -> [config : Settings, rows : Rows]]
    BY DEF HandoverInv, TypeOK
  <1>3. Committed \in [config : Settings, rows : Rows] /\ Committed.config = config
        /\ Committed' = Committed
    BY <1>1, <1>2 DEF Committed
  <1>4. store' \in [Node -> [config : Settings, rows : Rows]] /\ store'[n] = Committed
        /\ \A o \in Node : o # n => store'[o] = store[o]
    BY <1>1, <1>2, <1>3
  <1>5. TypeOK'
    BY <1>1, <1>4 DEF HandoverInv, TypeOK
  <1>6. LeaderServes' /\ SettingsStay'
    BY <1>1, <1>3, <1>4 DEF HandoverInv, LeaderServes, SettingsStay
  <1> QED
    BY <1>1, <1>3, <1>4, <1>5, <1>6, SameLeases

\* A node is elected while nobody serves.
LEMMA InvElect ==
    ASSUME DhcpAssumption, Handover, HandoverInv, NEW n \in Node, Elect(n) PROVE HandoverInv'
  <1>1. /\ leader = None /\ leader' = n /\ event' = [event EXCEPT ![n] = TRUE]
        /\ ~booting[n] /\ \A o \in Node : ~event[o] /\ ~serving[o]
        /\ UNCHANGED <<now, config, bucket, store, booting, serving, table>>
        /\ UNCHANGED <<discover, request, sending, offer, held, used>>
    BY DEF Elect, client, Handover
  <1>2. event \in [Node -> BOOLEAN]
    BY DEF HandoverInv, TypeOK
  <1>3. TypeOK'
    BY <1>1, <1>2 DEF HandoverInv, TypeOK
  <1>4. LeaderServes'
    BY <1>1, <1>2 DEF LeaderServes
  <1>5. SettingsStay'
    BY <1>1 DEF HandoverInv, SettingsStay
  <1>6. Committed' = Committed
    BY <1>1 DEF Committed
  <1> QED
    BY <1>1, <1>3, <1>4, <1>5, <1>6, SameLeases

\* A new leader loads its table from the rows of its store: one live row per client,
\* so the last of a client's rows is the one it uses.
LEMMA LoadedTable ==
    ASSUME HandoverInv, BucketInv, DhcpAssumption, NEW l, l = Loaded(NoLeases, bucket)
    PROVE  /\ l \in [Mac -> Lease \cup {None}]
           /\ \A m \in Mac : l[m] # None => ~l[m].static /\ Live(l[m].ip) /\ l[m].ip \in Addr
                                            /\ bucket[l[m].ip].mac = m
           /\ \A a \in Addr : Live(a) => /\ l[bucket[a].mac] # None
                                         /\ l[bucket[a].mac].ip = a
  <1> DEFINE mine(m) == {a \in Addr : /\ bucket[a] # None /\ bucket[a].mac = m
                                      /\ bucket[a].exp >= now}
             last(m) == CHOOSE a \in mine(m) : \A b \in mine(m) : b <= a
             lease(m) == IF mine(m) = {} THEN None
                         ELSE [ip |-> last(m), exp |-> bucket[last(m)].exp, static |-> FALSE]
  <1>1. l = [m \in Mac |-> lease(m)]
    BY DEF Loaded, NoLeases
  <1>2. bucket \in Rows /\ Addr \subseteq Nat
    BY DEF HandoverInv, TypeOK, DhcpAssumption
  <1>3. ASSUME NEW a \in Addr, NEW m \in Mac, a \in mine(m)
        PROVE  mine(m) = {a} /\ last(m) = a
    <2>1. mine(m) = {a}
      BY <1>3 DEF BucketInv, Live
    <2>2. a \in Nat
      BY <1>2
    <2>3. a <= a
      BY <2>2
    <2> HIDE DEF mine
    <2> QED
      BY <2>1, <2>3
  <1>4. ASSUME NEW m \in Mac
        PROVE  /\ lease(m) \in Lease \cup {None}
               /\ lease(m) # None => ~lease(m).static /\ Live(lease(m).ip)
                                     /\ lease(m).ip \in Addr /\ bucket[lease(m).ip].mac = m
    <2>1. CASE mine(m) = {}
      BY <2>1
    <2>2. CASE mine(m) # {}
      <3>1. PICK a \in Addr : a \in mine(m)
        BY <2>2
      <3>2. last(m) = a
        BY <1>3, <3>1
      <3>3. bucket[a].exp \in Times /\ Live(a) /\ bucket[a].mac = m
        BY <1>2, <3>1 DEF Rows, Persisted, Live
      <3>4. lease(m) = [ip |-> a, exp |-> bucket[a].exp, static |-> FALSE]
        BY <2>2, <3>2
      <3> QED
        BY <3>3, <3>4 DEF Lease
    <2> QED
      BY <2>1, <2>2
  <1>5. ASSUME NEW a \in Addr, Live(a)
        PROVE  bucket[a].mac \in Mac /\ lease(bucket[a].mac) # None
               /\ lease(bucket[a].mac).ip = a
    <2>1. bucket[a].mac \in Mac /\ a \in mine(bucket[a].mac)
      BY <1>2, <1>5 DEF Live, Rows, Persisted
    <2>2. last(bucket[a].mac) = a
      BY <1>3, <2>1
    <2>3. lease(bucket[a].mac) = [ip |-> a, exp |-> bucket[a].exp, static |-> FALSE]
      BY <2>1, <2>2
    <2>4. lease(bucket[a].mac) \in Lease
      BY <1>2, <1>5, <2>3 DEF Lease, Live, Rows, Persisted
    <2>5. lease(bucket[a].mac) # None
      BY <2>4, NoneIsNoRow
    <2> QED
      BY <2>1, <2>3, <2>5
  <1> HIDE DEF lease
  <1> QED
    BY <1>1, <1>4, <1>5

\* The elected node loads the bucket and serves.
LEMMA InvFollow ==
    ASSUME DhcpAssumption, Handover, HandoverInv, NEW n \in Node, FollowLeadership(n)
    PROVE  HandoverInv'
  <1> DEFINE l == Loaded(NoLeases, bucket)
  <1>1. /\ event[n] /\ leader = n /\ ~serving[n] /\ (\A o \in Node : ~serving[o])
    BY DEF FollowLeadership, HandoverInv, LeaderServes
  <1>2. BucketInv /\ TypeOK /\ SettingsStay
    BY <1>1 DEF HandoverInv
  <1>3. store[n].config = config /\ store[n].rows = bucket
    BY <1>2 DEF BucketInv, Committed
  <1>4. table[n] = NoLeases /\ request[n] = NoLeases /\ sending[n] = {}
        /\ \A m \in Mac : discover[n][m] = 0
    BY <1>1 DEF HandoverInv, OthersAreEmpty
  <1>5. Rebuilt(table[n], store[n].config) = NoLeases
    BY <1>2, <1>3, <1>4 DEF Rebuilt, SettingsStay, NoLeases, Pinned
  <1>6. /\ event' = [event EXCEPT ![n] = FALSE] /\ table' = [table EXCEPT ![n] = l]
        /\ serving' = [serving EXCEPT ![n] = TRUE]
        /\ UNCHANGED <<now, leader, config, bucket, store, booting, discover, request>>
        /\ UNCHANGED <<sending, offer, held, used>>
    <2>1. store[n].config.on /\ leader = n
      BY <1>1, <1>2, <1>3 DEF SettingsStay
    <2> QED
      BY <1>3, <1>5, <2>1 DEF FollowLeadership, raft, client
  <1>7. /\ l \in [Mac -> Lease \cup {None}]
        /\ \A m \in Mac : l[m] # None => ~l[m].static /\ Live(l[m].ip) /\ l[m].ip \in Addr
                                         /\ bucket[l[m].ip].mac = m
        /\ \A a \in Addr : Live(a) => l[bucket[a].mac] # None /\ l[bucket[a].mac].ip = a
    BY <1>2, LoadedTable
  <1> HIDE DEF l
  <1>8. /\ table' \in [Node -> [Mac -> Lease \cup {None}]] /\ table'[n] = l
        /\ \A o \in Node : o # n => table'[o] = table[o]
        /\ event' \in [Node -> BOOLEAN] /\ serving' \in [Node -> BOOLEAN]
        /\ serving'[n] /\ ~event'[n]
        /\ \A o \in Node : o # n => ~serving'[o] /\ event'[o] = event[o]
    BY <1>1, <1>2, <1>6, <1>7 DEF TypeOK
  <1>9. TypeOK'
    BY <1>2, <1>6, <1>8 DEF TypeOK
  <1>10. SettingsStay'
    BY <1>2, <1>6, <1>7, <1>8 DEF SettingsStay, Pinned
  <1>11. LeaderServes' /\ OthersAreEmpty'
    BY <1>1, <1>6, <1>8 DEF HandoverInv, LeaderServes, OthersAreEmpty
  <1>12. ServerInv(n)'
    <2>1. TableIsUnique(n)'
      BY <1>7, <1>8 DEF TableIsUnique, Has
    <2>2. OneInHand(n)'
      BY <1>4, <1>6 DEF OneInHand, NoLeases
    <2>3. HeldIsHad(n)'
      <3>1. ASSUME NEW m \in Mac, Holds(m) PROVE Has(n, m, held[m].ip)'
        <4>1. Written(m) /\ held[m] \in Held /\ held[m].exp > now
          BY <1>2, <3>1 DEF BucketInv, TypeOK, Holds
        <4>2. held[m].ip \in Addr /\ Live(held[m].ip) /\ bucket[held[m].ip].mac = m
          <5>1. /\ bucket[held[m].ip] # None /\ bucket[held[m].ip].mac = m
                /\ bucket[held[m].ip].exp >= held[m].exp /\ held[m].ip \in Addr
            BY <4>1 DEF Written, Held
          <5>2. bucket \in Rows /\ now \in 0..MaxTime
            BY <1>2 DEF TypeOK
          <5>3. bucket[held[m].ip] \in Persisted
            BY <5>1, <5>2 DEF Rows
          <5>4. bucket[held[m].ip].exp \in Int /\ held[m].exp \in Int /\ now \in Int
            BY <4>1, <5>2, <5>3 DEF Persisted, Held, Times
          <5> QED
            BY <4>1, <5>1, <5>4 DEF Live
        <4>3. l[m] # None /\ l[m].ip = held[m].ip
          BY <1>7, <4>2
        <4> QED
          BY <1>6, <1>8, <4>3 DEF Has
      <3> QED
        BY <3>1, <1>6 DEF HeldIsHad, Holds
    <2>4. PutsAreCurrent(n)' /\ DelIsAlone(n)'
      BY <1>4, <1>6 DEF PutsAreCurrent, DelIsAlone, Puts, Dels
    <2>5. HeldIsWritten(n)'
      BY <1>2, <1>6 DEF BucketInv, HeldIsWritten, Written, Holds
    <2>6. RowsAreHad(n)'
      BY <1>6, <1>7, <1>8 DEF RowsAreHad, Has, Live
    <2> QED
      BY <2>1, <2>2, <2>3, <2>4, <2>5, <2>6 DEF ServerInv
  <1>13. HeldIsRecent' /\ NoAddressHeldTwice'
    BY <1>6 DEF HandoverInv, HeldIsRecent, NoAddressHeldTwice, Holds
  <1> QED
    BY <1>8, <1>9, <1>10, <1>11, <1>12, <1>13 DEF HandoverInv

\* With nothing under way, the bucket has the rows of the leases in use, and no others
\* that have not run out.
LEMMA CalmBucket ==
    ASSUME HandoverInv, Calm, NEW n \in Node, serving[n]
    PROVE  BucketInv
  <1>1. ServerInv(n) /\ Puts(n) = {} /\ Dels(n) = {} /\ \A o \in Node : store[o] = Committed
    BY DEF HandoverInv, Calm, Puts, Dels
  <1>2. \A m \in Mac : Holds(m) => Written(m)
    BY <1>1 DEF ServerInv, HeldIsWritten
  <1>3. \A a \in Addr : Live(a) => Has(n, bucket[a].mac, a)
    BY <1>1 DEF ServerInv, RowsAreHad
  <1>4. \A a, b \in Addr : Live(a) /\ Live(b) /\ bucket[a].mac = bucket[b].mac => a = b
    BY <1>3 DEF Has
  <1> QED
    BY <1>1, <1>2, <1>4 DEF BucketInv

\* A node comes back with nothing, when nothing is under way.
LEMMA InvRestart ==
    ASSUME DhcpAssumption, Handover, HandoverInv, NEW n \in Node, Restart(n)
    PROVE  HandoverInv'
  <1>1. /\ Calm /\ leader' = IF leader = n THEN None ELSE leader
        /\ used.crash < MaxCrash /\ used' = [used EXCEPT !.crash = @ + 1]
        /\ event' = [event EXCEPT ![n] = FALSE] /\ serving' = [serving EXCEPT ![n] = FALSE]
        /\ booting' = [booting EXCEPT ![n] = TRUE]
        /\ table' = [table EXCEPT ![n] = NoLeases]
        /\ discover' = [discover EXCEPT ![n] = [m \in Mac |-> 0]]
        /\ request' = [request EXCEPT ![n] = NoLeases]
        /\ sending' = [sending EXCEPT ![n] = {}]
        /\ UNCHANGED <<now, config, bucket, store, offer, held>>
    BY DEF Restart, client, Handover
  <1>2. TypeOK /\ MaxLate \in Nat /\ MaxCrash \in Nat
    BY DEF HandoverInv, DhcpAssumption
  <1>3. /\ NoLeases \in [Mac -> Lease \cup {None}] /\ NoLeases \in [Mac -> Requested \cup {None}]
        /\ [m \in Mac |-> 0] \in [Mac -> 0..MaxLate] /\ \A m \in Mac : NoLeases[m] = None
    BY <1>2 DEF NoLeases
  <1>4. /\ event' \in [Node -> BOOLEAN] /\ ~event'[n]
        /\ serving' \in [Node -> BOOLEAN] /\ ~serving'[n]
        /\ booting' \in [Node -> BOOLEAN] /\ leader' # n
        /\ \A o \in Node : o # n => /\ event'[o] = event[o] /\ serving'[o] = serving[o]
                                   /\ booting'[o] = booting[o]
    BY <1>1, <1>2, DhcpAssumption DEF TypeOK, DhcpAssumption
  <1>5. /\ table' \in [Node -> [Mac -> Lease \cup {None}]] /\ table'[n] = NoLeases
        /\ discover' \in [Node -> [Mac -> 0..MaxLate]] /\ discover'[n] = [m \in Mac |-> 0]
        /\ \A o \in Node : o # n => table'[o] = table[o] /\ discover'[o] = discover[o]
    BY <1>1, <1>2, <1>3 DEF TypeOK
  <1>6. /\ request' \in [Node -> [Mac -> Requested \cup {None}]] /\ request'[n] = NoLeases
        /\ sending' \in [Node -> SUBSET Event] /\ sending'[n] = {}
        /\ \A o \in Node : o # n => request'[o] = request[o] /\ sending'[o] = sending[o]
    BY <1>1, <1>2, <1>3 DEF TypeOK
  <1>7. used' \in [loss : 0..MaxLoss, crash : 0..MaxCrash, admin : 0..MaxAdmin]
        /\ leader' \in Node \cup {None}
    <2>1. used \in [loss : 0..MaxLoss, crash : 0..MaxCrash, admin : 0..MaxAdmin]
          /\ leader \in Node \cup {None}
      BY <1>2 DEF TypeOK
    <2> QED
      BY <1>1, <1>2, <2>1
  <1>8. TypeOK'
    BY <1>1, <1>2, <1>4, <1>5, <1>6, <1>7 DEF TypeOK
  <1>9. SettingsStay'
    BY <1>1, <1>3, <1>5 DEF HandoverInv, SettingsStay, Pinned
  <1>10. LeaderServes'
    BY <1>1, <1>4 DEF HandoverInv, LeaderServes
  <1>11. OthersAreEmpty'
    <2>1. \A m \in Mac : discover'[n][m] = 0
      BY <1>5
    <2>2. ASSUME NEW o \in Node, o # n, ~serving'[o]
          PROVE  /\ table'[o] = NoLeases /\ request'[o] = NoLeases /\ sending'[o] = {}
                 /\ \A m \in Mac : discover'[o][m] = 0
      <3>1. ~serving[o] /\ OthersAreEmpty
        BY <1>4, <2>2 DEF HandoverInv
      <3>2. /\ table[o] = NoLeases /\ request[o] = NoLeases /\ sending[o] = {}
            /\ \A m \in Mac : discover[o][m] = 0
        BY <3>1 DEF OthersAreEmpty
      <3> QED
        BY <1>5, <1>6, <2>2, <3>2
    <2>3. NoLeases' = NoLeases
      BY DEF NoLeases
    <2> QED
      BY <1>5, <1>6, <2>1, <2>2, <2>3 DEF OthersAreEmpty
  <1>12. ASSUME NEW o \in Node, serving'[o] PROVE ServerInv(o)'
    <2>1. o # n /\ serving[o] /\ ServerInv(o)
      BY <1>4, <1>12 DEF HandoverInv
    <2>2. /\ UNCHANGED <<now, bucket, held>> /\ table'[o] = table[o]
          /\ request'[o] = request[o] /\ discover'[o] = discover[o] /\ sending'[o] = sending[o]
      BY <1>1, <1>5, <1>6, <2>1
    <2>3. TableIsUnique(o)' /\ OneInHand(o)' /\ HeldIsHad(o)'
      BY <2>1, <2>2 DEF ServerInv, TableIsUnique, OneInHand, HeldIsHad, Has, Holds
    <2>4. PutsAreCurrent(o)' /\ DelIsAlone(o)'
      BY <2>1, <2>2 DEF ServerInv, PutsAreCurrent, DelIsAlone, Has, Holds, Puts, Dels
    <2>5. HeldIsWritten(o)' /\ RowsAreHad(o)'
      BY <2>1, <2>2 DEF ServerInv, HeldIsWritten, RowsAreHad, Has, Holds, Puts, Dels, Written,
                        Live
    <2> QED
      BY <2>3, <2>4, <2>5 DEF ServerInv
  <1>13. (\A o \in Node : ~serving'[o]) => BucketInv'
    <2> SUFFICES ASSUME \A o \in Node : ~serving'[o] PROVE BucketInv'
      OBVIOUS
    <2>1. BucketInv
      BY <1>1, CalmBucket DEF HandoverInv
    <2>2. \A o \in Node : store'[o] = Committed'
      BY <1>1, <2>1 DEF BucketInv, Committed
    <2> QED
      BY <1>1, <2>1, <2>2, SameBucket
  <1>14. HeldIsRecent' /\ NoAddressHeldTwice'
    BY <1>1 DEF HandoverInv, HeldIsRecent, NoAddressHeldTwice, Holds
  <1> QED
    BY <1>8, <1>9, <1>10, <1>11, <1>12, <1>13, <1>14 DEF HandoverInv

\* Its server is built before it can lead again, and stays stopped.
LEMMA InvBoot ==
    ASSUME HandoverInv, NEW n \in Node, BootServer(n) PROVE HandoverInv'
  <1>1. booting[n] /\ leader # n /\ ~serving[n]
    BY DEF BootServer, HandoverInv, LeaderServes
  <1>2. /\ booting' = [booting EXCEPT ![n] = FALSE]
        /\ serving' = [serving EXCEPT ![n] = FALSE] /\ table' = table
        /\ UNCHANGED <<now, leader, config, bucket, store, event, discover, request>>
        /\ UNCHANGED <<sending, offer, held, used>>
    BY <1>1 DEF BootServer, raft, client
  <1>3. booting \in [Node -> BOOLEAN] /\ serving \in [Node -> BOOLEAN]
    BY DEF HandoverInv, TypeOK
  <1>4. UNCHANGED serving
    BY <1>1, <1>2, <1>3
  <1>5. /\ booting' \in [Node -> BOOLEAN]
        /\ \A o \in Node : booting'[o] => booting[o]
    BY <1>2, <1>3
  <1>6. TypeOK'
    BY <1>2, <1>4, <1>5 DEF HandoverInv, TypeOK
  <1>7. LeaderServes' /\ SettingsStay' /\ Committed' = Committed
    BY <1>2, <1>4, <1>5 DEF HandoverInv, LeaderServes, SettingsStay, Committed
  <1> QED
    BY <1>2, <1>4, <1>6, <1>7, SameLeases

-----------------------------------------------------------------------------
(* The packet handlers.                                                    *)

\* Only a node that serves has something in hand.
LEMMA BusyServes ==
    ASSUME HandoverInv, NEW n \in Node
    PROVE  /\ \A m \in Mac : discover[n][m] > 0 \/ request[n][m] # None => serving[n]
           /\ sending[n] # {} => serving[n]
  <1>1. \A m \in Mac : NoLeases[m] = None
    BY DEF NoLeases
  <1> QED
    BY <1>1 DEF HandoverInv, OthersAreEmpty

\* A packet is received when nothing is being replicated and the client has no other.
LEMMA Received ==
    ASSUME Handover, NEW n \in Node, NEW m \in Mac, Receives(n, m)
    PROVE  /\ serving[n] /\ leader = n /\ sending[n] = {}
           /\ discover[n][m] = 0 /\ request[n][m] = None
  BY DEF Handover, Receives

\* A step that changes nothing but what is offered.
LEMMA OnlyOffered ==
    ASSUME HandoverInv, offer' \in [Mac -> Addr \cup {None}],
           UNCHANGED <<now, leader, config, bucket, store, event, booting, serving, table>>,
           UNCHANGED <<discover, request, sending, held, used>>
    PROVE  HandoverInv'
  <1>1. TypeOK' /\ LeaderServes' /\ SettingsStay'
    BY DEF HandoverInv, TypeOK, LeaderServes, SettingsStay
  <1>2. Committed' = Committed
    BY DEF Committed
  <1> QED
    BY <1>1, <1>2, SameLeases

\* A step that changes discover[n] alone, where the table allows it.
LEMMA OnlyDiscover ==
    ASSUME DhcpAssumption, HandoverInv, NEW n \in Node, NEW m \in Mac, serving[n],
           NEW k \in 0..MaxLate, discover' = [discover EXCEPT ![n][m] = k],
           k \in {0, 1}, k = 1 => table[n][m] = None /\ request[n][m] = None,
           UNCHANGED <<now, leader, config, bucket, store, event, booting, serving, table>>,
           UNCHANGED <<request, sending, offer, held, used>>
    PROVE  HandoverInv'
  <1>1. discover \in [Node -> [Mac -> 0..MaxLate]] /\ ServerInv(n)
    BY DEF HandoverInv, TypeOK
  <1>2. /\ discover' \in [Node -> [Mac -> 0..MaxLate]] /\ discover'[n][m] = k
        /\ \A j \in Mac : j # m => discover'[n][j] = discover[n][j]
        /\ \A o \in Node : o # n => discover'[o] = discover[o]
    BY <1>1, UpdateAt
  <1>3. TypeOK'
    BY <1>2 DEF HandoverInv, TypeOK
  <1>4. SettingsStay' /\ HeldIsRecent'
    BY DEF HandoverInv, SettingsStay, HeldIsRecent
  <1>5. OneInHand(n)'
    BY <1>1, <1>2 DEF ServerInv, OneInHand
  <1>6. TableIsUnique(n)' /\ HeldIsHad(n)'
    BY <1>1 DEF ServerInv, TableIsUnique, HeldIsHad, Has, Holds
  <1>7. PutsAreCurrent(n)' /\ DelIsAlone(n)'
    BY <1>1 DEF ServerInv, PutsAreCurrent, DelIsAlone, Has, Holds, Puts, Dels
  <1>8. HeldIsWritten(n)' /\ RowsAreHad(n)'
    BY <1>1 DEF ServerInv, HeldIsWritten, RowsAreHad, Has, Holds, Puts, Dels, Written, Live
  <1>9. ServerInv(n)'
    BY <1>5, <1>6, <1>7, <1>8 DEF ServerInv
  <1> QED
    BY <1>2, <1>3, <1>4, <1>9, ServerStep

\* An offer is of an address.
LEMMA OfferType ==
    ASSUME HandoverInv, NEW m \in Mac, NEW a \in Addr, NEW delivered \in BOOLEAN,
           Offered(m, a, delivered)
    PROVE  offer' \in [Mac -> Addr \cup {None}] /\ held' = held
  <1>1. offer \in [Mac -> Addr \cup {None}]
    BY DEF HandoverInv, TypeOK
  <1> QED
    BY <1>1 DEF Offered

\* A client that has a lease is offered it, and one without is looked after.
LEMMA InvDiscover ==
    ASSUME DhcpAssumption, Handover, HandoverInv, NEW n \in Node, NEW m \in Mac, Discover(n, m)
    PROVE  HandoverInv'
  <1>1. /\ Receives(n, m)
        /\ UNCHANGED <<now, leader, config, bucket, store, event, booting, serving, table>>
        /\ UNCHANGED <<request, sending, used>>
    BY DEF Discover, raft
  <1>2. /\ serving[n] /\ discover[n][m] = 0 /\ request[n][m] = None
        /\ table[n][m] \in Lease \cup {None}
        /\ discover \in [Node -> [Mac -> 0..MaxLate]] /\ MaxLate \in Nat
    BY <1>1, Received DEF HandoverInv, TypeOK, DhcpAssumption
  <1>3. ASSUME table[n][m] # None, UNCHANGED discover, NEW delivered \in BOOLEAN,
               Offered(m, table[n][m].ip, delivered)
        PROVE  HandoverInv'
    <2>1. table[n][m].ip \in Addr
      BY <1>2, <1>3 DEF Lease
    <2>2. offer' \in [Mac -> Addr \cup {None}] /\ held' = held
      BY <1>3, <2>1, OfferType
    <2> QED
      BY <1>1, <1>3, <2>2, OnlyOffered
  <1>4. CASE /\ table[n][m] = None /\ discover[n][m] < MaxLate
             /\ discover' = [discover EXCEPT ![n][m] = @ + 1] /\ UNCHANGED client
    <2>1. discover' = [discover EXCEPT ![n][m] = 1] /\ 1 \in 0..MaxLate
      BY <1>2, <1>4
    <2>2. UNCHANGED <<offer, held>>
      BY <1>4 DEF client
    <2>3. /\ UNCHANGED <<now, leader, config, bucket, store, event, booting, serving, table>>
          /\ UNCHANGED <<request, sending, offer, held, used>>
      BY <1>1, <2>2
    <2>4. table[n][m] = None /\ request[n][m] = None /\ serving[n]
      BY <1>2, <1>4
    <2> QED
      BY <2>1, <2>3, <2>4, OnlyDiscover
  <1> QED
    BY <1>3, <1>4 DEF Discover

NewLease(a) == [ip |-> a, exp |-> now + LeaseTime, static |-> FALSE]

\* A lease that starts now has its type.
LEMMA NewLeaseType ==
    ASSUME DhcpAssumption, HandoverInv, NEW a \in Addr
    PROVE  /\ NewLease(a) \in Lease /\ NewLease(a) # None
           /\ NewLease(a).ip = a /\ ~NewLease(a).static /\ now + LeaseTime \in Times
  <1>1. now + LeaseTime \in Times
    BY DEF DhcpAssumption, HandoverInv, TypeOK, Times, Never
  <1>2. NewLease(a) \in Lease
    BY <1>1 DEF NewLease, Lease
  <1> QED
    BY <1>1, <1>2, NoneIsNoRow DEF NewLease

\* A lease given to a client that has none, of an address that nobody has.
LEMMA InvAllocateNew ==
    ASSUME HandoverInv, NEW n \in Node, NEW m \in Mac, NEW l \in Lease, serving[n],
           l # None, ~l.static, \A k \in Mac : ~Has(n, k, l.ip),
           discover[n][m] = 1, discover' = [discover EXCEPT ![n][m] = 0], 0 \in 0..MaxLate,
           table' = [table EXCEPT ![n][m] = l], offer' \in [Mac -> Addr \cup {None}],
           UNCHANGED <<now, leader, config, bucket, store, event, booting, serving>>,
           UNCHANGED <<request, sending, held, used>>
    PROVE  HandoverInv'
  <1>1. /\ ServerInv(n) /\ table \in [Node -> [Mac -> Lease \cup {None}]]
        /\ discover \in [Node -> [Mac -> 0..MaxLate]]
    BY DEF HandoverInv, TypeOK
  <1>2. table[n][m] = None /\ request[n][m] = None
    BY <1>1 DEF ServerInv, OneInHand
  <1>3. /\ table' \in [Node -> [Mac -> Lease \cup {None}]] /\ table'[n][m] = l
        /\ \A k \in Mac : k # m => table'[n][k] = table[n][k]
        /\ \A o \in Node : o # n => table'[o] = table[o]
    BY <1>1
  <1>4. /\ discover' \in [Node -> [Mac -> 0..MaxLate]] /\ discover'[n][m] = 0
        /\ \A k \in Mac : k # m => discover'[n][k] = discover[n][k]
        /\ \A o \in Node : o # n => discover'[o] = discover[o]
    BY <1>1
  <1>5. TypeOK'
    BY <1>3, <1>4 DEF HandoverInv, TypeOK
  <1>6. SettingsStay'
    <2>1. \A o \in Node, k \in Mac : ~Pinned(table'[o][k])
      BY <1>3 DEF HandoverInv, SettingsStay, Pinned
    <2> QED
      BY <2>1 DEF HandoverInv, SettingsStay, Pinned
  <1>7. /\ \A k \in Mac : k # m => \A b : Has(n, k, b)' <=> Has(n, k, b)
        /\ Has(n, m, l.ip)' /\ \A b : ~Has(n, m, b)
    BY <1>2, <1>3 DEF Has
  <1>8. ServerInv(n)'
    <2>1. TableIsUnique(n)'
      BY <1>1, <1>3 DEF ServerInv, TableIsUnique, Has
    <2>2. OneInHand(n)'
      BY <1>1, <1>2, <1>3, <1>4 DEF ServerInv, OneInHand
    <2>3. HeldIsHad(n)'
      <3>1. ~Holds(m)
        BY <1>1, <1>7 DEF ServerInv, HeldIsHad
      <3> QED
        BY <1>1, <1>7, <3>1 DEF ServerInv, HeldIsHad, Holds
    <2>4. PutsAreCurrent(n)' /\ DelIsAlone(n)'
      <3>1. \A e \in Puts(n) : e.mac \in Mac
        BY DEF Puts, HandoverInv, TypeOK, Event
      <3>2. \A e \in Puts(n) : e.mac # m
        BY <1>1, <1>7 DEF ServerInv, PutsAreCurrent
      <3>3. PutsAreCurrent(n)'
        BY <1>1, <1>7, <3>1, <3>2 DEF ServerInv, PutsAreCurrent, Puts, Holds
      <3> QED
        BY <1>1, <3>3 DEF ServerInv, DelIsAlone, Dels, Holds
    <2>5. HeldIsWritten(n)'
      BY <1>1 DEF ServerInv, HeldIsWritten, Holds, Puts, Written
    <2>6. RowsAreHad(n)'
      <3>1. \A b \in Addr : Live(b) => bucket[b].mac \in Mac
        BY DEF Live, HandoverInv, TypeOK, Rows, Persisted
      <3> QED
        BY <1>1, <1>7, <3>1 DEF ServerInv, RowsAreHad, Live, Dels
    <2> QED
      BY <2>1, <2>2, <2>3, <2>4, <2>5, <2>6 DEF ServerInv
  <1>9. HeldIsRecent'
    BY DEF HandoverInv, HeldIsRecent
  <1> QED
    BY <1>1, <1>3, <1>4, <1>5, <1>6, <1>8, <1>9, ServerStep

\* A client without a lease is offered what no lease has, or nothing.
LEMMA InvAllocate ==
    ASSUME DhcpAssumption, HandoverInv, NEW n \in Node, NEW m \in Mac, Allocate(n, m)
    PROVE  HandoverInv'
  <1>1. /\ discover[n][m] > 0 /\ discover' = [discover EXCEPT ![n][m] = @ - 1]
        /\ UNCHANGED <<now, leader, config, bucket, store, event, booting, serving>>
        /\ UNCHANGED <<request, sending, used>>
    BY DEF Allocate, raft
  <1>2. serving[n] /\ ServerInv(n)
    <2>1. serving[n]
      BY <1>1, BusyServes
    <2> QED
      BY <2>1 DEF HandoverInv
  <1>3. ~Pinned(table[n][m])
    BY DEF HandoverInv, SettingsStay
  <1>4. /\ discover[n][m] = 1 /\ 0 \in 0..MaxLate
        /\ discover' = [discover EXCEPT ![n][m] = 0]
    <2>1. MaxLate \in Nat /\ discover \in [Node -> [Mac -> 0..MaxLate]]
      BY DEF DhcpAssumption, HandoverInv, TypeOK
    <2>2. discover[n][m] \in {0, 1} /\ discover[n][m] \in 0..MaxLate
      BY <1>2, <2>1 DEF ServerInv, OneInHand
    <2>3. discover[n][m] = 1
      BY <1>1, <2>2
    <2> QED
      BY <1>1, <2>1, <2>3
  <1>5. ASSUME NEW a \in Free(n), NEW delivered \in BOOLEAN,
               table' = [table EXCEPT ![n][m] = NewLease(a)], Offered(m, a, delivered)
        PROVE  HandoverInv'
    <2>1. a \in Addr /\ \A k \in Mac : ~Has(n, k, a)
      BY DEF Free, Taken, Has, DhcpAssumption
    <2>2. NewLease(a) \in Lease /\ NewLease(a) # None /\ ~NewLease(a).static
          /\ NewLease(a).ip = a
      BY <2>1, NewLeaseType
    <2>3. offer' \in [Mac -> Addr \cup {None}] /\ UNCHANGED held
      BY <1>5, <2>1, OfferType
    <2>4. PICK l \in Lease : l = NewLease(a)
      BY <2>2
    <2>5. /\ l # None /\ ~l.static /\ \A k \in Mac : ~Has(n, k, l.ip)
          /\ table' = [table EXCEPT ![n][m] = l]
      BY <1>5, <2>1, <2>2, <2>4
    <2> QED
      BY <1>1, <1>2, <1>4, <2>3, <2>5, InvAllocateNew
  <1>6. CASE UNCHANGED <<table, client>>
    <2>1. UNCHANGED <<now, leader, config, bucket, store, event, booting, serving, table>>
          /\ UNCHANGED <<request, sending, offer, held, used>>
      BY <1>1, <1>6 DEF client
    <2>2. 0 \in {0, 1} /\ (0 = 1 => table[n][m] = None /\ request[n][m] = None)
      OBVIOUS
    <2> QED
      BY <1>2, <1>4, <2>1, <2>2, OnlyDiscover
  <1> QED
    BY <1>3, <1>5, <1>6 DEF Allocate, NewLease

\* A request finds the lease its client has.
LEMMA InvRequest ==
    ASSUME Handover, HandoverInv, NEW n \in Node, NEW m \in Mac, Request(n, m)
    PROVE  HandoverInv'
  <1>1. PICK a \in Addr \cup {None} :
            request' = [request EXCEPT ![n][m] = [ip |-> a, found |-> table[n][m]]]
    BY DEF Request
  <1>2. /\ serving[n] /\ sending[n] = {} /\ discover[n][m] = 0
        /\ UNCHANGED <<now, leader, config, bucket, store, event, booting, serving, table>>
        /\ UNCHANGED <<discover, sending, offer, held, used>>
    BY Received DEF Request, raft, client
  <1>3. /\ ServerInv(n) /\ table \in [Node -> [Mac -> Lease \cup {None}]]
        /\ request \in [Node -> [Mac -> Requested \cup {None}]]
    BY <1>2 DEF HandoverInv, TypeOK
  <1>4. PICK r : r = [ip |-> a, found |-> table[n][m]]
    OBVIOUS
  <1>5. r \in Requested \cup {None} /\ r.found = table[n][m]
    BY <1>3, <1>4 DEF Requested
  <1>6. request' = [request EXCEPT ![n][m] = r]
    BY <1>1, <1>4
  <1>7. /\ request' \in [Node -> [Mac -> Requested \cup {None}]] /\ request'[n][m] = r
        /\ \A k \in Mac : k # m => request'[n][k] = request[n][k]
        /\ \A o \in Node : o # n => request'[o] = request[o]
    BY <1>3, <1>5, <1>6
  <1>8. TypeOK'
    BY <1>2, <1>7 DEF HandoverInv, TypeOK
  <1>9. SettingsStay' /\ HeldIsRecent'
    BY <1>2 DEF HandoverInv, SettingsStay, HeldIsRecent
  <1>10. ServerInv(n)'
    <2>1. OneInHand(n)'
      BY <1>2, <1>3, <1>5, <1>7 DEF ServerInv, OneInHand
    <2>2. TableIsUnique(n)' /\ HeldIsHad(n)'
      BY <1>2, <1>3 DEF ServerInv, TableIsUnique, HeldIsHad, Has, Holds
    <2>3. PutsAreCurrent(n)' /\ DelIsAlone(n)'
      BY <1>2 DEF PutsAreCurrent, DelIsAlone, Puts, Dels
    <2>4. HeldIsWritten(n)' /\ RowsAreHad(n)'
      BY <1>2, <1>3 DEF ServerInv, HeldIsWritten, RowsAreHad, Has, Holds, Puts, Dels, Written,
                        Live
    <2> QED
      BY <2>1, <2>2, <2>3, <2>4 DEF ServerInv
  <1> QED
    BY <1>2, <1>7, <1>8, <1>9, <1>10, ServerStep

\* A request that is refused.
LEMMA InvRefused ==
    ASSUME HandoverInv, NEW n \in Node, NEW m \in Mac, request[n][m] # None, Done(n, m),
           UNCHANGED <<now, leader, config, bucket, store, event, booting, serving, table>>,
           UNCHANGED <<discover, sending, offer, held, used>>
    PROVE  HandoverInv'
  <1>1. serving[n] /\ ServerInv(n)
    <2>1. serving[n]
      BY BusyServes
    <2> QED
      BY <2>1 DEF HandoverInv
  <1>2. request \in [Node -> [Mac -> Requested \cup {None}]]
    BY DEF HandoverInv, TypeOK
  <1>3. /\ request' \in [Node -> [Mac -> Requested \cup {None}]] /\ request'[n][m] = None
        /\ \A k \in Mac : k # m => request'[n][k] = request[n][k]
        /\ \A o \in Node : o # n => request'[o] = request[o]
    BY <1>2 DEF Done
  <1>4. TypeOK'
    BY <1>3 DEF HandoverInv, TypeOK
  <1>5. SettingsStay' /\ HeldIsRecent'
    BY DEF HandoverInv, SettingsStay, HeldIsRecent
  <1>6. Dels(n) = {}
    BY <1>1 DEF ServerInv, DelIsAlone, NoLeases
  <1>7. ServerInv(n)'
    <2>1. OneInHand(n)'
      BY <1>1, <1>3 DEF ServerInv, OneInHand
    <2>2. TableIsUnique(n)' /\ HeldIsHad(n)'
      BY <1>1 DEF ServerInv, TableIsUnique, HeldIsHad, Has, Holds
    <2>3. PutsAreCurrent(n)'
      <3>1. \A e \in Puts(n) : e.mac \in Mac
        BY DEF Puts, HandoverInv, TypeOK, Event
      <3>2. \A e \in Puts(n) : request'[n][e.mac] = None
        BY <1>1, <1>3, <3>1 DEF ServerInv, PutsAreCurrent
      <3> QED
        BY <1>1, <3>2 DEF ServerInv, PutsAreCurrent, Has, Holds, Puts
    <2>4. DelIsAlone(n)'
      BY <1>6 DEF DelIsAlone, Dels
    <2>5. HeldIsWritten(n)' /\ RowsAreHad(n)'
      BY <1>1 DEF ServerInv, HeldIsWritten, RowsAreHad, Has, Holds, Puts, Dels, Written, Live
    <2> QED
      BY <2>1, <2>2, <2>3, <2>4, <2>5 DEF ServerInv
  <1> QED
    BY <1>1, <1>3, <1>4, <1>5, <1>7, ServerStep

\* The client's lease is renewed, or it gets the first one, of an address nobody else
\* has; the acknowledgement may be lost, the upsert starts in any case.
LEMMA InvAcked ==
    ASSUME DhcpAssumption, HandoverInv, NEW n \in Node, NEW m \in Mac, NEW l \in Lease,
           NEW delivered \in BOOLEAN,
           request[n][m] # None, Done(n, m), l # None, ~l.static,
           table' = [table EXCEPT ![n][m] = l],
           table[n][m] # None => table[n][m].ip = l.ip,
           \A k \in Mac : k # m => ~Has(n, k, l.ip),
           Acked(n, m, l.ip, delivered),
           UNCHANGED <<now, leader, config, bucket, store, event, booting, serving>>,
           UNCHANGED <<discover, offer, used>>
    PROVE  HandoverInv'
  <1>1. serving[n] /\ ServerInv(n)
    <2>1. serving[n]
      BY BusyServes
    <2> QED
      BY <2>1 DEF HandoverInv
  <1>2. /\ table \in [Node -> [Mac -> Lease \cup {None}]]
        /\ request \in [Node -> [Mac -> Requested \cup {None}]]
        /\ sending \in [Node -> SUBSET Event] /\ held \in [Mac -> Held \cup {None}]
    BY DEF HandoverInv, TypeOK
  <1>3. now + LeaseTime \in Times /\ now + LeaseTime \in Int
    BY NewLeaseType DEF DhcpAssumption, HandoverInv, TypeOK, Times, Never
  <1>4. PICK e : e = [op |-> "put", ip |-> l.ip, mac |-> m, exp |-> now + LeaseTime]
    OBVIOUS
  <1>5. /\ e \in Event /\ e.op = "put" /\ e.ip = l.ip /\ e.mac = m
        /\ e.exp = now + LeaseTime
    BY <1>3, <1>4 DEF Lease, Event
  <1>6. PICK h : h = [ip |-> l.ip, exp |-> now + LeaseTime]
    OBVIOUS
  <1>7. h \in Held /\ h # None /\ h.ip = l.ip /\ h.exp = now + LeaseTime
    <2>1. h \in Held /\ h.ip = l.ip /\ h.exp = now + LeaseTime
      BY <1>3, <1>6 DEF Lease, Held
    <2> QED
      BY <2>1, NoneIsNoRow
  <1>8. /\ held' = IF delivered THEN [held EXCEPT ![m] = h] ELSE held
        /\ sending' = [sending EXCEPT ![n] = sending[n] \cup {e}]
    BY <1>4, <1>6 DEF Acked
  <1>9. /\ held' \in [Mac -> Held \cup {None}]
        /\ \A k \in Mac : k # m => held'[k] = held[k]
        /\ held'[m] = h \/ held'[m] = held[m]
    BY <1>2, <1>7, <1>8
  <1>10. /\ sending' \in [Node -> SUBSET Event] /\ sending'[n] = sending[n] \cup {e}
         /\ \A o \in Node : o # n => sending'[o] = sending[o]
    BY <1>2, <1>5, <1>8
  <1>11. /\ table' \in [Node -> [Mac -> Lease \cup {None}]] /\ table'[n][m] = l
         /\ \A k \in Mac : k # m => table'[n][k] = table[n][k]
         /\ \A o \in Node : o # n => table'[o] = table[o]
    BY <1>2
  <1>12. /\ request' \in [Node -> [Mac -> Requested \cup {None}]] /\ request'[n][m] = None
         /\ \A k \in Mac : k # m => request'[n][k] = request[n][k]
         /\ \A o \in Node : o # n => request'[o] = request[o]
    BY <1>2 DEF Done
  <1>13. TypeOK'
    BY <1>9, <1>10, <1>11, <1>12 DEF HandoverInv, TypeOK
  <1>14. SettingsStay'
    <2>1. \A o \in Node, k \in Mac : ~Pinned(table'[o][k])
      BY <1>11 DEF HandoverInv, SettingsStay, Pinned
    <2> QED
      BY <2>1 DEF HandoverInv, SettingsStay, Pinned
  <1>15. HeldIsRecent'
    <2>1. now + LeaseTime <= now + LeaseTime
      BY <1>3
    <2>2. \A k \in Mac : held'[k] # None => held'[k].exp <= now + LeaseTime
      BY <1>7, <1>9, <2>1 DEF HandoverInv, HeldIsRecent
    <2> QED
      BY <2>2 DEF HeldIsRecent
  <1>16. /\ \A k \in Mac : k # m => \A b : Has(n, k, b)' <=> Has(n, k, b)
         /\ Has(n, m, l.ip)' /\ \A b : Has(n, m, b) => b = l.ip
    BY <1>11 DEF Has
  <1>17. \A k \in Mac : k # m => Holds(k)' = Holds(k)
    BY <1>9 DEF Holds
  <1>18. /\ Puts(n)' = Puts(n) \cup {e} /\ Dels(n)' = Dels(n) /\ Dels(n) = {}
         /\ \A x \in Puts(n) : x.mac \in Mac /\ x.mac # m
    <2>1. Puts(n)' = Puts(n) \cup {e} /\ Dels(n)' = Dels(n)
      BY <1>5, <1>10 DEF Puts, Dels
    <2>2. Dels(n) = {}
      BY <1>1 DEF ServerInv, DelIsAlone, NoLeases
    <2>3. \A x \in Puts(n) : x.mac \in Mac
      BY <1>2 DEF Puts, Event
    <2>4. \A x \in Puts(n) : x.mac # m
      BY <1>1 DEF ServerInv, PutsAreCurrent
    <2> QED
      BY <2>1, <2>2, <2>3, <2>4
  <1>19. ASSUME Holds(m)'
         PROVE  /\ held'[m].ip = l.ip
                /\ held'[m] = held[m] => Holds(m)
    <2>1. CASE held'[m] = h
      BY <1>7, <1>19, <2>1 DEF Holds
    <2>2. CASE held'[m] = held[m]
      <3>1. Holds(m)
        BY <1>19, <2>2 DEF Holds
      <3>2. Has(n, m, held[m].ip)
        BY <1>1, <3>1 DEF ServerInv, HeldIsHad
      <3> QED
        BY <1>16, <2>2, <3>1, <3>2
    <2>3. held'[m] = held[m] => Holds(m)
      BY <1>19 DEF Holds
    <2> QED
      BY <1>9, <2>1, <2>2, <2>3
  <1>20. ServerInv(n)'
    <2>1. TableIsUnique(n)'
      BY <1>1, <1>11 DEF ServerInv, TableIsUnique, Has
    <2>2. OneInHand(n)'
      <3>1. ASSUME NEW k \in Mac
            PROVE  /\ request'[n][k] # None => discover[n][k] = 0
                                               /\ request'[n][k].found = table'[n][k]
                   /\ discover[n][k] \in {0, 1}
                   /\ discover[n][k] = 1 => table'[n][k] = None
        <4>1. CASE k = m
          BY <1>1, <1>12, <4>1 DEF ServerInv, OneInHand
        <4>2. CASE k # m
          BY <1>1, <1>11, <1>12, <4>2 DEF ServerInv, OneInHand
        <4> QED
          BY <4>1, <4>2
      <3> QED
        BY <3>1 DEF OneInHand
    <2>3. HeldIsHad(n)'
      <3>1. ASSUME NEW k \in Mac, Holds(k)' PROVE Has(n, k, held[k].ip)'
        <4>1. CASE k = m
          BY <1>16, <1>19, <3>1, <4>1
        <4>2. CASE k # m
          BY <1>1, <1>9, <1>16, <1>17, <3>1, <4>2 DEF ServerInv, HeldIsHad
        <4> QED
          BY <4>1, <4>2
      <3> QED
        BY <3>1 DEF HeldIsHad
    <2>4. PutsAreCurrent(n)'
      <3>1. ASSUME NEW x \in Puts(n)
            PROVE  /\ request'[n][x.mac] = None /\ Has(n, x.mac, x.ip)'
                   /\ Holds(x.mac)' => held'[x.mac].exp <= x.exp
        BY <1>1, <1>9, <1>12, <1>16, <1>17, <1>18 DEF ServerInv, PutsAreCurrent
      <3>2. /\ request'[n][e.mac] = None /\ Has(n, e.mac, e.ip)'
            /\ Holds(e.mac)' => held'[e.mac].exp <= e.exp
        BY <1>5, <1>12, <1>15, <1>16 DEF HeldIsRecent, Holds
      <3> QED
        BY <1>18, <3>1, <3>2 DEF PutsAreCurrent
    <2>5. DelIsAlone(n)'
      BY <1>18 DEF DelIsAlone
    <2>6. HeldIsWritten(n)'
      <3>1. ASSUME NEW k \in Mac, Holds(k)'
            PROVE  \/ Written(k)'
                   \/ \E x \in Puts(n)' : x.mac = k /\ x.ip = held'[k].ip /\ x.exp >= held'[k].exp
        <4>1. CASE k # m
          BY <1>1, <1>9, <1>17, <1>18, <3>1, <4>1 DEF ServerInv, HeldIsWritten, Written
        <4>2. CASE k = m /\ held'[m] = held[m]
          BY <1>1, <1>18, <1>19, <3>1, <4>2 DEF ServerInv, HeldIsWritten, Written
        <4>3. CASE k = m /\ held'[m] = h
          <5>1. e.exp >= h.exp
            BY <1>3, <1>5, <1>7
          <5> QED
            BY <1>5, <1>7, <1>18, <4>3, <5>1
        <4> QED
          BY <1>9, <4>1, <4>2, <4>3
      <3> QED
        BY <3>1 DEF HeldIsWritten
    <2>7. RowsAreHad(n)'
      <3>1. ASSUME NEW b \in Addr, Live(b) PROVE Has(n, bucket[b].mac, b)'
        <4>1. Has(n, bucket[b].mac, b)
          BY <1>1, <1>18, <3>1 DEF ServerInv, RowsAreHad
        <4>2. bucket[b].mac \in Mac
          BY <3>1 DEF Live, HandoverInv, TypeOK, Rows, Persisted
        <4> QED
          BY <1>16, <4>1, <4>2
      <3> QED
        BY <3>1 DEF RowsAreHad, Live, Has
    <2> QED
      BY <2>1, <2>2, <2>3, <2>4, <2>5, <2>6, <2>7 DEF ServerInv
  <1> QED
    BY <1>1, <1>10, <1>11, <1>12, <1>13, <1>14, <1>15, <1>20, ServerStep

\* What a request being handled found is what the table still has.
LEMMA FoundIsThere ==
    ASSUME HandoverInv, NEW n \in Node, NEW m \in Mac, request[n][m] # None
    PROVE  /\ serving[n] /\ request[n][m].found = table[n][m]
           /\ request[n][m] \in Requested /\ table[n][m] \in Lease \cup {None}
           /\ table \in [Node -> [Mac -> Lease \cup {None}]]
           /\ table[n][m] # None => ~table[n][m].static
           /\ table[n][m] # None => \A k \in Mac : k # m => ~Has(n, k, table[n][m].ip)
  <1>1. serving[n]
    BY BusyServes
  <1>2. ServerInv(n) /\ TypeOK /\ SettingsStay
    BY <1>1 DEF HandoverInv
  <1>3. request[n][m].found = table[n][m]
    BY <1>2 DEF ServerInv, OneInHand
  <1>4. request[n][m] \in Requested /\ table[n][m] \in Lease \cup {None}
        /\ table \in [Node -> [Mac -> Lease \cup {None}]]
    BY <1>2 DEF TypeOK
  <1>5. table[n][m] # None => ~table[n][m].static
    BY <1>2 DEF SettingsStay, Pinned
  <1>6. table[n][m] # None => \A k \in Mac : k # m => ~Has(n, k, table[n][m].ip)
    BY <1>2 DEF ServerInv, TableIsUnique
  <1> QED
    BY <1>1, <1>3, <1>4, <1>5, <1>6

\* The lease that was found is renewed.
LEMMA InvRenew ==
    ASSUME DhcpAssumption, HandoverInv, NEW n \in Node, NEW m \in Mac, Renew(n, m)
    PROVE  HandoverInv'
  <1>1. PICK delivered \in BOOLEAN :
            /\ request[n][m] # None /\ request[n][m].found # None
            /\ Acked(n, m, request[n][m].found.ip, delivered) /\ Done(n, m)
            /\ table' = IF table[n][m] = request[n][m].found
                        THEN [table EXCEPT ![n][m].exp = now + LeaseTime] ELSE table
            /\ UNCHANGED <<now, leader, config, bucket, store, event, booting, serving>>
            /\ UNCHANGED <<discover, offer, used>>
    BY DEF Renew, raft
  <1>2. /\ request[n][m].found = table[n][m] /\ table[n][m] \in Lease
        /\ ~table[n][m].static
        /\ \A k \in Mac : k # m => ~Has(n, k, table[n][m].ip)
    BY <1>1, FoundIsThere
  <1>3. PICK l : l = [table[n][m] EXCEPT !.exp = now + LeaseTime]
    OBVIOUS
  <1>4. now + LeaseTime \in Times
    BY <1>2, NewLeaseType DEF Lease
  <1>5. l \in Lease /\ l.ip = table[n][m].ip /\ ~l.static
    BY <1>2, <1>3, <1>4 DEF Lease
  <1>6. l # None
    BY <1>5, NoneIsNoRow
  <1>7. table' = [table EXCEPT ![n][m] = l]
    BY <1>1, <1>2, <1>3
  <1>8. Acked(n, m, l.ip, delivered) /\ \A k \in Mac : k # m => ~Has(n, k, l.ip)
    BY <1>1, <1>2, <1>5
  <1> QED
    BY <1>1, <1>5, <1>6, <1>7, <1>8, InvAcked

\* A request of another address is acknowledged with the client's own.
LEMMA InvAckOwn ==
    ASSUME DhcpAssumption, HandoverInv, NEW n \in Node, NEW m \in Mac, AckOwn(n, m)
    PROVE  HandoverInv'
  <1>1. PICK delivered \in BOOLEAN :
            /\ request[n][m] # None /\ request[n][m].found # None
            /\ Acked(n, m, request[n][m].found.ip, delivered) /\ Done(n, m)
            /\ UNCHANGED <<now, leader, config, bucket, store, event, booting, serving>>
            /\ UNCHANGED <<discover, offer, used>>
    BY DEF AckOwn, raft
  <1>t. table' = table
    BY DEF AckOwn
  <1>2. /\ request[n][m].found = table[n][m] /\ table[n][m] \in Lease /\ table[n][m] # None
        /\ ~table[n][m].static
        /\ \A k \in Mac : k # m => ~Has(n, k, table[n][m].ip)
        /\ table \in [Node -> [Mac -> Lease \cup {None}]]
    BY <1>1, FoundIsThere
  <1>3. table' = [table EXCEPT ![n][m] = table[n][m]]
    BY <1>2, <1>t
  <1> QED
    BY <1>1, <1>2, <1>3, InvAcked

\* An address is given to who asks for it when no other lease has it.
LEMMA InvReserveAt ==
    ASSUME DhcpAssumption, HandoverInv, NEW n \in Node, NEW m \in Mac, ReserveAt(n, m)
    PROVE  HandoverInv'
  <1>1. /\ request[n][m] # None /\ request[n][m].found = None /\ Done(n, m)
        /\ UNCHANGED <<now, leader, config, bucket, store, event, booting, serving>>
        /\ UNCHANGED <<discover, offer, used>>
    BY DEF ReserveAt, raft
  <1>2. /\ table[n][m] = None /\ request[n][m].ip \in Addr \cup {None}
        /\ request[n][m] \in Requested
    <2>1. table[n][m] = None /\ request[n][m] \in Requested
      BY <1>1, FoundIsThere
    <2> QED
      BY <2>1 DEF Requested
  <1>3. ASSUME NEW delivered \in BOOLEAN, request[n][m].ip # None,
               ~TakenByOther(n, m, request[n][m].ip),
               table' = [table EXCEPT ![n][m] = NewLease(request[n][m].ip)],
               Acked(n, m, request[n][m].ip, delivered)
        PROVE  HandoverInv'
    <2>1. PICK l \in Lease : l = NewLease(request[n][m].ip)
      BY <1>2, <1>3, NewLeaseType
    <2>2. /\ l # None /\ ~l.static /\ l.ip = request[n][m].ip
          /\ table' = [table EXCEPT ![n][m] = l]
      BY <1>2, <1>3, <2>1, NewLeaseType
    <2>3. \A k \in Mac : k # m => ~Has(n, k, l.ip)
      BY <1>3, <2>2 DEF TakenByOther, Has
    <2> QED
      BY <1>1, <1>2, <1>3, <2>2, <2>3, InvAcked
  <1>4. CASE UNCHANGED <<table, sending, held>>
    BY <1>1, <1>4, InvRefused
  <1> QED
    BY <1>3, <1>4 DEF ReserveAt, NewLease

\* A release is received when no request is in hand: no upsert can meet the delete.
LEMMA InvRelease ==
    ASSUME Handover, HandoverInv, NEW n \in Node, NEW m \in Mac, Release(n, m)
    PROVE  HandoverInv'
  <1>1. /\ serving[n] /\ sending[n] = {} /\ Holds(m) /\ request[n] = NoLeases
        /\ held' = [held EXCEPT ![m] = None] /\ offer' = [offer EXCEPT ![m] = None]
        /\ table' = [table EXCEPT ![n][m] = None]
        /\ UNCHANGED <<now, leader, config, bucket, store, event, booting, serving>>
        /\ UNCHANGED <<discover, request, used>>
    BY Received DEF Release, raft, Handover
  <1>2. ServerInv(n) /\ TypeOK
    BY <1>1 DEF HandoverInv
  <1>3. Has(n, m, held[m].ip) /\ table[n][m] \in Lease
    BY <1>1, <1>2 DEF ServerInv, HeldIsHad, TypeOK, Has
  <1>4. PICK e : e = [op |-> "del", ip |-> table[n][m].ip]
    OBVIOUS
  <1>5. e \in Event /\ e.op = "del" /\ e.ip = table[n][m].ip
    BY <1>3, <1>4 DEF Lease, Event
  <1>6. sending' = [sending EXCEPT ![n] = {e}]
    BY <1>1, <1>3, <1>4 DEF Release, Has
  <1>7. /\ held' \in [Mac -> Held \cup {None}] /\ held'[m] = None
        /\ \A k \in Mac : k # m => held'[k] = held[k]
        /\ offer' \in [Mac -> Addr \cup {None}]
    BY <1>1, <1>2 DEF TypeOK
  <1>8. /\ table' \in [Node -> [Mac -> Lease \cup {None}]] /\ table'[n][m] = None
        /\ \A k \in Mac : k # m => table'[n][k] = table[n][k]
        /\ \A o \in Node : o # n => table'[o] = table[o]
    BY <1>1, <1>2 DEF TypeOK
  <1>9. /\ sending' \in [Node -> SUBSET Event] /\ sending'[n] = {e}
        /\ \A o \in Node : o # n => sending'[o] = sending[o]
    BY <1>2, <1>5, <1>6 DEF TypeOK
  <1>10. TypeOK'
    BY <1>1, <1>2, <1>7, <1>8, <1>9 DEF TypeOK
  <1>11. SettingsStay'
    <2>1. \A o \in Node, k \in Mac : ~Pinned(table'[o][k])
      BY <1>8 DEF HandoverInv, SettingsStay, Pinned
    <2> QED
      BY <1>1, <2>1 DEF HandoverInv, SettingsStay, Pinned
  <1>12. HeldIsRecent'
    BY <1>1, <1>7 DEF HandoverInv, HeldIsRecent
  <1>13. /\ \A k \in Mac : k # m => \A b : Has(n, k, b)' <=> Has(n, k, b)
         /\ ~Holds(m)' /\ \A k \in Mac : k # m => Holds(k)' = Holds(k)
         /\ Puts(n)' = {} /\ Dels(n)' = {e} /\ Puts(n) = {} /\ Dels(n) = {}
    <2>1. Puts(n)' = {} /\ Dels(n)' = {e} /\ Puts(n) = {} /\ Dels(n) = {}
      BY <1>1, <1>5, <1>9 DEF Puts, Dels
    <2>2. ~Holds(m)' /\ \A k \in Mac : k # m => Holds(k)' = Holds(k)
      BY <1>1, <1>7 DEF Holds
    <2> QED
      BY <1>8, <2>1, <2>2 DEF Has
  <1>14. ServerInv(n)'
    <2>1. TableIsUnique(n)'
      BY <1>2, <1>8, <1>13 DEF ServerInv, TableIsUnique, Has
    <2>2. OneInHand(n)'
      BY <1>1, <1>2, <1>8 DEF ServerInv, OneInHand, NoLeases
    <2>3. HeldIsHad(n)'
      BY <1>2, <1>7, <1>13 DEF ServerInv, HeldIsHad
    <2>4. PutsAreCurrent(n)'
      BY <1>13 DEF PutsAreCurrent
    <2>5. DelIsAlone(n)'
      <3>1. ASSUME NEW k \in Mac, Holds(k)' PROVE held'[k].ip # e.ip
        <4>1. k # m /\ Has(n, k, held[k].ip) /\ held'[k] = held[k]
          BY <1>2, <1>7, <1>13, <3>1 DEF ServerInv, HeldIsHad
        <4>2. table[n][m] # None
          BY <1>3 DEF Has
        <4> QED
          BY <1>2, <1>5, <4>1, <4>2 DEF ServerInv, TableIsUnique
      <3> QED
        BY <1>1, <1>9, <1>13, <3>1 DEF DelIsAlone, NoLeases
    <2>6. HeldIsWritten(n)'
      BY <1>1, <1>2, <1>7, <1>13 DEF ServerInv, HeldIsWritten, Written
    <2>7. RowsAreHad(n)'
      <3>1. ASSUME NEW b \in Addr, Live(b) PROVE Has(n, bucket[b].mac, b)' \/ e.ip = b
        <4>1. bucket[b].mac \in Mac
          BY <1>2, <3>1 DEF Live, TypeOK, Rows, Persisted
        <4>2. Has(n, bucket[b].mac, b)
          BY <1>2, <1>13, <3>1 DEF ServerInv, RowsAreHad
        <4>3. CASE bucket[b].mac = m
          BY <1>5, <4>2, <4>3 DEF Has
        <4>4. CASE bucket[b].mac # m
          BY <1>1, <1>13, <4>1, <4>2, <4>4
        <4> QED
          BY <4>3, <4>4
      <3> QED
        BY <1>1, <1>13, <3>1 DEF RowsAreHad, Live, Has
    <2> QED
      BY <2>1, <2>2, <2>3, <2>4, <2>5, <2>6, <2>7 DEF ServerInv
  <1> QED
    BY <1>1, <1>8, <1>9, <1>10, <1>11, <1>12, <1>14, ServerStep

-----------------------------------------------------------------------------
(* Replication, and the theorem.                                           *)

\* A row that is written is of the lease its client has; a row that is deleted is
\* nobody's.
LEMMA InvPersist ==
    ASSUME DhcpAssumption, HandoverInv, NEW n \in Node, Persist(n) PROVE HandoverInv'
  <1>1. PICK e \in sending[n] :
            /\ sending' = [sending EXCEPT ![n] = @ \ {e}]
            /\ IF leader = n
               THEN /\ bucket' = After(bucket, e)
                    /\ store' = [store EXCEPT ![n] = [config |-> config, rows |-> bucket']]
               ELSE UNCHANGED <<bucket, store>>
    BY DEF Persist
  <1>2. UNCHANGED <<now, leader, config, event, booting, serving, table>>
        /\ UNCHANGED <<discover, request, offer, held, used>>
    BY DEF Persist, client
  <1>3. serving[n] /\ leader = n /\ ServerInv(n) /\ TypeOK
    <2>1. serving[n]
      BY BusyServes
    <2> QED
      BY <2>1 DEF HandoverInv, LeaderServes
  <1>4. bucket' = After(bucket, e) /\ bucket \in Rows /\ e \in Event
    BY <1>1, <1>3 DEF TypeOK
  <1>5. ASSUME e.op = "put" PROVE bucket' \in Rows /\ HeldIsWritten(n)' /\ RowsAreHad(n)'
    <2>1. e.ip \in Addr /\ e.mac \in Mac /\ e.exp \in Times
      BY <1>4, <1>5 DEF Event
    <2>2. PICK row : row = [mac |-> e.mac, exp |-> e.exp]
      OBVIOUS
    <2>3. row \in Persisted /\ row.mac = e.mac /\ row.exp = e.exp
      BY <2>1, <2>2 DEF Persisted
    <2>4. row # None
      BY <2>3, NoneIsNoRow
    <2>5. bucket' = [bucket EXCEPT ![e.ip] = row]
      BY <1>4, <1>5, <2>2 DEF After
    <2>6. bucket' \in Rows /\ bucket'[e.ip] = row
          /\ \A a \in Addr : a # e.ip => bucket'[a] = bucket[a]
      BY <1>4, <2>1, <2>3, <2>5 DEF Rows
    <2>7. e \in Puts(n) /\ Has(n, e.mac, e.ip)
          /\ (Holds(e.mac) => held[e.mac].exp <= e.exp)
      BY <1>3, <1>5 DEF ServerInv, PutsAreCurrent, Puts
    <2>8. Dels(n) = {}
      BY <1>3, <2>7 DEF ServerInv, DelIsAlone, Dels, Puts
    <2>9. HeldIsWritten(n)'
      <3>1. ASSUME NEW k \in Mac, Holds(k), held[k].ip = e.ip PROVE Written(k)'
        <4>1. Has(n, k, e.ip) /\ table[n][k] # None
          BY <1>3, <3>1 DEF ServerInv, HeldIsHad, Has
        <4>2. k = e.mac
          BY <1>3, <2>1, <2>7, <4>1 DEF ServerInv, TableIsUnique, Has
        <4>3. held[k] \in Held
          BY <1>3, <3>1 DEF TypeOK, Holds
        <4>4. e.exp >= held[k].exp
          BY <2>1, <2>7, <3>1, <4>2, <4>3 DEF Times, Held
        <4> QED
          BY <1>2, <2>3, <2>4, <2>6, <3>1, <4>2, <4>4 DEF Written
      <3>2. ASSUME NEW k \in Mac, Holds(k), held[k].ip # e.ip
            PROVE  \/ Written(k)'
                   \/ \E x \in Puts(n)' : x.mac = k /\ x.ip = held[k].ip /\ x.exp >= held[k].exp
        <4>1. held[k].ip \in Addr
          BY <1>3, <3>2 DEF TypeOK, Holds, Held
        <4>2. CASE Written(k)
          BY <1>2, <2>6, <3>2, <4>1, <4>2 DEF Written
        <4>3. ASSUME NEW x \in Puts(n), x.mac = k, x.ip = held[k].ip, x.exp >= held[k].exp
              PROVE  \E y \in Puts(n)' : y.mac = k /\ y.ip = held[k].ip /\ y.exp >= held[k].exp
          <5>1. x \in Puts(n)'
            BY <1>1, <1>3, <3>2, <4>3 DEF Puts, TypeOK
          <5> QED
            BY <4>3, <5>1
        <4> QED
          BY <1>3, <3>2, <4>2, <4>3 DEF ServerInv, HeldIsWritten
      <3> QED
        BY <1>2, <3>1, <3>2 DEF HeldIsWritten, Holds
    <2>10. RowsAreHad(n)'
      <3>1. \A a \in Addr : a # e.ip /\ Live(a)' => Has(n, bucket[a].mac, a)
        BY <1>2, <1>3, <2>6, <2>8 DEF ServerInv, RowsAreHad, Live
      <3> QED
        BY <1>2, <2>3, <2>6, <2>7, <3>1 DEF RowsAreHad, Has
    <2> QED
      BY <2>6, <2>9, <2>10
  <1>6. ASSUME e.op = "del" PROVE bucket' \in Rows /\ HeldIsWritten(n)' /\ RowsAreHad(n)'
    <2>1. e.ip \in Addr /\ bucket' = [bucket EXCEPT ![e.ip] = None]
      BY <1>4, <1>6 DEF Event, After
    <2>2. bucket' \in Rows /\ bucket'[e.ip] = None
          /\ \A a \in Addr : a # e.ip => bucket'[a] = bucket[a]
      BY <1>4, <2>1 DEF Rows
    <2>3. e \in Dels(n) /\ sending[n] = {e} /\ \A k \in Mac : Holds(k) => held[k].ip # e.ip
      BY <1>3, <1>6 DEF ServerInv, DelIsAlone, Dels
    <2>4. Puts(n) = {} /\ Dels(n) = {e}
      BY <1>6, <2>3 DEF Puts, Dels
    <2>5. HeldIsWritten(n)'
      <3>1. ASSUME NEW k \in Mac, Holds(k) PROVE Written(k)'
        <4>1. Written(k) /\ held[k].ip \in Addr /\ held[k].ip # e.ip
          BY <1>3, <2>3, <2>4, <3>1 DEF ServerInv, HeldIsWritten, TypeOK, Holds, Held
        <4> QED
          BY <1>2, <2>2, <4>1 DEF Written
      <3> QED
        BY <1>2, <3>1 DEF HeldIsWritten, Holds
    <2>6. RowsAreHad(n)'
      <3>1. ASSUME NEW a \in Addr, Live(a)' PROVE Has(n, bucket'[a].mac, a)
        <4>1. a # e.ip /\ bucket'[a] = bucket[a] /\ Live(a)
          BY <1>2, <2>2, <3>1 DEF Live
        <4> QED
          BY <1>3, <2>4, <4>1 DEF ServerInv, RowsAreHad
      <3> QED
        BY <1>2, <3>1 DEF RowsAreHad, Has
    <2> QED
      BY <2>2, <2>5, <2>6
  <1>7. bucket' \in Rows /\ HeldIsWritten(n)' /\ RowsAreHad(n)'
    <2>1. e.op \in {"put", "del"}
      BY <1>4 DEF Event
    <2> QED
      BY <1>5, <1>6, <2>1
  <1>8. /\ sending' \in [Node -> SUBSET Event] /\ sending'[n] = sending[n] \ {e}
        /\ \A o \in Node : o # n => sending'[o] = sending[o]
    BY <1>1, <1>3 DEF TypeOK
  <1>9. PICK c : c = [config |-> config, rows |-> bucket']
    OBVIOUS
  <1>10. c \in [config : Settings, rows : Rows] /\ c.config = config
    BY <1>3, <1>7, <1>9 DEF TypeOK
  <1>11. /\ store' \in [Node -> [config : Settings, rows : Rows]] /\ store'[n] = c
         /\ \A o \in Node : o # n => store'[o] = store[o]
    <2>1. store' = [store EXCEPT ![n] = c]
      BY <1>1, <1>3, <1>9
    <2> QED
      BY <1>3, <1>10, <2>1 DEF TypeOK
  <1>12. TypeOK'
    BY <1>2, <1>3, <1>7, <1>8, <1>11 DEF TypeOK
  <1>13. SettingsStay'
    BY <1>2, <1>10, <1>11 DEF HandoverInv, SettingsStay
  <1>14. HeldIsRecent'
    BY <1>2 DEF HandoverInv, HeldIsRecent
  <1>15. ServerInv(n)'
    <2>1. TableIsUnique(n)' /\ OneInHand(n)' /\ HeldIsHad(n)'
      BY <1>2, <1>3 DEF ServerInv, TableIsUnique, OneInHand, HeldIsHad, Has, Holds
    <2>2. Puts(n)' \subseteq Puts(n) /\ Dels(n)' \subseteq Dels(n) /\ e \notin Dels(n)'
      BY <1>8 DEF Puts, Dels
    <2>3. PutsAreCurrent(n)'
      BY <1>2, <1>3, <2>2 DEF ServerInv, PutsAreCurrent, Has, Holds
    <2>4. Dels(n)' = {}
      <3>1. ASSUME NEW x \in Dels(n)' PROVE FALSE
        <4>1. x \in Dels(n) /\ x # e
          BY <2>2, <3>1
        <4>2. sending[n] = {x}
          BY <1>3, <4>1 DEF ServerInv, DelIsAlone
        <4> QED
          BY <4>1, <4>2
      <3> QED
        BY <3>1
    <2>5. DelIsAlone(n)'
      BY <2>4 DEF DelIsAlone
    <2> QED
      BY <1>7, <2>1, <2>3, <2>5 DEF ServerInv
  <1> QED
    BY <1>2, <1>3, <1>8, <1>12, <1>13, <1>14, <1>15, ServerStep

\* One lemma per action; leadership is not lost and nothing is configured.
LEMMA InvNext ==
    ASSUME DhcpAssumption, NoneIsNoRow, Handover, HandoverInv, [Next]_vars
    PROVE  HandoverInv'
  <1>1. /\ used.loss < MaxLoss => FALSE
        /\ used.admin < MaxAdmin => FALSE
    BY DEF Handover, HandoverInv, TypeOK
  <1>2. CASE Tick
    BY <1>2, InvTick
  <1>3. CASE LoseLeadership \/ Switch \/ \E m \in Mac : Unpin(m) \/ \E a \in Addr : Pin(m, a)
    BY <1>1, <1>3 DEF LoseLeadership, Switch, Unpin, Pin, Commit
  <1>4. ASSUME NEW n \in Node,
               \/ Persist(n) \/ PersistFails(n) \/ CatchUp(n) \/ Elect(n)
               \/ FollowLeadership(n) \/ Restart(n) \/ BootServer(n)
        PROVE  HandoverInv'
    <2>1. CASE PersistFails(n)
      BY <2>1 DEF PersistFails, Handover
    <2> QED
      BY <1>4, <2>1, InvPersist, InvCatchUp, InvElect, InvFollow, InvRestart, InvBoot
  <1>5. ASSUME NEW n \in Node, NEW m \in Mac, Discover(n, m) \/ Allocate(n, m) \/ Request(n, m)
        PROVE  HandoverInv'
    BY <1>5, InvDiscover, InvAllocate, InvRequest
  <1>6. ASSUME NEW n \in Node, NEW m \in Mac,
               Renew(n, m) \/ AckOwn(n, m) \/ ReserveAt(n, m) \/ Release(n, m)
        PROVE  HandoverInv'
    BY <1>6, InvRenew, InvAckOwn, InvReserveAt, InvRelease
  <1>7. CASE UNCHANGED vars
    <2>1. UNCHANGED <<now, leader, config, bucket, store, event, booting, serving, table>>
          /\ UNCHANGED <<discover, request, sending, offer, held, used>>
      BY <1>7 DEF vars, raft, server, client
    <2>2. offer' \in [Mac -> Addr \cup {None}]
      BY <2>1 DEF HandoverInv, TypeOK
    <2> QED
      BY <2>1, <2>2, OnlyOffered
  <1> QED
    BY <1>2, <1>3, <1>4, <1>5, <1>6, <1>7 DEF Next

\* The scene of the handover keeps to it, whatever the other one does.
LEMMA HandoverScene ==
    ASSUME Handover
    PROVE  /\ ScenesInit => (scene = "handover" => HandoverInv)
           /\ (scene = "handover" => HandoverInv) /\ [ScenesNext]_<<vars, scene>>
              => (scene' = "handover" => HandoverInv')
  BY InvInit, InvNext, DhcpAssumption, NoneIsNoRow DEF ScenesInit, ScenesNext

\* A node that restarts while everything is replicated, or the one that leads next,
\* knows every lease a client still uses (loadLeasesFromStore, LoadLeases), with any
\* number of restarts.
THEOREM HandoverKeeps ==
    ASSUME Handover PROVE ScenesSpec => []HandoverKeepsLeases
  <1> DEFINE Inv == scene = "handover" => HandoverInv
  <1>1. ScenesInit => Inv
    BY HandoverScene
  <1>2. Inv /\ [ScenesNext]_<<vars, scene>> => Inv'
    BY HandoverScene
  <1>3. Inv => HandoverKeepsLeases
    BY DEF HandoverInv, ServerInv, HeldIsHad, HeldIsInTable, HandoverKeepsLeases, Has
  <1> QED
    BY <1>1, <1>2, <1>3, PTL DEF ScenesSpec

\* And so no address is in use by two clients at a time (allocate, reserveAt).
THEOREM HandoverGives ==
    ASSUME Handover PROVE ScenesSpec => []HandoverGivesOnce
  <1> DEFINE Inv == scene = "handover" => HandoverInv
  <1>1. ScenesInit => Inv
    BY HandoverScene
  <1>2. Inv /\ [ScenesNext]_<<vars, scene>> => Inv'
    BY HandoverScene
  <1>3. Inv => HandoverGivesOnce
    BY DEF HandoverInv, HandoverGivesOnce
  <1> QED
    BY <1>1, <1>2, <1>3, PTL DEF ScenesSpec

-----------------------------------------------------------------------------
(* Types, for both scenes.                                                 *)

\* A finite set of numbers that is not empty has a last one: of the sets of those
\* beyond an element, one has no smaller one.
LEMMA LastIsThere ==
    ASSUME NEW S \in SUBSET Nat, IsFiniteSet(S), S # {}
    PROVE  (CHOOSE a \in S : \A b \in S : b <= a) \in S
  <1> DEFINE Beyond(a) == {b \in S : b > a}
             T == {Beyond(a) : a \in S}
             R == StrictSubsetOrdering(S)
  <1>1. IsWellFoundedOn(R, SUBSET S)
    BY FS_StrictSubsetOrderingWellFounded, FS_FiniteSubsetsOfFinite
  <1>2. T \subseteq SUBSET S /\ T # {}
    OBVIOUS
  <1>3. \E x \in T : \A y \in T : ~(<<y, x>> \in R)
    <2> HIDE DEF T, R
    <2> QED
      BY <1>1, <1>2, WFMin
  <1>4. PICK a \in S : \A b \in S : ~(<<Beyond(b), Beyond(a)>> \in R)
    BY <1>3
  <1>5. ASSUME NEW b \in S, ~(b <= a) PROVE FALSE
    <2>0. a \in Nat /\ b \in Nat /\ \A c \in S : c \in Nat
      OBVIOUS
    <2>a. b > a /\ ~(b > b) /\ \A c \in S : c > b => c > a
      BY <1>5, <2>0
    <2>1. Beyond(b) \subseteq Beyond(a) /\ b \in Beyond(a) /\ b \notin Beyond(b)
      BY <2>a
    <2>2. <<Beyond(b), Beyond(a)>> \in R
      BY <2>1 DEF StrictSubsetOrdering
    <2> QED
      BY <1>4, <2>2
  <1> QED
    BY <1>5

\* The numbers, and the types of leases and rows that carry them.
LEMMA Numbers ==
    ASSUME DhcpAssumption
    PROVE  /\ MaxTime \in Nat /\ MaxLoss \in Nat /\ MaxCrash \in Nat /\ MaxAdmin \in Nat
           /\ MaxLate \in Nat /\ Never \in Times
           /\ \A t \in 0..MaxTime : t + LeaseTime \in Times
  BY DEF DhcpAssumption, Never, Times

\* Everything starts with its type.
LEMMA TypeInit == DhcpAssumption /\ Init => TypeOK
  <1> SUFFICES ASSUME DhcpAssumption, Init PROVE TypeOK
    OBVIOUS
  <1>0. /\ MaxTime \in Nat /\ MaxLoss \in Nat /\ MaxCrash \in Nat /\ MaxAdmin \in Nat
        /\ MaxLate \in Nat
    BY Numbers
  <1>1. NoLeases \in [Mac -> Addr \cup {None}] /\ \A m \in Mac : NoLeases[m] = None
    BY DEF NoLeases
  <1>2. config \in Settings
    BY <1>1 DEF Init, Settings
  <1>3. bucket \in Rows
    BY DEF Init, Rows
  <1>4. store \in [Node -> [config : Settings, rows : Rows]]
    BY <1>2, <1>3 DEF Init, Committed
  <1>5. /\ table \in [Node -> [Mac -> Lease \cup {None}]]
        /\ request \in [Node -> [Mac -> Requested \cup {None}]]
    BY DEF Init, Nothing, NoLeases
  <1>6. discover \in [Node -> [Mac -> 0..MaxLate]]
    BY <1>0 DEF Init
  <1>7. sending \in [Node -> SUBSET Event] /\ held \in [Mac -> Held \cup {None}]
    BY DEF Init, NoLeases
  <1>8. used \in [loss : 0..MaxLoss, crash : 0..MaxCrash, admin : 0..MaxAdmin]
    BY <1>0 DEF Init
  <1> QED
    BY <1>0, <1>1, <1>2, <1>3, <1>4, <1>5, <1>6, <1>7, <1>8 DEF TypeOK, Init

\* What a request that is acknowledged changes.
LEMMA TypeAcked ==
    ASSUME DhcpAssumption, TypeOK, NEW n \in Node, NEW m \in Mac, NEW a \in Addr,
           NEW delivered \in BOOLEAN, Acked(n, m, a, delivered)
    PROVE  held' \in [Mac -> Held \cup {None}] /\ sending' \in [Node -> SUBSET Event]
  <1>1. now + LeaseTime \in Times
    BY Numbers DEF TypeOK
  <1>2. [ip |-> a, exp |-> now + LeaseTime] \in Held
    BY <1>1 DEF Held
  <1>3. [op |-> "put", ip |-> a, mac |-> m, exp |-> now + LeaseTime] \in Event
    BY <1>1 DEF Event
  <1> QED
    BY <1>2, <1>3 DEF Acked, TypeOK

\* Tables that static entries or rows are put over.
LEMMA TypeTables ==
    ASSUME DhcpAssumption, NEW leases \in [Mac -> Lease \cup {None}]
    PROVE  /\ \A cfg \in Settings : Rebuilt(leases, cfg) \in [Mac -> Lease \cup {None}]
           /\ \A rows \in Rows : Loaded(leases, rows) \in [Mac -> Lease \cup {None}]
  <1>1. ASSUME NEW cfg \in Settings
        PROVE  Rebuilt(leases, cfg) \in [Mac -> Lease \cup {None}]
    <2>1. ASSUME NEW m \in Mac, cfg.static[m] # None
          PROVE  [ip |-> cfg.static[m], exp |-> Never, static |-> TRUE] \in Lease
      <3>1. cfg.static[m] \in Addr /\ Never \in Times
        BY <2>1, Numbers DEF Settings
      <3> QED
        BY <3>1 DEF Lease
    <2> QED
      BY <2>1 DEF Rebuilt
  <1>2. ASSUME NEW rows \in Rows
        PROVE  Loaded(leases, rows) \in [Mac -> Lease \cup {None}]
    <2> DEFINE mine(m) == {a \in Addr : /\ rows[a] # None /\ rows[a].mac = m
                                        /\ rows[a].exp >= now}
               last(m) == CHOOSE a \in mine(m) : \A b \in mine(m) : b <= a
    <2>1. ASSUME NEW m \in Mac, mine(m) # {}
          PROVE  [ip |-> last(m), exp |-> rows[last(m)].exp, static |-> FALSE] \in Lease
      <3>1. last(m) \in mine(m)
        <4>1. IsFiniteSet(Addr) /\ mine(m) \in SUBSET Addr /\ Addr \subseteq Nat
          BY DEF DhcpAssumption
        <4>2. IsFiniteSet(mine(m)) /\ mine(m) \in SUBSET Nat
          BY <4>1, FS_Subset
        <4> HIDE DEF mine
        <4> QED
          BY <2>1, <4>2, LastIsThere
      <3>2. last(m) \in Addr /\ rows[last(m)].exp \in Times
        <4> HIDE DEF last
        <4> QED
          BY <3>1 DEF Rows, Persisted
      <3> QED
        BY <3>2 DEF Lease
    <2> QED
      BY <2>1 DEF Loaded
  <1> QED
    BY <1>1, <1>2

\* One step per action, and under it one per variable whose type is not obvious.
LEMMA TypeNext == DhcpAssumption /\ TypeOK /\ [Next]_vars => TypeOK'
  <1> SUFFICES ASSUME DhcpAssumption, TypeOK, [Next]_vars PROVE TypeOK'
    OBVIOUS
  <1>0. /\ now \in 0..MaxTime /\ leader \in Node \cup {None}
        /\ config \in Settings /\ bucket \in Rows
        /\ store \in [Node -> [config : Settings, rows : Rows]]
        /\ event \in [Node -> BOOLEAN] /\ booting \in [Node -> BOOLEAN]
        /\ serving \in [Node -> BOOLEAN]
        /\ used \in [loss : 0..MaxLoss, crash : 0..MaxCrash, admin : 0..MaxAdmin]
    BY DEF TypeOK
  <1>1. /\ table \in [Node -> [Mac -> Lease \cup {None}]]
        /\ discover \in [Node -> [Mac -> 0..MaxLate]]
        /\ request \in [Node -> [Mac -> Requested \cup {None}]]
        /\ sending \in [Node -> SUBSET Event]
        /\ offer \in [Mac -> Addr \cup {None}] /\ held \in [Mac -> Held \cup {None}]
    BY DEF TypeOK
  <1>2. /\ MaxTime \in Nat /\ MaxLoss \in Nat /\ MaxCrash \in Nat /\ MaxAdmin \in Nat
        /\ MaxLate \in Nat /\ now + LeaseTime \in Times
    BY <1>0, Numbers
  <1>3. \A a \in Addr : [ip |-> a, exp |-> now + LeaseTime, static |-> FALSE] \in Lease
    BY <1>2 DEF Lease
  <1>4. Committed \in [config : Settings, rows : Rows]
    BY <1>0 DEF Committed
  <1>5. \A n \in Node, m \in Mac : table[n][m] # None => table[n][m].ip \in Addr
    BY <1>1 DEF Lease
  <1>6. ASSUME NEW n \in Node, NEW m \in Mac, request[n][m] # None
        PROVE  /\ request[n][m].ip \in Addr \cup {None}
               /\ request[n][m].found # None => request[n][m].found.ip \in Addr
    <2>1. request[n][m] \in Requested
      BY <1>1, <1>6
    <2> QED
      BY <2>1 DEF Requested, Lease
  <1>7. ASSUME NEW n, NEW m, Done(n, m) PROVE request' \in [Node -> [Mac -> Requested \cup {None}]]
    BY <1>1, <1>7 DEF Done
  <1>8. ASSUME NEW m \in Mac, NEW a \in Addr, NEW delivered \in BOOLEAN,
               Offered(m, a, delivered)
        PROVE  offer' \in [Mac -> Addr \cup {None}] /\ held' = held
    BY <1>1, <1>8 DEF Offered
  <1>11. CASE Tick
    <2>1. now' \in 0..MaxTime
      BY <1>0, <1>2, <1>11 DEF Tick
    <2> QED
      BY <1>0, <1>1, <1>11, <2>1 DEF Tick, TypeOK, raft, server, client
  <1>12. CASE LoseLeadership
    <2>1. used' \in [loss : 0..MaxLoss, crash : 0..MaxCrash, admin : 0..MaxAdmin]
      BY <1>0, <1>2, <1>12 DEF LoseLeadership
    <2>2. event' \in [Node -> BOOLEAN] /\ leader' = None
      BY <1>0, <1>12 DEF LoseLeadership
    <2> QED
      BY <1>0, <1>1, <1>12, <2>1, <2>2 DEF LoseLeadership, TypeOK, client
  <1>13. ASSUME NEW cfg \in Settings, Commit(cfg), serving' \in [Node -> BOOLEAN],
                UNCHANGED <<now, leader, bucket, event, booting, discover, request>>,
                UNCHANGED <<sending, client>>
         PROVE  TypeOK'
    <2>1. used' \in [loss : 0..MaxLoss, crash : 0..MaxCrash, admin : 0..MaxAdmin]
      BY <1>0, <1>2, <1>13 DEF Commit
    <2>2. store' \in [Node -> [config : Settings, rows : Rows]]
      BY <1>0, <1>13 DEF Commit
    <2>3. table' \in [Node -> [Mac -> Lease \cup {None}]]
      <3>1. leader \in Node /\ table' = [table EXCEPT ![leader] = Rebuilt(table[leader], cfg)]
        BY <1>0, <1>13 DEF Commit
      <3>2. Rebuilt(table[leader], cfg) \in [Mac -> Lease \cup {None}]
        BY <1>1, <3>1, TypeTables
      <3> QED
        BY <1>1, <3>1, <3>2
    <2> QED
      BY <1>0, <1>1, <1>13, <2>1, <2>2, <2>3 DEF Commit, TypeOK, client
  <1>14. ASSUME NEW m \in Mac, NEW a \in Addr, Pin(m, a) PROVE TypeOK'
    <2>1. [config EXCEPT !.static[m] = a] \in Settings
      BY <1>0 DEF Settings
    <2>2. serving' \in [Node -> BOOLEAN]
      BY <1>0, <1>14 DEF Pin
    <2> QED
      BY <1>13, <1>14, <2>1, <2>2 DEF Pin
  <1>15. ASSUME NEW m \in Mac, Unpin(m) PROVE TypeOK'
    <2>1. [config EXCEPT !.static[m] = None] \in Settings
      BY <1>0 DEF Settings
    <2>2. serving' \in [Node -> BOOLEAN]
      BY <1>0, <1>15 DEF Unpin
    <2> QED
      BY <1>13, <1>15, <2>1, <2>2 DEF Unpin
  <1>16. CASE Switch
    <2> DEFINE off == ~config.on
    <2>a. off \in BOOLEAN
      OBVIOUS
    <2> HIDE DEF off
    <2>1. [config EXCEPT !.on = off] \in Settings
      BY <1>0, <2>a DEF Settings
    <2>2. serving' \in [Node -> BOOLEAN]
      BY <1>0, <1>16, <2>a DEF Switch, off
    <2> QED
      BY <1>13, <1>16, <2>1, <2>2 DEF Switch, off
  <1>17. ASSUME NEW n \in Node, Elect(n) PROVE TypeOK'
    <2>1. event' \in [Node -> BOOLEAN] /\ leader' \in Node
      BY <1>0, <1>17 DEF Elect
    <2> QED
      BY <1>0, <1>1, <1>17, <2>1 DEF Elect, TypeOK, client
  <1>18. ASSUME NEW n \in Node, CatchUp(n) PROVE TypeOK'
    <2>1. store' \in [Node -> [config : Settings, rows : Rows]]
      BY <1>0, <1>4, <1>18 DEF CatchUp
    <2> QED
      BY <1>0, <1>1, <1>18, <2>1 DEF CatchUp, TypeOK, server, client
  <1>19. ASSUME NEW n \in Node, Persist(n) PROVE TypeOK'
    <2>1. PICK e \in sending[n] :
              /\ sending' = [sending EXCEPT ![n] = @ \ {e}]
              /\ IF leader = n
                 THEN /\ bucket' = After(bucket, e)
                      /\ store' = [store EXCEPT ![n] = [config |-> config, rows |-> bucket']]
                 ELSE UNCHANGED <<bucket, store>>
      BY <1>19 DEF Persist
    <2>2. After(bucket, e) \in Rows
      <3>1. e \in Event
        BY <1>1
      <3>2. CASE e.op = "put"
        <4>1. [mac |-> e.mac, exp |-> e.exp] \in Persisted
          BY <3>1, <3>2 DEF Event, Persisted
        <4> QED
          BY <1>0, <3>2, <4>1 DEF After, Rows
      <3>3. CASE e.op # "put"
        BY <1>0, <3>3 DEF After, Rows
      <3> QED
        BY <3>2, <3>3
    <2>3. bucket' \in Rows
      BY <1>0, <2>1, <2>2
    <2>4. store' \in [Node -> [config : Settings, rows : Rows]]
      BY <1>0, <2>1, <2>3
    <2>5. sending' \in [Node -> SUBSET Event]
      BY <1>1, <2>1
    <2> QED
      BY <1>0, <1>1, <1>19, <2>3, <2>4, <2>5 DEF Persist, TypeOK, client
  <1>20. ASSUME NEW n \in Node, FollowLeadership(n) PROVE TypeOK'
    <2> DEFINE built == Rebuilt(table[n], store[n].config)
               leads == store[n].config.on /\ leader = n
    <2>1. /\ event' = [event EXCEPT ![n] = FALSE]
          /\ table' = [table EXCEPT ![n] = IF leads THEN Loaded(built, store[n].rows) ELSE built]
          /\ serving' = [serving EXCEPT ![n] = leads]
          /\ UNCHANGED <<now, raft, booting, discover, request, sending, client, used>>
      BY <1>20 DEF FollowLeadership
    <2>2. store[n].config \in Settings /\ store[n].rows \in Rows
      BY <1>0
    <2>3. built \in [Mac -> Lease \cup {None}] /\ leads \in BOOLEAN
      BY <1>1, <2>2, TypeTables DEF Settings
    <2> HIDE DEF built, leads
    <2>4. Loaded(built, store[n].rows) \in [Mac -> Lease \cup {None}]
      BY <2>2, <2>3, TypeTables
    <2>5. table' \in [Node -> [Mac -> Lease \cup {None}]]
      BY <1>1, <2>1, <2>3, <2>4
    <2>6. event' \in [Node -> BOOLEAN] /\ serving' \in [Node -> BOOLEAN]
      BY <1>0, <2>1, <2>3
    <2> QED
      BY <1>0, <1>1, <2>1, <2>5, <2>6 DEF TypeOK, raft, client
  <1>21. ASSUME NEW n \in Node, Restart(n) PROVE TypeOK'
    <2>1. used' \in [loss : 0..MaxLoss, crash : 0..MaxCrash, admin : 0..MaxAdmin]
      BY <1>0, <1>2, <1>21 DEF Restart
    <2>2. /\ leader' \in Node \cup {None}
          /\ event' \in [Node -> BOOLEAN] /\ serving' \in [Node -> BOOLEAN]
          /\ booting' \in [Node -> BOOLEAN]
      BY <1>0, <1>21 DEF Restart
    <2>3. /\ table' \in [Node -> [Mac -> Lease \cup {None}]]
          /\ request' \in [Node -> [Mac -> Requested \cup {None}]]
      BY <1>1, <1>21 DEF Restart, NoLeases
    <2>4. [m \in Mac |-> 0] \in [Mac -> 0..MaxLate]
      BY <1>2
    <2>5. discover' \in [Node -> [Mac -> 0..MaxLate]] /\ sending' \in [Node -> SUBSET Event]
      BY <1>1, <1>21, <2>4 DEF Restart
    <2> QED
      BY <1>0, <1>1, <1>21, <2>1, <2>2, <2>3, <2>5 DEF Restart, TypeOK, client
  <1>30. ASSUME NEW n \in Node, PersistFails(n) PROVE TypeOK'
    <2>1. sending' \in [Node -> SUBSET Event]
      BY <1>1, <1>30 DEF PersistFails
    <2> QED
      BY <1>0, <1>1, <1>30, <2>1 DEF PersistFails, TypeOK, raft, client
  <1>31. ASSUME NEW n \in Node, BootServer(n) PROVE TypeOK'
    <2> DEFINE leads == store[n].config.on /\ leader = n
    <2>1. /\ booting' = [booting EXCEPT ![n] = FALSE]
          /\ table' = IF leads THEN [table EXCEPT ![n] = Loaded(NoLeases, store[n].rows)]
                      ELSE table
          /\ serving' = [serving EXCEPT ![n] = leads]
          /\ UNCHANGED <<now, raft, event, discover, request, sending, client, used>>
      BY <1>31 DEF BootServer
    <2>2. store[n].rows \in Rows /\ store[n].config \in Settings
      BY <1>0
    <2>3. leads \in BOOLEAN /\ NoLeases \in [Mac -> Lease \cup {None}]
      BY <2>2 DEF Settings, NoLeases
    <2> HIDE DEF leads
    <2>4. Loaded(NoLeases, store[n].rows) \in [Mac -> Lease \cup {None}]
      BY <2>2, <2>3, TypeTables
    <2>5. table' \in [Node -> [Mac -> Lease \cup {None}]]
      BY <1>1, <2>1, <2>4
    <2>6. booting' \in [Node -> BOOLEAN] /\ serving' \in [Node -> BOOLEAN]
      BY <1>0, <2>1, <2>3
    <2> QED
      BY <1>0, <1>1, <2>1, <2>5, <2>6 DEF TypeOK, raft, client
  <1>22. ASSUME NEW n \in Node, NEW m \in Mac, Discover(n, m) PROVE TypeOK'
    <2>1. CASE table[n][m] # None /\ UNCHANGED discover
               /\ \E delivered \in BOOLEAN : Offered(m, table[n][m].ip, delivered)
      <3>1. offer' \in [Mac -> Addr \cup {None}] /\ held' = held
        BY <1>5, <1>8, <2>1
      <3> QED
        BY <1>0, <1>1, <1>22, <2>1, <3>1 DEF Discover, TypeOK, raft
    <2>2. CASE discover[n][m] < MaxLate /\ discover' = [discover EXCEPT ![n][m] = @ + 1]
               /\ UNCHANGED client
      <3>1. discover[n][m] + 1 \in 0..MaxLate
        BY <1>1, <1>2, <2>2
      <3>2. discover' \in [Node -> [Mac -> 0..MaxLate]]
        BY <1>1, <2>2, <3>1
      <3> QED
        BY <1>0, <1>1, <1>22, <2>2, <3>2 DEF Discover, TypeOK, raft, client
    <2> QED
      BY <1>22, <2>1, <2>2 DEF Discover
  <1>23. ASSUME NEW n \in Node, NEW m \in Mac, Allocate(n, m) PROVE TypeOK'
    <2>1. discover' \in [Node -> [Mac -> 0..MaxLate]]
      <3>1. /\ discover[n][m] - 1 \in 0..MaxLate
            /\ discover' = [discover EXCEPT ![n][m] = discover[n][m] - 1]
        BY <1>1, <1>2, <1>23 DEF Allocate
      <3> QED
        BY <1>1, <3>1
    <2>2. \A a \in Free(n) : a \in Addr
      BY DEF Free, DhcpAssumption
    <2>3. /\ table' \in [Node -> [Mac -> Lease \cup {None}]]
          /\ offer' \in [Mac -> Addr \cup {None}] /\ held' = held
      <3>1. ASSUME Pinned(table[n][m]), UNCHANGED table, NEW delivered \in BOOLEAN,
                   Offered(m, table[n][m].ip, delivered)
            PROVE  /\ table' \in [Node -> [Mac -> Lease \cup {None}]]
                   /\ offer' \in [Mac -> Addr \cup {None}] /\ held' = held
        <4>1. table[n][m].ip \in Addr
          BY <1>5, <3>1 DEF Pinned
        <4>2. offer' \in [Mac -> Addr \cup {None}] /\ held' = held
          BY <1>8, <3>1, <4>1
        <4> QED
          BY <1>1, <3>1, <4>2
      <3>2. ASSUME NEW a \in Free(n), NEW delivered \in BOOLEAN, Offered(m, a, delivered),
                   table' = [table EXCEPT ![n][m] = [ip |-> a, exp |-> now + LeaseTime,
                                                     static |-> FALSE]]
            PROVE  /\ table' \in [Node -> [Mac -> Lease \cup {None}]]
                   /\ offer' \in [Mac -> Addr \cup {None}] /\ held' = held
        <4>1. a \in Addr
          BY <2>2
        <4>2. offer' \in [Mac -> Addr \cup {None}] /\ held' = held
          BY <1>8, <3>2, <4>1
        <4>3. table' \in [Node -> [Mac -> Lease \cup {None}]]
          BY <1>1, <1>3, <3>2, <4>1
        <4> QED
          BY <4>2, <4>3
      <3>3. CASE UNCHANGED <<table, client>>
        BY <1>1, <3>3 DEF client
      <3> QED
        BY <1>23, <3>1, <3>2, <3>3 DEF Allocate
    <2> QED
      BY <1>0, <1>1, <1>23, <2>1, <2>3 DEF Allocate, TypeOK, raft
  <1>24. ASSUME NEW n \in Node, NEW m \in Mac, Request(n, m) PROVE TypeOK'
    <2>1. \A a \in Addr \cup {None} : [ip |-> a, found |-> table[n][m]] \in Requested
      BY <1>1 DEF Requested
    <2>2. request' \in [Node -> [Mac -> Requested \cup {None}]]
      BY <1>1, <1>24, <2>1 DEF Request
    <2> QED
      BY <1>0, <1>1, <1>24, <2>2 DEF Request, TypeOK, raft, client
  <1>25. ASSUME NEW n \in Node, NEW m \in Mac, Renew(n, m) PROVE TypeOK'
    <2>1. held' \in [Mac -> Held \cup {None}] /\ sending' \in [Node -> SUBSET Event]
      BY <1>6, <1>25, TypeAcked DEF Renew
    <2>2. table' \in [Node -> [Mac -> Lease \cup {None}]]
      <3>1. CASE table[n][m] = request[n][m].found
        <4>1. table[n][m] \in Lease
          BY <1>1, <1>25, <3>1 DEF Renew
        <4>2. [table[n][m] EXCEPT !.exp = now + LeaseTime] \in Lease
          BY <1>2, <4>1 DEF Lease
        <4>3. table' = [table EXCEPT ![n][m] = [table[n][m] EXCEPT !.exp = now + LeaseTime]]
          BY <1>1, <1>25, <3>1 DEF Renew
        <4> QED
          BY <1>1, <4>2, <4>3
      <3>2. CASE table[n][m] # request[n][m].found
        BY <1>1, <1>25, <3>2 DEF Renew
      <3> QED
        BY <3>1, <3>2
    <2> QED
      BY <1>0, <1>1, <1>7, <1>25, <2>1, <2>2 DEF Renew, TypeOK, raft
  <1>26. ASSUME NEW n \in Node, NEW m \in Mac, AckOwn(n, m) PROVE TypeOK'
    <2>1. held' \in [Mac -> Held \cup {None}] /\ sending' \in [Node -> SUBSET Event]
      BY <1>6, <1>26, TypeAcked DEF AckOwn
    <2> QED
      BY <1>0, <1>1, <1>7, <1>26, <2>1 DEF AckOwn, TypeOK, raft
  <1>27. ASSUME NEW n \in Node, NEW m \in Mac, ReserveAt(n, m) PROVE TypeOK'
    <2>1. CASE /\ request[n][m].ip # None
               /\ table' = [table EXCEPT ![n][m] = [ip |-> request[n][m].ip,
                                                   exp |-> now + LeaseTime, static |-> FALSE]]
               /\ \E delivered \in BOOLEAN : Acked(n, m, request[n][m].ip, delivered)
      <3>1. request[n][m].ip \in Addr
        BY <1>6, <1>27, <2>1 DEF ReserveAt
      <3>2. held' \in [Mac -> Held \cup {None}] /\ sending' \in [Node -> SUBSET Event]
        BY <2>1, <3>1, TypeAcked
      <3>3. table' \in [Node -> [Mac -> Lease \cup {None}]]
        BY <1>1, <1>3, <2>1, <3>1
      <3> QED
        BY <1>0, <1>1, <1>7, <1>27, <3>2, <3>3 DEF ReserveAt, TypeOK, raft
    <2>2. CASE UNCHANGED <<table, sending, held>>
      BY <1>0, <1>1, <1>7, <1>27, <2>2 DEF ReserveAt, TypeOK, raft
    <2> QED
      BY <1>27, <2>1, <2>2 DEF ReserveAt
  <1>28. ASSUME NEW n \in Node, NEW m \in Mac, Release(n, m) PROVE TypeOK'
    <2>1. /\ held' \in [Mac -> Held \cup {None}] /\ offer' \in [Mac -> Addr \cup {None}]
          /\ table' \in [Node -> [Mac -> Lease \cup {None}]]
      BY <1>1, <1>28 DEF Release
    <2>2. sending' \in [Node -> SUBSET Event]
      <3>1. table[n][m] # None => [op |-> "del", ip |-> table[n][m].ip] \in Event
        BY <1>5 DEF Event
      <3> QED
        BY <1>1, <1>28, <3>1 DEF Release
    <2> QED
      BY <1>0, <1>1, <1>28, <2>1, <2>2 DEF Release, TypeOK, raft
  <1>29. CASE UNCHANGED vars
    BY <1>0, <1>1, <1>29 DEF vars, raft, server, client, TypeOK
  <1> QED
    BY <1>11, <1>12, <1>14, <1>15, <1>16, <1>17, <1>18, <1>19, <1>20, <1>21, <1>22, <1>23,
       <1>24, <1>25, <1>26, <1>27, <1>28, <1>29, <1>30, <1>31 DEF Next

-----------------------------------------------------------------------------
(* Types of the instance: the lemmas above, of Pins.                       *)

\* A step of the scene is one of the instance.
LEMMA PinStep ==
    ASSUME scene # "handover", [ScenesNext]_<<vars, scene>>
    PROVE  [Pins!Next]_Pins!vars
  <1>1. CASE ScenesNext
    BY <1>1 DEF ScenesNext
  <1>2. CASE UNCHANGED <<vars, scene>>
    BY <1>2 DEF Pins!vars, Pins!raft, Pins!server, Pins!client, vars, raft, server, client
  <1> QED
    BY <1>1, <1>2

\* Its addresses are finitely many numbers.
LEMMA PinAddresses ==
    ASSUME Pins!DhcpAssumption
    PROVE  IsFiniteSet(PinAddr) /\ PinAddr \subseteq Nat
  BY DEF Pins!DhcpAssumption, Pins!IsFiniteSet, IsFiniteSet

\* The numbers, and the types of leases and rows that carry them.
LEMMA PinNumbers ==
    ASSUME Pins!DhcpAssumption
    PROVE  /\ PinTime \in Nat /\ PinLoss \in Nat /\ PinCrash \in Nat /\ PinAdmin \in Nat
           /\ MaxLate \in Nat /\ Pins!Never \in Pins!Times
           /\ \A t \in 0..PinTime : t + LeaseTime \in Pins!Times
  BY DEF Pins!DhcpAssumption, Pins!Never, Pins!Times

\* The same of the instance: everything starts with its type.
LEMMA PinTypeInit == Pins!DhcpAssumption /\ Pins!Init => Pins!TypeOK
  <1> SUFFICES ASSUME Pins!DhcpAssumption, Pins!Init PROVE Pins!TypeOK
    OBVIOUS
  <1>0. /\ PinTime \in Nat /\ PinLoss \in Nat /\ PinCrash \in Nat /\ PinAdmin \in Nat
        /\ MaxLate \in Nat
    BY PinNumbers
  <1>1. Pins!NoLeases \in [Mac -> PinAddr \cup {None}] /\ \A m \in Mac : Pins!NoLeases[m] = None
    BY DEF Pins!NoLeases
  <1>2. config \in Pins!Settings
    BY <1>1 DEF Pins!Init, Pins!Settings
  <1>3. bucket \in Pins!Rows
    BY DEF Pins!Init, Pins!Rows
  <1>4. store \in [PinNode -> [config : Pins!Settings, rows : Pins!Rows]]
    BY <1>2, <1>3 DEF Pins!Init, Pins!Committed
  <1>5. /\ table \in [PinNode -> [Mac -> Pins!Lease \cup {None}]]
        /\ request \in [PinNode -> [Mac -> Pins!Requested \cup {None}]]
    BY DEF Pins!Init, Pins!Nothing, Pins!NoLeases
  <1>6. discover \in [PinNode -> [Mac -> 0..MaxLate]]
    BY <1>0 DEF Pins!Init
  <1>7. sending \in [PinNode -> SUBSET Pins!Event] /\ held \in [Mac -> Pins!Held \cup {None}]
    BY DEF Pins!Init, Pins!NoLeases
  <1>8. used \in [loss : 0..PinLoss, crash : 0..PinCrash, admin : 0..PinAdmin]
    BY <1>0 DEF Pins!Init
  <1> QED
    BY <1>0, <1>1, <1>2, <1>3, <1>4, <1>5, <1>6, <1>7, <1>8 DEF Pins!TypeOK, Pins!Init

\* What a request that is acknowledged changes.
LEMMA PinTypeAcked ==
    ASSUME Pins!DhcpAssumption, Pins!TypeOK, NEW n \in PinNode, NEW m \in Mac, NEW a \in PinAddr,
           NEW delivered \in BOOLEAN, Pins!Acked(n, m, a, delivered)
    PROVE  held' \in [Mac -> Pins!Held \cup {None}] /\ sending' \in [PinNode -> SUBSET Pins!Event]
  <1>1. now + LeaseTime \in Pins!Times
    BY PinNumbers DEF Pins!TypeOK
  <1>2. [ip |-> a, exp |-> now + LeaseTime] \in Pins!Held
    BY <1>1 DEF Pins!Held
  <1>3. [op |-> "put", ip |-> a, mac |-> m, exp |-> now + LeaseTime] \in Pins!Event
    BY <1>1 DEF Pins!Event
  <1> QED
    BY <1>2, <1>3 DEF Pins!Acked, Pins!TypeOK

\* Tables that static entries or rows are put over.
LEMMA PinTypeTables ==
    ASSUME Pins!DhcpAssumption, NEW leases \in [Mac -> Pins!Lease \cup {None}]
    PROVE  /\ \A cfg \in Pins!Settings :
                  Pins!Rebuilt(leases, cfg) \in [Mac -> Pins!Lease \cup {None}]
           /\ \A rows \in Pins!Rows :
                  Pins!Loaded(leases, rows) \in [Mac -> Pins!Lease \cup {None}]
  <1>1. ASSUME NEW cfg \in Pins!Settings
        PROVE  Pins!Rebuilt(leases, cfg) \in [Mac -> Pins!Lease \cup {None}]
    <2>1. ASSUME NEW m \in Mac, cfg.static[m] # None
          PROVE  [ip |-> cfg.static[m], exp |-> Pins!Never, static |-> TRUE] \in Pins!Lease
      <3>1. cfg.static[m] \in PinAddr /\ Pins!Never \in Pins!Times
        BY <2>1, PinNumbers DEF Pins!Settings
      <3> QED
        BY <3>1 DEF Pins!Lease
    <2> QED
      BY <2>1 DEF Pins!Rebuilt
  <1>2. ASSUME NEW rows \in Pins!Rows
        PROVE  Pins!Loaded(leases, rows) \in [Mac -> Pins!Lease \cup {None}]
    <2> DEFINE mine(m) == {a \in PinAddr : /\ rows[a] # None /\ rows[a].mac = m
                                           /\ rows[a].exp >= now}
               last(m) == CHOOSE a \in mine(m) : \A b \in mine(m) : b <= a
    <2>1. ASSUME NEW m \in Mac, mine(m) # {}
          PROVE  [ip |-> last(m), exp |-> rows[last(m)].exp, static |-> FALSE] \in Pins!Lease
      <3>1. last(m) \in mine(m)
        <4>1. IsFiniteSet(PinAddr) /\ mine(m) \in SUBSET PinAddr /\ PinAddr \subseteq Nat
          BY PinAddresses
        <4>2. IsFiniteSet(mine(m)) /\ mine(m) \in SUBSET Nat
          BY <4>1, FS_Subset
        <4> HIDE DEF mine
        <4> QED
          BY <2>1, <4>2, LastIsThere
      <3>2. last(m) \in PinAddr /\ rows[last(m)].exp \in Pins!Times
        <4> HIDE DEF last
        <4> QED
          BY <3>1 DEF Pins!Rows, Pins!Persisted
      <3> QED
        BY <3>2 DEF Pins!Lease
    <2> QED
      BY <2>1 DEF Pins!Loaded
  <1> QED
    BY <1>1, <1>2

\* One step per action, and under it one per variable whose type is not obvious.
LEMMA PinTypeNext == Pins!DhcpAssumption /\ Pins!TypeOK /\ [Pins!Next]_Pins!vars => Pins!TypeOK'
  <1> SUFFICES ASSUME Pins!DhcpAssumption, Pins!TypeOK, [Pins!Next]_Pins!vars PROVE Pins!TypeOK'
    OBVIOUS
  <1>0. /\ now \in 0..PinTime /\ leader \in PinNode \cup {None}
        /\ config \in Pins!Settings /\ bucket \in Pins!Rows
        /\ store \in [PinNode -> [config : Pins!Settings, rows : Pins!Rows]]
        /\ event \in [PinNode -> BOOLEAN] /\ booting \in [PinNode -> BOOLEAN]
        /\ serving \in [PinNode -> BOOLEAN]
        /\ used \in [loss : 0..PinLoss, crash : 0..PinCrash, admin : 0..PinAdmin]
    BY DEF Pins!TypeOK
  <1>1. /\ table \in [PinNode -> [Mac -> Pins!Lease \cup {None}]]
        /\ discover \in [PinNode -> [Mac -> 0..MaxLate]]
        /\ request \in [PinNode -> [Mac -> Pins!Requested \cup {None}]]
        /\ sending \in [PinNode -> SUBSET Pins!Event]
        /\ offer \in [Mac -> PinAddr \cup {None}] /\ held \in [Mac -> Pins!Held \cup {None}]
    BY DEF Pins!TypeOK
  <1>2. /\ PinTime \in Nat /\ PinLoss \in Nat /\ PinCrash \in Nat /\ PinAdmin \in Nat
        /\ MaxLate \in Nat /\ now + LeaseTime \in Pins!Times
    BY <1>0, PinNumbers
  <1>3. \A a \in PinAddr : [ip |-> a, exp |-> now + LeaseTime, static |-> FALSE] \in Pins!Lease
    BY <1>2 DEF Pins!Lease
  <1>4. Pins!Committed \in [config : Pins!Settings, rows : Pins!Rows]
    BY <1>0 DEF Pins!Committed
  <1>5. \A n \in PinNode, m \in Mac : table[n][m] # None => table[n][m].ip \in PinAddr
    BY <1>1 DEF Pins!Lease
  <1>6. ASSUME NEW n \in PinNode, NEW m \in Mac, request[n][m] # None
        PROVE  /\ request[n][m].ip \in PinAddr \cup {None}
               /\ request[n][m].found # None => request[n][m].found.ip \in PinAddr
    <2>1. request[n][m] \in Pins!Requested
      BY <1>1, <1>6
    <2> QED
      BY <2>1 DEF Pins!Requested, Pins!Lease
  <1>7. ASSUME NEW n, NEW m, Pins!Done(n, m)
        PROVE request' \in [PinNode -> [Mac -> Pins!Requested \cup {None}]]
    BY <1>1, <1>7 DEF Pins!Done
  <1>8. ASSUME NEW m \in Mac, NEW a \in PinAddr, NEW delivered \in BOOLEAN,
               Pins!Offered(m, a, delivered)
        PROVE  offer' \in [Mac -> PinAddr \cup {None}] /\ held' = held
    BY <1>1, <1>8 DEF Pins!Offered
  <1>11. CASE Pins!Tick
    <2>1. now' \in 0..PinTime
      BY <1>0, <1>2, <1>11 DEF Pins!Tick
    <2> QED
      BY <1>0, <1>1, <1>11, <2>1 DEF Pins!Tick, Pins!TypeOK, Pins!raft, Pins!server, Pins!client
  <1>12. CASE Pins!LoseLeadership
    <2>1. used' \in [loss : 0..PinLoss, crash : 0..PinCrash, admin : 0..PinAdmin]
      BY <1>0, <1>2, <1>12 DEF Pins!LoseLeadership
    <2>2. event' \in [PinNode -> BOOLEAN] /\ leader' = None
      BY <1>0, <1>12 DEF Pins!LoseLeadership
    <2> QED
      BY <1>0, <1>1, <1>12, <2>1, <2>2 DEF Pins!LoseLeadership, Pins!TypeOK, Pins!client
  <1>13. ASSUME NEW cfg \in Pins!Settings, Pins!Commit(cfg), serving' \in [PinNode -> BOOLEAN],
                UNCHANGED <<now, leader, bucket, event, booting, discover, request>>,
                UNCHANGED <<sending, Pins!client>>
         PROVE  Pins!TypeOK'
    <2>1. used' \in [loss : 0..PinLoss, crash : 0..PinCrash, admin : 0..PinAdmin]
      BY <1>0, <1>2, <1>13 DEF Pins!Commit
    <2>2. store' \in [PinNode -> [config : Pins!Settings, rows : Pins!Rows]]
      BY <1>0, <1>13 DEF Pins!Commit
    <2>3. table' \in [PinNode -> [Mac -> Pins!Lease \cup {None}]]
      <3>1. /\ leader \in PinNode
            /\ table' = [table EXCEPT ![leader] = Pins!Rebuilt(table[leader], cfg)]
        BY <1>0, <1>13 DEF Pins!Commit
      <3>2. Pins!Rebuilt(table[leader], cfg) \in [Mac -> Pins!Lease \cup {None}]
        BY <1>1, <3>1, PinTypeTables
      <3> QED
        BY <1>1, <3>1, <3>2
    <2> QED
      BY <1>0, <1>1, <1>13, <2>1, <2>2, <2>3 DEF Pins!Commit, Pins!TypeOK, Pins!client
  <1>14. ASSUME NEW m \in Mac, NEW a \in PinAddr, Pins!Pin(m, a) PROVE Pins!TypeOK'
    <2>1. [config EXCEPT !.static[m] = a] \in Pins!Settings
      BY <1>0 DEF Pins!Settings
    <2>2. serving' \in [PinNode -> BOOLEAN]
      BY <1>0, <1>14 DEF Pins!Pin
    <2> QED
      BY <1>13, <1>14, <2>1, <2>2 DEF Pins!Pin
  <1>15. ASSUME NEW m \in Mac, Pins!Unpin(m) PROVE Pins!TypeOK'
    <2>1. [config EXCEPT !.static[m] = None] \in Pins!Settings
      BY <1>0 DEF Pins!Settings
    <2>2. serving' \in [PinNode -> BOOLEAN]
      BY <1>0, <1>15 DEF Pins!Unpin
    <2> QED
      BY <1>13, <1>15, <2>1, <2>2 DEF Pins!Unpin
  <1>16. CASE Pins!Switch
    <2> DEFINE off == ~config.on
    <2>a. off \in BOOLEAN
      OBVIOUS
    <2> HIDE DEF off
    <2>1. [config EXCEPT !.on = off] \in Pins!Settings
      BY <1>0, <2>a DEF Pins!Settings
    <2>2. serving' \in [PinNode -> BOOLEAN]
      BY <1>0, <1>16, <2>a DEF Pins!Switch, off
    <2> QED
      BY <1>13, <1>16, <2>1, <2>2 DEF Pins!Switch, off
  <1>17. ASSUME NEW n \in PinNode, Pins!Elect(n) PROVE Pins!TypeOK'
    <2>1. event' \in [PinNode -> BOOLEAN] /\ leader' \in PinNode
      BY <1>0, <1>17 DEF Pins!Elect
    <2> QED
      BY <1>0, <1>1, <1>17, <2>1 DEF Pins!Elect, Pins!TypeOK, Pins!client
  <1>18. ASSUME NEW n \in PinNode, Pins!CatchUp(n) PROVE Pins!TypeOK'
    <2>1. store' \in [PinNode -> [config : Pins!Settings, rows : Pins!Rows]]
      BY <1>0, <1>4, <1>18 DEF Pins!CatchUp
    <2> QED
      BY <1>0, <1>1, <1>18, <2>1 DEF Pins!CatchUp, Pins!TypeOK, Pins!server, Pins!client
  <1>19. ASSUME NEW n \in PinNode, Pins!Persist(n) PROVE Pins!TypeOK'
    <2>1. PICK e \in sending[n] :
              /\ sending' = [sending EXCEPT ![n] = @ \ {e}]
              /\ IF leader = n
                 THEN /\ bucket' = Pins!After(bucket, e)
                      /\ store' = [store EXCEPT ![n] = [config |-> config, rows |-> bucket']]
                 ELSE UNCHANGED <<bucket, store>>
      BY <1>19 DEF Pins!Persist
    <2>2. Pins!After(bucket, e) \in Pins!Rows
      <3>1. e \in Pins!Event
        BY <1>1
      <3>2. CASE e.op = "put"
        <4>1. [mac |-> e.mac, exp |-> e.exp] \in Pins!Persisted
          BY <3>1, <3>2 DEF Pins!Event, Pins!Persisted
        <4> QED
          BY <1>0, <3>2, <4>1 DEF Pins!After, Pins!Rows
      <3>3. CASE e.op # "put"
        BY <1>0, <3>3 DEF Pins!After, Pins!Rows
      <3> QED
        BY <3>2, <3>3
    <2>3. bucket' \in Pins!Rows
      BY <1>0, <2>1, <2>2
    <2>4. store' \in [PinNode -> [config : Pins!Settings, rows : Pins!Rows]]
      BY <1>0, <2>1, <2>3
    <2>5. sending' \in [PinNode -> SUBSET Pins!Event]
      BY <1>1, <2>1
    <2> QED
      BY <1>0, <1>1, <1>19, <2>3, <2>4, <2>5 DEF Pins!Persist, Pins!TypeOK, Pins!client
  <1>20. ASSUME NEW n \in PinNode, Pins!FollowLeadership(n) PROVE Pins!TypeOK'
    <2> DEFINE built == Pins!Rebuilt(table[n], store[n].config)
               leads == store[n].config.on /\ leader = n
    <2>1. /\ event' = [event EXCEPT ![n] = FALSE]
          /\ table' = [table EXCEPT ![n] =
                           IF leads THEN Pins!Loaded(built, store[n].rows) ELSE built]
          /\ serving' = [serving EXCEPT ![n] = leads]
          /\ UNCHANGED <<now, Pins!raft, booting, discover, request, sending>>
          /\ UNCHANGED <<Pins!client, used>>
      BY <1>20 DEF Pins!FollowLeadership
    <2>2. store[n].config \in Pins!Settings /\ store[n].rows \in Pins!Rows
      BY <1>0
    <2>3. built \in [Mac -> Pins!Lease \cup {None}] /\ leads \in BOOLEAN
      BY <1>1, <2>2, PinTypeTables DEF Pins!Settings
    <2> HIDE DEF built, leads
    <2>4. Pins!Loaded(built, store[n].rows) \in [Mac -> Pins!Lease \cup {None}]
      BY <2>2, <2>3, PinTypeTables
    <2>5. table' \in [PinNode -> [Mac -> Pins!Lease \cup {None}]]
      BY <1>1, <2>1, <2>3, <2>4
    <2>6. event' \in [PinNode -> BOOLEAN] /\ serving' \in [PinNode -> BOOLEAN]
      BY <1>0, <2>1, <2>3
    <2> QED
      BY <1>0, <1>1, <2>1, <2>5, <2>6 DEF Pins!TypeOK, Pins!raft, Pins!client
  <1>21. ASSUME NEW n \in PinNode, Pins!Restart(n) PROVE Pins!TypeOK'
    <2>1. used' \in [loss : 0..PinLoss, crash : 0..PinCrash, admin : 0..PinAdmin]
      BY <1>0, <1>2, <1>21 DEF Pins!Restart
    <2>2. /\ leader' \in PinNode \cup {None}
          /\ event' \in [PinNode -> BOOLEAN] /\ serving' \in [PinNode -> BOOLEAN]
          /\ booting' \in [PinNode -> BOOLEAN]
      BY <1>0, <1>21 DEF Pins!Restart
    <2>3. /\ table' \in [PinNode -> [Mac -> Pins!Lease \cup {None}]]
          /\ request' \in [PinNode -> [Mac -> Pins!Requested \cup {None}]]
      BY <1>1, <1>21 DEF Pins!Restart, Pins!NoLeases
    <2>4. [m \in Mac |-> 0] \in [Mac -> 0..MaxLate]
      BY <1>2
    <2>5. /\ discover' \in [PinNode -> [Mac -> 0..MaxLate]]
          /\ sending' \in [PinNode -> SUBSET Pins!Event]
      BY <1>1, <1>21, <2>4 DEF Pins!Restart
    <2> QED
      BY <1>0, <1>1, <1>21, <2>1, <2>2, <2>3, <2>5 DEF Pins!Restart, Pins!TypeOK, Pins!client
  <1>30. ASSUME NEW n \in PinNode, Pins!PersistFails(n) PROVE Pins!TypeOK'
    <2>1. sending' \in [PinNode -> SUBSET Pins!Event]
      BY <1>1, <1>30 DEF Pins!PersistFails
    <2> QED
      BY <1>0, <1>1, <1>30, <2>1 DEF Pins!PersistFails, Pins!TypeOK, Pins!raft, Pins!client
  <1>31. ASSUME NEW n \in PinNode, Pins!BootServer(n) PROVE Pins!TypeOK'
    <2> DEFINE leads == store[n].config.on /\ leader = n
    <2>1. /\ booting' = [booting EXCEPT ![n] = FALSE]
          /\ table' = IF leads THEN [table EXCEPT ![n] = Pins!Loaded(Pins!NoLeases, store[n].rows)]
                      ELSE table
          /\ serving' = [serving EXCEPT ![n] = leads]
          /\ UNCHANGED <<now, Pins!raft, event, discover, request, sending, Pins!client, used>>
      BY <1>31 DEF Pins!BootServer
    <2>2. store[n].rows \in Pins!Rows /\ store[n].config \in Pins!Settings
      BY <1>0
    <2>3. leads \in BOOLEAN /\ Pins!NoLeases \in [Mac -> Pins!Lease \cup {None}]
      BY <2>2 DEF Pins!Settings, Pins!NoLeases
    <2> HIDE DEF leads
    <2>4. Pins!Loaded(Pins!NoLeases, store[n].rows) \in [Mac -> Pins!Lease \cup {None}]
      BY <2>2, <2>3, PinTypeTables
    <2>5. table' \in [PinNode -> [Mac -> Pins!Lease \cup {None}]]
      BY <1>1, <2>1, <2>4
    <2>6. booting' \in [PinNode -> BOOLEAN] /\ serving' \in [PinNode -> BOOLEAN]
      BY <1>0, <2>1, <2>3
    <2> QED
      BY <1>0, <1>1, <2>1, <2>5, <2>6 DEF Pins!TypeOK, Pins!raft, Pins!client
  <1>22. ASSUME NEW n \in PinNode, NEW m \in Mac, Pins!Discover(n, m) PROVE Pins!TypeOK'
    <2>1. CASE table[n][m] # None /\ UNCHANGED discover
               /\ \E delivered \in BOOLEAN : Pins!Offered(m, table[n][m].ip, delivered)
      <3>1. offer' \in [Mac -> PinAddr \cup {None}] /\ held' = held
        BY <1>5, <1>8, <2>1
      <3> QED
        BY <1>0, <1>1, <1>22, <2>1, <3>1 DEF Pins!Discover, Pins!TypeOK, Pins!raft
    <2>2. CASE discover[n][m] < MaxLate /\ discover' = [discover EXCEPT ![n][m] = @ + 1]
               /\ UNCHANGED Pins!client
      <3>1. discover[n][m] + 1 \in 0..MaxLate
        BY <1>1, <1>2, <2>2
      <3>2. discover' \in [PinNode -> [Mac -> 0..MaxLate]]
        BY <1>1, <2>2, <3>1
      <3> QED
        BY <1>0, <1>1, <1>22, <2>2, <3>2 DEF Pins!Discover, Pins!TypeOK, Pins!raft, Pins!client
    <2> QED
      BY <1>22, <2>1, <2>2 DEF Pins!Discover
  <1>23. ASSUME NEW n \in PinNode, NEW m \in Mac, Pins!Allocate(n, m) PROVE Pins!TypeOK'
    <2>1. discover' \in [PinNode -> [Mac -> 0..MaxLate]]
      <3>1. /\ discover[n][m] - 1 \in 0..MaxLate
            /\ discover' = [discover EXCEPT ![n][m] = discover[n][m] - 1]
        BY <1>1, <1>2, <1>23 DEF Pins!Allocate
      <3> QED
        BY <1>1, <3>1
    <2>2. \A a \in Pins!Free(n) : a \in PinAddr
      BY DEF Pins!Free, Pins!DhcpAssumption
    <2>3. /\ table' \in [PinNode -> [Mac -> Pins!Lease \cup {None}]]
          /\ offer' \in [Mac -> PinAddr \cup {None}] /\ held' = held
      <3>1. ASSUME Pins!Pinned(table[n][m]), UNCHANGED table, NEW delivered \in BOOLEAN,
                   Pins!Offered(m, table[n][m].ip, delivered)
            PROVE  /\ table' \in [PinNode -> [Mac -> Pins!Lease \cup {None}]]
                   /\ offer' \in [Mac -> PinAddr \cup {None}] /\ held' = held
        <4>1. table[n][m].ip \in PinAddr
          BY <1>5, <3>1 DEF Pins!Pinned
        <4>2. offer' \in [Mac -> PinAddr \cup {None}] /\ held' = held
          BY <1>8, <3>1, <4>1
        <4> QED
          BY <1>1, <3>1, <4>2
      <3>2. ASSUME NEW a \in Pins!Free(n), NEW delivered \in BOOLEAN, Pins!Offered(m, a, delivered),
                   table' = [table EXCEPT ![n][m] = [ip |-> a, exp |-> now + LeaseTime,
                                                     static |-> FALSE]]
            PROVE  /\ table' \in [PinNode -> [Mac -> Pins!Lease \cup {None}]]
                   /\ offer' \in [Mac -> PinAddr \cup {None}] /\ held' = held
        <4>1. a \in PinAddr
          BY <2>2
        <4>2. offer' \in [Mac -> PinAddr \cup {None}] /\ held' = held
          BY <1>8, <3>2, <4>1
        <4>3. table' \in [PinNode -> [Mac -> Pins!Lease \cup {None}]]
          BY <1>1, <1>3, <3>2, <4>1
        <4> QED
          BY <4>2, <4>3
      <3>3. CASE UNCHANGED <<table, Pins!client>>
        BY <1>1, <3>3 DEF Pins!client
      <3> QED
        BY <1>23, <3>1, <3>2, <3>3 DEF Pins!Allocate
    <2> QED
      BY <1>0, <1>1, <1>23, <2>1, <2>3 DEF Pins!Allocate, Pins!TypeOK, Pins!raft
  <1>24. ASSUME NEW n \in PinNode, NEW m \in Mac, Pins!Request(n, m) PROVE Pins!TypeOK'
    <2>1. \A a \in PinAddr \cup {None} : [ip |-> a, found |-> table[n][m]] \in Pins!Requested
      BY <1>1 DEF Pins!Requested
    <2>2. request' \in [PinNode -> [Mac -> Pins!Requested \cup {None}]]
      BY <1>1, <1>24, <2>1 DEF Pins!Request
    <2> QED
      BY <1>0, <1>1, <1>24, <2>2 DEF Pins!Request, Pins!TypeOK, Pins!raft, Pins!client
  <1>25. ASSUME NEW n \in PinNode, NEW m \in Mac, Pins!Renew(n, m) PROVE Pins!TypeOK'
    <2>1. held' \in [Mac -> Pins!Held \cup {None}] /\ sending' \in [PinNode -> SUBSET Pins!Event]
      BY <1>6, <1>25, PinTypeAcked DEF Pins!Renew
    <2>2. table' \in [PinNode -> [Mac -> Pins!Lease \cup {None}]]
      <3>1. CASE table[n][m] = request[n][m].found
        <4>1. table[n][m] \in Pins!Lease
          BY <1>1, <1>25, <3>1 DEF Pins!Renew
        <4>2. [table[n][m] EXCEPT !.exp = now + LeaseTime] \in Pins!Lease
          BY <1>2, <4>1 DEF Pins!Lease
        <4>3. table' = [table EXCEPT ![n][m] = [table[n][m] EXCEPT !.exp = now + LeaseTime]]
          BY <1>1, <1>25, <3>1 DEF Pins!Renew
        <4> QED
          BY <1>1, <4>2, <4>3
      <3>2. CASE table[n][m] # request[n][m].found
        BY <1>1, <1>25, <3>2 DEF Pins!Renew
      <3> QED
        BY <3>1, <3>2
    <2> QED
      BY <1>0, <1>1, <1>7, <1>25, <2>1, <2>2 DEF Pins!Renew, Pins!TypeOK, Pins!raft
  <1>26. ASSUME NEW n \in PinNode, NEW m \in Mac, Pins!AckOwn(n, m) PROVE Pins!TypeOK'
    <2>1. held' \in [Mac -> Pins!Held \cup {None}] /\ sending' \in [PinNode -> SUBSET Pins!Event]
      BY <1>6, <1>26, PinTypeAcked DEF Pins!AckOwn
    <2> QED
      BY <1>0, <1>1, <1>7, <1>26, <2>1 DEF Pins!AckOwn, Pins!TypeOK, Pins!raft
  <1>27. ASSUME NEW n \in PinNode, NEW m \in Mac, Pins!ReserveAt(n, m) PROVE Pins!TypeOK'
    <2>1. CASE /\ request[n][m].ip # None
               /\ table' = [table EXCEPT ![n][m] = [ip |-> request[n][m].ip,
                                                   exp |-> now + LeaseTime, static |-> FALSE]]
               /\ \E delivered \in BOOLEAN : Pins!Acked(n, m, request[n][m].ip, delivered)
      <3>1. request[n][m].ip \in PinAddr
        BY <1>6, <1>27, <2>1 DEF Pins!ReserveAt
      <3>2. held' \in [Mac -> Pins!Held \cup {None}] /\ sending' \in [PinNode -> SUBSET Pins!Event]
        BY <2>1, <3>1, PinTypeAcked
      <3>3. table' \in [PinNode -> [Mac -> Pins!Lease \cup {None}]]
        BY <1>1, <1>3, <2>1, <3>1
      <3> QED
        BY <1>0, <1>1, <1>7, <1>27, <3>2, <3>3 DEF Pins!ReserveAt, Pins!TypeOK, Pins!raft
    <2>2. CASE UNCHANGED <<table, sending, held>>
      BY <1>0, <1>1, <1>7, <1>27, <2>2 DEF Pins!ReserveAt, Pins!TypeOK, Pins!raft
    <2> QED
      BY <1>27, <2>1, <2>2 DEF Pins!ReserveAt
  <1>28. ASSUME NEW n \in PinNode, NEW m \in Mac, Pins!Release(n, m) PROVE Pins!TypeOK'
    <2>1. /\ held' \in [Mac -> Pins!Held \cup {None}] /\ offer' \in [Mac -> PinAddr \cup {None}]
          /\ table' \in [PinNode -> [Mac -> Pins!Lease \cup {None}]]
      BY <1>1, <1>28 DEF Pins!Release
    <2>2. sending' \in [PinNode -> SUBSET Pins!Event]
      <3>1. table[n][m] # None => [op |-> "del", ip |-> table[n][m].ip] \in Pins!Event
        BY <1>5 DEF Pins!Event
      <3> QED
        BY <1>1, <1>28, <3>1 DEF Pins!Release
    <2> QED
      BY <1>0, <1>1, <1>28, <2>1, <2>2 DEF Pins!Release, Pins!TypeOK, Pins!raft
  <1>29. CASE UNCHANGED Pins!vars
    BY <1>0, <1>1, <1>29 DEF Pins!vars, Pins!raft, Pins!server, Pins!client, Pins!TypeOK
  <1> QED
    BY <1>11, <1>12, <1>14, <1>15, <1>16, <1>17, <1>18, <1>19, <1>20, <1>21, <1>22, <1>23,
       <1>24, <1>25, <1>26, <1>27, <1>28, <1>29, <1>30, <1>31 DEF Pins!Next

-----------------------------------------------------------------------------
(* Pins: the invariant.                                                    *)

\* Leadership moves when all is quiet, clients wait for what they set off, settings
\* change when nothing is handled, and only what is unused is pinned, and stays so.
Pinning == Quiet /\ Settled /\ PinFree /\ ~PinReleased

\* A leader that has followed its election.
Leads(n) == leader = n /\ ~event[n]

\* Leadership events are of the leader, or of the last one; a leader that serves has
\* followed its election, and has come up before.
EventsAreOfLeader ==
    \A n \in PinNode : /\ event[n] => leader \in {n, None}
                       /\ serving[n] => leader = None \/ Leads(n)
                       /\ booting[n] => leader # n

\* Nobody else handles or replicates anything, and without one all stores agree.
OthersAreIdle ==
    /\ \A n \in PinNode : ~Leads(n) => /\ sending[n] = {}
                                       /\ \A m \in Mac : /\ discover[n][m] = 0
                                                         /\ request[n][m] = None
    /\ (\A n \in PinNode : ~Leads(n)) => \A n \in PinNode : store[n] = Pins!Committed

\* A client has one packet in hand, and its lease does not change behind it.
OneAtATime ==
    \A n \in PinNode, m \in Mac :
        /\ discover[n][m] \in {0, 1}
        /\ discover[n][m] = 1 => table[n][m] = None /\ request[n][m] = None
        /\ request[n][m] # None => request[n][m].found = table[n][m]

PinOf(m) == config.static[m]

\* Two clients have not one pin.
PinsDiffer == \A m, k \in Mac : m # k /\ PinOf(m) # None => PinOf(m) # PinOf(k)

\* No table, and nothing that is handled, gives a pinned address to another client.
TablesKeepOff ==
    \A n \in PinNode : \A m, k \in Mac :
        m # k /\ PinOf(m) # None /\ table[n][k] # None => table[n][k].ip # PinOf(m)

\* The leader's table has every pin.
LeaderHasPins ==
    \A n \in PinNode, m \in Mac :
        Leads(n) /\ PinOf(m) # None => table[n][m] # None /\ table[n][m].ip = PinOf(m)

\* A row that pairs a pinned address or a pinned client pairs it with its own.
Keeps(a, k) == \A m \in Mac : PinOf(m) # None => (k = m <=> a = PinOf(m))

RowsKeepOff ==
    /\ \A a \in PinAddr : bucket[a] # None => Keeps(a, bucket[a].mac)
    /\ \A n \in PinNode : \A e \in sending[n] : e.op = "put" => Keeps(e.ip, e.mac)

PinInv ==
    /\ Pins!TypeOK /\ EventsAreOfLeader /\ OthersAreIdle /\ OneAtATime
    /\ PinsDiffer /\ TablesKeepOff /\ LeaderHasPins /\ RowsKeepOff
    /\ Pins!PinnedAddressIsOnes

\* What is in the tables, the requests and the rows has types.
LEMMA PinTypes ==
    ASSUME Pins!TypeOK
    PROVE  /\ table \in [PinNode -> [Mac -> Pins!Lease \cup {None}]]
           /\ request \in [PinNode -> [Mac -> Pins!Requested \cup {None}]]
           /\ discover \in [PinNode -> [Mac -> 0..MaxLate]]
           /\ sending \in [PinNode -> SUBSET Pins!Event] /\ bucket \in Pins!Rows
           /\ store \in [PinNode -> [config : Pins!Settings, rows : Pins!Rows]]
           /\ event \in [PinNode -> BOOLEAN] /\ booting \in [PinNode -> BOOLEAN]
           /\ serving \in [PinNode -> BOOLEAN]
           /\ held \in [Mac -> Pins!Held \cup {None}] /\ config \in Pins!Settings
           /\ config.static \in [Mac -> PinAddr \cup {None}]
           /\ leader \in PinNode \cup {None} /\ now \in 0..PinTime
  BY DEF Pins!TypeOK, Pins!Settings

\* What the table of a leader says keeps to the pins, and so does what it has free.
LEMMA LeaderKeeps ==
    ASSUME PinInv, NEW n \in PinNode, Leads(n)
    PROVE  /\ \A k \in Mac : table[n][k] # None => Keeps(table[n][k].ip, k)
           /\ \A k \in Mac : PinOf(k) # None => table[n][k] # None
           /\ \A k \in Mac : \A a :
                /\ table[n][k] = None
                /\ \A j \in Mac \ {k} : table[n][j] # None => table[n][j].ip # a
                => Keeps(a, k)
  BY DEF PinInv, TablesKeepOff, LeaderHasPins, Keeps

\* A step of a handler of the leader, which gives, acknowledges and replicates nothing
\* but what keeps to the pins.
LEMMA PinHandled ==
    ASSUME PinInv, Pins!TypeOK', NEW n \in PinNode, Leads(n),
           UNCHANGED <<now, leader, config, bucket, store, event, booting, serving>>,
           \A o \in PinNode : o # n => /\ table'[o] = table[o] /\ request'[o] = request[o]
                                       /\ sending'[o] = sending[o]
                                       /\ discover'[o] = discover[o],
           OneAtATime',
           \A k \in Mac : table'[n][k] # None => Keeps(table'[n][k].ip, k),
           \A k \in Mac : PinOf(k) # None => table'[n][k] # None,
           \A e \in sending'[n] : e \in sending[n] \/ e.op # "put" \/ Keeps(e.ip, e.mac),
           \A k \in Mac : held'[k] \in {held[k], None} \/ Keeps(held'[k].ip, k)
    PROVE  PinInv'
  <1>1. /\ \A k \in Mac : PinOf(k)' = PinOf(k)
        /\ \A a, k : Keeps(a, k)' <=> Keeps(a, k)
        /\ \A o \in PinNode : Leads(o)' <=> Leads(o)
    BY DEF PinOf, Keeps, Leads
  <1>2. EventsAreOfLeader' /\ PinsDiffer'
    BY <1>1 DEF PinInv, EventsAreOfLeader, PinsDiffer
  <1>3. OthersAreIdle'
    BY <1>1 DEF PinInv, OthersAreIdle, Pins!Committed
  <1>4. TablesKeepOff'
    BY <1>1 DEF PinInv, TablesKeepOff, Keeps
  <1>5. LeaderHasPins'
    <2>1. \A o \in PinNode : Leads(o) => o = n
      BY DEF Leads
    <2> QED
      BY <1>1, <2>1 DEF Keeps, LeaderHasPins
  <1>6. RowsKeepOff'
    BY <1>1 DEF PinInv, RowsKeepOff
  <1>7. Pins!PinnedAddressIsOnes'
    <2> SUFFICES ASSUME NEW m \in Mac, NEW k \in Mac, m # k, PinOf(m) # None, Pins!Holds(k)'
                 PROVE  held'[k].ip # PinOf(m)
      BY DEF Pins!PinnedAddressIsOnes, PinOf
    <2>1. CASE held'[k] = held[k]
      BY <2>1 DEF PinInv, Pins!PinnedAddressIsOnes, PinOf, Pins!Holds
    <2>2. CASE Keeps(held'[k].ip, k)
      BY <2>2 DEF Keeps
    <2> QED
      BY <2>1, <2>2 DEF Pins!Holds
  <1> QED
    BY <1>2, <1>3, <1>4, <1>5, <1>6, <1>7 DEF PinInv

\* A packet is received by the leader, when the client has no other in hand.
LEMMA PinReceived ==
    ASSUME Pins!DhcpAssumption, Pinning, PinInv, NEW n \in PinNode, NEW m \in Mac,
           Pins!Receives(n, m)
    PROVE  Leads(n) /\ discover[n][m] = 0 /\ request[n][m] = None
  <1>1. serving[n] /\ leader = n /\ discover[n][m] = 0 /\ request[n][m] = None
    BY DEF Pinning, Pins!Receives
  <1>2. leader # None
    BY <1>1 DEF Pins!DhcpAssumption
  <1> QED
    BY <1>1, <1>2 DEF PinInv, EventsAreOfLeader

\* What is in hand is in the leader's.
LEMMA PinBusy ==
    ASSUME PinInv, NEW n \in PinNode, NEW m \in Mac, discover[n][m] > 0 \/ request[n][m] # None
    PROVE  Leads(n)
  BY DEF PinInv, OthersAreIdle

\* Nothing is pinned at the start.
LEMMA PinInit == Pins!DhcpAssumption /\ Pins!NoneIsNoRow /\ Pins!Init => PinInv
  <1> SUFFICES ASSUME Pins!DhcpAssumption, Pins!NoneIsNoRow, Pins!Init PROVE PinInv
    OBVIOUS
  <1>1. \A m \in Mac : Pins!NoLeases[m] = None
    BY DEF Pins!NoLeases
  <1>2. \A m \in Mac : PinOf(m) = None /\ ~Pins!Holds(m)
    BY <1>1 DEF Pins!Init, PinOf, Pins!Holds
  <1>3. EventsAreOfLeader /\ OthersAreIdle
    BY <1>1 DEF Pins!Init, EventsAreOfLeader, OthersAreIdle, Pins!Nothing
  <1>4. OneAtATime
    BY <1>1 DEF Pins!Init, OneAtATime, Pins!Nothing
  <1>5. PinsDiffer /\ TablesKeepOff /\ LeaderHasPins
    BY <1>2 DEF PinsDiffer, TablesKeepOff, LeaderHasPins
  <1>6. RowsKeepOff /\ Pins!PinnedAddressIsOnes
    BY <1>2 DEF Pins!Init, RowsKeepOff, Pins!PinnedAddressIsOnes
  <1>7. Pins!TypeOK
    BY PinTypeInit
  <1> QED
    BY <1>3, <1>4, <1>5, <1>6, <1>7 DEF PinInv

\* Time only ends the use of addresses.
LEMMA PinTick ==
    ASSUME Pins!DhcpAssumption, PinInv, Pins!TypeOK', Pins!Tick PROVE PinInv'
  <1>1. /\ now' = now + 1
        /\ UNCHANGED <<leader, config, bucket, store, event, booting, serving, table>>
        /\ UNCHANGED <<discover, request, sending, held>>
    BY DEF Pins!Tick, Pins!raft, Pins!server, Pins!client
  <1>2. ASSUME NEW m \in Mac, Pins!Holds(m)' PROVE Pins!Holds(m)
    <2>1. held[m] # None /\ held[m].exp > now + 1 /\ held[m] \in Pins!Held
      BY <1>1, <1>2 DEF Pins!Holds, PinInv, Pins!TypeOK
    <2>2. held[m].exp \in Int /\ now \in Int
      BY <2>1, PinNumbers DEF Pins!Held, Pins!Times, Pins!Never, PinInv, Pins!TypeOK,
         Pins!DhcpAssumption
    <2> QED
      BY <2>1, <2>2 DEF Pins!Holds
  <1>3. EventsAreOfLeader' /\ OthersAreIdle' /\ OneAtATime'
    BY <1>1 DEF PinInv, EventsAreOfLeader, OthersAreIdle, OneAtATime, Leads, Pins!Committed
  <1>4. PinsDiffer' /\ TablesKeepOff' /\ LeaderHasPins'
    BY <1>1 DEF PinInv, PinsDiffer, TablesKeepOff, LeaderHasPins, PinOf, Leads
  <1>5. RowsKeepOff'
    BY <1>1 DEF PinInv, RowsKeepOff, Keeps, PinOf
  <1>6. Pins!PinnedAddressIsOnes'
    BY <1>1, <1>2 DEF PinInv, Pins!PinnedAddressIsOnes
  <1> QED
    BY <1>3, <1>4, <1>5, <1>6 DEF PinInv

-----------------------------------------------------------------------------
(* Pins: the handlers.                                                     *)

\* A DISCOVER gives nothing, or waits for an allocation.
LEMMA PinDiscover ==
    ASSUME Pins!DhcpAssumption, Pinning, PinInv, Pins!TypeOK', NEW n \in PinNode,
           NEW m \in Mac, Pins!Discover(n, m)
    PROVE  PinInv'
  <1>1. Leads(n) /\ discover[n][m] = 0 /\ request[n][m] = None
    BY PinReceived DEF Pins!Discover
  <1>2. /\ UNCHANGED <<now, leader, config, bucket, store, event, booting, serving>>
        /\ UNCHANGED <<table, request, sending, held>>
        /\ \/ UNCHANGED discover
           \/ table[n][m] = None /\ discover' = [discover EXCEPT ![n][m] = @ + 1]
    BY DEF Pins!Discover, Pins!Offered, Pins!raft, Pins!client
  <1>3. /\ \A o \in PinNode : o # n => discover'[o] = discover[o]
        /\ \A o \in PinNode, k \in Mac :
               \/ discover'[o][k] = discover[o][k]
               \/ o = n /\ k = m /\ discover'[o][k] = 1 /\ table[n][m] = None
    BY <1>1, <1>2, PinTypes DEF PinInv
  <1>4. OneAtATime'
    BY <1>1, <1>2, <1>3 DEF PinInv, OneAtATime
  <1> QED
    BY <1>1, <1>2, <1>3, <1>4, LeaderKeeps, PinHandled

\* What is free for a client without a lease is nobody's pin.
LEMMA PinAllocate ==
    ASSUME Pins!DhcpAssumption, Pins!NoneIsNoRow, PinInv, Pins!TypeOK', NEW n \in PinNode,
           NEW m \in Mac, Pins!Allocate(n, m)
    PROVE  PinInv'
  <1>1. Leads(n) /\ discover[n][m] = 1 /\ table[n][m] = None /\ request[n][m] = None
    <2>1. discover[n][m] > 0 /\ discover[n][m] \in {0, 1}
      BY DEF Pins!Allocate, PinInv, OneAtATime
    <2>2. discover[n][m] = 1
      BY <2>1
    <2> QED
      BY <2>1, <2>2, PinBusy DEF PinInv, OneAtATime
  <1>2. /\ UNCHANGED <<now, leader, config, bucket, store, event, booting, serving>>
        /\ UNCHANGED <<request, sending, held>>
        /\ discover' = [discover EXCEPT ![n][m] = 0]
        /\ \/ UNCHANGED table
           \/ \E a \in Pins!Free(n) : table' = [table EXCEPT ![n][m] =
                                         [ip |-> a, exp |-> now + LeaseTime, static |-> FALSE]]
    BY <1>1 DEF Pins!Allocate, Pins!Offered, Pins!raft, Pins!client
  <1>3. /\ \A o \in PinNode : o # n => discover'[o] = discover[o]
        /\ \A o \in PinNode, k \in Mac :
               discover'[o][k] = IF o = n /\ k = m THEN 0 ELSE discover[o][k]
    BY <1>2, PinTypes DEF PinInv
  <1>4. CASE UNCHANGED table
    <2>1. OneAtATime'
      BY <1>2, <1>3, <1>4 DEF PinInv, OneAtATime
    <2> QED
      BY <1>1, <1>2, <1>3, <1>4, <2>1, LeaderKeeps, PinHandled
  <1>5. ASSUME NEW a \in Pins!Free(n), table' = [table EXCEPT ![n][m] =
                                         [ip |-> a, exp |-> now + LeaseTime, static |-> FALSE]]
        PROVE  PinInv'
    <2>1. /\ \A o \in PinNode : o # n => table'[o] = table[o]
          /\ \A k \in Mac : k # m => table'[n][k] = table[n][k]
          /\ table'[n][m].ip = a
      BY <1>5, PinTypes DEF PinInv
    <2>2. \A j \in Mac \ {m} : table[n][j] # None => table[n][j].ip # a
      BY DEF Pins!Free, Pins!Taken
    <2>3. Keeps(a, m) /\ PinOf(m) = None
      BY <1>1, <2>2, LeaderKeeps
    <2>4. OneAtATime'
      BY <1>1, <1>2, <1>3, <2>1 DEF PinInv, OneAtATime
    <2>5. \A k \in Mac : table'[n][k] # None => Keeps(table'[n][k].ip, k)
      BY <1>1, <2>1, <2>3, LeaderKeeps
    <2>6. \A k \in Mac : PinOf(k) # None => table'[n][k] # None
      BY <1>1, <2>1, <2>3, LeaderKeeps
    <2> QED
      BY <1>1, <1>2, <1>3, <2>1, <2>4, <2>5, <2>6, PinHandled
  <1> QED
    BY <1>2, <1>4, <1>5

\* A request keeps the lease it found.
LEMMA PinRequest ==
    ASSUME Pins!DhcpAssumption, Pinning, PinInv, Pins!TypeOK', NEW n \in PinNode,
           NEW m \in Mac, Pins!Request(n, m)
    PROVE  PinInv'
  <1>1. Leads(n) /\ discover[n][m] = 0
    BY PinReceived DEF Pins!Request
  <1>2. PICK a \in PinAddr \cup {None} :
            /\ request' = [request EXCEPT ![n][m] = [ip |-> a, found |-> table[n][m]]]
            /\ UNCHANGED <<now, leader, config, bucket, store, event, booting, serving>>
            /\ UNCHANGED <<table, discover, sending, held>>
    BY DEF Pins!Request, Pins!raft, Pins!client
  <1>3. /\ \A o \in PinNode : o # n => request'[o] = request[o]
        /\ \A o \in PinNode, k \in Mac :
               request'[o][k] = IF o = n /\ k = m THEN [ip |-> a, found |-> table[n][m]]
                                ELSE request[o][k]
    BY <1>2, PinTypes DEF PinInv
  <1>4. OneAtATime'
    BY <1>1, <1>2, <1>3 DEF PinInv, OneAtATime
  <1> QED
    BY <1>1, <1>2, <1>3, <1>4, LeaderKeeps, PinHandled

\* A request that is done with, and what it acknowledges.
LEMMA PinAcked ==
    ASSUME PinInv, Pins!TypeOK', NEW n \in PinNode, NEW m \in Mac, NEW a \in PinAddr,
           request[n][m] # None, Pins!Done(n, m), Keeps(a, m),
           \E delivered \in BOOLEAN : Pins!Acked(n, m, a, delivered),
           \A o \in PinNode : o # n => table'[o] = table[o],
           \A k \in Mac : k # m => table'[n][k] = table[n][k],
           table'[n][m] # None => Keeps(table'[n][m].ip, m),
           PinOf(m) # None => table'[n][m] # None,
           UNCHANGED <<now, leader, config, bucket, store, event, booting, serving, discover>>
    PROVE  PinInv'
  <1>1. Leads(n) /\ discover[n][m] = 0
    BY PinBusy DEF PinInv, OneAtATime
  <1>2. /\ \A o \in PinNode : o # n => request'[o] = request[o]
        /\ \A o \in PinNode, k \in Mac :
               request'[o][k] = IF o = n /\ k = m THEN None ELSE request[o][k]
    BY PinTypes DEF PinInv, Pins!Done
  <1>3. /\ \A o \in PinNode : o # n => sending'[o] = sending[o]
        /\ \A e \in sending'[n] : e \in sending[n] \/ Keeps(e.ip, e.mac)
        /\ \A k \in Mac : held'[k] = held[k] \/ Keeps(held'[k].ip, k)
    BY PinTypes DEF PinInv, Pins!Acked
  <1>4. OneAtATime'
    BY <1>1, <1>2 DEF PinInv, OneAtATime
  <1>5. \A k \in Mac : table'[n][k] # None => Keeps(table'[n][k].ip, k)
    BY <1>1, LeaderKeeps
  <1>6. \A k \in Mac : PinOf(k) # None => table'[n][k] # None
    BY <1>1, LeaderKeeps
  <1> QED
    BY <1>1, <1>2, <1>3, <1>4, <1>5, <1>6, PinHandled

\* The lease a request found is the one its client has.
LEMMA PinFound ==
    ASSUME PinInv, NEW n \in PinNode, NEW m \in Mac, request[n][m] # None,
           request[n][m].found # None
    PROVE  /\ table[n][m] = request[n][m].found /\ table[n][m] # None
           /\ request[n][m].found.ip \in PinAddr
           /\ Keeps(request[n][m].found.ip, m)
  <1>1. Leads(n) /\ table[n][m] = request[n][m].found
    BY PinBusy DEF PinInv, OneAtATime
  <1>2. table[n][m] \in Pins!Lease
    BY <1>1, PinTypes DEF PinInv
  <1> QED
    BY <1>1, <1>2, LeaderKeeps DEF Pins!Lease

\* A renewed lease is of the address it had.
LEMMA PinRenew ==
    ASSUME Pins!DhcpAssumption, Pins!NoneIsNoRow, PinInv, Pins!TypeOK', NEW n \in PinNode,
           NEW m \in Mac, Pins!Renew(n, m)
    PROVE  PinInv'
  <1>1. /\ request[n][m] # None /\ request[n][m].found # None
        /\ Pins!Done(n, m)
        /\ table' = IF table[n][m] = request[n][m].found
                    THEN [table EXCEPT ![n][m].exp = now + LeaseTime] ELSE table
        /\ \E delivered \in BOOLEAN : Pins!Acked(n, m, request[n][m].found.ip, delivered)
        /\ UNCHANGED <<now, leader, config, bucket, store, event, booting, serving, discover>>
    BY DEF Pins!Renew, Pins!raft
  <1>2. /\ table[n][m] = request[n][m].found /\ table[n][m] # None
        /\ request[n][m].found.ip \in PinAddr /\ Keeps(request[n][m].found.ip, m)
    BY <1>1, PinFound
  <1>3. table' = [table EXCEPT ![n][m] = [table[n][m] EXCEPT !.exp = now + LeaseTime]]
    BY <1>1, <1>2, PinTypes DEF PinInv
  <1>4. /\ \A o \in PinNode : o # n => table'[o] = table[o]
        /\ \A k \in Mac : k # m => table'[n][k] = table[n][k]
        /\ table'[n][m] = [table[n][m] EXCEPT !.exp = now + LeaseTime]
    BY <1>3, PinTypes DEF PinInv
  <1>5. table'[n][m].ip = request[n][m].found.ip /\ table'[n][m] # None
    <2>1. table[n][m] \in Pins!Lease
      BY <1>2, PinTypes DEF PinInv
    <2>2. table'[n][m].ip = request[n][m].found.ip /\ table'[n][m] \in Pins!Lease
      <3>1. now + LeaseTime \in Pins!Times
        BY PinNumbers, PinTypes DEF PinInv
      <3> QED
        BY <1>1, <1>2, <1>4, <2>1, <3>1 DEF Pins!Lease
    <2> QED
      BY <2>2 DEF Pins!NoneIsNoRow
  <1> QED
    BY <1>1, <1>2, <1>4, <1>5, PinAcked

\* A client's own address is acknowledged.
LEMMA PinAckOwn ==
    ASSUME Pins!DhcpAssumption, PinInv, Pins!TypeOK', NEW n \in PinNode, NEW m \in Mac,
           Pins!AckOwn(n, m)
    PROVE  PinInv'
  <1>1. /\ request[n][m] # None /\ request[n][m].found # None /\ Pins!Done(n, m)
        /\ \E delivered \in BOOLEAN : Pins!Acked(n, m, request[n][m].found.ip, delivered)
        /\ UNCHANGED <<now, leader, config, bucket, store, event, booting, serving, discover>>
        /\ UNCHANGED table
    BY DEF Pins!AckOwn, Pins!raft
  <1>2. /\ table[n][m] = request[n][m].found /\ table[n][m] # None
        /\ request[n][m].found.ip \in PinAddr /\ Keeps(request[n][m].found.ip, m)
    BY <1>1, PinFound
  <1> QED
    BY <1>1, <1>2, PinAcked

\* An address given on request is nobody's pin.
LEMMA PinReserveAt ==
    ASSUME Pins!DhcpAssumption, PinInv, Pins!TypeOK', NEW n \in PinNode, NEW m \in Mac,
           Pins!ReserveAt(n, m)
    PROVE  PinInv'
  <1>1. /\ request[n][m] # None /\ request[n][m].found = None /\ Pins!Done(n, m)
        /\ UNCHANGED <<now, leader, config, bucket, store, event, booting, serving, discover>>
    BY DEF Pins!ReserveAt, Pins!raft
  <1>2. Leads(n) /\ table[n][m] = None /\ discover[n][m] = 0
        /\ request[n][m].ip \in PinAddr \cup {None}
    <2>1. request[n][m] \in Pins!Requested
      BY <1>1, PinTypes DEF PinInv
    <2> QED
      BY <1>1, <2>1, PinBusy DEF PinInv, OneAtATime, Pins!Requested
  <1>3. PinOf(m) = None
    BY <1>2, LeaderKeeps
  <1>4. ASSUME request[n][m].ip # None, ~Pins!TakenByOther(n, m, request[n][m].ip),
               table' = [table EXCEPT ![n][m] = [ip |-> request[n][m].ip,
                                                 exp |-> now + LeaseTime, static |-> FALSE]],
               \E delivered \in BOOLEAN : Pins!Acked(n, m, request[n][m].ip, delivered)
        PROVE  PinInv'
    <2>1. Keeps(request[n][m].ip, m)
      BY <1>2, <1>4, LeaderKeeps DEF Pins!TakenByOther
    <2>2. /\ \A o \in PinNode : o # n => table'[o] = table[o]
          /\ \A k \in Mac : k # m => table'[n][k] = table[n][k]
          /\ table'[n][m].ip = request[n][m].ip
      BY <1>4, PinTypes DEF PinInv
    <2> QED
      BY <1>1, <1>2, <1>3, <1>4, <2>1, <2>2, PinAcked
  <1>5. CASE UNCHANGED <<table, sending, held>>
    <2>1. /\ \A o \in PinNode : o # n => request'[o] = request[o]
          /\ \A o \in PinNode, k \in Mac :
                 request'[o][k] = IF o = n /\ k = m THEN None ELSE request[o][k]
      BY <1>1, PinTypes DEF PinInv, Pins!Done
    <2>2. OneAtATime'
      BY <1>1, <1>2, <1>5, <2>1 DEF PinInv, OneAtATime
    <2> QED
      BY <1>1, <1>2, <1>5, <2>1, <2>2, LeaderKeeps, PinHandled
  <1> QED
    BY <1>4, <1>5 DEF Pins!ReserveAt

\* A client that has no pin gives its address back.
LEMMA PinRelease ==
    ASSUME Pins!DhcpAssumption, Pinning, PinInv, Pins!TypeOK', NEW n \in PinNode,
           NEW m \in Mac, Pins!Release(n, m)
    PROVE  PinInv'
  <1>1. Leads(n) /\ discover[n][m] = 0 /\ request[n][m] = None
    BY PinReceived DEF Pins!Release
  <1>2. /\ PinOf(m) = None
        /\ held' = [held EXCEPT ![m] = None]
        /\ table' = [table EXCEPT ![n][m] = None]
        /\ sending' = IF table[n][m] = None THEN sending
                      ELSE [sending EXCEPT ![n] =
                                @ \cup {[op |-> "del", ip |-> table[n][m].ip]}]
        /\ UNCHANGED <<now, leader, config, bucket, store, event, booting, serving>>
        /\ UNCHANGED <<discover, request>>
    BY DEF Pins!Release, Pinning, PinOf, Pins!raft
  <1>3. /\ \A o \in PinNode : o # n => table'[o] = table[o]
        /\ \A k \in Mac : k # m => table'[n][k] = table[n][k]
        /\ table'[n][m] = None
        /\ \A k \in Mac : held'[k] \in {held[k], None}
    BY <1>2, PinTypes DEF PinInv
  <1>4. /\ \A o \in PinNode : o # n => sending'[o] = sending[o]
        /\ \A e \in sending'[n] : e \in sending[n] \/ e.op = "del"
    BY <1>2, PinTypes DEF PinInv
  <1>5. OneAtATime'
    BY <1>1, <1>2, <1>3 DEF PinInv, OneAtATime
  <1>6. \A k \in Mac : table'[n][k] # None => Keeps(table'[n][k].ip, k)
    BY <1>1, <1>3, LeaderKeeps
  <1>7. \A k \in Mac : PinOf(k) # None => table'[n][k] # None
    BY <1>1, <1>2, <1>3, LeaderKeeps
  <1> QED
    BY <1>1, <1>2, <1>3, <1>4, <1>5, <1>6, <1>7, PinHandled

-----------------------------------------------------------------------------
(* Pins: replication, leadership and settings.                             *)

\* What is replicated keeps to the pins.
LEMMA PinPersist ==
    ASSUME PinInv, Pins!TypeOK', NEW n \in PinNode, Pins!Persist(n) PROVE PinInv'
  <1>1. PICK e \in sending[n] :
            /\ sending' = [sending EXCEPT ![n] = @ \ {e}]
            /\ leader = n => bucket' = Pins!After(bucket, e)
            /\ UNCHANGED <<now, leader, config, event, booting, serving, table>>
            /\ UNCHANGED <<discover, request, held>>
    BY DEF Pins!Persist, Pins!client
  <1>2. Leads(n)
    BY <1>1 DEF PinInv, OthersAreIdle
  <1>3. /\ \A o \in PinNode : Leads(o)' <=> Leads(o)
        /\ \A m \in Mac : PinOf(m)' = PinOf(m)
        /\ \A a, k : Keeps(a, k)' <=> Keeps(a, k)
    BY <1>1 DEF Leads, PinOf, Keeps
  <1>4. \A o \in PinNode : sending'[o] \subseteq sending[o]
    BY <1>1, PinTypes DEF PinInv
  <1>5. EventsAreOfLeader' /\ OneAtATime' /\ PinsDiffer'
    BY <1>1, <1>3 DEF PinInv, EventsAreOfLeader, OneAtATime, PinsDiffer
  <1>6. OthersAreIdle'
    BY <1>1, <1>2, <1>3, <1>4 DEF PinInv, OthersAreIdle
  <1>7. TablesKeepOff' /\ LeaderHasPins' /\ Pins!PinnedAddressIsOnes'
    BY <1>1, <1>3 DEF PinInv, TablesKeepOff, LeaderHasPins, Pins!PinnedAddressIsOnes, PinOf,
       Pins!Holds
  <1>8. RowsKeepOff'
    <2>1. bucket' = Pins!After(bucket, e) /\ bucket \in Pins!Rows /\ e \in Pins!Event
      BY <1>1, <1>2, PinTypes DEF PinInv, Leads
    <2>2. e.op = "put" => Keeps(e.ip, e.mac)
      BY DEF PinInv, RowsKeepOff
    <2>3. \A a \in PinAddr : bucket'[a] # None => Keeps(a, bucket'[a].mac)
      <3>1. CASE e.op = "put"
        <4>1. /\ bucket'[e.ip].mac = e.mac
              /\ \A a \in PinAddr : a # e.ip => bucket'[a] = bucket[a]
          BY <2>1, <3>1 DEF Pins!After, Pins!Rows, Pins!Event
        <4> QED
          BY <2>2, <3>1, <4>1 DEF PinInv, RowsKeepOff
      <3>2. CASE e.op # "put"
        <4>1. \A a \in PinAddr : bucket'[a] \in {bucket[a], None}
          BY <2>1, <3>2 DEF Pins!After, Pins!Rows
        <4> QED
          BY <4>1 DEF PinInv, RowsKeepOff
      <3> QED
        BY <3>1, <3>2
    <2> QED
      BY <1>3, <1>4, <2>3 DEF PinInv, RowsKeepOff
  <1> QED
    BY <1>5, <1>6, <1>7, <1>8 DEF PinInv

\* What is not replicated is given up.
LEMMA PinLost ==
    ASSUME PinInv, Pins!TypeOK', NEW n \in PinNode, Pins!PersistFails(n) PROVE PinInv'
  <1>1. /\ \A o \in PinNode : sending'[o] \subseteq sending[o]
        /\ UNCHANGED <<now, leader, config, bucket, store, event, booting, serving>>
        /\ UNCHANGED <<table, discover, request, held>>
    BY PinTypes DEF Pins!PersistFails, Pins!raft, Pins!client, PinInv
  <1>2. EventsAreOfLeader' /\ OthersAreIdle' /\ OneAtATime'
    BY <1>1 DEF PinInv, EventsAreOfLeader, OthersAreIdle, OneAtATime, Leads, Pins!Committed
  <1>3. PinsDiffer' /\ TablesKeepOff' /\ LeaderHasPins'
    BY <1>1 DEF PinInv, PinsDiffer, TablesKeepOff, LeaderHasPins, PinOf, Leads
  <1>4. RowsKeepOff' /\ Pins!PinnedAddressIsOnes'
    BY <1>1 DEF PinInv, RowsKeepOff, Keeps, PinOf, Pins!PinnedAddressIsOnes, Pins!Holds
  <1> QED
    BY <1>2, <1>3, <1>4 DEF PinInv

\* Steps of leadership and of what a node has applied: pins, tables and packets stay.
LEMMA PinMoved ==
    ASSUME PinInv, Pins!TypeOK', EventsAreOfLeader', OthersAreIdle',
           \A n \in PinNode : Leads(n)' => Leads(n),
           UNCHANGED <<now, config, bucket, table, discover, request, sending, held>>
    PROVE  PinInv'
  <1>1. OneAtATime' /\ PinsDiffer' /\ TablesKeepOff'
    BY DEF PinInv, OneAtATime, PinsDiffer, TablesKeepOff, PinOf
  <1>2. LeaderHasPins'
    BY DEF PinInv, LeaderHasPins, PinOf
  <1>3. RowsKeepOff' /\ Pins!PinnedAddressIsOnes'
    BY DEF PinInv, RowsKeepOff, Keeps, PinOf, Pins!PinnedAddressIsOnes, Pins!Holds
  <1> QED
    BY <1>1, <1>2, <1>3 DEF PinInv

\* A node applies what is committed.
LEMMA PinCatchUp ==
    ASSUME PinInv, Pins!TypeOK', NEW n \in PinNode, Pins!CatchUp(n) PROVE PinInv'
  <1>1. /\ store' = [store EXCEPT ![n] = Pins!Committed]
        /\ UNCHANGED <<now, leader, config, bucket, event, booting, serving, table>>
        /\ UNCHANGED <<discover, request, sending, held>>
    BY DEF Pins!CatchUp, Pins!server, Pins!client
  <1>2. /\ Pins!Committed' = Pins!Committed
        /\ \A o \in PinNode : store'[o] \in {store[o], Pins!Committed}
    BY <1>1, PinTypes DEF PinInv, Pins!Committed
  <1>3. EventsAreOfLeader' /\ OthersAreIdle'
    BY <1>1, <1>2 DEF PinInv, EventsAreOfLeader, OthersAreIdle, Leads
  <1> QED
    BY <1>1, <1>3, PinMoved DEF Leads

\* A node is elected while nobody serves.
LEMMA PinElect ==
    ASSUME Pins!DhcpAssumption, Pinning, PinInv, Pins!TypeOK', NEW n \in PinNode, Pins!Elect(n)
    PROVE  PinInv'
  <1>1. /\ leader = None /\ leader' = n /\ event' = [event EXCEPT ![n] = TRUE]
        /\ ~booting[n] /\ \A o \in PinNode : ~event[o] /\ ~serving[o]
        /\ UNCHANGED <<now, config, bucket, store, booting, serving, table>>
        /\ UNCHANGED <<discover, request, sending, held>>
    BY DEF Pins!Elect, Pins!client, Pinning
  <1>2. /\ \A o \in PinNode : ~Leads(o)
        /\ \A o \in PinNode : ~Leads(o)'
    BY <1>1, PinTypes DEF PinInv, Leads, Pins!DhcpAssumption
  <1>3. EventsAreOfLeader'
    BY <1>1, PinTypes DEF PinInv, EventsAreOfLeader
  <1>4. OthersAreIdle'
    BY <1>1, <1>2 DEF PinInv, OthersAreIdle, Pins!Committed
  <1> QED
    BY <1>1, <1>2, <1>3, <1>4, PinMoved

\* Nothing is handled or replicated, and the stores agree.
LEMMA PinCalm ==
    ASSUME Pins!Calm
    PROVE  \A n \in PinNode : /\ sending[n] = {} /\ store[n] = Pins!Committed /\ ~event[n]
                              /\ \A m \in Mac : discover[n][m] = 0 /\ request[n][m] = None
  BY DEF Pins!Calm, Pins!NoLeases

\* Leadership is lost when nothing is under way.
LEMMA PinLose ==
    ASSUME Pins!DhcpAssumption, Pinning, PinInv, Pins!TypeOK', Pins!LoseLeadership PROVE PinInv'
  <1>1. /\ leader # None /\ leader' = None /\ event' = [event EXCEPT ![leader] = TRUE]
        /\ Pins!Calm
        /\ UNCHANGED <<now, config, bucket, store, booting, serving, table>>
        /\ UNCHANGED <<discover, request, sending, held>>
    BY DEF Pins!LoseLeadership, Pins!client, Pinning
  <1>2. \A o \in PinNode : ~Leads(o)'
    BY <1>1 DEF Leads, Pins!DhcpAssumption
  <1>3. EventsAreOfLeader'
    BY <1>1, PinTypes DEF EventsAreOfLeader, PinInv, Pins!DhcpAssumption
  <1>4. OthersAreIdle'
    BY <1>1, PinCalm DEF OthersAreIdle, Pins!Committed
  <1> QED
    BY <1>1, <1>2, <1>3, <1>4, PinMoved

\* Static entries are put over a table, and rows over those.
LEMMA PinTables ==
    ASSUME Pins!DhcpAssumption, Pins!NoneIsNoRow, PinInv,
           NEW cfg \in Pins!Settings, NEW leases \in [Mac -> Pins!Lease \cup {None}],
           NEW rows \in Pins!Rows,
           \A m, k \in Mac : m # k /\ cfg.static[m] # None =>
               /\ cfg.static[m] # cfg.static[k]
               /\ leases[k] # None => leases[k].ip # cfg.static[m],
           \A a \in PinAddr : rows[a] # None =>
               \A m \in Mac : cfg.static[m] # None => (rows[a].mac = m <=> a = cfg.static[m])
    PROVE  \A t \in {Pins!Rebuilt(leases, cfg), Pins!Loaded(Pins!Rebuilt(leases, cfg), rows)} :
             \A m \in Mac : cfg.static[m] # None =>
               /\ t[m] # None /\ t[m].ip = cfg.static[m]
               /\ \A k \in Mac : k # m /\ t[k] # None => t[k].ip # cfg.static[m]
  <1> DEFINE built == Pins!Rebuilt(leases, cfg)
             mine(m) == {a \in PinAddr : /\ rows[a] # None /\ rows[a].mac = m
                                         /\ rows[a].exp >= now}
             last(m) == CHOOSE a \in mine(m) : \A b \in mine(m) : b <= a
             l == Pins!Loaded(built, rows)
  <1>n. None \notin Pins!Lease
    BY DEF Pins!NoneIsNoRow
  <1>t. built \in [Mac -> Pins!Lease \cup {None}] /\ l \in [Mac -> Pins!Lease \cup {None}]
    BY PinTypeTables
  <1>1. \A m \in Mac : cfg.static[m] # None => built[m] # None /\ built[m].ip = cfg.static[m]
    <2>1. \A m \in Mac : cfg.static[m] # None =>
              built[m] = [ip |-> cfg.static[m], exp |-> Pins!Never, static |-> TRUE]
      BY DEF Pins!Rebuilt
    <2>2. \A m \in Mac : cfg.static[m] # None =>
              [ip |-> cfg.static[m], exp |-> Pins!Never, static |-> TRUE] \in Pins!Lease
      BY PinNumbers DEF Pins!Settings, Pins!Lease
    <2> HIDE DEF built
    <2> SUFFICES ASSUME NEW m \in Mac, cfg.static[m] # None
                 PROVE  built[m] # None /\ built[m].ip = cfg.static[m]
      OBVIOUS
    <2>3. built[m] = [ip |-> cfg.static[m], exp |-> Pins!Never, static |-> TRUE]
      BY <2>1
    <2>4. built[m] \in Pins!Lease
      BY <2>2, <2>3
    <2>5. built[m].ip = cfg.static[m]
      BY <2>3
    <2>6. built[m] # None
      BY <1>n, <2>4
    <2> QED
      BY <2>5, <2>6
  <1>2. \A m, k \in Mac : m # k /\ cfg.static[m] # None /\ built[k] # None
                          => built[k].ip # cfg.static[m]
    <2>1. \A k \in Mac : built[k] # None =>
              built[k].ip = cfg.static[k] \/ (leases[k] # None /\ built[k] = leases[k])
      BY DEF Pins!Rebuilt
    <2> QED
      BY <2>1
  <1>3. ASSUME NEW k \in Mac
        PROVE  \/ l[k] = built[k]
               \/ l[k] # None /\ l[k].ip \in mine(k)
    <2>1. CASE mine(k) = {}
      BY <2>1 DEF Pins!Loaded
    <2>2. CASE mine(k) # {}
      <3>1. last(k) \in mine(k)
        <4>1. IsFiniteSet(PinAddr) /\ mine(k) \in SUBSET PinAddr /\ PinAddr \subseteq Nat
          BY PinAddresses
        <4>2. IsFiniteSet(mine(k)) /\ mine(k) \in SUBSET Nat
          BY <4>1, FS_Subset
        <4> HIDE DEF mine
        <4> QED
          BY <2>2, <4>2, LastIsThere
      <3>2. l[k] = [ip |-> last(k), exp |-> rows[last(k)].exp, static |-> FALSE]
        BY <2>2 DEF Pins!Loaded
      <3> HIDE DEF last, mine, l
      <3>3. last(k) \in PinAddr /\ rows[last(k)].exp \in Pins!Times
        BY <3>1 DEF mine, Pins!Rows, Pins!Persisted
      <3>4. l[k] \in Pins!Lease
        BY <3>2, <3>3 DEF Pins!Lease
      <3>5. l[k].ip = last(k)
        BY <3>2
      <3> QED
        BY <1>n, <3>1, <3>4, <3>5
    <2> QED
      BY <2>1, <2>2
  <1>4. \A k \in Mac : \A a \in mine(k) : \A m \in Mac :
            cfg.static[m] # None => (k = m <=> a = cfg.static[m])
    OBVIOUS
  <1> HIDE DEF built, l, mine
  <1>5. ASSUME NEW m \in Mac, cfg.static[m] # None
        PROVE  /\ l[m] # None /\ l[m].ip = cfg.static[m]
               /\ \A k \in Mac : k # m /\ l[k] # None => l[k].ip # cfg.static[m]
    BY <1>1, <1>2, <1>3, <1>4, <1>5
  <1> QED
    BY <1>1, <1>2, <1>5 DEF built, l

\* A node follows what became of its leadership: static entries, then rows.
LEMMA PinFollow ==
    ASSUME Pins!DhcpAssumption, Pins!NoneIsNoRow, PinInv, Pins!TypeOK', NEW n \in PinNode,
           Pins!FollowLeadership(n)
    PROVE  PinInv'
  <1> DEFINE built == Pins!Rebuilt(table[n], config)
             t == IF config.on /\ leader = n THEN Pins!Loaded(built, bucket) ELSE built
  <1>1. event[n] /\ leader \in {n, None} /\ \A o \in PinNode : ~Leads(o)
    <2>1. event[n]
      BY DEF Pins!FollowLeadership
    <2>2. EventsAreOfLeader
      BY DEF PinInv
    <2>3. leader \in {n, None}
      BY <2>1, <2>2 DEF EventsAreOfLeader
    <2> QED
      BY <2>1, <2>3 DEF Leads, Pins!DhcpAssumption
  <1>2. store[n].config = config /\ store[n].rows = bucket
    BY <1>1 DEF PinInv, OthersAreIdle, Pins!Committed
  <1>3. /\ event' = [event EXCEPT ![n] = FALSE]
        /\ table' = [table EXCEPT ![n] = t]
        /\ serving' = [serving EXCEPT ![n] = config.on /\ leader = n]
        /\ UNCHANGED <<now, leader, config, bucket, store, booting, discover, request>>
        /\ UNCHANGED <<sending, held>>
    BY <1>2 DEF Pins!FollowLeadership, Pins!raft, Pins!client
  <1>4. /\ \A m \in Mac : PinOf(m)' = PinOf(m)
        /\ \A a, k : Keeps(a, k)' <=> Keeps(a, k)
        /\ Pins!Committed' = Pins!Committed
        /\ \A o \in PinNode : Leads(o)' => o = n
    BY <1>1, <1>3 DEF PinOf, Keeps, Pins!Committed, Leads, Pins!DhcpAssumption
  <1>5. \A m \in Mac : PinOf(m) # None =>
            /\ t[m] # None /\ t[m].ip = PinOf(m)
            /\ \A k \in Mac : k # m /\ t[k] # None => t[k].ip # PinOf(m)
    <2>1. \A m, k \in Mac : m # k /\ config.static[m] # None =>
              /\ config.static[m] # config.static[k]
              /\ table[n][k] # None => table[n][k].ip # config.static[m]
      BY DEF PinInv, PinsDiffer, TablesKeepOff, PinOf
    <2>2. \A a \in PinAddr : bucket[a] # None => \A m \in Mac : config.static[m] # None =>
              (bucket[a].mac = m <=> a = config.static[m])
      BY DEF PinInv, RowsKeepOff, Keeps, PinOf
    <2>3. /\ config \in Pins!Settings
          /\ bucket \in Pins!Rows /\ table[n] \in [Mac -> Pins!Lease \cup {None}]
      BY PinTypes DEF PinInv
    <2>4. t \in {Pins!Rebuilt(table[n], config),
                 Pins!Loaded(Pins!Rebuilt(table[n], config), bucket)}
      OBVIOUS
    <2> HIDE DEF t
    <2> QED
      BY <2>1, <2>2, <2>3, <2>4, PinTables DEF PinOf
  <1> HIDE DEF t
  <1>6. table'[n] = t /\ \A o \in PinNode : o # n => table'[o] = table[o]
    BY <1>3, PinTypes DEF PinInv
  <1>7. EventsAreOfLeader'
    BY <1>1, <1>3, PinTypes DEF PinInv, EventsAreOfLeader, Leads
  <1>8. OthersAreIdle' /\ OneAtATime'
    <2>1. \A o \in PinNode, m \in Mac : discover'[o][m] = 0 /\ request'[o][m] = None
      BY <1>1, <1>3 DEF PinInv, OthersAreIdle
    <2> QED
      BY <1>1, <1>3, <1>4, <2>1 DEF PinInv, OthersAreIdle, OneAtATime
  <1>9. PinsDiffer' /\ TablesKeepOff' /\ LeaderHasPins'
    BY <1>4, <1>5, <1>6 DEF PinInv, PinsDiffer, TablesKeepOff, LeaderHasPins
  <1>10. RowsKeepOff' /\ Pins!PinnedAddressIsOnes'
    BY <1>3, <1>4 DEF PinInv, RowsKeepOff, Pins!PinnedAddressIsOnes, Pins!Holds
  <1> QED
    BY <1>7, <1>8, <1>9, <1>10 DEF PinInv

\* Settings change while nothing is handled; new pins are of what is unused.
LEMMA PinCommit ==
    ASSUME Pins!DhcpAssumption, Pins!NoneIsNoRow, Pinning, PinInv, Pins!TypeOK',
           NEW cfg \in Pins!Settings, Pins!Commit(cfg),
           \A m, k \in Mac : m # k /\ cfg.static[m] # None =>
               /\ cfg.static[m] # cfg.static[k]
               /\ \A n \in PinNode : table[n][k] # None => table[n][k].ip # cfg.static[m]
               /\ Pins!Holds(k) => held[k].ip # cfg.static[m],
           \A a \in PinAddr : bucket[a] # None => \A m \in Mac : cfg.static[m] # None =>
               (bucket[a].mac = m <=> a = cfg.static[m]),
           UNCHANGED <<now, leader, bucket, event, booting, discover, request, sending, held>>,
           \A n \in PinNode : n # leader => serving'[n] = serving[n]
    PROVE  PinInv'
  <1> DEFINE t == Pins!Rebuilt(table[leader], cfg)
  <1>1. /\ leader \in PinNode /\ Pins!Calm /\ config' = cfg
        /\ store' = [store EXCEPT ![leader] = [config |-> cfg, rows |-> bucket]]
        /\ table' = [table EXCEPT ![leader] = t]
    BY PinTypes DEF Pins!Commit, Pinning, PinInv
  <1>2. Leads(leader) /\ Leads(leader)' /\ \A n \in PinNode : Leads(n)' => n = leader
    BY <1>1, PinCalm DEF Leads
  <1>3. /\ table'[leader] = t /\ \A o \in PinNode : o # leader => table'[o] = table[o]
        /\ \A m \in Mac : PinOf(m)' = cfg.static[m]
    BY <1>1, PinTypes DEF PinInv, PinOf
  <1>4. \A m \in Mac : cfg.static[m] # None =>
            /\ t[m] # None /\ t[m].ip = cfg.static[m]
            /\ \A k \in Mac : k # m /\ t[k] # None => t[k].ip # cfg.static[m]
    <2>1. bucket \in Pins!Rows /\ table[leader] \in [Mac -> Pins!Lease \cup {None}]
      BY <1>1, PinTypes DEF PinInv
    <2>2. t \in {Pins!Rebuilt(table[leader], cfg),
                 Pins!Loaded(Pins!Rebuilt(table[leader], cfg), bucket)}
      OBVIOUS
    <2> HIDE DEF t
    <2> QED
      BY <1>1, <2>1, <2>2, PinTables
  <1> HIDE DEF t
  <1>5. EventsAreOfLeader'
    BY <1>1, <1>2, PinCalm DEF PinInv, EventsAreOfLeader, Leads
  <1>6. OthersAreIdle' /\ OneAtATime'
    BY <1>1, <1>2, PinCalm DEF OthersAreIdle, OneAtATime
  <1>7. PinsDiffer' /\ TablesKeepOff' /\ LeaderHasPins'
    BY <1>2, <1>3, <1>4 DEF PinsDiffer, TablesKeepOff, LeaderHasPins
  <1>8. RowsKeepOff'
    BY <1>1, <1>3, PinCalm DEF RowsKeepOff, Keeps
  <1>9. Pins!PinnedAddressIsOnes'
    BY <1>1 DEF Pins!PinnedAddressIsOnes, Pins!Holds
  <1> QED
    BY <1>5, <1>6, <1>7, <1>8, <1>9 DEF PinInv

\* Fewer pins, or the same, are kept by what keeps to the pins there are.
LEMMA PinFewer ==
    ASSUME Pins!DhcpAssumption, Pins!NoneIsNoRow, Pinning, PinInv, Pins!TypeOK',
           NEW cfg \in Pins!Settings, Pins!Commit(cfg),
           \A m \in Mac : cfg.static[m] \in {config.static[m], None},
           UNCHANGED <<now, leader, bucket, event, booting, discover, request, sending, held>>,
           \A n \in PinNode : n # leader => serving'[n] = serving[n]
    PROVE  PinInv'
  <1>1. \A m, k \in Mac : m # k /\ cfg.static[m] # None =>
            /\ cfg.static[m] # cfg.static[k]
            /\ \A n \in PinNode : table[n][k] # None => table[n][k].ip # cfg.static[m]
            /\ Pins!Holds(k) => held[k].ip # cfg.static[m]
    BY DEF PinInv, PinsDiffer, TablesKeepOff, Pins!PinnedAddressIsOnes, PinOf
  <1>2. \A a \in PinAddr : bucket[a] # None => \A m \in Mac : cfg.static[m] # None =>
            (bucket[a].mac = m <=> a = cfg.static[m])
    BY DEF PinInv, RowsKeepOff, Keeps, PinOf
  <1> QED
    BY <1>1, <1>2, PinCommit

\* Settings that change: the server switched, a pin added or taken away.
LEMMA PinSettings ==
    ASSUME Pins!DhcpAssumption, Pins!NoneIsNoRow, Pinning, PinInv, Pins!TypeOK',
           \/ Pins!Switch
           \/ \E m \in Mac : Pins!Unpin(m) \/ \E a \in PinAddr : Pins!Pin(m, a)
    PROVE  PinInv'
  <1>0. /\ config \in Pins!Settings /\ config.static \in [Mac -> PinAddr \cup {None}]
        /\ None \notin PinAddr
    BY PinTypes DEF PinInv, Pins!DhcpAssumption
  <1>1. CASE Pins!Switch
    <2> DEFINE off == ~config.on
               cfg == [config EXCEPT !.on = off]
    <2>1. /\ Pins!Commit(cfg) /\ serving' = [serving EXCEPT ![leader] = off]
          /\ UNCHANGED <<now, leader, bucket, event, booting, discover, request, sending, held>>
      BY <1>1 DEF Pins!Switch, Pins!client
    <2>2. off \in BOOLEAN
      OBVIOUS
    <2> HIDE DEF off
    <2>3. cfg \in Pins!Settings /\ \A m \in Mac : cfg.static[m] = config.static[m]
      BY <1>0, <2>2 DEF Pins!Settings
    <2>4. \A n \in PinNode : n # leader => serving'[n] = serving[n]
      BY <2>1, PinTypes DEF PinInv
    <2> HIDE DEF cfg
    <2> QED
      BY <2>1, <2>3, <2>4, PinFewer
  <1>2. ASSUME NEW m \in Mac, Pins!Unpin(m) PROVE PinInv'
    <2> DEFINE cfg == [config EXCEPT !.static[m] = None]
    <2>1. /\ Pins!Commit(cfg)
          /\ UNCHANGED <<now, leader, bucket, event, booting, discover, request>>
          /\ UNCHANGED <<sending, held, serving>>
      BY <1>2 DEF Pins!Unpin, Pins!client
    <2>2. cfg \in Pins!Settings /\ \A k \in Mac : cfg.static[k] \in {config.static[k], None}
      BY <1>0 DEF Pins!Settings
    <2> HIDE DEF cfg
    <2> QED
      BY <2>1, <2>2, PinFewer
  <1>3. ASSUME NEW m \in Mac, NEW a \in PinAddr, Pins!Pin(m, a) PROVE PinInv'
    <2> DEFINE cfg == [config EXCEPT !.static[m] = a]
    <2>1. /\ Pins!Commit(cfg) /\ Pins!Unused(m, a) /\ \A k \in Mac : config.static[k] # a
          /\ UNCHANGED <<now, leader, bucket, event, booting, discover, request>>
          /\ UNCHANGED <<sending, held, serving>>
      BY <1>3 DEF Pins!Pin, Pinning, Pins!client
    <2>2. /\ cfg \in Pins!Settings
          /\ \A k \in Mac : cfg.static[k] = IF k = m THEN a ELSE PinOf(k)
      BY <1>0 DEF Pins!Settings, PinOf
    <2>3. /\ \A n \in PinNode, k \in Mac : k # m /\ table[n][k] # None => table[n][k].ip # a
          /\ \A n \in PinNode : table[n][m] = None
          /\ ~Pins!Holds(m) /\ \A k \in Mac : Pins!Holds(k) => held[k].ip # a
          /\ \A b \in PinAddr : bucket[b] # None => b # a /\ bucket[b].mac # m
      BY <2>1 DEF Pins!Unused
    <2> HIDE DEF cfg
    <2>4. \A j, k \in Mac : j # k /\ cfg.static[j] # None =>
              /\ cfg.static[j] # cfg.static[k]
              /\ \A n \in PinNode : table[n][k] # None => table[n][k].ip # cfg.static[j]
              /\ Pins!Holds(k) => held[k].ip # cfg.static[j]
      BY <2>1, <2>2, <2>3 DEF PinInv, PinsDiffer, TablesKeepOff, Pins!PinnedAddressIsOnes, PinOf
    <2>5. \A b \in PinAddr : bucket[b] # None => \A j \in Mac : cfg.static[j] # None =>
              (bucket[b].mac = j <=> b = cfg.static[j])
      BY <2>2, <2>3 DEF PinInv, RowsKeepOff, Keeps
    <2> QED
      BY <2>1, <2>2, <2>4, <2>5, PinCommit
  <1> QED
    BY <1>1, <1>2, <1>3


\* A node comes back with nothing, when nothing is under way.
LEMMA PinRestart ==
    ASSUME Pins!DhcpAssumption, Pinning, PinInv, Pins!TypeOK', NEW n \in PinNode, Pins!Restart(n)
    PROVE  PinInv'
  <1>1. /\ Pins!Calm
        /\ leader' = IF leader = n THEN None ELSE leader
        /\ event' = [event EXCEPT ![n] = FALSE]
        /\ booting' = [booting EXCEPT ![n] = TRUE]
        /\ serving' = [serving EXCEPT ![n] = FALSE]
        /\ table' = [table EXCEPT ![n] = Pins!NoLeases]
        /\ discover' = [discover EXCEPT ![n] = [m \in Mac |-> 0]]
        /\ request' = [request EXCEPT ![n] = Pins!NoLeases]
        /\ sending' = [sending EXCEPT ![n] = {}]
        /\ UNCHANGED <<now, config, bucket, store, held>>
    BY DEF Pins!Restart, Pinning, Pins!client
  <1>2. /\ \A o \in PinNode : event'[o] = FALSE /\ (serving'[o] => o # n /\ serving[o])
        /\ \A o \in PinNode, m \in Mac : table'[o][m] # None => o # n /\ table'[o] = table[o]
        /\ \A o \in PinNode : o # n => table'[o] = table[o]
    BY <1>1, PinCalm, PinTypes DEF PinInv, Pins!NoLeases
  <1>3. /\ \A o \in PinNode, m \in Mac : discover'[o][m] = 0 /\ request'[o][m] = None
        /\ \A o \in PinNode : sending'[o] = {} /\ store'[o] = Pins!Committed
    BY <1>1, PinCalm, PinTypes DEF PinInv, Pins!NoLeases
  <1>4. /\ Pins!Committed' = Pins!Committed
        /\ \A m \in Mac : PinOf(m)' = PinOf(m)
        /\ \A a, k : Keeps(a, k)' <=> Keeps(a, k)
    BY <1>1 DEF Pins!Committed, PinOf, Keeps
  <1>5. \A o \in PinNode : Leads(o)' => o # n /\ Leads(o)
    BY <1>1, PinCalm DEF Leads, Pins!DhcpAssumption
  <1>6. EventsAreOfLeader'
    <2>1. \A o \in PinNode : serving[o] /\ o # n => leader' = None \/ (leader' = o /\ ~event'[o])
      BY <1>1, <1>2 DEF PinInv, EventsAreOfLeader, Leads
    <2>2. \A o \in PinNode : booting'[o] => leader' # o
      BY <1>1, PinTypes DEF PinInv, EventsAreOfLeader, Pins!DhcpAssumption
    <2> QED
      BY <1>2, <2>1, <2>2 DEF EventsAreOfLeader, Leads
  <1>7. OthersAreIdle' /\ OneAtATime'
    BY <1>3, <1>4 DEF OthersAreIdle, OneAtATime
  <1>8. PinsDiffer' /\ TablesKeepOff' /\ LeaderHasPins'
    BY <1>2, <1>4, <1>5 DEF PinInv, PinsDiffer, TablesKeepOff, LeaderHasPins
  <1>9. RowsKeepOff' /\ Pins!PinnedAddressIsOnes'
    BY <1>1, <1>3, <1>4 DEF PinInv, RowsKeepOff, Pins!PinnedAddressIsOnes, Pins!Holds
  <1> QED
    BY <1>6, <1>7, <1>8, <1>9 DEF PinInv

\* Its server is built before it can lead again, and is not started.
LEMMA PinBoot ==
    ASSUME PinInv, Pins!TypeOK', NEW n \in PinNode, Pins!BootServer(n) PROVE PinInv'
  <1>1. booting[n] /\ leader # n
    BY DEF Pins!BootServer, PinInv, EventsAreOfLeader
  <1>2. /\ booting' = [booting EXCEPT ![n] = FALSE]
        /\ serving' = [serving EXCEPT ![n] = FALSE]
        /\ UNCHANGED <<now, leader, config, bucket, store, event, table>>
        /\ UNCHANGED <<discover, request, sending, held>>
    BY <1>1 DEF Pins!BootServer, Pins!raft, Pins!client
  <1>3. \A o \in PinNode : /\ booting'[o] => booting[o]
                           /\ serving'[o] => serving[o]
                           /\ Leads(o)' <=> Leads(o)
    BY <1>2, PinTypes DEF PinInv, Leads
  <1>4. EventsAreOfLeader' /\ OthersAreIdle'
    BY <1>2, <1>3 DEF PinInv, EventsAreOfLeader, OthersAreIdle, Pins!Committed
  <1> QED
    BY <1>2, <1>3, <1>4, PinMoved

\* One step per action.
LEMMA PinNext ==
    ASSUME Pins!DhcpAssumption, Pins!NoneIsNoRow, Pinning, PinInv, [Pins!Next]_Pins!vars
    PROVE  PinInv'
  <1>1. Pins!TypeOK /\ Pins!TypeOK'
    BY PinTypeNext DEF PinInv
  <1>2. CASE UNCHANGED Pins!vars
    <2>1. /\ UNCHANGED <<now, leader, config, bucket, store, event, booting, serving, table>>
          /\ UNCHANGED <<discover, request, sending, held>>
      BY <1>2 DEF Pins!vars, Pins!raft, Pins!server, Pins!client
    <2>2. EventsAreOfLeader' /\ OthersAreIdle' /\ \A n \in PinNode : Leads(n)' <=> Leads(n)
      BY <2>1 DEF PinInv, EventsAreOfLeader, OthersAreIdle, Leads, Pins!Committed
    <2> QED
      BY <1>1, <2>1, <2>2, PinMoved
  <1>3. CASE Pins!Tick \/ Pins!LoseLeadership
    BY <1>1, <1>3, PinTick, PinLose
  <1>4. CASE Pins!Switch \/ \E m \in Mac : Pins!Unpin(m) \/ \E a \in PinAddr : Pins!Pin(m, a)
    BY <1>1, <1>4, PinSettings
  <1>5. ASSUME NEW n \in PinNode,
               \/ Pins!Persist(n) \/ Pins!PersistFails(n) \/ Pins!CatchUp(n)
               \/ Pins!Elect(n) \/ Pins!FollowLeadership(n) \/ Pins!Restart(n)
               \/ Pins!BootServer(n)
        PROVE  PinInv'
    BY <1>1, <1>5, PinPersist, PinLost, PinCatchUp, PinElect, PinFollow, PinRestart, PinBoot
  <1>6. ASSUME NEW n \in PinNode, NEW m \in Mac,
               \/ Pins!Discover(n, m) \/ Pins!Allocate(n, m) \/ Pins!Request(n, m)
               \/ Pins!Renew(n, m) \/ Pins!AckOwn(n, m) \/ Pins!ReserveAt(n, m) \/ Pins!Release(n, m)
        PROVE  PinInv'
    BY <1>1, <1>6, PinDiscover, PinAllocate, PinRequest, PinRenew, PinAckOwn, PinReserveAt,
       PinRelease
  <1> QED
    BY <1>2, <1>3, <1>4, <1>5, <1>6 DEF Pins!Next

\* An offer to a pinned client is of its pin: the lease the leader has for it, and
\* nothing is allocated for it.
LEMMA PinOffered ==
    ASSUME Pins!DhcpAssumption, Pins!NoneIsNoRow, Pinning, PinInv, [Pins!Next]_Pins!vars
    PROVE  \A m \in Mac : offer'[m] \notin {offer[m], None} /\ config.static[m] # None
                           => offer'[m] = config.static[m]
  <1> SUFFICES ASSUME NEW m \in Mac, offer'[m] \notin {offer[m], None},
                      config.static[m] # None
               PROVE  offer'[m] = config.static[m]
    OBVIOUS
  <1>1. ASSUME NEW k \in Mac, NEW a, NEW delivered \in BOOLEAN, Pins!Offered(k, a, delivered)
        PROVE  k = m /\ offer'[m] = a
    BY <1>1 DEF Pins!Offered, PinInv, Pins!TypeOK
  <1>2. ASSUME NEW n \in PinNode, NEW k \in Mac, Pins!Discover(n, k)
        PROVE  offer'[m] = config.static[m]
    <2>1. PICK delivered \in BOOLEAN : Pins!Offered(k, table[n][k].ip, delivered)
      BY <1>2 DEF Pins!Discover, Pins!client
    <2>2. k = m /\ offer'[m] = table[n][k].ip
      BY <1>1, <2>1
    <2>3. Leads(n)
      BY <1>2, PinReceived DEF Pins!Discover
    <2> QED
      BY <2>2, <2>3 DEF PinInv, LeaderHasPins, PinOf
  <1>3. ASSUME NEW n \in PinNode, NEW k \in Mac, Pins!Allocate(n, k)
        PROVE  FALSE
    <2>1. discover[n][k] > 0 /\ discover[n][k] \in {0, 1}
      BY <1>3 DEF Pins!Allocate, PinInv, OneAtATime
    <2>2. discover[n][k] = 1
      BY <2>1
    <2>3. Leads(n) /\ table[n][k] = None
      BY <2>1, <2>2, PinBusy DEF PinInv, OneAtATime
    <2>4. k # m
      BY <2>3 DEF PinInv, LeaderHasPins, PinOf
    <2>5. CASE \E delivered \in BOOLEAN : Pins!Offered(k, table[n][k].ip, delivered)
      BY <1>1, <2>4, <2>5
    <2>6. CASE \E a \in Pins!Free(n), delivered \in BOOLEAN : Pins!Offered(k, a, delivered)
      BY <1>1, <2>4, <2>6
    <2>7. CASE UNCHANGED Pins!client
      BY <2>7 DEF Pins!client
    <2> QED
      BY <1>3, <2>5, <2>6, <2>7 DEF Pins!Allocate
  <1>4. ASSUME NEW n \in PinNode, NEW k \in Mac, Pins!Release(n, k)
        PROVE  FALSE
    BY <1>4 DEF Pins!Release, PinInv, Pins!TypeOK
  <1>5. ASSUME NEW n \in PinNode, NEW k \in Mac,
               Pins!Request(n, k) \/ Pins!Renew(n, k) \/ Pins!AckOwn(n, k) \/ Pins!ReserveAt(n, k)
        PROVE  FALSE
    BY <1>5 DEF Pins!Request, Pins!Renew, Pins!AckOwn, Pins!ReserveAt, Pins!client
  <1>6. ASSUME NEW n \in PinNode, \/ Pins!Persist(n) \/ Pins!PersistFails(n)
                                  \/ Pins!CatchUp(n) \/ Pins!Elect(n)
                                  \/ Pins!FollowLeadership(n) \/ Pins!Restart(n)
                                  \/ Pins!BootServer(n)
        PROVE  FALSE
    BY <1>6 DEF Pins!Persist, Pins!PersistFails, Pins!CatchUp, Pins!Elect,
       Pins!FollowLeadership, Pins!Restart, Pins!BootServer, Pins!client
  <1>7. CASE \/ Pins!Tick \/ Pins!LoseLeadership \/ Pins!Switch \/ UNCHANGED Pins!vars
             \/ \E k \in Mac : Pins!Unpin(k) \/ \E a \in PinAddr : Pins!Pin(k, a)
    BY <1>7 DEF Pins!Tick, Pins!LoseLeadership, Pins!Switch, Pins!Unpin, Pins!Pin,
       Pins!client, Pins!vars
  <1> QED
    BY <1>2, <1>3, <1>4, <1>5, <1>6, <1>7 DEF Pins!Next

-----------------------------------------------------------------------------
(* Both scenes.                                                            *)

\* Each scene keeps to its types, whatever the bounds and the scheduling switches.
THEOREM ScenesTyped == ScenesSpec => []ScenesTypeOK
  <1>1. ScenesInit => ScenesTypeOK
    BY TypeInit, PinTypeInit, DhcpAssumption, PinsAssumption DEF ScenesInit, ScenesTypeOK
  <1>2. ScenesTypeOK /\ [ScenesNext]_<<vars, scene>> => ScenesTypeOK'
    <2> SUFFICES ASSUME ScenesTypeOK, [ScenesNext]_<<vars, scene>> PROVE ScenesTypeOK'
      OBVIOUS
    <2>1. scene' = scene /\ (scene = "handover" => [Next]_vars)
      BY DEF ScenesNext, ScenesInit
    <2>2. scene # "handover" => [Pins!Next]_Pins!vars
      BY PinStep
    <2> QED
      BY <2>1, <2>2, TypeNext, PinTypeNext, DhcpAssumption, PinsAssumption DEF ScenesTypeOK
  <1> QED
    BY <1>1, <1>2, PTL DEF ScenesSpec

\* The scene of the pins keeps to its invariant, whatever the other one does.
LEMMA PinScene ==
    ASSUME Pinning
    PROVE  /\ ScenesInit => (scene = "pinned" => PinInv)
           /\ (scene = "pinned" => PinInv) /\ [ScenesNext]_<<vars, scene>>
              => (scene' = "pinned" => PinInv')
  <1>1. ScenesInit => (scene = "pinned" => PinInv)
    BY PinInit, PinsAssumption DEF ScenesInit
  <1>2. ASSUME scene = "pinned" => PinInv, [ScenesNext]_<<vars, scene>>, scene' = "pinned"
        PROVE  PinInv'
    <2>1. scene = "pinned" /\ [Pins!Next]_Pins!vars
      BY <1>2, PinStep DEF ScenesNext
    <2> QED
      BY <1>2, <2>1, PinNext, PinsAssumption
  <1> QED
    BY <1>1, <1>2

\* A pin of what is unused holds through settings that change, renewals, and a
\* leadership that is lost and regained (UpdateConfig, LoadLeases): the address is its
\* client's alone, whatever the number of nodes, clients and addresses.
THEOREM PinsHold ==
    ASSUME Pinning PROVE ScenesSpec => []PinHolds
  <1> DEFINE Inv == scene = "pinned" => PinInv
  <1>1. ScenesInit => Inv
    BY PinScene
  <1>2. Inv /\ [ScenesNext]_<<vars, scene>> => Inv'
    BY PinScene
  <1>3. Inv => PinHolds
    BY DEF PinInv, PinHolds
  <1> QED
    BY <1>1, <1>2, <1>3, PTL DEF ScenesSpec

\* And what a pinned client is offered is its pin (handleDiscover, allocate).
THEOREM PinsAreOffered ==
    ASSUME Pinning PROVE ScenesSpec => PinIsOffered
  <1> DEFINE Inv == scene = "pinned" => PinInv
             Offers == \A m \in Mac : offer'[m] \notin {offer[m], None} /\ config.static[m] # None
                                      => offer'[m] = config.static[m]
  <1>1. ScenesInit => Inv
    BY PinScene
  <1>2. Inv /\ [ScenesNext]_<<vars, scene>> => Inv'
    BY PinScene
  <1>3. Inv /\ [ScenesNext]_<<vars, scene>> => [scene = "pinned" => Offers]_<<vars, scene>>
    <2> SUFFICES ASSUME Inv, [ScenesNext]_<<vars, scene>>, scene = "pinned" PROVE Offers
      OBVIOUS
    <2>1. [Pins!Next]_Pins!vars
      BY PinStep
    <2> QED
      BY <2>1, PinOffered, PinsAssumption
  <1> QED
    BY <1>1, <1>2, <1>3, PTL DEF ScenesSpec, PinIsOffered

=============================================================================
