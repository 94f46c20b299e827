----------------------------- MODULE DhcpServer -----------------------------
(***************************************************************************)
(* The built-in DHCPv4 server.  Every node has one, with a lease table in  *)
(* memory; only the leader's listens.  Each acknowledged lease is          *)
(* committed to the replicated bucket dhcp_server_leases by a goroutine of *)
(* its own, and a node that is elected loads that bucket into its table.   *)
(* A packet is handled in a goroutine, and its handler reads the client's  *)
(* lease in one critical section and acts on it in the next.               *)
(*                                                                         *)
(* Clients are modelled too: what counts in the end is which of them       *)
(* believe to hold an address.  A client requests what it was offered or   *)
(* what it holds or names no address, has one REQUEST at a time handled by *)
(* a server, stops using an address when its lease runs out, and every     *)
(* reply to it may be lost.                                                *)
(***************************************************************************)
EXTENDS Integers, FiniteSets

CONSTANTS Node, Mac,
          Addr,        \* the addresses, in order
          Pool,        \* those between pool_start and pool_end
          LeaseTime,
          MaxTime,     \* bound on time
          MaxLoss,     \* bound on lost leaderships
          MaxCrash,    \* bound on process restarts
          MaxAdmin,    \* bound on changes of settings and static assignments
          MaxLate,     \* bound on one client's DISCOVERs being handled at a time
          Quiet,       \* leadership moves only while nothing else is going on,
                       \* and to a process that has come up
          Settled,     \* a client's packet comes when its last one is handled and
                       \* all lease events are replicated; settings change when
                       \* nothing is being handled
          ReleaseAlone, \* a RELEASE comes when no REQUEST is being handled
          PinFree,     \* only addresses and clients without a lease are pinned
          PinReleased, \* pinned clients release their address
          Commits,     \* a leader's commit of a lease event succeeds
          None

ASSUME DhcpAssumption ==
    /\ Addr \subseteq Nat /\ IsFiniteSet(Addr) /\ Pool \subseteq Addr
    /\ None \notin Node \cup Addr \cup Mac
    /\ LeaseTime \in Nat \ {0}
    /\ {MaxTime, MaxLoss, MaxCrash, MaxAdmin, MaxLate} \subseteq Nat
    /\ {Quiet, Settled, ReleaseAlone, PinFree, PinReleased, Commits} \subseteq BOOLEAN

VARIABLES
    now,
    leader,   \* the leader, or None
    event,    \* event[n]: its leadership goroutine has a change to handle
    booting,  \* booting[n]: its process has come back and not built its server yet
    config,   \* the committed settings: static assignments, enabled
    bucket,   \* the committed lease rows, by address
    store,    \* store[n]: config and bucket as far as node n has applied them
    serving,  \* serving[n]: its server listens
    table,    \* table[n]: its server's leases, by client
    discover, \* discover[n]: DISCOVERs whose handler found no lease, by client
    request,  \* request[n]: the REQUEST being handled, by client
    sending,  \* sending[n]: its goroutines that replicate a lease event
    offer,    \* offer[m]: the address last offered to client m
    held,     \* held[m]: the lease client m was last acknowledged
    used      \* how much of each bound is used

server == <<event, booting, serving, table, discover, request, sending>>
raft == <<leader, config, bucket, store>>
client == <<offer, held>>
vars == <<now, raft, server, client, used>>

Never == MaxTime + LeaseTime + 1
Times == 0..Never

Lease == [ip : Addr, exp : Times, static : BOOLEAN]
Persisted == [mac : Mac, exp : Times]
Rows == [Addr -> Persisted \cup {None}]
Held == [ip : Addr, exp : Times]
Requested == [ip : Addr \cup {None}, found : Lease \cup {None}]
Settings == [static : [Mac -> Addr \cup {None}], on : BOOLEAN]
Event == [op : {"put"}, ip : Addr, mac : Mac, exp : Times]
    \cup [op : {"del"}, ip : Addr]

\* None is neither a lease nor a row nor a request.
ASSUME NoneIsNoRow == None \notin Lease \cup Persisted \cup Held \cup Requested

Pinned(l) == l # None /\ l.static

NoLeases == [m \in Mac |-> None]
Nothing == [n \in Node |-> NoLeases]
Committed == [config |-> config, rows |-> bucket]

TypeOK ==
    /\ now \in 0..MaxTime
    /\ leader \in Node \cup {None}
    /\ event \in [Node -> BOOLEAN] /\ booting \in [Node -> BOOLEAN]
    /\ serving \in [Node -> BOOLEAN]
    /\ config \in Settings
    /\ bucket \in Rows
    /\ store \in [Node -> [config : Settings, rows : Rows]]
    /\ table \in [Node -> [Mac -> Lease \cup {None}]]
    /\ discover \in [Node -> [Mac -> 0..MaxLate]]
    /\ request \in [Node -> [Mac -> Requested \cup {None}]]
    /\ sending \in [Node -> SUBSET Event]
    /\ offer \in [Mac -> Addr \cup {None}]
    /\ held \in [Mac -> Held \cup {None}]
    /\ used \in [loss : 0..MaxLoss, crash : 0..MaxCrash, admin : 0..MaxAdmin]

Init ==
    /\ now = 0
    /\ leader = None
    /\ event = [n \in Node |-> FALSE] /\ booting = [n \in Node |-> FALSE]
    /\ config = [static |-> NoLeases, on |-> TRUE]
    /\ bucket = [a \in Addr |-> None]
    /\ store = [n \in Node |-> Committed]
    /\ serving = [n \in Node |-> FALSE]
    /\ table = Nothing /\ request = Nothing
    /\ discover = [n \in Node |-> [m \in Mac |-> 0]]
    /\ sending = [n \in Node |-> {}]
    /\ offer = NoLeases /\ held = NoLeases
    /\ used = [loss |-> 0, crash |-> 0, admin |-> 0]

Holds(m) == held[m] # None /\ held[m].exp > now

Tick ==
    /\ now < MaxTime
    /\ now' = now + 1
    /\ UNCHANGED <<raft, server, client, used>>

\* Nothing is being handled, replicated or applied.
Calm == \A n \in Node : /\ sending[n] = {} /\ request[n] = NoLeases
                       /\ store[n] = Committed /\ ~event[n]
                       /\ \A m \in Mac : discover[n][m] = 0

-----------------------------------------------------------------------------
(* What a client sees.                                                     *)

Offered(m, a, delivered) ==
    /\ offer' = IF delivered THEN [offer EXCEPT ![m] = a] ELSE offer
    /\ UNCHANGED held

\* sendAck: the reply goes out, then the goroutine is started.
Acked(n, m, a, delivered) ==
    LET exp == now + LeaseTime
    IN  /\ held' = IF delivered THEN [held EXCEPT ![m] = [ip |-> a, exp |-> exp]]
                   ELSE held
        /\ sending' = [sending EXCEPT ![n] =
               @ \cup {[op |-> "put", ip |-> a, mac |-> m, exp |-> exp]}]

-----------------------------------------------------------------------------
(* The packet handlers.                                                    *)

\* The server takes a packet off the socket.
Receives(n, m) ==
    /\ serving[n]
    /\ Quiet => leader = n
    /\ Settled => \A o \in Node : /\ sending[o] = {}
                                  /\ discover[o][m] = 0 /\ request[o][m] = None

\* handleDiscover: a client with a lease is offered it again.
Discover(n, m) ==
    /\ Receives(n, m)
    /\ \/ /\ table[n][m] # None
          /\ \E delivered \in BOOLEAN : Offered(m, table[n][m].ip, delivered)
          /\ UNCHANGED discover
       \/ /\ table[n][m] = None /\ discover[n][m] < MaxLate
          /\ discover' = [discover EXCEPT ![n][m] = @ + 1]
          /\ UNCHANGED client
    /\ UNCHANGED <<now, raft, event, booting, serving, table, request, sending, used>>

\* Mutant: the scan of the table looks at leases from the pool only.
TakenByPool(n) ==
    {table[n][k].ip : k \in {j \in Mac : table[n][j] # None /\ ~table[n][j].static}}

Taken(n) == {table[n][k].ip : k \in {j \in Mac : table[n][j] # None}}

\* Mutant: the scan of the pool goes one past its end.
FreeBeyond(n) == (Pool \cup {a + 1 : a \in Pool}) \ Taken(n)

Free(n) == Pool \ Taken(n)

\* allocate: the pinned address, else the first of the pool no lease has.
Allocate(n, m) ==
    LET l == table[n][m]
    IN  /\ discover[n][m] > 0
        /\ discover' = [discover EXCEPT ![n][m] = @ - 1]
        /\ \/ /\ Pinned(l)
              /\ \E delivered \in BOOLEAN : Offered(m, l.ip, delivered)
              /\ UNCHANGED table
           \/ /\ ~Pinned(l)
              /\ \E a \in Free(n), delivered \in BOOLEAN :
                    /\ \A b \in Free(n) : a <= b
                    /\ table' = [table EXCEPT ![n][m] =
                           [ip |-> a, exp |-> now + LeaseTime, static |-> FALSE]]
                    /\ Offered(m, a, delivered)
           \/ /\ ~Pinned(l)
              /\ Free(n) = {}
              /\ UNCHANGED <<table, client>>
        /\ UNCHANGED <<now, raft, event, booting, serving, request, sending, used>>

\* handleRequest, up to the end of its first critical section.
Request(n, m) ==
    /\ Receives(n, m)
    /\ request[n][m] = None
    /\ \E a \in Addr \cup {None} :
          /\ a \in {None, offer[m]} \/ (Holds(m) /\ a = held[m].ip)
          /\ request' = [request EXCEPT ![n][m] = [ip |-> a, found |-> table[n][m]]]
    /\ UNCHANGED <<now, raft, event, booting, serving, table, discover, sending, client,
                   used>>

Done(n, m) == request' = [request EXCEPT ![n][m] = None]

\* The lease found is written through a pointer, in the table or not any more.
Renew(n, m) ==
    LET r == request[n][m]
    IN  /\ r # None /\ r.found # None /\ r.ip \in {None, r.found.ip}
        /\ table' = IF table[n][m] = r.found
                    THEN [table EXCEPT ![n][m].exp = now + LeaseTime] ELSE table
        /\ \E delivered \in BOOLEAN : Acked(n, m, r.found.ip, delivered)
        /\ Done(n, m)
        /\ UNCHANGED <<now, raft, event, booting, serving, discover, offer, used>>

\* Another address than the client's own is asked for: its own is acknowledged.
AckOwn(n, m) ==
    LET r == request[n][m]
    IN  /\ r # None /\ r.found # None /\ r.ip \notin {None, r.found.ip}
        /\ \E delivered \in BOOLEAN : Acked(n, m, r.found.ip, delivered)
        /\ Done(n, m)
        /\ UNCHANGED <<now, raft, event, booting, serving, table, discover, offer, used>>

\* Mutant: nobody else is looked at.
TakenByNobody(n, m, a) == FALSE

TakenByOther(n, m, a) == \E k \in Mac \ {m} : table[n][k] # None /\ table[n][k].ip = a

\* A client without a lease gets the address it asks for, or a refusal.
ReserveAt(n, m) ==
    LET r == request[n][m]
    IN  /\ r # None /\ r.found = None
        /\ Done(n, m)
        /\ \/ /\ r.ip # None /\ ~TakenByOther(n, m, r.ip)
              /\ table' = [table EXCEPT ![n][m] =
                     [ip |-> r.ip, exp |-> now + LeaseTime, static |-> FALSE]]
              /\ \E delivered \in BOOLEAN : Acked(n, m, r.ip, delivered)
           \/ /\ r.ip = None \/ TakenByOther(n, m, r.ip)
              /\ UNCHANGED <<table, sending, held>>
        /\ UNCHANGED <<now, raft, event, booting, serving, discover, offer, used>>

\* handleRelease, sent by a client that is done with its address.
Release(n, m) ==
    /\ Receives(n, m) /\ Holds(m)
    /\ ReleaseAlone => \A o \in Node : request[o] = NoLeases
    /\ config.static[m] # None => PinReleased
    /\ \A o \in Node : request[o][m] = None
    /\ held' = [held EXCEPT ![m] = None]
    /\ offer' = [offer EXCEPT ![m] = None]
    /\ table' = [table EXCEPT ![n][m] = None]
    /\ sending' = IF table[n][m] = None THEN sending
                  ELSE [sending EXCEPT ![n] =
                            @ \cup {[op |-> "del", ip |-> table[n][m].ip]}]
    /\ UNCHANGED <<now, raft, event, booting, serving, discover, request, used>>

-----------------------------------------------------------------------------
(* Replication of lease events: goroutines, in any order.                  *)

After(rows, e) ==
    IF e.op = "put" THEN [rows EXCEPT ![e.ip] = [mac |-> e.mac, exp |-> e.exp]]
    ELSE [rows EXCEPT ![e.ip] = None]

Persist(n) ==
    \E e \in sending[n] :
        /\ sending' = [sending EXCEPT ![n] = @ \ {e}]
        /\ IF leader = n
           THEN /\ bucket' = After(bucket, e)
                /\ store' = [store EXCEPT ![n] = [config |-> config, rows |-> bucket']]
           ELSE UNCHANGED <<bucket, store>>
        /\ UNCHANGED <<now, leader, config, event, booting, serving, table, discover,
                       request, client, used>>

\* An error is logged, and the event is lost.
PersistFails(n) ==
    /\ ~Commits /\ leader = n
    /\ \E e \in sending[n] : sending' = [sending EXCEPT ![n] = @ \ {e}]
    /\ UNCHANGED <<now, raft, event, booting, serving, table, discover, request, client,
                   used>>

CatchUp(n) ==
    /\ store[n] # Committed
    /\ store' = [store EXCEPT ![n] = Committed]
    /\ UNCHANGED <<now, leader, config, bucket, server, client, used>>

-----------------------------------------------------------------------------
(* Settings and static assignments, on the leader.                         *)

\* Mutant: static entries are dropped from the table and not put back.
RebuiltWithout(leases, cfg) ==
    [m \in Mac |-> IF Pinned(leases[m]) THEN None ELSE leases[m]]

\* UpdateConfig: static entries are rebuilt, over whatever the client had.
Rebuilt(leases, cfg) ==
    [m \in Mac |->
        IF cfg.static[m] # None
        THEN [ip |-> cfg.static[m], exp |-> Never, static |-> TRUE]
        ELSE IF Pinned(leases[m]) THEN None
        ELSE leases[m]]

Unused(m, a) ==
    /\ \A n \in Node, k \in Mac : table[n][k] # None => k # m /\ table[n][k].ip # a
    /\ \A n \in Node : discover[n][m] = 0 /\ request[n][m] = None
    /\ \A k \in Mac : (k = m \/ offer[k] = a) => offer[k] = None /\ ~Holds(k)
    /\ \A k \in Mac : Holds(k) => held[k].ip # a
    /\ \A b \in Addr : bucket[b] # None => b # a /\ bucket[b].mac # m

Commit(cfg) ==
    /\ leader # None /\ ~booting[leader] /\ used.admin < MaxAdmin
    /\ Settled => Calm
    /\ used' = [used EXCEPT !.admin = @ + 1]
    /\ config' = cfg
    /\ store' = [store EXCEPT ![leader] = [config |-> cfg, rows |-> bucket]]
    /\ table' = [table EXCEPT ![leader] = Rebuilt(@, cfg)]

Pin(m, a) ==
    /\ config.static[m] = None
    /\ PinFree => Unused(m, a) /\ \A k \in Mac : config.static[k] # a
    /\ Commit([config EXCEPT !.static[m] = a])
    /\ UNCHANGED <<now, leader, bucket, event, booting, serving, discover, request,
                   sending, client>>

Unpin(m) ==
    /\ config.static[m] # None
    /\ PinFree => ~Holds(m) /\ \A n \in Node : request[n][m] = None
    /\ Commit([config EXCEPT !.static[m] = None])
    /\ UNCHANGED <<now, leader, bucket, event, booting, serving, discover, request,
                   sending, client>>

\* PutDhcpSettings starts the server without loading the bucket.
Switch ==
    /\ Commit([config EXCEPT !.on = ~@])
    /\ serving' = [serving EXCEPT ![leader] = ~config.on]
    /\ UNCHANGED <<now, leader, bucket, event, booting, discover, request, sending, client>>

-----------------------------------------------------------------------------
(* Leadership.                                                             *)

Elect(n) ==
    /\ leader = None
    /\ Quiet => ~booting[n] /\ \A o \in Node : ~event[o] /\ ~serving[o]
    /\ leader' = n
    /\ event' = [event EXCEPT ![n] = TRUE]
    /\ UNCHANGED <<now, config, bucket, store, booting, serving, table, discover,
                   request, sending, client, used>>

LoseLeadership ==
    /\ leader # None /\ used.loss < MaxLoss
    /\ Quiet => Calm
    /\ leader' = None
    /\ event' = [event EXCEPT ![leader] = TRUE]
    /\ used' = [used EXCEPT !.loss = @ + 1]
    /\ UNCHANGED <<now, config, bucket, store, booting, serving, table, discover,
                   request, sending, client>>

\* Mutant: a new leader starts with the table it has.
LoadedNothing(leases, rows) == leases

\* LoadLeases puts the rows that have not expired over what the table has.
Loaded(leases, rows) ==
    [m \in Mac |->
        LET mine == {a \in Addr : /\ rows[a] # None /\ rows[a].mac = m
                                  /\ rows[a].exp >= now}
            last == CHOOSE a \in mine : \A b \in mine : b <= a
        IN  IF mine = {} THEN leases[m]
            ELSE [ip |-> last, exp |-> rows[last].exp, static |-> FALSE]]

\* main.go's goroutine: UpdateConfig, then load and start, or stop.
FollowLeadership(n) ==
    LET cfg == store[n].config
        leads == cfg.on /\ leader = n
        built == Rebuilt(table[n], cfg)
    IN  /\ event[n] /\ ~booting[n]
        /\ event' = [event EXCEPT ![n] = FALSE]
        /\ table' = [table EXCEPT ![n] =
                         IF leads THEN Loaded(built, store[n].rows) ELSE built]
        /\ serving' = [serving EXCEPT ![n] = leads]
        /\ UNCHANGED <<now, raft, booting, discover, request, sending, client, used>>

\* main.go's start: the server is built without its pins, and what leads loads and
\* starts it; the leadership goroutine runs only then.
BootServer(n) ==
    LET leads == store[n].config.on /\ leader = n
    IN  /\ booting[n]
        /\ booting' = [booting EXCEPT ![n] = FALSE]
        /\ table' = IF leads THEN [table EXCEPT ![n] = Loaded(NoLeases, store[n].rows)]
                    ELSE table
        /\ serving' = [serving EXCEPT ![n] = leads]
        /\ UNCHANGED <<now, raft, event, discover, request, sending, client, used>>

\* The process ends, with its goroutines, and comes back without a table.
Restart(n) ==
    /\ used.crash < MaxCrash
    /\ Quiet => Calm
    /\ used' = [used EXCEPT !.crash = @ + 1]
    /\ leader' = IF leader = n THEN None ELSE leader
    /\ event' = [event EXCEPT ![n] = FALSE]
    /\ booting' = [booting EXCEPT ![n] = TRUE]
    /\ serving' = [serving EXCEPT ![n] = FALSE]
    /\ table' = [table EXCEPT ![n] = NoLeases]
    /\ discover' = [discover EXCEPT ![n] = [m \in Mac |-> 0]]
    /\ request' = [request EXCEPT ![n] = NoLeases]
    /\ sending' = [sending EXCEPT ![n] = {}]
    /\ UNCHANGED <<now, config, bucket, store, client>>

Next ==
    \/ Tick \/ LoseLeadership \/ Switch
    \/ \E n \in Node :
          \/ Persist(n) \/ PersistFails(n) \/ CatchUp(n)
          \/ Elect(n) \/ FollowLeadership(n) \/ Restart(n) \/ BootServer(n)
          \/ \E m \in Mac : \/ Discover(n, m) \/ Allocate(n, m) \/ Request(n, m)
                            \/ Renew(n, m) \/ AckOwn(n, m) \/ ReserveAt(n, m)
                            \/ Release(n, m)
    \/ \E m \in Mac : Unpin(m) \/ \E a \in Addr : Pin(m, a)

Handle(n, m) == Allocate(n, m) \/ Renew(n, m) \/ AckOwn(n, m) \/ ReserveAt(n, m)

\* Time passes, goroutines run, and a leaderless cluster elects.
Fairness ==
    /\ WF_vars(Tick)
    /\ WF_vars(\E n \in Node : Elect(n))
    /\ \A n \in Node : /\ WF_vars(Persist(n) \/ PersistFails(n)) /\ WF_vars(CatchUp(n))
                       /\ WF_vars(FollowLeadership(n)) /\ WF_vars(BootServer(n))
                       /\ \A m \in Mac : WF_vars(Handle(n, m))

Spec == Init /\ [][Next]_vars /\ Fairness

-----------------------------------------------------------------------------
(* Properties.                                                             *)

\* No address is in use by two clients at a time.
NoAddressHeldTwice ==
    \A m, k \in Mac : m # k /\ Holds(m) /\ Holds(k) => held[m].ip # held[k].ip

\* The lease a client holds is the one the serving node has for it: the table
\* holds "the in-memory active lease table".
HeldIsInTable ==
    \A n \in Node, m \in Mac :
        serving[n] /\ Holds(m)
        => table[n][m] # None /\ table[n][m].ip = held[m].ip

\* A pinned address is its client's alone.
PinnedAddressIsOnes ==
    \A m, k \in Mac : m # k /\ config.static[m] # None /\ Holds(k)
                      => held[k].ip # config.static[m]

\* A pinned address is offered to nobody but its client.
PinOfferedToOne ==
    [][\A m, k \in Mac : m # k /\ offer'[k] \notin {offer[k], None}
                         => config.static[m] # offer'[k]]_vars

\* Whatever a pinned client is offered is its pinned address.
OffersThePin ==
    [][\A m \in Mac : offer'[m] \notin {offer[m], None} /\ config.static[m] # None
                      => offer'[m] = config.static[m]]_vars

\* A lease that has run out leaves the serving node's table, or is renewed.
ExpiredIsReclaimed ==
    \A n \in Node, m \in Mac, a \in Addr, t \in Times :
        (serving[n] /\ t < now /\ table[n][m] = [ip |-> a, exp |-> t, static |-> FALSE])
            ~> (table[n][m] # [ip |-> a, exp |-> t, static |-> FALSE] \/ ~serving[n])
=============================================================================
