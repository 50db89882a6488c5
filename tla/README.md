# Perlink: specification, model checking and proofs

Perlink joins peers that sit behind NATs.  A relay server on a public address keeps
a table of the peers that registered with it; it tells a provider where the
consumers are and the consumers where the provider is; each side pings the address
it was told, and once an answer arrives the two exchange lines of text directly.

This directory holds TLA+ modules translated from the code, the TLC configurations
that check them on small systems, and proofs of invariants that hold for every system.

## 1. Inventory

| Part | Source | State it keeps | Operations | Modelled in |
|---|---|---|---|---|
| Relay server | `u_server.cpp` | `_prev`, `_dirty`, the loop's `pingpers` | one loop: wait for a capsule, authorise, register / unregister / refresh / deny, then the sweep | `UServer` |
| Peer table | `sqliter.cpp` | tables `pers`, `rej`, `mid` in one SQLite file | `store_peer`, `remove_peer`, `update_peer`, `get_pers`, `del_oldies`, `authorize`, `deny` | `UServer` |
| Peer | `a_peer.cpp` | `_status`, `_pers`, `_id`/`_type` | one loop: register, take a datagram, send a typed line | `Perlink` |
| Socket address | `sock.h` `SADDR_46` | address, port, mask | `==`, `<`, and through them `std::set` | `SockAddr`, `PeerSet` |
| Datagram and cipher | `per_id.h`, `per_id.cpp` | none | `SrvCap`, `ed` | records of `UServer`, `Deciphered` of `Perlink`, `Cipher` |
| UDP transport | `udp_xdea.cpp`, `sock.cpp` | source address of the last datagram | `send`, `receive` | `Received`, `EndpointOf`, `Posted`, `Send` |
| Start-up | `main.cpp`, `a_peer.cpp`, `sock.cpp` | `__perport`, the ports of the host, the database file | arguments, removal of the database, search for a port, the server's bind | `Startup` |
| Database handles | `sqliter.h` `Sqliter` | `_db`, SQLite handles | open in the constructor, close in the destructor, `commit` | `Sqliter` |
| Pairs of peers | `peers.cpp` | `_pairs`: two ends under each name | `add`, `remove`, `find`, `del_oldies` | `Pairs` |
| TCP sockets | `sock.cpp` `tcp_cli_sock` | `_thesock`, `_connecting` | create, the seven calls that connect, copy, attach, detach, accept, destroy | `TcpSocket` |
| Threads | `osthread.h` `OsThread` | `_bstop`, `_stopped`, `_joined`, `_hthread` | start, signal, stop, join, destroy, and the thread's own `SFoo` | `OsThread` |
| Pipe files | `pipefiles.cpp` | | | compiled to nothing |

The program makes no pair, no TCP socket and no thread; they are classes it carries along.

How they interact: server and peers are one process and one thread each, on hosts of
their own, and share nothing.  (Processes on one host share its ports and, if they are started
with one argument, the database file: `Startup`.)  They exchange UDP datagrams: capsules of 112 bytes
that are enciphered, and lines of text in the clear.  A registration and what the server says are
under the peer's own key; a ping is under the key of the peer it is for, which the server put in the
introduction with its address; a pong is under the key of who sends it.  So what is
concurrent is the order in which datagrams arrive, the clock, and the starts and
stops of processes.  Every hard behaviour of the system comes from there:

* the two pings of a punched path cross, the first is always lost, and the second is
  sent only because the server repeats its introductions for ever;
* a datagram may come late, twice or not at all, also after its sender was killed and
  started again in the other role;
* registration is retried while its answer is on the way, next to a deduplication that
  remembers one capsule;
* a statement on the table may fail in the middle of a handler;
* expiry compares dates of different precision;
* the server may stop and lose the table while peers are linked;
* each method of the table opens a handle and closes the handle of the method before, and
  a close can be refused;
* processes of one host search the same ports and remove the same file;
* a connect is answered, refused or not answered while a callback decides whether to wait on;
* a thread begins, and sets the flag its object's destructor looks at, when it is scheduled.

`PROJECT.json` lists each of these at its line under `hazards`.

What makes each part correct:

* the table: one row for each peer whatever fails, ranks in order, no fresh row lost,
  stale rows gone;
* the loop: every authorised REGISTER takes effect, introductions never stop, the reject
  threshold is exact;
* the handles: none used after it was closed, none closed twice, the loss of each accounted for;
* start-up: a peer alone on the port it prints, a search that ends, a server with its tables;
* the set of links: an order, consistent with recognition, that loses nobody it holds;
* the pairs: an end is not associated with itself;
* the cipher: what was enciphered comes back;
* a TCP socket: a result that says what became of the attempt, every descriptor closed by its owner;
* a thread: it does not outlive its object, and who joins it comes back;
* the system: links join only peers of opposite roles and of one key, are usable both
  ways, do come about, and none comes about uncalled.

## 2. Modules

```
SockAddr ── PeerSet ──┐
Pairs ────────────────┤
Cipher ───────────────┼── Library ── MCLibrary
TcpSocket ────────────┤      └────── LibraryProofs   (and both modules below)
OsThread ─────────────┘
TcpSocket ──────────────── TcpSocketProofs
OsThread ───────────────── OsThreadProofs
SockAddr ── UServer ────── MCUServer
               ├────────── UServerProofs ──────┐
               └── Perlink ────────────────────┴── PerlinkProofs ──┐
                      ├─── MCPerlink ───── MCPerlinkHistory        │
                      └─── PerlinkHistory ───┴─────────────────────┴── PerlinkRefinement
                              :
                          Rendezvous     (Promise == INSTANCE Rendezvous WITH ...)
Sqliter ────────────────── MCSqliter
   └────────────────────── SqliterProofs
Startup ────────────────── MCStartup
   └────────────────────── StartupProofs
```

**SockAddr** has the address with its mask and its two comparisons.  `receive()` clears the
whole record, mask included, before `recvfrom` fills in address and port, so a received
address (`Received`) has mask 0 and one that was configured (`Configured`) mask 1.  A
comparison masks both sides with the AND of the masks.  It follows that any comparison
with a received address is one of ports; the modules above it inherit this.

**PeerSet** is `_pers`, a `std::set` under insertion, with the addresses the program inserts
(mask 0) and with the ones the type was written for (mask 1).

**UServer** is the server.  One iteration of its loop is two steps, because the handlers and
the sweep communicate through `_dirty` and `_prev`: `SrvIdle` or one of the handlers
`SrvDeny`, `SrvRegister`, `SrvUnregister`, `SrvHereIAm`, `SrvOther` takes `loop` from
`"select"` to `"tail"`, and `SrvSweep` or `SrvRest` takes it back.  An introduction (`SetPeer`) carries
what `get_pers` read of a row, an address and a key (`Ipp`), because assigning an `ipp` copies its keys
(`per_id.h:37`).  The table is a set of records; what a scan by `Id` yields last is `LastRank`; the UNIQUE column is
`Conflicting`.  Every statement ends in a member of `SqlResult`, so a handler that runs
two of them has all four outcomes when `SqlFaults` is TRUE.  Time is three things: `lapsed`
(TTLIVE seconds since the last sweep), `day`, and `cut`, the day it was thirty seconds ago,
which is what `D <= date('now','-30 seconds')` asks for.

**Perlink** composes the server with any number of peers and a network.  The server's
actions take as a parameter what stays in the network, and `Serve` and `ServerAlone`
conjoin them with the peers standing still.  `Start`, `Register`, `Receive` and `Type` are the
peer's loop; `Receive` follows `_rec_udp`, `_received`, `_srv_process` and `_per_process`, each
branch a disjunct.  Which key a capsule goes out under
depends on the overload of `udp_xdea::send`.  A pong is sent to an address with `__key`, the peer's own
(`PerPong`, `a_peer.cpp:258`).  A ping is sent to the `ipp` of the introduction (`Peering`, `a_peer.cpp:286`):
of the overloads only `send(const uint8_t*, int, const ipp&, bool encrypt)` takes one, so that `__key`
becomes `true` and the capsule is enciphered with the keys of the `ipp` (`PerPing`, `udp_xdea.cpp:76`).
`Crash`, `Drop`, `Lose` and the NATs (`hole`, `Arrives`) are the world.
`net` is a set: with `Redeliver` it only grows, so that any datagram ever sent may arrive
again at any later time; without, a datagram is consumed and `MaxLoss` of them are lost.

**Rendezvous** is what the peers of Perlink promise together, with the server, the datagrams, the
NATs and the ports left out: five relations between peers.  Someone who saw two peers in opposite
roles *tells* one of the other; a peer *calls* only whom it was told of; who was called
*answers*; and a *link* is made only with one that answered.  What was said once may be heard
again later, by the peer's next life too.

**PerlinkHistory** is Perlink with one history variable, `ever`: the datagrams that were ever in the
network.  No action reads it, and `HistoryNext` is `Next` with what is in the network added to it.
The relations of `Rendezvous` are read off it and off the state: `Told` from the
introductions, `Wrote` from the pings and pongs, the links from `pers`
(endpoints are taken back to peers by `Whose`).  `Wrote` counts what the receiver can read: a ping
is under the receiver's key whoever called, so every call counts, and a pong that is under another key
than the receiver's does not.  So the refinement `NobodyLinksUncalled` speaks of a
network that forgets what it delivered as well as of one that repeats everything.

**Pairs** is the map of `peers.cpp`, an action for each branch of `add()` that stores something.
`ipp::operator=` does not copy the type that `operator==` compares; since an entry of the map begins
zeroed, what is stored has type 0, whatever came.

**Cipher** is `ed()` with XTEA, written as in `per_id.h` and computed on words of a few bits.  A text
is a sequence of words of which two make a block; a text of odd length ends in the middle of one, and
its last word goes through a block whose other half is whatever the stack held (`junk`).  One turn of
each loop is an operator (`EncipherRound`, `DecipherRound`) on the loop's locals.  The xor of two words
is a parameter, `XorOf`, of which only its range is assumed; `MCLibrary` gives the one of the community
module `Bitwise`, which a module with proofs cannot reach.

**TcpSocket** is the part of `sock.cpp` with a life of its own: objects that hold descriptors, a
kernel that hands out the lowest free one, and a network that answers an attempt at any later time, well
or not.  A copy of a closed object makes its target forget what it held
(`Copy`).  A call is a step, except where it waits: then each turn of its `select()` loop is
one (`Writable`, `SelectAgain`), and so is each way out (`RawGivesUp`, `CallbackStops`).  `Connect` is
`i4connect`, `s4connect` and `connect`, which differ in two places, its parameters.  The program's
assertions (`_thesock<=0` before a `socket()`) are guards.

**OsThread** is the class for Linux.  The owner calls one method at a time and may start the object
several times; each thread goes through `SFoo` at its own pace.  `_stopped` begins with what the memory
held.  A method that joins is split there.

**Library** puts together `PeerSet`, `Pairs`, `Cipher`, `TcpSocket` and `OsThread`, and exercises one in each behaviour
(`part`), because nothing in the program lets one of them act on another.

**Sqliter** is the life of the SQLite handles.  A method of `Sqlyte` is the sequence of what its
body does with handles (`Construct`, `Authorize`, `Simple`, `StorePeers`, ...), an iteration of
the server's loop a sequence of methods, and each operation on a handle an action.  The
local `Sqliter` of a method remembers the handle in `_db`, opens another one in its place, and
closes the one remembered when the method returns.  `sqlite3_close` refuses a handle with a
statement that was reset but not finalized, which is what `authorize`, `get_pers` and
`store_peer` leave; the destructor does not look, and nobody holds that handle any more.

**Startup** is `main()` of several processes on one host.  `StartPeer` reads the arguments,
`Attempt` is one turn of the search for a port, `create()`, `bind()` and `destroy()` together,
because only `bind()` touches what processes share; `AttemptWithout` is a turn whose `create()`
failed, which the code does not notice.  `StartOne` removes the database whoever is started,
`Construct` makes it again, `ServerBind` binds without looking.  Ports are modulo `PortSpace`.
A first port above 65535 is printed as it was given and bound modulo 2^16 (`a_peer.cpp:68`); the model has
the bound one.

Operators introduced by the word *Variant* are not part of a model.  Each is what a
definition would be after a plausible mistake in its code; `PROJECT.json` says which
property such a mistake breaks.

### What is abstracted

* Hashes do not collide.  The cipher is what it does: a capsule is read under the key it
  was written with; under another key its verb is any member of `Garbled`.
* Timers are permissions: a registration may be repeated at any time while the peer is not
  linked, a sweep may become due at any time.  So every interleaving with REG_TICK and TTLIVE
  is included, and some no clock produces.
* The datagrams of a sweep are sent in one step.  They reach different hosts and the
  network delays them anyway; what is lost is that a new datagram may be taken before the
  sweep has ended, which the single thread excludes too.
* A sweep is split from the handler before it, an iteration's handler is atomic.
* A NAT filters by address and port and keeps its mappings; it does not rewrite ports
  differently for each destination (the program does not work behind one that does).
* Peers are killed, not stopped: `__alive` is never cleared.
* `UServer` and `Perlink` take the server's process to live until it is restarted, and a peer to
  have found its port; `Sqliter` and `Startup` model how that fails.
* `TcpSocket`: `_connected` and `_blocking` are left out, since no call decides by them (the calls that wait
  make the descriptor non-blocking first; for `try_connect` both answers, at once and later, are
  included).  Draining in `destroy()` does not block and changes nothing the object has.
* `OsThread`: the sleeps in `start_thread` and `stop_thread` order nothing, so they are left out.  A join
  of no thread (`_hthread` 0) crashes; a `pthread_detach` of a thread already joined may.  A
  `pthread_create` that fails leaves `_hthread` undefined: it keeps what it had or is `Stale`, and a join
  or detach of that returns or crashes.
* `Pairs`: an address is a host, a port and a type; the keys it also has are compared by nobody.
* The keys a server accepts (table `mid`) are a constant; the program only inserts two rows
  when it starts.
* What SRV_PING and SRV_REGISTERRED change in a peer is the time stamp of a test that is
  never reached and of the next registration, which may come at any time anyway; the
  liveness runs leave these datagrams out (`Muted`) to keep their state space small, the runs
  `safe` and `srvport` do not leave out what they could trigger.

## 3. Runs

| Run | Module | Asks | States |
|---|---|---|---|
| `library` | `MCLibrary` | the classes that stand alone: is `_pers` a sound set, who is paired, what comes back from the cipher, who closes a descriptor, what outlives a thread's object? | 43 thousand |
| `userver_faults` | `MCUServer` | does the table survive failing statements? | 94 thousand |
| `userver_live` | `MCUServer` | ranks, threshold, `_prev`, registration, expiry, introductions | 102 thousand |
| `link` | `MCPerlink` | do two peers behind NATs link for good, after a loss and a crash? | 137 thousand |
| `safe` | `MCPerlinkHistory` | who may link with whom over a network that repeats everything?  Does it implement `Rendezvous`? | 252 thousand |
| `srvport` | `MCPerlink` | what does a peer on the server's port number and with another key do to the others?  And bytes that read as data or a pong? | 287 thousand |
| `handles` | `MCSqliter` | what becomes of the handles of a server that runs? | 284 thousand |
| `startup` | `MCStartup` | who gets which port of a host, and who has a database? | 137 thousand |
| `unregister` | `MCUServer` | is an unregistered peer dropped?  No. | |
| `groups` | `MCPerlink` | do only members of a group link?  No. | |
| `ports` | `MCPerlink` | does every pong make a link when ports are equal?  No. | |
| `restart` | `MCPerlink` | do peers link again after the server restarted?  No. | |

### Bounds

* `library`, the set: three hosts with three ports each, all subsets and orders of insertion.  A
  comparison looks at two addresses, transitivity at three.  The pairs: one name (names do not
  meet), two hosts of which one is 127.0.0.1, three ports with 0, a type that is 0 and one that is
  not.  The cipher: words of three bits, shifts of one and two, three rounds, two keys,
  every text of up to three words, so full blocks, a lone end, and both; the order of the
  operations in a round and between rounds, which is what can be wrong, does not depend on the
  width.  The sockets: two objects and two descriptors, so a descriptor may be closed by one object and
  given to the other, and `socket()` fails.  The thread: an object started up to twice.
* `userver_*`: two hosts, two roles, so four peers for two or three row Ids: a conflict, an
  expiry in the middle and a third row all occur.  One midnight gives rows of yesterday,
  rows of today and the half minute in between.  `MaxRej` lets the count pass the
  threshold.  The restart is in `userver_faults`.
* `link`: a provider and a consumer, both behind filtering NATs, with a lost
  datagram and a killed peer at any point, also in the middle of the handshake.
* `safe` (on `PerlinkHistory`): a provider, a consumer with the same key and a third peer with another one that
  can come back in the other role from the same endpoint; every datagram ever sent can be
  repeated, so what was sent before a crash arrives after it.  The third peer and the others are
  introduced and ping each other across the keys; what a peer reads in a pong or a line under a
  wrong key is an unknown verb or PER_PING.
* `srvport`: the third peer is on port 1 like the server and has another key; garbage deciphers to data
  or to a pong; both lengths of line are typed; the server restarts once.
* Garbage that is read as an introduction is in no run, since any address and any key could then
  stand in the capsule; its branch of `Peering` is covered by the proofs, which take any `Garbled`.
* `handles`: six handles.  A method needs two, the constructor and `store_peer` three; every kind
  of loss happens several times before the sixth is gone.
* `startup`: three processes, eight port numbers, two tries.  A search from 2 meets the server's
  port 3, one from 7 wraps, the default is 4, where another program may be; so a search is
  refused by a peer, by the server and by a stranger, and a file is removed under a server by
  a second one and by a third process that is none.

### Properties

Of the set: `RecognisedIsPresent` and `OnePerPort`; that `<` orders the members (`StrictlyOrdered`), which
both rest on, is proved and in no run.  `OnePerPort` says
exactly what the set keeps: all endpoints under full masks, one for each port under those
the program has.

Of the other classes: `SelfPairedOnlyIf`, `FullBlocksComeBack`, `ResultMeans`, `DescriptorsOwned`,
`OutlivesOnlyIf`, `StopReturns`.  Four of them name the exceptions the code makes, and nothing else:
an end is paired with itself only if it came with a type or over its local address; a positive result
means a connection unless the call waited; descriptors have one owner unless an object
was copied; a thread outlives its object only if it had not begun, was started after a join, or was not
the only one.
A capsule is fourteen full blocks, so `FullBlocksComeBack` is why it arrives.

Of the server: `TableSound`, `RankOrder`, `PrevClear`, `RegisterTakesEffect`, `NoFreshRowLost`,
`RejectThreshold`, `StaleRowsGo`, `IntroducedForever`, `PrevForgotten`.  `PrevClear` is the reason
that `_prev`, which remembers a capsule but not its sender, does no harm: it survives into
another handler only when a statement failed.

Of the handles: `HeldAreOpen`, `HandlesAccounted` and `RunsOut`.  The last is a property of the
code that nobody wanted: each sweep loses at least the handle of `get_pers` (when its SELECT was
prepared), each authorised capsule another one and each registration two, so a server that
runs comes to the limit of its process, `sqlite3_open` fails and `Sqliter` calls `exit(1)`.  With
the 1024 descriptors that are usual and a sweep at every 15 seconds this takes a few hours;
`IntroducedForever` and `LinkEventually` hold for a server that is not there yet.

Of start-up: `PeerOwnsItsPort`, `GivesUpWhenAllRefused`, `TablesKept`, `SearchEnds`.  A server that
runs need not own its port: its `bind()` may have failed.

Of the system: `RolesOpposite`, `KeyIsolation`, `CallsReadable`, `LinkedReachable`, `LinkedHasPeer`,
`ShownFromOpposite`, `PongLinks`, `ServerPortNeverLinks`, `NoAbort`, `LinkEventually`, and
`NobodyLinksUncalled`, the refinement: every step of the composed system is a step of `Rendezvous` or none
that it sees.  A peer that took what another host says for the server's word (the variant
`SrvProcessTrusts`) would call without having been told.

What keys keep apart is not what one would think.  The server introduces peers of any keys to each
other and hands each of them the other's key, and a ping is under the key of the one it is for:
`CallsReadable` says that whoever is called can read the call.  What keeps peers of different keys
apart is the pong, which is under the key of who answers, and `KeyIsolation` says that it does.  With the
ping under the caller's key, which the call at `a_peer.cpp:286` looks like (the variant
`PeeringUnderOwnKey`), `CallsReadable` fails, and a peer on the server's port could take a ping for a pong.

Some properties are conditional on `Garbled`, the verbs that bytes under a wrong key decipher to.  The
peer checks nothing else, so with one chance in 256 a datagram reads as any given verb.

* `KeyIsolation` needs that none reads as PER_PONG.  In the run `safe` garbage reads as PER_PING or
  as no verb; PER_PONG and PER_DATA are in `srvport`.
* `CallsReadable`, `RolesOpposite`, `ShownFromOpposite` and `LinkedHasPeer` need that none reads as an
  introduction (SRV_SET_PEER): such a capsule sends the peer to an address, and under a key, that nobody
  gave it.
* `LinkedHasPeer` has its exception in its conclusion: PER_DATA makes a link without a member
  (`a_peer.cpp:251`), and the property says that this happens only to a peer that got a pong or a
  line from one of the other role, and in `srvport` it does happen.
* `ServerPortNeverLinks` and `NoAbort` need that garbage is not read both as an introduction and as a
  pong (`GarbageLinksNobody`).  The ping that a garbage introduction causes is under a garbage
  key.  Only such a ping can reach a peer on the server's port under another key than its own, and
  there it may read as a pong, make a link, and a line of text sent over that link comes from the server's
  port and ends in the assertion.  Everything else that reaches such a peer is a ping it can read, so
  the keys of the peers do not matter, and in `srvport` they differ.

### Fairness

* The server's two half steps and `Lapse`: its loop has no exit, `select` returns after
  100 ms at the latest, and time passes.
* `Start` and `Register`: a peer is started by its user, and an unlinked peer registers after
  REG_TICK seconds for ever.
* The arrival of one kind of datagram between two hosts (`Arrive`, weak) and at the server
  (`Serve`, strong, because a datagram waits while the loop is in its lower half and many
  others may wait with it): a network that loses `MaxLoss` datagrams delivers the others.
  There is no fairness for repetition, loss, crash, restart, text or the wrong key.

* `handles`: the loop goes on (`Step`, weak), TTLIVE passes again and again (`SweepTurn`, strong,
  since a capsule may come first), and a SELECT is not refused every time (`Select(TRUE)`, strong).
* `startup`: a process that searches is scheduled.
* `library`: the thread's owner and the thread are scheduled, and `thread_main` returns once it was told to
  stop; one that was not told may run for ever, and its join then does not return.

With these, `LinkEventually` says that two peers of opposite roles, with one key the server
knows, end up holding each other and stay so, whichever datagram was lost and whoever was
killed on the way.

### Where the code and its documents part

* `unregister`: the server logs that it drops a peer, and drops nothing (`sqliter.cpp:112`).
* `groups`: the README and the diagrams speak of groups; the introductions ignore them
  (`u_server.cpp:150`).
* `ports`: one or more consumers may be started, but of those with the same port number a
  provider keeps one (`sock.cpp:1335`).  The default port is the same for all.
* `restart`: a peer means to notice that its server is missing; the test is dead
  (`a_peer.cpp:105`), so a linked peer is unknown to a server that restarted
  (`main.cpp:39`) and its restarted partner never finds it.

More are noted here and have no run:

* The README starts peers with a group, a port and the server's address (`README.md:14`,
  `README.md:20`); `main.cpp:23` takes the port only when it is the last of three arguments, so with
  these four the port is the default (`PortOf`).
* The search for a port may run past 65535, where `bind()` asserts (`sock.cpp:1170`).
* A comment gives the results of a connect as "0 no connection, >0 OK, -1 in progress"
  (`sock.cpp:862`).  A call that waits returns the descriptor also when the attempt was refused, since
  it asks `select()` only and not for `SO_ERROR`, and when its callback gave up after a time-out;
  `try_connect` on an attempt under way returns 0 (EALREADY).  `ResultMeans` has the exact meaning.
  `connect()` leaves `_connecting` at 1 when `socket()` fails (`sock.cpp:1047`).
* `~OsThread` detaches the thread when it *was* joined (`osthread.h:100`), and destroys the attributes that
  `start_thread` already destroyed; an object never started may find 0 in `_stopped` and join
  thread 0.
* The declaration the call at `a_peer.cpp:286` seems written for takes the key as its last argument, as
  the one at `a_peer.cpp:258` does; the one it gets takes a `bool` there.  So a ping goes out under the
  key of the other peer, which every peer is told by the server (`u_server.cpp:152`, `u_server.cpp:157`).
* `_ufw_reject` is called and does nothing: its body is a comment (`u_server.cpp:219`).  `ufw` in the model
  is the set of hosts it was called for.
* A peer's end that comes again with a type other than 0 is taken for the second end
  (`peers.cpp:33`, because of `per_id.h:37`).

## 4. Proofs

The proofs assume nothing but the assumptions on constants that the modules state
(`UServerAssumption`, `PerlinkAssumption`, ...: endpoints have a port, no two peers have the same
endpoint, keys and marks are told apart), which TLC evaluates in the runs. No number is assumed
finite that the code does not make finite: peers, hosts, ports, keys, sockets, descriptors, threads
and names are any sets, and the bounds of the runs any numbers.

### The server

`UServerProofs` proves of `SrvSpec`, with or without failing statements:

| Theorem | Property |
|---|---|
| `SrvTypeCorrect` | `SrvTypeOK` |
| `TableStaysSound` | `TableSound` |
| `RanksInOrder` | `RankOrder` |
| `PrevIsClear` | `PrevClear` |
| `RegisterIsEffective` | `RegisterTakesEffect` |
| `FreshRowsStay` | `NoFreshRowLost` |
| `RejectedInTime` | `RejectThreshold` |

The invariant is `SrvInv == SrvTypeOK /\ TableSound /\ RankOrder /\ PrevOK`. The first three are
inductive together: a new row's Id is above all Ids because they are bounded by `rowid`
(`TableSound`), so the row the scan yields last exists and its rank is the greatest of its group
(`LastRow`, from the well-foundedness of the naturals), so rank plus one keeps the order
(`TableInserts`). `PrevClear` is not inductive, since it says nothing of the lower half of the loop:
`PrevOK` adds that a `_prev` set there comes with `_dirty`, and `_dirty` forces the sweep that
clears it. The two action properties follow from the invariant and one step. `RejectThreshold` is
inductive with the types: only a denial touches table `rej`, and counts one host only.

The lemmas of the steps (`SrvIdleInv` ... `SrvReceiveInv`) take the network and the datagram as
parameters and assume of it only that its source is an address and that a REGISTER carries an id, so
that they serve for the composed system too.

### The system

`PerlinkProofs` proves of `Spec`, for any peers, NATs, keys and endpoints, whatever a wrong key
deciphers to, over a network that loses, delays and reorders and with or without one that repeats:

| Theorem | Property |
|---|---|
| `TypeCorrect` | `TypeOK` |
| `TableSoundAmongPeers` | `TableSound`, `RankOrder`, `PrevClear` in the composed system |
| `RegisterIsEffectiveAmongPeers` | `RegistrationsTakeEffect`: `RegisterTakesEffect` for datagrams that peers sent |
| `FreshRowsStayAmongPeers` | `FreshRowsKept`: `NoFreshRowLost`, with no exception for peers that unregister |
| `RejectedInTimeAmongPeers` | `RejectThreshold` in the composed system |
| `LinksJoinOpposites` | `RolesOpposite` |
| `LinksShareKeys` | `KeyIsolation` |
| `CallsAreReadable` | `CallsReadable` |
| `LinksAreOpen` | `LinkedReachable` |
| `LinkedIsHolding` | `LinkedHasPeer` |
| `TextFromOpposites` | `ShownFromOpposite` |
| `ServerPortIsAlone` | `ServerPortNeverLinks` |
| `AssertionHolds` | `NoAbort` |
| `LinksLastWhileUp` | `LinksLast`: a running peer loses none of those it holds, and once linked never registers again |
| `PongLinksApart` | `PongLinks`, when no two peers have one port number and none has the server's |

What holds of the table comes from the lemmas of `UServerProofs`, once it is known what the server's
network may hold (`ReachesServer`) and that no other step touches its state (`ServerRests`). None of
the properties of links is inductive, because what a peer does depends on a datagram, and nothing in
its state says why that datagram was sent. `Inv` says it:

* `NetOK`: every datagram in the network, however old, was sent by the server or by a peer at its
  source (`ServerSent`, `PeerSent`); an introduction (SRV_SET_PEER) is of two peers that were
  started in opposite roles, carries the address and the key of the one and goes out under the key of the
  other; a ping, a pong and a line went to somebody their sender had a `Reason` to write to, after its
  NAT had been opened for the answer; a ping is under the key of the peer it is for (unless garbage can
  be read as an introduction), a pong under its sender's; a pong and a line never went to the server's
  port.
* `RowsOK`: a row of the table is that of a peer, with its key and a role it had. This is what makes
  an introduction of `_ping_pers` one of opposites.
* `PeerOK`: what a peer holds is another peer that wrote to it (`LinkOK`: opposite, of one key, open
  both ways, not on the server's port), what it has shown came from one, and a peer that is linked
  holds somebody or has shown a datagram that read as PER_DATA.
* `SrvInv` and `PeerTypes`.

All of it is about roles ever taken (`been`) and mappings ever made (`hole`), which only grow, so
what was true of a datagram when it was sent is still true when it arrives (`SoundGrows`), and a
step has to account only for what it sends and for the peer that takes it (`PeerStepInv`,
`ServerStepInv`). The step that joins the two sides is `Heard`: if the sender had a reason to write
to `p`, then `p` has one to write to the sender, since opposition is symmetric.

Two hypotheses of the properties came out of the proof. The step for a ping that a peer on the
server's port takes for a pong goes through only if the ping is under that peer's key, which it is when
the introduction was genuine: this is where `Callable`, what a peer may find in an introduction, is
needed, and where `GarbageLinksNobody` comes from (section 3). And the hypotheses of `PongLinksApart` are exact in kind: the run `ports` shows a provider that
drops a pong because two consumers have one port number.

`LinksLast` is the safe half of "stay linked" in `LinkEventually`. The code has a way out of
PER_LINKED, on SRV_UNREGISTERED, and the proof is that nobody takes it: no peer ever sends a
SRV_UNREGISTER (`NobodyUnregisters`, an invariant beside `Inv`), so no server answers one. It needs
that such an answer is not read out of other bytes. It also says why the run `restart` ends as it
does: nothing else brings a linked peer back to registering.

`PerlinkRefinement` proves of `HistorySpec`, so over any network, when no bytes under a
wrong key read as an introduction or as a pong (`SRV_SET_PEER` and `PER_PONG` not in `Garbled`):

| Theorem | States |
|---|---|
| `SystemImplementsRendezvous` | `HistorySpec => NobodyLinksUncalled`: each step is one of `Rendezvous` under the mapping, or not seen |
| `LinksHaveHistory` | behind each link there is an answer, behind it a call, behind that an introduction of two peers in opposite roles |

The mapping's steps need `HistoryInv == Inv /\ EverOK /\ ChainOK`. `EverOK` says that what was ever
in the network is as sound as what is there: the soundness of a datagram speaks of roles ever taken
and mappings ever made, which no step takes back (`StepGrows`), so it outlives the datagram's
delivery. `ChainOK` says that a call is behind each answer and an answer behind each
link, and also that who sent a long line had called: under a wrong key the line may read as
a ping, and the receiver answers it. One lemma for each handler says which step of `Rendezvous` it
is: `StartMaps` (Enter), `CrashMaps` (Leave), `ServerMaps` (Tell), `PeeringMaps` (Call),
`PingedMaps` (Answer), `PongedMaps` (Link); `Drop` and `Lose` are steps it does not see.
`LinksHaveHistory` then needs no handler at all; it is an invariant of `Rendezvous`
(`PromiseKeepsHistory`), carried over. The two hypotheses on `Garbled`
are needed, for a peer that reads an introduction or a pong where there was none calls untold and
links unanswered.

`HistoryIsPassive` proves that a behaviour with the memory is one of `Spec`. The converse, that every
behaviour of `Spec` can be given one, is the usual argument for a history variable, read off the form
of `HistoryNext` and not proved.

### The other components

| Module | Theorem | Property |
|---|---|---|
| `StartupProofs` | `StartupTypeCorrect` | `StartupTypeOK` |
| | `PeersOwnTheirPorts` | `PeerOwnsItsPort` |
| | `NobodyGivesUpEarly` | `GivesUpWhenAllRefused` |
| | `ServersKeepTables` | `TablesKept` |
| `SqliterProofs` | `SqliterTypes` | `SqliterTypeOK` |
| | `EveryHandleCounts` | `HandlesAccounted` |
| | `NothingClosedIsUsed` | `HeldAreOpen` |
| | `EverySelectCosts` | `SelectsCost`: a prepared SELECT takes a handle for good |
| | `WaitsWithOne` | `IdleHoldsOne`: between iterations one open handle is in use, the others are lost |
| `TcpSocketProofs` | `TcpSocketTypes` | `TcpSocketTypeOK` |
| | `ResultsMean` | `ResultMeans` |
| | `NoDescriptorLost` | `DescriptorsOwned` |
| `OsThreadProofs` | `OsThreadTypes` | `OsThreadTypeOK` |
| | `OutlivesOnlyThen` | `OutlivesOnlyIf` |
| `LibraryProofs` | `TreeIsOrdered` | `StrictlyOrdered` |
| | `RecognisedWhenPresent` | `RecognisedIsPresent` |
| | `OneForEachPort` | `OnePerPort` |
| | `SelfPairedOnlyThen` | `SelfPairedOnlyIf` |
| | `FullBlocksReturn` | `FullBlocksComeBack` |
| | `LibraryTypes` | `LibraryTypeOK` |

**Start-up.** Its invariant is `StartupTypeOK /\ PortsApart /\ RefusedSoFar /\ TablesKept`.
`PortsApart` says of every bound socket, the server's too, what `PeerOwnsItsPort` says of a peer's;
without it a peer's step could not be told from one that shares a port. `RefusedSoFar` follows the
search while it is under way: what was refused are the ports from the first to the one before the
next. `TablesKept` is inductive as it stands.

**Handles.** `HandlesAccounted` alone is lost at a close, which must find the handle remembered by
the innermost `Sqliter` and not the one in `_db`. `SqliterInv` therefore ties the stack of
`Sqliter`s to what the iteration has still to do. Once the constructor is over (`Building`), an
operation that is not a close is followed by another one, and a close by an open or nothing
(`Flat`), so whether a `Sqliter` is alive can be read off the next operation (`Serving`), and every
method that the loop may call has this form. At the exit all handles but two are lost: the one in
`_db` and the one the last `Sqliter` remembered (`AllButTwo`). `EverySelectCosts` is the safe half
of `RunsOut`: a SELECT comes only right after an open (a clause of `Flat`), so its handle has no
statement yet (`FreshBySelect`); `busy` grows with each prepared one and stays among the open, so
a server makes at most `MaxHandles` of them, and only fairness is missing for its end.

**TCP sockets.** `Owned` is `DescriptorsOwned` for one descriptor at a time; `Waiting` says that a
call that waits holds an open descriptor whose attempt is under way or decided, for its next turn
would otherwise report on a descriptor of another object. The lowest free descriptor exists by the
well-foundedness of the naturals.

**Threads.** While the object has started one thread only, `Followed` says that `_hthread` is that
thread, that `_stopped` is 0 while it runs `thread_main`, and that it survives a join, or the
destructor's, only if it is one of `late`, those that had not begun or came after a join.

**The set and the pairs.** With one mask for all, two addresses are equivalent when their masked
parts are the same, so `<` is a strict total order up to that. `PeerSetInv` says that no two members
are equivalent and that all that was ever inserted is equivalent to a member; the three properties
are read off it. `PairsInv` says of a pair that has its second end that the first is older and was
not recognised in it.

**The cipher.** A round of deciphering undoes one of enciphering (`RoundBack`), because the xor that
the one adds is subtracted again: it is computed from the same half and the same sum, and only
modular addition has to be undone (`WrapBack`). That holds of any `XorOf` on words. For the loops
the induction theorems of the library are out of reach, since they take an operator; `Climb` says it
of sets instead: a set of naturals with 0 and the successors of its members is all of them, by the
well-foundedness of the naturals. From it come the existence of a loop's function (`LoopExists`),
the sum that enciphering reaches and deciphering starts from (`SumReached`: the products are taken
modulo the word), and that the two loops meet in each round (`BlockBack`). `TextBack` carries it
from one block to the full blocks of a text. `CipherInv` says that between the two calls the text is
what `ed()` makes of the plain one under some `junk`, which is why no property speaks of a last word
that fills no block. The prover knows nothing of powers, so that `2^Width` and the shifts' are
positive naturals is in `CipherAssumption`, where TLC evaluates it.

**All classes.** A behaviour of `Library` is one of each class (`Classes`), so what is proved of their
specifications holds of it; `LibraryTypes` joins their types.

### What TLC alone checks

Liveness: `StaleRowsGo`, `IntroducedForever`, `PrevForgotten`, `LinkEventually`, `RunsOut`,
`SearchEnds` and `StopReturns`. The prover has no rules for fairness and ENABLED. Every other
property of a passing run is a theorem.

The four runs that find a violation refute what a document says; there is nothing to prove there.

## 5. Plan

The modules of sections 1 and 2 are written, every safety property the runs check is proved, and
of the liveness properties `LinkEventually` and `RunsOut` the safe halves are (`LinksLast`,
`SelectsCost`). What could be added is one model of start-up and system together. The two meet in an
assumption: that no two peers of one host have one endpoint, which `PerlinkAssumption` states, is
what `PeersOwnTheirPorts` proves of those that found their ports.

## 6. Not modelled

* `pipefiles.cpp` stands between `#if 0` and `#endif` but for an empty constructor.
* `u_server.cpp.save` and `a_peer.cpp.autosave` are what an editor kept; `perlink` is a binary.
* Of `sock.cpp`: the loops that move bytes over TCP (`send`, `receive`, `sendall` but for the `destroy()` it
  makes), listening sockets, names and interfaces, the connect of
  `udp_sock` and `udp_group_sock`.  The program uses none of them, and what they
  keep is what the kernel keeps.
* Of `osthread.h`: the wrappers of mutex and condition, which pass each call on, the counted pointer,
  and the part for Windows.
* Wording of logs and statements, and the parsing of arguments but for the port.
