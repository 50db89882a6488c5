---------------------------- MODULE Perlink ----------------------------
(***************************************************************************)
(* The whole system: the relay server of UServer and the peers of          *)
(* a_peer.cpp, which register with it, are told of each other, and punch   *)
(* a UDP path through their NATs by pinging the address they were told.    *)
(*                                                                         *)
(* A peer is one thread whose loop sends a registration when REG_TICK      *)
(* passed and it is not linked, handles one datagram, and sends a line of  *)
(* text when it is linked: one action each.                                *)
(*                                                                         *)
(* The network is the set net of UServer.  With Redeliver it is every      *)
(* datagram ever sent, each of which may arrive late, again, or never.     *)
(* Otherwise a datagram arrives at most once and MaxLoss are lost.         *)
(***************************************************************************)
EXTENDS UServer

CONSTANTS
  Peers,
  At,           \* the endpoint at which the world sees each peer
  PeerKey,      \* the key each peer's __meikey gives
  Starts,       \* the ids each peer may be started with
  Natted,       \* the peers behind a NAT that filters by address and port
  Garbled,      \* what the verb of bytes deciphered with a wrong key can be
  Kinds,        \* the lines typed: "TEXT" below 112 bytes, "LONG" from there on
  Redeliver,
  MaxLoss,      \* bound: datagrams lost when not Redeliver
  MaxCrashes    \* bound: peers killed

SrvVerbs == {"SRV_REGISTER", "SRV_REGISTERRED", "SRV_SET_PEER", "SRV_UNREGISTER",
             "SRV_UNREGISTERED", "SRV_PING"}
PerVerbs == {"PER_PING", "PER_AIH", "PER_PONG", "PER_DATA"}
Verbs == SrvVerbs \cup PerVerbs \cup {"TEXT", "LONG", "?"}

ASSUME PerlinkAssumption ==
  /\ Groups # {}
  /\ At \in [Peers -> Addr \ {SrvAddr}]
  /\ \A p, q \in Peers : At[p] = At[q] => p = q
  /\ PeerKey \in [Peers -> Keys]
  /\ Starts \in [Peers -> SUBSET Id]
  /\ Natted \subseteq Peers
  /\ Garbled \subseteq SrvVerbs \cup PerVerbs \cup {"?"}
  /\ Kinds \subseteq {"TEXT", "LONG"}
  /\ Redeliver \in BOOLEAN
  /\ {MaxLoss, MaxCrashes} \subseteq Nat

VARIABLES
  run,       \* "down", "up", or "aborted" by a failed assertion
  id,        \* _id with _type
  status,    \* _status
  pset,      \* _pers
  hole,      \* external: where a natted peer has sent to, its NAT's mappings
  shown,     \* history: the endpoints whose text a peer has shown
  been,      \* history: the types each peer has been started with
  lost, crashes

peerVars == <<run, id, status, pset, shown, been>>
envVars == <<hole, lost, crashes>>
vars == <<srvVars, peerVars, envVars>>

\* What a capsule can say of another peer, an address and a key (ipp).
Ipps == [addr : Addr, key : Keys \cup {NoKey}]

\* udp_xdea::send to an ipp, which is enciphered with the key of the ipp, and to an
\* address, which is enciphered with the key that is passed, __key.
PerPing(p, to) == Datagram("PER_PING", At[p], to.addr, to.key, NoArg)
PerPong(p, to) == Datagram("PER_PONG", At[p], to, PeerKey[p], NoArg)

Init ==
  /\ SrvInit
  /\ run = [p \in Peers |-> "down"]
  /\ id = [p \in Peers |-> CHOOSE i \in Id : TRUE]
  /\ status = [p \in Peers |-> "SRV_UNREGISTERED"]
  /\ pset = [p \in Peers |-> {}]
  /\ hole = [p \in Peers |-> {}]
  /\ shown = [p \in Peers |-> {}]
  /\ been = [p \in Peers |-> {}]
  /\ lost = 0 /\ crashes = 0

\* What the network holds after m was taken out of it.
Left(m) == IF Redeliver THEN net ELSE net \ {m}

\* p's NAT, if it has one, will let the answers of these endpoints in.
Punch(p, to) ==
  hole' = IF p \in Natted THEN [hole EXCEPT ![p] = @ \cup to] ELSE hole

-----------------------------------------------------------------------------
(* The loop of a_peer::main.                                               *)

\* The constructor, and main() up to the loop; pset and shown are empty already.
Start(p, i) ==
  /\ run[p] = "down" /\ run' = [run EXCEPT ![p] = "up"]
  /\ id' = [id EXCEPT ![p] = i]
  /\ been' = [been EXCEPT ![p] = @ \cup {i.typ}]
  /\ status' = [status EXCEPT ![p] = "SRV_UNREGISTERED"]
  /\ UNCHANGED <<srvVars, pset, shown, envVars>>

\* Killed, and what it held in memory is gone: __alive is never cleared, so a peer
\* stops in no other way.
Crash(p) ==
  /\ run[p] = "up" /\ run' = [run EXCEPT ![p] = "down"]
  /\ crashes < MaxCrashes /\ crashes' = crashes + 1
  /\ pset' = [pset EXCEPT ![p] = {}]
  /\ shown' = [shown EXCEPT ![p] = {}]
  /\ UNCHANGED <<srvVars, id, been, status, hole, lost>>

\* REG_TICK passed.  _status leaves SRV_UNREGISTERED only when the peer is linked.
Register(p) ==
  /\ run[p] = "up" /\ status[p] = "SRV_UNREGISTERED"
  /\ net' = net \cup {Datagram("SRV_REGISTER", At[p], SrvAddr, PeerKey[p], id[p])}
  /\ Punch(p, {SrvAddr})
  /\ UNCHANGED <<srvTables, srvLoop, srvClock, restarts, peerVars, lost, crashes>>

\* send_to_pers: a line goes to every member of _pers, in the clear.
Lines(p, kind) == {Datagram(kind, At[p], EndpointOf(x), NoKey, NoArg) : x \in pset[p]}

Type(p, kind) ==
  /\ run[p] = "up" /\ status[p] = "PER_LINKED"
  /\ net' = net \cup Lines(p, kind)
  /\ Punch(p, {EndpointOf(x) : x \in pset[p]})
  /\ UNCHANGED <<srvTables, srvLoop, srvClock, restarts, peerVars, lost, crashes>>

-----------------------------------------------------------------------------
(* One datagram at a peer: _rec_udp, _received, _srv_process, _per_process. *)

\* Variant: capsules are not enciphered.
DecipheredByAll(p, m) == {m.verb}

\* The verb a peer reads in a datagram of 112 bytes or more.
Deciphered(p, m) == IF m.enc = PeerKey[p] THEN {m.verb} ELSE Garbled

\* s.Rsin() == _srvsin
FromServer(m) == SEq(Received(m.src), Configured(SrvAddr))

\* The kernel or the NAT lets m through to p.
Arrives(p, m) ==
  /\ m.dst = At[p] /\ run[p] = "up"
  /\ p \in Natted => m.src \in hole[p]

\* Replies of p, put in the network in place of m.
Send(p, m, replies) ==
  /\ net' = Left(m) \cup replies
  /\ Punch(p, {r.dst : r \in replies})

\* SRV_REGISTERRED and SRV_PING change a _status of SRV_UNREGISTER, which it never
\* holds; SRV_UNREGISTERED makes the peer register again, its _pers kept.
SrvAnswered(p, m, verb) ==
  /\ verb \in {"SRV_REGISTERRED", "SRV_PING", "SRV_UNREGISTERED"}
  /\ status' = [status EXCEPT ![p] =
       IF verb = "SRV_UNREGISTERED" THEN verb
       ELSE IF @ = "SRV_UNREGISTER" THEN "SRV_REGISTERRED" ELSE @]
  /\ Send(p, m, {})

\* The ipp that p reads in a capsule.
Introduced(p, m) == IF m.enc = PeerKey[p] THEN {m.arg} ELSE Ipps

\* Variant: the ping is enciphered with __key.
PeeringUnderOwnKey(p, m, verb) ==
  /\ verb = "SRV_SET_PEER"
  /\ \E a \in Introduced(p, m) : Send(p, m, {PerPing(p, [a EXCEPT !.key = PeerKey[p]])})
  /\ UNCHANGED status

\* _peering: ping whoever stands in the capsule, under the key that stands there,
\* whatever _pers holds.  The __key in the call is the bool encrypt: what is passed
\* before it is an ipp.
Peering(p, m, verb) ==
  /\ verb = "SRV_SET_PEER"
  /\ \E a \in Introduced(p, m) : Send(p, m, {PerPing(p, a)})
  /\ UNCHANGED status

SrvOtherVerb(p, m, verb) ==
  /\ verb \notin {"SRV_REGISTERRED", "SRV_PING", "SRV_SET_PEER", "SRV_UNREGISTERED"}
  /\ Send(p, m, {})
  /\ UNCHANGED status

\* Variant: a peer is held from the moment the server names it.
SrvProcessTrusts(p, m, verb) ==
  /\ FromServer(m)
  /\ Peering(p, m, verb)
  /\ pset' = [pset EXCEPT ![p] = SetInsert(@, Received(m.arg.addr))]
  /\ UNCHANGED <<run, shown>>

\* _received cuts a datagram from the server into capsules, and when its length is
\* no multiple of 112 the assertion after the loop fails.
AfterLoop(p, m) == {run} \cup IF m.verb = "LONG" THEN {[run EXCEPT ![p] = "aborted"]} ELSE {}

\* _srv_process
SrvProcess(p, m, verb) ==
  /\ FromServer(m)
  /\ \/ SrvAnswered(p, m, verb) \/ Peering(p, m, verb) \/ SrvOtherVerb(p, m, verb)
  /\ run' \in AfterLoop(p, m)
  /\ UNCHANGED <<pset, shown>>

\* Variant: a ping counts as a link.
PingedLinks(p, m, verb) ==
  /\ verb = "PER_PING"
  /\ Send(p, m, {PerPong(p, m.src)})
  /\ status' = [status EXCEPT ![p] = "PER_LINKED"]
  /\ UNCHANGED <<pset, shown>>

\* PER_PING: the capsule goes back as PER_PONG, under the peer's own key.
Pinged(p, m, verb) ==
  /\ verb = "PER_PING"
  /\ Send(p, m, {PerPong(p, m.src)})
  /\ UNCHANGED <<status, pset, shown>>

\* Variant: the sender is not inserted.
PongedForgets(p, m, verb) ==
  /\ verb = "PER_PONG"
  /\ status' = [status EXCEPT ![p] = "PER_LINKED"]
  /\ Send(p, m, {})
  /\ UNCHANGED <<pset, shown>>

\* PER_PONG: the sender is a linked peer.
Ponged(p, m, verb) ==
  /\ verb = "PER_PONG"
  /\ pset' = [pset EXCEPT ![p] = SetInsert(@, Received(m.src))]
  /\ status' = [status EXCEPT ![p] = "PER_LINKED"]
  /\ Send(p, m, {})
  /\ UNCHANGED shown

\* PER_DATA: shown, and taken for a link, without a look at _pers.
DataIn(p, m, verb) ==
  /\ verb = "PER_DATA"
  /\ status' = [status EXCEPT ![p] = "PER_LINKED"]
  /\ shown' = [shown EXCEPT ![p] = @ \cup {m.src}]
  /\ Send(p, m, {})
  /\ UNCHANGED pset

PerOtherVerb(p, m, verb) ==
  /\ verb \notin {"PER_PING", "PER_PONG", "PER_DATA"}
  /\ Send(p, m, {})
  /\ UNCHANGED <<status, pset, shown>>

\* Variant: the source is not looked at first.
PerProcessAnyone(p, m, verb) ==
  /\ \/ Pinged(p, m, verb) \/ Ponged(p, m, verb)
     \/ DataIn(p, m, verb) \/ PerOtherVerb(p, m, verb)
  /\ UNCHANGED run

\* _per_process
PerProcess(p, m, verb) ==
  /\ ~FromServer(m)
  /\ \/ Pinged(p, m, verb) \/ Ponged(p, m, verb)
     \/ DataIn(p, m, verb) \/ PerOtherVerb(p, m, verb)
  /\ UNCHANGED run

\* A datagram of less than 112 bytes is shown when its source equals a member of
\* _pers, and is dropped otherwise.
ShortText(p, m) ==
  /\ m.verb = "TEXT"
  /\ shown' = IF SetMatches(pset[p], Received(m.src))
              THEN [shown EXCEPT ![p] = @ \cup {m.src}] ELSE shown
  /\ Send(p, m, {})
  /\ UNCHANGED <<run, status, pset>>

Receive(p, m) ==
  /\ m \in net /\ Arrives(p, m)
  /\ \/ ShortText(p, m)
     \/ /\ m.verb # "TEXT"
        /\ \E verb \in Deciphered(p, m) : SrvProcess(p, m, verb) \/ PerProcess(p, m, verb)
  /\ UNCHANGED <<srvTables, srvLoop, srvClock, restarts, id, been, lost, crashes>>

-----------------------------------------------------------------------------
(* The rest of the system.                                                 *)

\* m reached a host where nothing takes it in, or a NAT that does not know it.
Drop(m) ==
  /\ ~Redeliver /\ m \in net
  /\ m.dst # SrvAddr
  /\ ~\E p \in Peers : Arrives(p, m)
  /\ net' = Left(m)
  /\ UNCHANGED <<srvTables, srvLoop, srvClock, restarts, peerVars, envVars>>

Lose(m) ==
  /\ ~Redeliver /\ m \in net
  /\ lost < MaxLoss /\ lost' = lost + 1
  /\ net' = Left(m)
  /\ UNCHANGED <<srvTables, srvLoop, srvClock, restarts, peerVars, hole, crashes>>

\* The server takes a capsule from the network.
Serve(m) ==
  /\ m \in net /\ m.dst = SrvAddr
  /\ SrvReceive(m, Left(m))
  /\ UNCHANGED <<peerVars, envVars>>

ServerAlone ==
  /\ \/ SrvIdle(net) \/ SrvSweep(net) \/ SrvRest(net)
     \/ SrvClock \/ SrvRestart
  /\ UNCHANGED <<peerVars, envVars>>

PeerStep(p) ==
  \/ \E i \in Starts[p] : Start(p, i)
  \/ Crash(p)
  \/ Register(p)
  \/ \E kind \in Kinds : Type(p, kind)
  \/ \E m \in net : Receive(p, m)

Next ==
  \/ ServerAlone
  \/ \E m \in net : Serve(m) \/ Drop(m) \/ Lose(m)
  \/ \E p \in Peers : PeerStep(p)

Spec == Init /\ [][Next]_vars

\* What the code and the network owe: both loops run for ever, time passes, peers
\* are started, and of the datagrams of one kind between two hosts those that are
\* not among the MaxLoss lost ones arrive.  A datagram waits in the socket of the
\* server while the loop is in its lower half, hence the strong fairness.
Arrive(p, m) == Receive(p, m) \/ (m.dst = At[p] /\ Drop(m))

Fairness ==
  /\ WF_vars(SrvIdle(net) /\ UNCHANGED <<peerVars, envVars>>)
  /\ WF_vars((SrvSweep(net) \/ SrvRest(net)) /\ UNCHANGED <<peerVars, envVars>>)
  /\ WF_vars(Lapse /\ UNCHANGED <<peerVars, envVars>>)
  /\ \A p \in Peers :
       /\ WF_vars(\E i \in Starts[p] : Start(p, i))
       /\ WF_vars(Register(p))
       /\ SF_vars(\E m \in net : m.src = At[p] /\ Serve(m))
       /\ WF_vars(\E m \in net : m.verb = "SRV_SET_PEER" /\ Arrive(p, m))
       /\ \A q \in Peers \ {p} :
            /\ WF_vars(\E m \in net : m.verb = "PER_PING" /\ m.src = At[q] /\ Arrive(p, m))
            /\ WF_vars(\E m \in net : m.verb = "PER_PONG" /\ m.src = At[q] /\ Arrive(p, m))

FairSpec == Spec /\ Fairness

-----------------------------------------------------------------------------
(* Properties.                                                             *)

Datagrams == [verb : Verbs, src : Addr, dst : Addr, enc : Keys \cup {NoKey},
              arg : Id \cup Ipps \cup {NoArg}]

TypeOK ==
  /\ SrvTypeOK
  /\ net \subseteq Datagrams
  /\ run \in [Peers -> {"down", "up", "aborted"}]
  /\ id \in [Peers -> Id]
  /\ status \in [Peers -> {"SRV_UNREGISTERED", "SRV_REGISTERRED", "PER_LINKED"}]
  /\ pset \in [Peers -> SUBSET SockAddrs(Ips, Ports)]
  /\ hole \in [Peers -> SUBSET Addr]
  /\ shown \in [Peers -> SUBSET Addr]
  /\ been \in [Peers -> SUBSET {0, 1}]
  /\ lost \in Nat /\ crashes \in Nat

Holds(p, q) == Received(At[q]) \in pset[p]

\* Have p and q been a provider and a consumer, if not at one time?
Opposite(p, q) == \E s \in been[p], t \in been[q] : s # t

\* A peer links only with peers, and only with one that has had the other role:
\* what pairs them is the server, the peers believe any ping and any answer.
RolesOpposite ==
  "SRV_SET_PEER" \notin Garbled =>
    \A p \in Peers : \A x \in pset[p] :
      \E q \in Peers : x = Received(At[q]) /\ Opposite(p, q)

\* Peers of different keys are introduced to each other all the same, each with the
\* other's key, and their pings are read; what keeps them apart is that the pong is
\* under the key of who answers.
KeyIsolation ==
  "PER_PONG" \notin Garbled =>
    \A p, q \in Peers : Holds(p, q) => PeerKey[p] = PeerKey[q]

\* Whoever is called can read the call, whatever key the caller has: the key it was
\* registered with came through the table and the capsule to the caller.
CallsReadable ==
  "SRV_SET_PEER" \notin Garbled =>
    \A m \in net : m.verb = "PER_PING" =>
      \E q \in Peers : m.dst = At[q] /\ m.enc = PeerKey[q]

\* A link is usable both ways: when p holds q, then each of the two NATs lets the
\* other's datagrams in, whatever was lost or repeated on the way there.
LinkedReachable ==
  \A p, q \in Peers : Holds(p, q) =>
    /\ p \in Natted => At[q] \in hole[p]
    /\ q \in Natted => At[p] \in hole[q]

\* A peer stops registering only when it has someone to talk to, or a datagram of
\* one that has had the other role was read as PER_DATA, which it takes for a link.
LinkedHasPeer ==
  "SRV_SET_PEER" \notin Garbled =>
    \A p \in Peers : run[p] = "up" /\ status[p] = "PER_LINKED" =>
      \/ pset[p] # {}
      \/ "PER_DATA" \in Garbled /\ \E q \in Peers : At[q] \in shown[p] /\ Opposite(p, q)

\* Text is shown only if a peer that has had the other role sent it: the test that
\* lets it through compares ports, and the one on PER_DATA nothing at all.
ShownFromOpposite ==
  "SRV_SET_PEER" \notin Garbled =>
    \A p \in Peers : \A a \in shown[p] :
      \E q \in Peers : a = At[q] /\ Opposite(p, q)

\* Garbage is not read both as an introduction, whose ping has no key but garbage,
\* and as a pong, which that ping would be.
GarbageLinksNobody == "SRV_SET_PEER" \notin Garbled \/ "PER_PONG" \notin Garbled

\* A peer on the server's port is left alone, whatever keys are in use: what it sends
\* is taken for the server's word, so nobody links with it and it links with nobody.
\* The pings that reach it are under its own key, so it reads no pong in them.
ServerPortNeverLinks ==
  GarbageLinksNobody =>
    \A p \in Peers : At[p].port = SrvAddr.port =>
      pset[p] = {} /\ \A q \in Peers : ~Holds(q, p)

\* assert(bytes==0) in _received never fails: no line of text comes from the
\* server's port, because nothing that comes from there makes a link.
NoAbort == GarbageLinksNobody => \A p \in Peers : run[p] # "aborted"

\* "PONG to (LINKED)": a peer whose answer to a ping arrives is one of _pers.
PongLinks ==
  [][\A p, q \in Peers :
       (\E m \in net : /\ m.verb = "PER_PONG" /\ m.src = At[q] /\ m.enc = PeerKey[p]
                      /\ Receive(p, m))
         => Holds(p, q)']_vars

\* Two peers of opposite roles that run, with one key that the server knows, get
\* to hold each other and keep it so: after losses, and through both their NATs.
Meet(p, q) ==
  /\ \A i \in Starts[p], j \in Starts[q] : i.typ # j.typ
  /\ PeerKey[p] = PeerKey[q] /\ PeerKey[p] \in Mids

LinkEventually == \A p, q \in Peers : Meet(p, q) => <>[]Holds(p, q)

\* Consumers are linked with the provider of their group.
SameGroup ==
  \A p, q \in Peers : Holds(p, q) =>
    \E i \in Starts[p], j \in Starts[q] : i.grp = j.grp
=============================================================================
