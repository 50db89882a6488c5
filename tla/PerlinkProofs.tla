--------------------------- MODULE PerlinkProofs ---------------------------
(***************************************************************************)
(* What holds of the whole system for every value of its constants: any    *)
(* number of peers at any endpoints, with any keys and NATs, over a network*)
(* that loses, delays, reorders and, with Redeliver, repeats.              *)
(*                                                                         *)
(* The server's half of the invariant is that of UServerProofs, whose      *)
(* lemmas on its steps are used as they stand.                             *)
(***************************************************************************)
EXTENDS Perlink, UServerProofs

-----------------------------------------------------------------------------
(* What is known of every datagram, row and link.  All of it stays true as *)
(* peers take up roles and NATs learn mappings.                            *)

\* p has a reason to write to a: it was told of a, or of what wrote to it.
Reason(p, a) ==
  "SRV_SET_PEER" \notin Garbled => \E q \in Peers : a = At[q] /\ Opposite(p, q)

\* p has a reason to call a, and unless garbage led it there its call can be read.
Callable(p, a) ==
  /\ a \in Ipps /\ Reason(p, a.addr)
  /\ "SRV_SET_PEER" \notin Garbled => \E q \in Peers : a.addr = At[q] /\ a.key = PeerKey[q]

\* p's NAT, if it has one, lets a's answer in.
Opened(p, a) == p \in Natted => a \in hole[p]

\* What the server sends.
ServerSent(m) ==
  /\ m.src = SrvAddr
  /\ m.verb \in {"SRV_REGISTERRED", "SRV_UNREGISTERED", "SRV_PING", "SRV_SET_PEER"}
  /\ m.verb = "SRV_SET_PEER" =>
       \E p, q \in Peers :
         /\ m.dst = At[q] /\ m.enc = PeerKey[q] /\ Opposite(q, p)
         /\ m.arg = [addr |-> At[p], key |-> PeerKey[p]]

\* What p sends: a registration for one of the roles it had, ...
Registration(p, m) ==
  /\ m.verb = "SRV_REGISTER" /\ m.dst = SrvAddr /\ m.enc = PeerKey[p]
  /\ m.arg \in Id /\ m.arg.typ \in been[p]

\* ... a ping, which whom it is for can read if the introduction was not garbage, ...
Ping(p, m) ==
  /\ m.verb = "PER_PING" /\ Reason(p, m.dst)
  /\ "SRV_SET_PEER" \notin Garbled => \E q \in Peers : m.dst = At[q] /\ m.enc = PeerKey[q]

\* ... a pong under its own key, which is never for one on the server's port, ...
Pong(p, m) ==
  /\ m.verb = "PER_PONG" /\ m.enc = PeerKey[p] /\ Reason(p, m.dst)
  /\ m.dst.port # SrvAddr.port

\* ... or a line, to one it is linked with.
Line(p, m) ==
  /\ m.verb \in {"TEXT", "LONG"} /\ m.enc = NoKey /\ Reason(p, m.dst)
  /\ m.dst.port # SrvAddr.port
  /\ GarbageLinksNobody => m.src.port # SrvAddr.port

PeerSent(p, m) ==
  /\ m.src = At[p] /\ Opened(p, m.dst)
  /\ Registration(p, m) \/ Ping(p, m) \/ Pong(p, m) \/ Line(p, m)

Sound(m) == m \in Datagrams /\ (ServerSent(m) \/ \E p \in Peers : PeerSent(p, m))

NetOK == \A m \in net : Sound(m)

\* A row is that of a peer, with its key and a role it had.
RowsOK ==
  \A r \in pers :
    \E p \in Peers : r.PA = At[p] /\ r.MK = PeerKey[p] /\ r.T \in been[p]

\* What p holds is a peer q that wrote to it.
LinkOK(p, q) ==
  /\ Reason(p, At[q])
  /\ "PER_PONG" \notin Garbled => PeerKey[p] = PeerKey[q]
  /\ Opened(p, At[q]) /\ Opened(q, At[p])
  /\ At[q].port # SrvAddr.port

PeerOK(p) ==
  /\ \A x \in pset[p] : \E q \in Peers : x = Received(At[q]) /\ LinkOK(p, q)
  /\ \A a \in shown[p] : a \in Addr /\ Reason(p, a)
  /\ run[p] = "up" /\ status[p] = "PER_LINKED" =>
       pset[p] # {} \/ ("PER_DATA" \in Garbled /\ shown[p] # {})
  /\ GarbageLinksNobody => run[p] # "aborted" /\ (At[p].port = SrvAddr.port => pset[p] = {})

PeerTypes ==
  /\ run \in [Peers -> {"down", "up", "aborted"}]
  /\ id \in [Peers -> Id]
  /\ status \in [Peers -> {"SRV_UNREGISTERED", "SRV_REGISTERRED", "PER_LINKED"}]
  /\ pset \in [Peers -> SUBSET SockAddrs(Ips, Ports)]
  /\ hole \in [Peers -> SUBSET Addr]
  /\ shown \in [Peers -> SUBSET Addr]
  /\ been \in [Peers -> SUBSET {0, 1}]
  /\ lost \in Nat /\ crashes \in Nat

\* The inductive invariant.  Of a peer p that runs, been[p] has the role it was
\* started in.
Inv ==
  /\ SrvInv /\ PeerTypes /\ NetOK /\ RowsOK
  /\ \A p \in Peers : PeerOK(p) /\ (run[p] = "up" => id[p].typ \in been[p])

-----------------------------------------------------------------------------
(* Endpoints, and what is kept as been and hole grow.                      *)

\* A comparison with the server's address is one of ports (SADDR_46::operator==).
LEMMA FromServerPort ==
  ASSUME NEW m, m.src \in Addr
  PROVE  FromServer(m) <=> m.src.port = SrvAddr.port
<1>1. m.src.port # 0 /\ SrvAddr.port # 0
  BY UServerAssumption DEF UServerAssumption, Addr, Endpoint
<1> QED BY <1>1 DEF FromServer, SEq, Received, Configured, MaskedIp

\* The endpoints and keys of the system.
LEMMA Hosts ==
  /\ SrvAddr \in Addr /\ Mids \subseteq Keys /\ NoKey \notin Keys
  /\ \A p \in Peers : At[p] \in Addr /\ At[p] # SrvAddr /\ PeerKey[p] \in Keys
  /\ \A p, q \in Peers : At[p] = At[q] => p = q
BY UServerAssumption, PerlinkAssumption DEF UServerAssumption, PerlinkAssumption

\* An endpoint comes back from a received address.
LEMMA EndpointBack ==
  ASSUME NEW a \in Addr
  PROVE  /\ EndpointOf(Received(a)) = a
         /\ Received(a) \in SockAddrs(Ips, Ports)
         /\ \A b \in Addr : Received(a) = Received(b) => a = b
<1>1. EndpointOf(Received(a)) = a
  BY DEF EndpointOf, Received, Addr, Endpoint
<1>2. Received(a) \in SockAddrs(Ips, Ports)
  BY DEF Received, SockAddrs, Addr, Endpoint
<1>3. ASSUME NEW b \in Addr, Received(a) = Received(b) PROVE a = b
  <2>1. EndpointOf(Received(b)) = b
    BY DEF EndpointOf, Received, Addr, Endpoint
  <2> QED BY <1>1, <1>3, <2>1
<1> QED BY <1>1, <1>2, <1>3

\* Peers take up roles and NATs learn, and neither is ever taken back.
Grown == \A p \in Peers : been[p] \subseteq been'[p] /\ hole[p] \subseteq hole'[p]

LEMMA ReasonGrows ==
  ASSUME Grown, NEW p \in Peers, NEW a, Reason(p, a)
  PROVE  Reason(p, a)'
BY DEF Grown, Reason, Opposite

LEMMA OpenedGrows ==
  ASSUME Grown, NEW p \in Peers, NEW a, Opened(p, a)
  PROVE  Opened(p, a)'
BY DEF Grown, Opened

LEMMA SoundGrows ==
  ASSUME Grown, NEW m, Sound(m)
  PROVE  Sound(m)'
<1>1. m \in Datagrams
  BY DEF Sound
<1>2. CASE ServerSent(m)
  BY <1>1, <1>2 DEF Sound, ServerSent, Opposite, Grown
<1>3. ASSUME NEW p \in Peers, PeerSent(p, m)
      PROVE  PeerSent(p, m)'
  <2>1. Opened(p, m.dst)'
    BY <1>3, OpenedGrows DEF PeerSent
  <2>2. Registration(p, m) => Registration(p, m)'
    BY DEF Registration, Grown
  <2>3. (Ping(p, m) => Ping(p, m)') /\ (Pong(p, m) => Pong(p, m)')
    BY ReasonGrows DEF Ping, Pong
  <2>4. Line(p, m) => Line(p, m)'
    BY ReasonGrows DEF Line
  <2> QED BY <1>3, <2>1, <2>2, <2>3, <2>4 DEF PeerSent
<1> QED BY <1>1, <1>2, <1>3 DEF Sound

LEMMA LinkGrows ==
  ASSUME Grown, NEW p \in Peers, NEW q \in Peers, LinkOK(p, q)
  PROVE  LinkOK(p, q)'
BY ReasonGrows, OpenedGrows DEF LinkOK

\* Links that stay are as good as before, and so is what was shown.
LEMMA LinksStay ==
  ASSUME Grown, NEW p \in Peers, PeerOK(p)
  PROVE  /\ \A x \in pset[p] : \E q \in Peers : x = Received(At[q]) /\ LinkOK(p, q)'
         /\ \A a \in shown[p] : a \in Addr /\ Reason(p, a)'
<1>1. \A x \in pset[p] : \E q \in Peers : x = Received(At[q]) /\ LinkOK(p, q)'
  BY LinkGrows DEF PeerOK
<1>2. \A a \in shown[p] : a \in Addr /\ Reason(p, a)'
  BY ReasonGrows DEF PeerOK
<1> QED BY <1>1, <1>2

LEMMA PeerStays ==
  ASSUME Grown, NEW p \in Peers, PeerOK(p), run'[p] = run[p], status'[p] = status[p],
         pset'[p] = pset[p], shown'[p] = shown[p]
  PROVE  PeerOK(p)'
<1>1. \A x \in pset'[p] : \E q \in Peers : x = Received(At[q]) /\ LinkOK(p, q)'
  BY LinksStay
<1>2. \A a \in shown'[p] : a \in Addr /\ Reason(p, a)'
  BY LinksStay
<1> QED BY <1>1, <1>2 DEF PeerOK

\* What a step of p alone must keep.
LEMMA PeerStepInv ==
  ASSUME Inv, UNCHANGED <<srvTables, srvLoop, srvClock, restarts>>, Grown, PeerTypes',
         \A m \in net' : m \in net \/ Sound(m)',
         NEW p \in Peers,
         \A q \in Peers \ {p} :
           /\ run'[q] = run[q] /\ id'[q] = id[q] /\ status'[q] = status[q]
           /\ pset'[q] = pset[q] /\ shown'[q] = shown[q],
         PeerOK(p)', run'[p] = "up" => id'[p].typ \in been'[p]
  PROVE  Inv'
<1>1. SrvInv'
  BY SrvStandsStill DEF Inv
<1>2. NetOK'
  BY SoundGrows DEF Inv, NetOK
<1>3. RowsOK'
  BY DEF Inv, RowsOK, srvTables, Grown
<1>4. ASSUME NEW q \in Peers
      PROVE  PeerOK(q)' /\ (run'[q] = "up" => id'[q].typ \in been'[q])
  <2>1. CASE q = p
    BY <2>1
  <2>2. CASE q # p
    <3>1. PeerOK(q)'
      BY <2>2, PeerStays DEF Inv
    <3> QED BY <2>2, <3>1 DEF Inv, Grown
  <2> QED BY <2>1, <2>2
<1> QED BY <1>1, <1>2, <1>3, <1>4 DEF Inv

\* A peer that sends opens its NAT for the answers.
LEMMA PunchOpens ==
  ASSUME hole \in [Peers -> SUBSET Addr], NEW p \in Peers, NEW to \in SUBSET Addr,
         Punch(p, to)
  PROVE  /\ hole' \in [Peers -> SUBSET Addr]
         /\ \A q \in Peers : hole[q] \subseteq hole'[q]
         /\ \A a \in to : Opened(p, a)'
BY DEF Punch, Opened
-----------------------------------------------------------------------------
(* The server's steps.                                                     *)

\* What a step of the server must keep.
LEMMA ServerStepInv ==
  ASSUME Inv, SrvInv', UNCHANGED <<peerVars, envVars>>, RowsOK',
         \A m \in net' : m \in net \/ (m \in Datagrams /\ ServerSent(m))
  PROVE  Inv'
<1>1. Grown
  BY DEF Grown, peerVars, envVars
<1>2. NetOK'
  <2> SUFFICES ASSUME NEW m \in net' PROVE Sound(m)'
    BY DEF NetOK
  <2>1. Sound(m)
    BY DEF Inv, NetOK, Sound
  <2> QED BY <1>1, <2>1, SoundGrows
<1>3. PeerTypes'
  BY DEF Inv, PeerTypes, peerVars, envVars
<1>4. \A p \in Peers : PeerOK(p)'
  BY <1>1, PeerStays DEF Inv, peerVars
<1>5. \A p \in Peers : run'[p] = "up" => id'[p].typ \in been'[p]
  BY DEF Inv, peerVars
<1> QED BY <1>2, <1>3, <1>4, <1>5 DEF Inv

\* A sweep tells the owner of a row of the endpoint of another, of a role that is
\* not its own (_ping_pers).
LEMMA NoticesSound ==
  ASSUME Inv, NEW rows \in SUBSET pers, NEW m \in Notices(rows)
  PROVE  m \in Datagrams /\ ServerSent(m)
<1>1. \A r \in rows : r.PA \in Addr /\ r.MK \in Keys /\ r \in pers
  BY UServerAssumption DEF Inv, SrvInv, SrvTypeOK, Row, UServerAssumption
<1>2. SrvAddr \in Addr
  BY UServerAssumption DEF UServerAssumption
<1>3. ASSUME NEW r \in rows, m = SrvPing(r)
      PROVE  m \in Datagrams /\ ServerSent(m)
  BY <1>1, <1>2, <1>3 DEF SrvPing, Datagram, Datagrams, Verbs, SrvVerbs, ServerSent
<1>4. ASSUME NEW r \in rows, NEW s \in rows, Matched(r, s), m = SetPeer(r, s)
      PROVE  m \in Datagrams /\ ServerSent(m)
  <2>1. PICK p \in Peers : r.PA = At[p] /\ r.MK = PeerKey[p] /\ r.T \in been[p]
    BY <1>1 DEF Inv, RowsOK
  <2>2. PICK q \in Peers : s.PA = At[q] /\ s.MK = PeerKey[q] /\ s.T \in been[q]
    BY <1>1 DEF Inv, RowsOK
  <2>3. Opposite(q, p)
    BY <1>4, <2>1, <2>2 DEF Opposite, Matched
  <2>4. m = [verb |-> "SRV_SET_PEER", src |-> SrvAddr, dst |-> s.PA, enc |-> s.MK,
             arg |-> [addr |-> r.PA, key |-> r.MK]]
    BY <1>4 DEF SetPeer, Ipp, Datagram
  <2>5. m \in Datagrams
    BY <1>1, <1>2, <2>4 DEF Datagrams, Ipps, Verbs, SrvVerbs
  <2>6. ServerSent(m)
    BY <2>1, <2>2, <2>3, <2>4 DEF ServerSent
  <2> QED BY <2>5, <2>6
<1> QED BY <1>3, <1>4 DEF Notices

\* The answers to a capsule go to its source (_store_peer, _remove_peer).
LEMMA AnswersSound ==
  ASSUME NEW m \in Datagrams, NEW keep, SrvReceive(m, keep), keep \subseteq net
  PROVE  \A n \in net' : n \in net \/ (n \in Datagrams /\ ServerSent(n))
<1>1. m.src \in Addr /\ SrvAddr \in Addr
  BY UServerAssumption DEF Datagrams, UServerAssumption
<1>2. m.enc \in Mids => /\ Registerred(m.src, m.enc) \in Datagrams
                        /\ ServerSent(Registerred(m.src, m.enc))
  BY <1>1, UServerAssumption
     DEF Registerred, Datagram, Datagrams, Verbs, SrvVerbs, ServerSent, UServerAssumption
<1>3. Unregistered(m.src) \in Datagrams /\ ServerSent(Unregistered(m.src))
  BY <1>1 DEF Unregistered, Datagram, Datagrams, Verbs, SrvVerbs, ServerSent
<1>4. CASE SrvRegister(m, keep)
  <2>1. m.enc \in Mids
    BY <1>4 DEF SrvRegister, Accepted
  <2>2. net' \subseteq keep \cup {Registerred(m.src, m.enc)}
    BY <1>4 DEF SrvRegister, StorePeer, Posted
  <2> QED BY <1>2, <2>1, <2>2
<1>5. CASE SrvUnregister(m, keep)
  BY <1>3, <1>5 DEF SrvUnregister, Posted
<1>6. CASE SrvDeny(m, keep) \/ SrvHereIAm(m, keep) \/ SrvOther(m, keep)
  BY <1>6 DEF SrvDeny, SrvHereIAm, SrvOther
<1> QED BY <1>4, <1>5, <1>6 DEF SrvReceive

\* A new row is its sender's; the UPDATEs leave address, key and role alone.
LEMMA ServeRows ==
  ASSUME Inv, NEW m \in net, NEW keep, SrvReceive(m, keep), been' = been
  PROVE  RowsOK'
<1>1. ASSUME NEW rows, NEW s \in Stamped(rows)
      PROVE  \E p \in Peers : s.PA = At[p] /\ s.MK = PeerKey[p] /\ s.T \in been[p]
  <2>1. PICK r \in pers : s = IF r \in rows THEN [r EXCEPT !.D = day] ELSE r
    BY <1>1 DEF Stamped
  <2>2. s.PA = r.PA /\ s.MK = r.MK /\ s.T = r.T
    BY <2>1 DEF Inv, SrvInv, SrvTypeOK, Row
  <2> QED BY <2>2 DEF Inv, RowsOK
<1>2. CASE SrvRegister(m, keep)
  <2>1. m.verb = "SRV_REGISTER"
    BY <1>2 DEF SrvRegister, Accepted
  <2>2. PICK p \in Peers : PeerSent(p, m) /\ Registration(p, m)
    BY <2>1 DEF Inv, NetOK, Sound, ServerSent, PeerSent, Ping, Pong, Line
  <2>3. \A refs : LET row == NewRow(m, refs)
                  IN row.PA = At[p] /\ row.MK = PeerKey[p] /\ row.T \in been[p]
    BY <2>2 DEF NewRow, PeerSent, Registration
  <2>4. \/ pers' = pers
        \/ \E refs : pers' = pers \cup {NewRow(m, refs)}
        \/ \E rows : pers' = Stamped(rows)
    <3>1. CASE prev = Capsule(m)
      BY <1>2, <3>1 DEF SrvRegister
    <3>2. CASE prev # Capsule(m)
      BY <1>2, <3>2 DEF SrvRegister, StorePeer
    <3> QED BY <3>1, <3>2
  <2> QED BY <1>1, <2>3, <2>4 DEF Inv, RowsOK
<1>3. CASE SrvHereIAm(m, keep)
  <2>1. pers' = pers \/ \E rows : pers' = Stamped(rows)
    BY <1>3 DEF SrvHereIAm
  <2> QED BY <1>1, <2>1 DEF Inv, RowsOK
<1>4. CASE SrvDeny(m, keep) \/ SrvUnregister(m, keep) \/ SrvOther(m, keep)
  BY <1>4 DEF SrvDeny, SrvUnregister, RemovePeer, SrvOther, srvTables, Inv, RowsOK
<1> QED BY <1>2, <1>3, <1>4 DEF SrvReceive

\* What reaches the server has a source, and an id if it registers somebody.
LEMMA ReachesServer ==
  ASSUME Inv, NEW m \in net
  PROVE  m \in Datagrams /\ CapOK(m)
BY DEF Inv, NetOK, Sound, ServerSent, PeerSent, Registration, Ping, Pong, Line, CapOK, Datagrams

LEMMA ServeInv ==
  ASSUME Inv, NEW m \in net, Serve(m)
  PROVE  Inv'
<1>1. SrvReceive(m, Left(m)) /\ UNCHANGED <<peerVars, envVars>> /\ Left(m) \subseteq net
  BY DEF Serve, Left
<1>2. m \in Datagrams /\ CapOK(m)
  BY ReachesServer
<1>3. SrvInv'
  BY <1>1, <1>2, SrvReceiveInv DEF Inv
<1>4. RowsOK'
  BY <1>1, ServeRows DEF peerVars
<1>5. \A n \in net' : n \in net \/ (n \in Datagrams /\ ServerSent(n))
  BY <1>1, <1>2, AnswersSound
<1> QED BY <1>1, <1>3, <1>4, <1>5, ServerStepInv

LEMMA ServerAloneInv ==
  ASSUME Inv, ServerAlone
  PROVE  Inv'
<1>1. UNCHANGED <<peerVars, envVars>> /\ been' = been
  BY DEF ServerAlone, peerVars
<1>2. SrvInv'
  BY SrvIdleInv, SrvSweepInv, SrvClockInv DEF ServerAlone, Inv
<1>3. pers' \subseteq pers
  BY DEF ServerAlone, SrvIdle, SrvSweep, SrvRest, SrvClock, Lapse, Midnight, HalfMinute,
         SrvRestart, srvTables
<1>4. RowsOK'
  BY <1>1, <1>3 DEF Inv, RowsOK
<1>5. ASSUME NEW m \in net', m \notin net
      PROVE  m \in Datagrams /\ ServerSent(m)
  <2>1. SrvSweep(net)
    BY <1>5 DEF ServerAlone, SrvIdle, SrvRest, SrvClock, Lapse, Midnight, HalfMinute, SrvRestart
  <2>2. PICK listed \in SqlResult : net' = Posted(net, Notices(GetPers(listed)))
    BY <2>1 DEF SrvSweep
  <2>3. m \in Notices(GetPers(listed)) /\ GetPers(listed) \subseteq pers
    BY <1>5, <2>2 DEF Posted, GetPers
  <2> QED BY <2>3, NoticesSound
<1> QED BY <1>1, <1>2, <1>4, <1>5, ServerStepInv
-----------------------------------------------------------------------------
(* A peer's steps of its own accord.                                       *)

LEMMA StartInv ==
  ASSUME Inv, NEW p \in Peers, NEW i \in Starts[p], Start(p, i)
  PROVE  Inv'
<1>1. i \in Id /\ i.typ \in {0, 1}
  BY PerlinkAssumption DEF PerlinkAssumption, Id
<1>2. UNCHANGED <<srvVars, pset, shown, hole, lost, crashes>>
  BY DEF Start, envVars
<1>3. PeerTypes'
  BY <1>1, <1>2 DEF Start, Inv, PeerTypes
<1>4. Grown
  BY <1>2 DEF Start, Inv, PeerTypes, Grown
<1>5. /\ run'[p] = "up" /\ status'[p] = "SRV_UNREGISTERED" /\ i.typ \in been'[p] /\ id'[p] = i
      /\ \A q \in Peers \ {p} : run'[q] = run[q] /\ id'[q] = id[q] /\ status'[q] = status[q]
  BY DEF Start, Inv, PeerTypes
<1>6. PeerOK(p)'
  <2>1. PeerOK(p)
    BY DEF Inv
  <2> QED BY <1>2, <1>4, <1>5, <2>1, LinksStay DEF PeerOK
<1> QED BY <1>2, <1>3, <1>4, <1>5, <1>6, PeerStepInv DEF srvVars

LEMMA CrashInv ==
  ASSUME Inv, NEW p \in Peers, Crash(p)
  PROVE  Inv'
<1>1. UNCHANGED <<srvVars, id, been, status, hole, lost>> /\ Grown
  BY DEF Crash, Grown
<1>2. PeerTypes'
  BY <1>1 DEF Crash, Inv, PeerTypes
<1>3. /\ run'[p] = "down" /\ pset'[p] = {} /\ shown'[p] = {}
      /\ \A q \in Peers \ {p} : run'[q] = run[q] /\ pset'[q] = pset[q] /\ shown'[q] = shown[q]
  BY DEF Crash, Inv, PeerTypes
<1>4. PeerOK(p)'
  BY <1>3 DEF PeerOK
<1> QED BY <1>1, <1>2, <1>3, <1>4, PeerStepInv DEF srvVars

\* A step in which a peer only sends.
LEMMA SendsInv ==
  ASSUME Inv, NEW p \in Peers, NEW to \in SUBSET Addr, Punch(p, to),
         UNCHANGED <<srvTables, srvLoop, srvClock, restarts, peerVars, lost, crashes>>,
         \A m \in net' : m \in net \/ Sound(m)'
  PROVE  Inv'
<1>1. hole' \in [Peers -> SUBSET Addr] /\ \A q \in Peers : hole[q] \subseteq hole'[q]
  BY PunchOpens DEF Inv, PeerTypes
<1>2. Grown
  BY <1>1 DEF Grown, peerVars
<1>3. PeerTypes'
  BY <1>1 DEF Inv, PeerTypes, peerVars
<1>4. PeerOK(p)'
  BY <1>2, PeerStays DEF Inv, peerVars
<1> QED BY <1>2, <1>3, <1>4, PeerStepInv DEF Inv, peerVars

LEMMA RegisterInv ==
  ASSUME Inv, NEW p \in Peers, Register(p)
  PROVE  Inv'
<1>0. PICK m : m = Datagram("SRV_REGISTER", At[p], SrvAddr, PeerKey[p], id[p])
  OBVIOUS
<1>1. SrvAddr \in Addr /\ At[p] \in Addr /\ PeerKey[p] \in Keys /\ id[p] \in Id
  BY Hosts DEF Inv, PeerTypes
<1>2. Punch(p, {SrvAddr}) /\ UNCHANGED peerVars
  BY DEF Register
<1>3. Opened(p, SrvAddr)'
  BY <1>1, <1>2, PunchOpens DEF Inv, PeerTypes
<1>4. m = [verb |-> "SRV_REGISTER", src |-> At[p], dst |-> SrvAddr, enc |-> PeerKey[p],
           arg |-> id[p]]
  BY <1>0 DEF Datagram
<1>5. m \in Datagrams
  BY <1>1, <1>4 DEF Datagrams, Verbs, SrvVerbs
<1>6. PeerSent(p, m)'
  BY <1>1, <1>2, <1>3, <1>4 DEF PeerSent, Registration, Register, Inv, peerVars
<1>7. net' = net \cup {m}
  BY <1>0 DEF Register
<1> QED BY <1>1, <1>5, <1>6, <1>7, SendsInv DEF Register, Sound

LEMMA TypeInv ==
  ASSUME Inv, NEW p \in Peers, NEW kind \in Kinds, Type(p, kind)
  PROVE  Inv'
<1> DEFINE to == {EndpointOf(x) : x \in pset[p]}
<1>1. At[p] \in Addr /\ kind \in {"TEXT", "LONG"}
  BY Hosts, PerlinkAssumption DEF PerlinkAssumption
<1>2. \A x \in pset[p] : \E q \in Peers : EndpointOf(x) = At[q] /\ LinkOK(p, q)
  BY Hosts, EndpointBack DEF Inv, PeerOK
<1>3. to \in SUBSET Addr
  BY <1>2, Hosts
<1>4. Punch(p, to) /\ UNCHANGED peerVars
  BY DEF Type
<1> HIDE DEF to
<1>5. /\ \A q \in Peers : hole[q] \subseteq hole'[q]
      /\ \A a \in to : Opened(p, a)'
  BY <1>3, <1>4, PunchOpens DEF Inv, PeerTypes
<1>6. Grown
  BY <1>4, <1>5 DEF Grown, peerVars
<1>7. GarbageLinksNobody /\ pset[p] # {} => At[p].port # SrvAddr.port
  BY DEF Inv, PeerOK
<1>8. ASSUME NEW m \in Lines(p, kind)
      PROVE  Sound(m)'
  <2>1. PICK x \in pset[p] : m = Datagram(kind, At[p], EndpointOf(x), NoKey, NoArg)
    BY <1>8 DEF Lines
  <2>2. PICK q \in Peers : EndpointOf(x) = At[q] /\ LinkOK(p, q)
    BY <1>2
  <2>3. m = [verb |-> kind, src |-> At[p], dst |-> At[q], enc |-> NoKey, arg |-> NoArg]
    BY <2>1, <2>2 DEF Datagram
  <2>4. m \in Datagrams
    BY <1>1, <2>3, Hosts DEF Datagrams, Verbs
  <2>5. Opened(p, At[q])'
    BY <1>5, <2>1, <2>2 DEF to
  <2>6. Reason(p, At[q])' /\ At[q].port # SrvAddr.port
    BY <1>6, <2>2, ReasonGrows DEF LinkOK
  <2>7. PeerSent(p, m)'
    BY <1>1, <1>7, <2>1, <2>3, <2>5, <2>6 DEF PeerSent, Line
  <2> QED BY <2>4, <2>7 DEF Sound
<1> QED BY <1>3, <1>4, <1>8, SendsInv DEF Type

-----------------------------------------------------------------------------
(* A datagram at a peer.                                                   *)

\* It is the server's, or one of another peer that p may well answer: if q had a
\* reason to write to p then p has one to write to q.
LEMMA Heard ==
  ASSUME Inv, NEW p \in Peers, NEW m \in net, Arrives(p, m), ~ServerSent(m)
  PROVE  \E q \in Peers :
           /\ m.src = At[q] /\ m.dst = At[p] /\ m.src \in Addr
           /\ Reason(p, At[q]) /\ Opened(p, At[q]) /\ Opened(q, At[p])
           /\ Ping(q, m) \/ Pong(q, m) \/ Line(q, m)
<1>1. PICK q \in Peers : PeerSent(q, m)
  BY DEF Inv, NetOK, Sound
<1>2. m.dst = At[p] /\ Opened(p, m.src)
  BY DEF Arrives, Opened
<1>3. ~Registration(q, m)
  BY <1>2, Hosts DEF Registration
<1>4. Reason(q, At[p])
  BY <1>1, <1>2, <1>3 DEF PeerSent, Ping, Pong, Line
<1>5. Reason(p, At[q])
  BY <1>4, Hosts DEF Reason, Opposite
<1> QED BY <1>1, <1>2, <1>3, <1>5, Hosts DEF PeerSent

\* What p reads as a verb of another is one that was garbled, or was written with p's key.
LEMMA ReadOrGarbled ==
  ASSUME NEW p \in Peers, NEW m, NEW verb \in Deciphered(p, m)
  PROVE  verb \in Garbled \/ (m.enc = PeerKey[p] /\ verb = m.verb)
BY DEF Deciphered

LEMMA PingSound ==
  ASSUME NEW p \in Peers, NEW a, Opened(p, a.addr)', Callable(p, a)'
  PROVE  Sound(PerPing(p, a))'
<1>1. PerPing(p, a) =
        [verb |-> "PER_PING", src |-> At[p], dst |-> a.addr, enc |-> a.key, arg |-> NoArg]
  BY DEF PerPing, Datagram
<1>2. PerPing(p, a) \in Datagrams
  BY <1>1, Hosts DEF Callable, Datagrams, Ipps, Verbs, PerVerbs
<1>3. PeerSent(p, PerPing(p, a))'
  BY <1>1 DEF Callable, PeerSent, Ping
<1> QED BY <1>2, <1>3 DEF Sound

LEMMA PongSound ==
  ASSUME NEW p \in Peers, NEW a \in Addr, a.port # SrvAddr.port, Opened(p, a)', Reason(p, a)'
  PROVE  Sound(PerPong(p, a))'
<1>1. PerPong(p, a) =
        [verb |-> "PER_PONG", src |-> At[p], dst |-> a, enc |-> PeerKey[p], arg |-> NoArg]
  BY DEF PerPong, Datagram
<1>2. PerPong(p, a) \in Datagrams
  BY <1>1, Hosts DEF Datagrams, Verbs, PerVerbs
<1>3. PeerSent(p, PerPong(p, a))'
  BY <1>1 DEF PeerSent, Pong
<1> QED BY <1>2, <1>3 DEF Sound

\* A step in which p takes in m.
LEMMA TakesInv ==
  ASSUME Inv, NEW p \in Peers, NEW m \in net, NEW replies, Send(p, m, replies),
         \A r \in replies : r.dst \in Addr,
         Grown => \A r \in replies : Opened(p, r.dst)' => Sound(r)',
         UNCHANGED <<srvTables, srvLoop, srvClock, restarts, id, been, lost, crashes>>,
         run' \in [Peers -> {"down", "up", "aborted"}],
         status' \in [Peers -> {"SRV_UNREGISTERED", "SRV_REGISTERRED", "PER_LINKED"}],
         pset' \in [Peers -> SUBSET SockAddrs(Ips, Ports)],
         shown' \in [Peers -> SUBSET Addr],
         \A q \in Peers \ {p} :
           /\ run'[q] = run[q] /\ status'[q] = status[q]
           /\ pset'[q] = pset[q] /\ shown'[q] = shown[q],
         run[p] = "up",
         Grown => PeerOK(p)'
  PROVE  Inv'
<1>1. Punch(p, {r.dst : r \in replies}) /\ {r.dst : r \in replies} \in SUBSET Addr
  BY DEF Send
<1>2. /\ hole' \in [Peers -> SUBSET Addr] /\ \A q \in Peers : hole[q] \subseteq hole'[q]
      /\ \A r \in replies : Opened(p, r.dst)'
  BY <1>1, PunchOpens DEF Inv, PeerTypes
<1>3. Grown
  BY <1>2 DEF Grown
<1>4. \A n \in net' : n \in net \/ Sound(n)'
  BY <1>2, <1>3 DEF Send, Left
<1>5. PeerTypes'
  BY <1>2 DEF Inv, PeerTypes
<1>6. id'[p].typ \in been'[p]
  BY DEF Inv
<1> QED BY <1>3, <1>4, <1>5, <1>6, PeerStepInv

\* It takes in m and neither answers nor learns anything.
LEMMA ShortTextInv ==
  ASSUME Inv, NEW p \in Peers, NEW m \in net, Arrives(p, m), ShortText(p, m),
         UNCHANGED <<srvTables, srvLoop, srvClock, restarts, id, been, lost, crashes>>
  PROVE  Inv'
<1>1. ~ServerSent(m)
  BY DEF ShortText, ServerSent
<1>2. m.src \in Addr /\ Reason(p, m.src)
  BY <1>1, Heard
<1>3. shown' = shown \/ shown' = [shown EXCEPT ![p] = @ \cup {m.src}]
  BY DEF ShortText
<1>4. /\ shown' \in [Peers -> SUBSET Addr] /\ shown[p] \subseteq shown'[p]
      /\ shown'[p] \subseteq shown[p] \cup {m.src}
  BY <1>2, <1>3 DEF Inv, PeerTypes
<1>5. UNCHANGED <<run, status, pset>> /\ Send(p, m, {}) /\ run[p] = "up"
  BY DEF ShortText, Arrives
<1>6. ASSUME Grown PROVE PeerOK(p)'
  BY <1>2, <1>4, <1>5, <1>6, LinksStay, ReasonGrows DEF PeerOK, Inv
<1>7. \A q \in Peers \ {p} : shown'[q] = shown[q]
  BY <1>3 DEF Inv, PeerTypes
<1> QED BY <1>4, <1>5, <1>6, <1>7, TakesInv DEF Inv, PeerTypes

\* _srv_process
LEMMA SrvProcessInv ==
  ASSUME Inv, NEW p \in Peers, NEW m \in net, Arrives(p, m),
         NEW verb \in Deciphered(p, m), SrvProcess(p, m, verb),
         UNCHANGED <<srvTables, srvLoop, srvClock, restarts, id, been, lost, crashes>>
  PROVE  Inv'
<1>1. /\ FromServer(m) /\ UNCHANGED <<pset, shown>> /\ run[p] = "up"
      /\ run' = run \/ (m.verb = "LONG" /\ run' = [run EXCEPT ![p] = "aborted"])
  BY DEF SrvProcess, AfterLoop, Arrives
<1>2. m \in Datagrams /\ m.src.port = SrvAddr.port
  BY <1>1, FromServerPort DEF Inv, NetOK, Sound, Datagrams

\* No line comes from the server's port.
<1>3. GarbageLinksNobody => run' = run
  <2> SUFFICES ASSUME GarbageLinksNobody, m.verb = "LONG" PROVE FALSE
    BY <1>1
  <2>1. ~ServerSent(m)
    BY DEF ServerSent
  <2>2. PICK q \in Peers : Ping(q, m) \/ Pong(q, m) \/ Line(q, m)
    BY <2>1, Heard
  <2> QED BY <1>2, <2>2 DEF Ping, Pong, Line
<1>4. /\ run' \in [Peers -> {"down", "up", "aborted"}]
      /\ run'[p] = "up" \/ run'[p] = "aborted"
      /\ \A q \in Peers \ {p} : run'[q] = run[q]
  BY <1>1 DEF Inv, PeerTypes

\* Neither answer nor ping makes p linked.
<1>5. /\ status' \in [Peers -> {"SRV_UNREGISTERED", "SRV_REGISTERRED", "PER_LINKED"}]
      /\ status'[p] = "PER_LINKED" => status[p] = "PER_LINKED"
      /\ \A q \in Peers \ {p} : status'[q] = status[q]
  <2>1. CASE UNCHANGED status
    BY <2>1 DEF Inv, PeerTypes
  <2>2. CASE SrvAnswered(p, m, verb)
    <3> DEFINE new == IF verb = "SRV_UNREGISTERED" THEN verb
                      ELSE IF status[p] = "SRV_UNREGISTER" THEN "SRV_REGISTERRED" ELSE status[p]
    <3>1. status' = [status EXCEPT ![p] = new]
      BY <2>2 DEF SrvAnswered
    <3>2. /\ new \in {"SRV_UNREGISTERED", "SRV_REGISTERRED", "PER_LINKED"}
          /\ new = "PER_LINKED" => status[p] = "PER_LINKED"
      BY DEF Inv, PeerTypes
    <3> HIDE DEF new
    <3> QED BY <3>1, <3>2 DEF Inv, PeerTypes
  <2> QED BY <2>1, <2>2 DEF SrvProcess, Peering, SrvOtherVerb
<1>6. ASSUME Grown PROVE PeerOK(p)'
  <2>1. /\ \A x \in pset'[p] : \E q \in Peers : x = Received(At[q]) /\ LinkOK(p, q)'
        /\ \A a \in shown'[p] : a \in Addr /\ Reason(p, a)'
    BY <1>1, <1>6, LinksStay DEF Inv
  <2>2. PeerOK(p)
    BY DEF Inv
  <2> QED BY <1>1, <1>3, <1>4, <1>5, <2>1, <2>2 DEF PeerOK

\* What p sends, if anything, is a ping to the endpoint it was told, under the key it
\* was told.
<1>7. PICK replies :
        /\ Send(p, m, replies)
        /\ \A r \in replies : \E a : r = PerPing(p, a) /\ Callable(p, a)
  <2>1. CASE Peering(p, m, verb)
    <3>1. PICK a \in Introduced(p, m) : Send(p, m, {PerPing(p, a)})
      BY <2>1 DEF Peering
    <3>2. Callable(p, a)
      <4>1. CASE m.enc = PeerKey[p]
        <5>1. m.verb = "SRV_SET_PEER" /\ a = m.arg
          BY <2>1, <3>1, <4>1 DEF Peering, Introduced, Deciphered
        <5>2. ServerSent(m)
          BY <5>1 DEF Inv, NetOK, Sound, PeerSent, Registration, Ping, Pong, Line
        <5>3. PICK t, q \in Peers : /\ m.dst = At[q] /\ Opposite(q, t)
                                   /\ m.arg = [addr |-> At[t], key |-> PeerKey[t]]
          BY <5>1, <5>2 DEF ServerSent
        <5>4. q = p
          BY <5>3, Hosts DEF Arrives
        <5>5. a \in Ipps /\ a.addr = At[t] /\ a.key = PeerKey[t]
          BY <5>1, <5>3, Hosts DEF Ipps
        <5> QED BY <5>3, <5>4, <5>5 DEF Callable, Reason
      <4>2. CASE m.enc # PeerKey[p]
        <5>1. "SRV_SET_PEER" \in Garbled
          BY <2>1, <4>2 DEF Peering, Deciphered
        <5> QED BY <3>1, <4>2, <5>1 DEF Introduced, Callable, Ipps, Reason
      <4> QED BY <4>1, <4>2
    <3> QED BY <3>1, <3>2
  <2>2. CASE Send(p, m, {})
    BY <2>2
  <2> QED BY <2>1, <2>2 DEF SrvProcess, SrvAnswered, SrvOtherVerb
<1>8. \A r \in replies : r.dst \in Addr
  BY <1>7 DEF PerPing, Datagram, Callable, Ipps
<1>9. ASSUME Grown, NEW r \in replies, Opened(p, r.dst)' PROVE Sound(r)'
  <2>1. PICK a : r = PerPing(p, a) /\ Callable(p, a)
    BY <1>7
  <2>2. r.dst = a.addr
    BY <2>1 DEF PerPing, Datagram
  <2>3. Callable(p, a)'
    BY <1>9, <2>1, ReasonGrows DEF Callable
  <2> QED BY <1>9, <2>1, <2>2, <2>3, PingSound
<1> QED BY <1>1, <1>4, <1>5, <1>6, <1>7, <1>8, <1>9, TakesInv DEF Inv, PeerTypes

\* _per_process, on what does not come from the server's port.
LEMMA PerProcessInv ==
  ASSUME Inv, NEW p \in Peers, NEW m \in net, Arrives(p, m), m.verb # "TEXT",
         NEW verb \in Deciphered(p, m), PerProcess(p, m, verb),
         UNCHANGED <<srvTables, srvLoop, srvClock, restarts, id, been, lost, crashes>>
  PROVE  Inv'
<1>1. UNCHANGED run /\ run[p] = "up" /\ ~FromServer(m)
  BY DEF PerProcess, Arrives
<1>2. m \in Datagrams /\ m.src.port # SrvAddr.port /\ ~ServerSent(m)
  BY <1>1, FromServerPort DEF Inv, NetOK, Sound, Datagrams, ServerSent
<1>3. PICK q \in Peers :
        /\ m.src = At[q] /\ m.dst = At[p] /\ m.src \in Addr
        /\ Reason(p, At[q]) /\ Opened(p, At[q]) /\ Opened(q, At[p])
        /\ Ping(q, m) \/ Pong(q, m) \/ Line(q, m)
  BY <1>2, Heard
<1>4. /\ Grown => /\ \A x \in pset[p] : \E s \in Peers : x = Received(At[s]) /\ LinkOK(p, s)'
                  /\ \A a \in shown[p] : a \in Addr /\ Reason(p, a)'
      /\ PeerOK(p)
  BY LinksStay DEF Inv
<1>5. CASE Pinged(p, m, verb)
  <2>1. UNCHANGED <<status, pset, shown>> /\ Send(p, m, {PerPong(p, At[q])})
    BY <1>3, <1>5 DEF Pinged
  <2>2. Grown => PeerOK(p)'
    BY <1>1, <2>1, PeerStays DEF Inv
  <2>3. ASSUME Grown, Opened(p, At[q])' PROVE Sound(PerPong(p, At[q]))'
    BY <1>2, <1>3, <2>3, PongSound, ReasonGrows
  <2>4. PerPong(p, At[q]).dst = At[q]
    BY DEF PerPong, Datagram
  <2> QED BY <1>1, <1>3, <2>1, <2>2, <2>3, <2>4, TakesInv DEF Inv, PeerTypes
<1>6. CASE Ponged(p, m, verb)
  <2>1. /\ UNCHANGED shown /\ Send(p, m, {})
        /\ pset' = [pset EXCEPT ![p] = SetInsert(@, Received(At[q]))]
        /\ status' = [status EXCEPT ![p] = "PER_LINKED"] /\ verb = "PER_PONG"
    BY <1>3, <1>6 DEF Ponged
  <2>2. LinkOK(p, q)
    BY <1>2, <1>3, <2>1, ReadOrGarbled DEF LinkOK, Ping, Pong, Line
  \* A pong is never for one on the server's port, and a ping for it is under its key.
  <2>3. ASSUME GarbageLinksNobody, At[p].port = SrvAddr.port PROVE FALSE
    <3>1. CASE m.enc = PeerKey[p] /\ m.verb = "PER_PONG"
      BY <1>3, <2>3, <3>1 DEF Ping, Pong, Line
    <3>2. CASE "PER_PONG" \in Garbled /\ m.enc # PeerKey[p]
      BY <1>3, <2>3, <3>2, Hosts DEF Ping, Pong, Line, GarbageLinksNobody
    <3> QED BY <2>1, <3>1, <3>2 DEF Deciphered
  <2>4. /\ pset'[p] \subseteq pset[p] \cup {Received(At[q])} /\ pset'[p] # {}
        /\ pset' \in [Peers -> SUBSET SockAddrs(Ips, Ports)]
        /\ \A s \in Peers \ {p} : pset'[s] = pset[s]
    <3>1. SetInsert(pset[p], Received(At[q])) \subseteq pset[p] \cup {Received(At[q])}
      BY DEF SetInsert
    <3>2. SetInsert(pset[p], Received(At[q])) # {}
      BY DEF SetInsert
    <3>3. Received(At[q]) \in SockAddrs(Ips, Ports)
      BY Hosts, EndpointBack
    <3> QED BY <2>1, <3>1, <3>2, <3>3 DEF Inv, PeerTypes
  <2>5. Grown => PeerOK(p)'
    BY <1>1, <1>4, <2>1, <2>2, <2>3, <2>4, LinkGrows DEF PeerOK
  <2> QED BY <1>1, <2>1, <2>4, <2>5, TakesInv DEF Inv, PeerTypes
<1>7. CASE DataIn(p, m, verb)
  <2>1. /\ UNCHANGED pset /\ Send(p, m, {}) /\ verb = "PER_DATA"
        /\ shown' = [shown EXCEPT ![p] = @ \cup {m.src}]
        /\ status' = [status EXCEPT ![p] = "PER_LINKED"]
    BY <1>7 DEF DataIn
  <2>2. "PER_DATA" \in Garbled
    BY <1>3, <2>1, ReadOrGarbled DEF Ping, Pong, Line
  <2>3. Grown => PeerOK(p)'
    <3>1. shown'[p] = shown[p] \cup {m.src} /\ shown'[p] # {}
      BY <2>1 DEF Inv, PeerTypes
    <3> QED BY <1>1, <1>3, <1>4, <2>1, <2>2, <3>1, ReasonGrows DEF PeerOK
  <2> QED BY <1>1, <1>3, <2>1, <2>3, TakesInv DEF Inv, PeerTypes
<1>8. CASE PerOtherVerb(p, m, verb)
  <2>1. UNCHANGED <<status, pset, shown>> /\ Send(p, m, {})
    BY <1>8 DEF PerOtherVerb
  <2>2. Grown => PeerOK(p)'
    BY <1>1, <2>1, PeerStays DEF Inv
  <2> QED BY <1>1, <2>1, <2>2, TakesInv DEF Inv, PeerTypes
<1> QED BY <1>5, <1>6, <1>7, <1>8 DEF PerProcess

LEMMA ReceiveInv ==
  ASSUME Inv, NEW p \in Peers, NEW m \in net, Receive(p, m)
  PROVE  Inv'
<1>1. /\ Arrives(p, m)
      /\ UNCHANGED <<srvTables, srvLoop, srvClock, restarts, id, been, lost, crashes>>
  BY DEF Receive
<1>2. CASE ShortText(p, m)
  BY <1>1, <1>2, ShortTextInv
<1>3. ASSUME m.verb # "TEXT", NEW verb \in Deciphered(p, m),
             SrvProcess(p, m, verb) \/ PerProcess(p, m, verb)
      PROVE  Inv'
  BY <1>1, <1>3, SrvProcessInv, PerProcessInv
<1> QED BY <1>2, <1>3 DEF Receive

LEMMA VanishInv ==
  ASSUME Inv, NEW m \in net, Drop(m) \/ Lose(m)
  PROVE  Inv'
<1>1. /\ UNCHANGED <<srvTables, srvLoop, srvClock, restarts, peerVars, hole, crashes>>
      /\ net' \subseteq net /\ (lost' = lost \/ lost' = lost + 1)
  BY DEF Drop, Lose, Left, envVars
<1>2. SrvInv'
  BY <1>1, SrvStandsStill DEF Inv
<1>3. Grown
  BY <1>1 DEF Grown, peerVars
<1>4. NetOK'
  BY <1>1, <1>3, SoundGrows DEF Inv, NetOK
<1>5. RowsOK'
  BY <1>1 DEF Inv, RowsOK, srvTables, peerVars
<1>6. PeerTypes'
  BY <1>1 DEF Inv, PeerTypes, peerVars
<1>7. \A p \in Peers : PeerOK(p)' /\ (run'[p] = "up" => id'[p].typ \in been'[p])
  BY <1>1, <1>3, PeerStays DEF Inv, peerVars
<1> QED BY <1>2, <1>4, <1>5, <1>6, <1>7 DEF Inv

-----------------------------------------------------------------------------
(* The invariant, and what follows from it.                                *)

LEMMA InitInv ==
  ASSUME Init
  PROVE  Inv
<1>1. SrvInv
  BY SrvInitInv DEF Init
<1>2. (CHOOSE i \in Id : TRUE) \in Id
  <2>1. PICK g \in Groups : TRUE
    BY PerlinkAssumption DEF PerlinkAssumption
  <2>2. [typ |-> 0, grp |-> g] \in Id
    BY DEF Id
  <2> QED BY <2>2
<1>3. id \in [Peers -> Id]
  BY <1>2 DEF Init
<1>4. PeerTypes
  BY <1>3 DEF Init, PeerTypes
<1>5. NetOK /\ RowsOK
  BY DEF Init, SrvInit, NetOK, RowsOK
<1>6. \A p \in Peers : PeerOK(p) /\ (run[p] = "up" => id[p].typ \in been[p])
  BY DEF Init, PeerOK
<1> QED BY <1>1, <1>4, <1>5, <1>6 DEF Inv

\* Whatever step the system takes.
LEMMA StepInv == Inv /\ [Next]_vars => Inv'
<1> SUFFICES ASSUME Inv, [Next]_vars PROVE Inv'
  OBVIOUS
<1>1. CASE ServerAlone
  BY <1>1, ServerAloneInv
<1>2. ASSUME NEW m \in net, Serve(m) \/ Drop(m) \/ Lose(m) PROVE Inv'
  BY <1>2, ServeInv, VanishInv
<1>3. ASSUME NEW p \in Peers, PeerStep(p) PROVE Inv'
  BY <1>3, StartInv, CrashInv, RegisterInv, TypeInv, ReceiveInv DEF PeerStep
<1>4. CASE UNCHANGED vars
  <2>1. UNCHANGED <<srvTables, srvLoop, srvClock, restarts, net, peerVars, envVars>>
    BY <1>4 DEF vars, srvVars
  <2>2. Grown
    BY <2>1 DEF Grown, peerVars, envVars
  <2>3. SrvInv' /\ NetOK' /\ RowsOK' /\ PeerTypes'
    BY <2>1, <2>2, SrvStandsStill, SoundGrows
       DEF Inv, NetOK, RowsOK, PeerTypes, srvTables, peerVars, envVars
  <2>4. \A p \in Peers : PeerOK(p)' /\ (run'[p] = "up" => id'[p].typ \in been'[p])
    BY <2>1, <2>2, PeerStays DEF Inv, peerVars
  <2> QED BY <2>3, <2>4 DEF Inv
<1> QED BY <1>1, <1>2, <1>3, <1>4 DEF Next

\* So the invariant holds as long as the system runs (a_peer.cpp, u_server.cpp).
THEOREM InvHolds == Spec => []Inv
<1>1. Init => Inv
  BY InitInv
<1> QED BY <1>1, StepInv, PTL DEF Spec

\* Every variable of the system has its type (a_peer.h, per_id.h).
THEOREM TypeCorrect == Spec => []TypeOK
<1>1. Inv => TypeOK
  BY DEF Inv, PeerTypes, TypeOK, SrvInv, NetOK, Sound
<1> QED BY <1>1, InvHolds, PTL

\* The table stays sound also among peers that send what they like when they like.
THEOREM TableSoundAmongPeers == Spec => [](TableSound /\ RankOrder /\ PrevClear)
<1>1. Inv => TableSound /\ RankOrder /\ PrevClear
  BY DEF Inv, SrvInv, PrevOK, PrevClear
<1> QED BY <1>1, InvHolds, PTL

\* A registration has its effect whatever was served before it: another's, or an earlier
\* copy of itself.
RegistrationsTakeEffect ==
  [][\A m \in net : ~SqlFaults /\ SrvRegister(m, Left(m)) => InEffect(m)]_vars

\* A registration that reaches the server puts its sender in the table, among
\* whatever datagrams came before it (_store_peer, _prev).
THEOREM RegisterIsEffectiveAmongPeers == Spec => RegistrationsTakeEffect
<1>1. Inv /\ [Next]_vars =>
        [\A m \in net : ~SqlFaults /\ SrvRegister(m, Left(m)) => InEffect(m)]_vars
  BY ReachesServer, RegisterWorks DEF Inv
<1> QED BY <1>1, InvHolds, PTL DEF Spec, RegistrationsTakeEffect

\* What a step of another leaves as it is.
LEMMA ServerRests ==
  ASSUME [Next]_vars, ~ServerAlone, \A m \in net : ~Serve(m)
  PROVE  UNCHANGED <<srvTables, srvLoop, srvClock, restarts>>
<1>1. CASE UNCHANGED vars
  BY <1>1 DEF vars, srvVars
<1>2. ASSUME NEW m \in net, Drop(m) \/ Lose(m)
      PROVE  UNCHANGED <<srvTables, srvLoop, srvClock, restarts>>
  BY <1>2 DEF Drop, Lose
<1>3. ASSUME NEW p \in Peers, PeerStep(p)
      PROVE  UNCHANGED <<srvTables, srvLoop, srvClock, restarts>>
  BY <1>3 DEF PeerStep, Start, Crash, Register, Type, Receive, srvVars
<1> QED BY <1>1, <1>2, <1>3 DEF Next

\* No row is lost to a datagram, nor to anything that happens elsewhere, and none is
\* set back; del_oldies takes those that are stale.
FreshRowsKept ==
  [][\A r \in pers : r.D < cut \/ Kept(r) \/ restarts' # restarts]_vars

\* The table of a server that goes on loses stale rows only (Sqlyte::del_oldies).
THEOREM FreshRowsStayAmongPeers == Spec => FreshRowsKept
<1>1. ASSUME Inv, Next, NEW r \in pers
      PROVE  r.D < cut \/ Kept(r) \/ restarts' # restarts
  <2>1. SrvTypeOK /\ TableSound
    BY <1>1 DEF Inv, SrvInv
  <2>2. CASE ServerAlone
    BY <1>1, <2>1, <2>2, AloneKeeps DEF ServerAlone
  <2>3. ASSUME NEW m \in net, Serve(m) PROVE Kept(r)
    BY <1>1, <2>1, <2>3, ReceiveKeeps DEF Serve
  <2>4. CASE ~ServerAlone /\ \A m \in net : ~Serve(m)
    <3>1. pers' = pers
      BY <1>1, <2>4, ServerRests DEF srvTables
    <3> QED BY <2>1, <3>1, RowKept
  <2> QED BY <2>2, <2>3, <2>4
<1>2. Inv /\ [Next]_vars =>
        [\A r \in pers : r.D < cut \/ Kept(r) \/ restarts' # restarts]_vars
  BY <1>1
<1> QED BY <1>2, InvHolds, PTL DEF Spec, FreshRowsKept

\* A host is rejected in time also when its denials come among those of others and
\* between registrations (Sqlyte::deny, _ufw_reject).
THEOREM RejectedInTimeAmongPeers == Spec => []RejectThreshold
<1>1. Init => RejectThreshold
  BY NobodyCounted DEF Init
<1>2. Inv /\ RejectThreshold /\ [Next]_vars => RejectThreshold'
  <2> SUFFICES ASSUME Inv, RejectThreshold, [Next]_vars PROVE RejectThreshold'
    OBVIOUS
  <2>1. CASE ServerAlone
    BY <2>1, AloneCounts DEF ServerAlone
  <2>2. ASSUME NEW m \in net, Serve(m) PROVE RejectThreshold'
    BY <2>2, ReachesServer, ReceiveCounts DEF Serve, Inv, SrvInv
  <2>3. CASE ~ServerAlone /\ \A m \in net : ~Serve(m)
    <3>1. rej' = rej /\ ufw' = ufw
      BY <2>3, ServerRests DEF srvTables
    <3> QED BY <3>1, NobodyDenied
  <2> QED BY <2>1, <2>2, <2>3
<1> QED BY <1>1, <1>2, InvHolds, PTL DEF Spec

\* Whom a peer holds it has reason to, and the way between them is open: what Holds
\* says of an endpoint, said of the peer that is there.
LEMMA HeldIsLinked ==
  ASSUME Inv, NEW p \in Peers, NEW q \in Peers, Holds(p, q)
  PROVE  LinkOK(p, q)
<1>1. PICK s \in Peers : Received(At[q]) = Received(At[s]) /\ LinkOK(p, s)
  BY DEF Inv, PeerOK, Holds
<1>2. s = q
  BY <1>1, Hosts, EndpointBack
<1> QED BY <1>1, <1>2

\* Links join a provider and a consumer: the server introduces only such, and a
\* ping or a pong comes only from one that was introduced (_ping_pers, _peering).
THEOREM LinksJoinOpposites == Spec => []RolesOpposite
<1>1. Inv => RolesOpposite
  BY DEF Inv, PeerOK, LinkOK, Reason, RolesOpposite, Opposite
<1> QED BY <1>1, InvHolds, PTL

\* Peers of different keys, who read each other's pings, do not link, because neither
\* reads the other's pong (_peering, _per_process).
THEOREM LinksShareKeys == Spec => []KeyIsolation
<1>1. Inv => KeyIsolation
  BY HeldIsLinked DEF LinkOK, KeyIsolation
<1> QED BY <1>1, InvHolds, PTL

\* A call can be read where it arrives, also by one of another key (_peering, get_pers).
THEOREM CallsAreReadable == Spec => []CallsReadable
<1>1. Inv => CallsReadable
  BY DEF Inv, NetOK, Sound, ServerSent, PeerSent, Registration, Ping, Pong, Line, CallsReadable
<1> QED BY <1>1, InvHolds, PTL

\* A link is open both ways, through whatever NATs (_peering, _per_process).
THEOREM LinksAreOpen == Spec => []LinkedReachable
<1>1. Inv => LinkedReachable
  BY HeldIsLinked DEF LinkOK, Opened, LinkedReachable
<1> QED BY <1>1, InvHolds, PTL

\* A peer that no longer registers holds somebody, or has taken a line of one that had
\* the other role for PER_DATA (a_peer::main, _per_process, _data_in).
THEOREM LinkedIsHolding == Spec => []LinkedHasPeer
<1>1. Inv => LinkedHasPeer
  BY Hosts DEF Inv, PeerOK, Reason, LinkedHasPeer
<1> QED BY <1>1, InvHolds, PTL

\* No text is shown but that of a peer that had the other role (_rec_udp).
THEOREM TextFromOpposites == Spec => []ShownFromOpposite
<1>1. Inv => ShownFromOpposite
  BY DEF Inv, PeerOK, Reason, ShownFromOpposite
<1> QED BY <1>1, InvHolds, PTL

\* A peer on the server's port stays without links, among peers of whatever keys
\* (_received, _srvsin, _peering).
THEOREM ServerPortIsAlone == Spec => []ServerPortNeverLinks
<1>1. Inv => ServerPortNeverLinks
  BY HeldIsLinked DEF Inv, PeerOK, LinkOK, ServerPortNeverLinks
<1> QED BY <1>1, InvHolds, PTL

\* The assertion at the end of _received holds (a_peer.cpp).
THEOREM AssertionHolds == Spec => []NoAbort
<1>1. Inv => NoAbort
  BY DEF Inv, PeerOK, NoAbort
<1> QED BY <1>1, InvHolds, PTL

\* std::set takes two received addresses for one when their ports are equal.
LEMMA SamePort ==
  ASSUME NEW a \in Addr, NEW b \in Addr
  PROVE  Equivalent(Received(a), Received(b)) <=> a.port = b.port
<1>1. a.port \in Nat \ {0} /\ b.port \in Nat \ {0}
  BY UServerAssumption DEF UServerAssumption, Addr, Endpoint
<1> QED BY <1>1 DEF Equivalent, SLess, MaskedIp, Received

\* A pong makes a link when no two peers have the same port, and none has the
\* server's: only then does the set of links tell its members apart, and nothing
\* that a peer says is taken for the server's word (SADDR_46::operator<, _srvsin).
THEOREM PongLinksApart ==
  ASSUME \A p, q \in Peers : At[p].port = At[q].port => p = q,
         \A p \in Peers : At[p].port # SrvAddr.port
  PROVE  Spec => PongLinks
<1>1. ASSUME Inv, NEW p \in Peers, NEW q \in Peers, NEW m \in net,
             m.verb = "PER_PONG", m.src = At[q], m.enc = PeerKey[p], Receive(p, m)
      PROVE  Holds(p, q)'
  <2>1. Deciphered(p, m) = {"PER_PONG"}
    BY <1>1 DEF Deciphered
  <2>2. ~FromServer(m)
    BY <1>1, Hosts, FromServerPort
  <2>3. Ponged(p, m, "PER_PONG")
    BY <1>1, <2>1, <2>2
       DEF Receive, ShortText, SrvProcess, PerProcess, Pinged, DataIn, PerOtherVerb
  <2>4. pset'[p] = SetInsert(pset[p], Received(At[q]))
    BY <1>1, <2>3 DEF Ponged, Inv, PeerTypes
  <2>5. CASE \E x \in pset[p] : Equivalent(x, Received(At[q]))
    <3>1. PICK x \in pset[p] : Equivalent(x, Received(At[q]))
      BY <2>5
    <3>2. PICK s \in Peers : x = Received(At[s])
      BY <1>1 DEF Inv, PeerOK
    <3>3. s = q
      BY <3>1, <3>2, SamePort, Hosts
    <3> QED BY <2>4, <3>1, <3>2, <3>3 DEF SetInsert, Holds
  <2>6. CASE ~\E x \in pset[p] : Equivalent(x, Received(At[q]))
    BY <2>4, <2>6 DEF SetInsert, Holds
  <2> QED BY <2>5, <2>6
<1>2. Inv /\ [Next]_vars =>
        [\A p, q \in Peers :
           (\E m \in net : /\ m.verb = "PER_PONG" /\ m.src = At[q] /\ m.enc = PeerKey[p]
                          /\ Receive(p, m))
             => Holds(p, q)']_vars
  BY <1>1
<1> QED BY <1>2, InvHolds, PTL DEF Spec, PongLinks

-----------------------------------------------------------------------------
(* What a peer that runs keeps.                                            *)

\* Nobody asks the server to forget him, so the server tells nobody that it did.
NobodyUnregisters == \A m \in net : m.verb \notin {"SRV_UNREGISTER", "SRV_UNREGISTERED"}

LEMMA NobodyUnregistersHolds == Spec => []NobodyUnregisters
<1>1. Init => NobodyUnregisters
  BY DEF Init, SrvInit, NobodyUnregisters
<1>2. Inv /\ NobodyUnregisters /\ [Next]_vars => NobodyUnregisters'
  <2> SUFFICES ASSUME Inv, NobodyUnregisters, [Next]_vars,
                      NEW n \in net', n \notin net
               PROVE  n.verb \notin {"SRV_UNREGISTER", "SRV_UNREGISTERED"}
    BY DEF NobodyUnregisters
  <2>1. CASE ServerAlone
    <3>1. SrvSweep(net)
      BY <2>1 DEF ServerAlone, SrvIdle, SrvRest, SrvClock, Lapse, Midnight, HalfMinute, SrvRestart
    <3>2. PICK listed \in SqlResult : net' = Posted(net, Notices(GetPers(listed)))
      BY <3>1 DEF SrvSweep
    <3>3. n \in Notices(GetPers(listed))
      BY <3>2 DEF Posted
    <3> QED BY <3>3 DEF Notices, SrvPing, SetPeer, Datagram
  <2>2. ASSUME NEW m \in net, Serve(m)
        PROVE  n.verb \notin {"SRV_UNREGISTER", "SRV_UNREGISTERED"}
    <3>1. ~SrvUnregister(m, Left(m))
      BY DEF SrvUnregister, Accepted, NobodyUnregisters
    <3>2. SrvReceive(m, Left(m)) /\ Left(m) \subseteq net
      BY <2>2 DEF Serve, Left
    <3>3. net' \subseteq net \cup {Registerred(m.src, m.enc)}
      BY <3>1, <3>2
         DEF SrvReceive, SrvDeny, SrvRegister, StorePeer, SrvHereIAm, SrvOther, Posted
    <3> QED BY <3>3 DEF Registerred, Datagram
  <2>3. ASSUME NEW p \in Peers, PeerStep(p)
        PROVE  n.verb \notin {"SRV_UNREGISTER", "SRV_UNREGISTERED"}
    <3>1. CASE Register(p)
      BY <3>1 DEF Register, Datagram
    <3>2. ASSUME NEW kind \in Kinds, Type(p, kind)
          PROVE  n.verb \notin {"SRV_UNREGISTER", "SRV_UNREGISTERED"}
      <4>1. kind \in {"TEXT", "LONG"}
        BY PerlinkAssumption DEF PerlinkAssumption
      <4> QED BY <3>2, <4>1 DEF Type, Lines, Datagram
    <3>3. ASSUME NEW m \in net, Receive(p, m)
          PROVE  n.verb \notin {"SRV_UNREGISTER", "SRV_UNREGISTERED"}
      <4>1. \/ Send(p, m, {}) \/ Send(p, m, {PerPong(p, m.src)})
            \/ \E a \in Introduced(p, m) : Send(p, m, {PerPing(p, a)})
        BY <3>3 DEF Receive, ShortText, SrvProcess, SrvAnswered, Peering, SrvOtherVerb,
                    PerProcess, Pinged, Ponged, DataIn, PerOtherVerb
      <4>2. \E a : n = PerPing(p, a) \/ n = PerPong(p, a)
        <5>1. \E a : net' = Left(m) \/ net' = Left(m) \cup {PerPing(p, a)}
                    \/ net' = Left(m) \cup {PerPong(p, a)}
          BY <4>1 DEF Send
        <5> QED BY <5>1 DEF Left
      <4> QED BY <4>2 DEF PerPing, PerPong, Datagram
    <3> QED BY <2>3, <3>1, <3>2, <3>3 DEF PeerStep, Start, Crash, srvVars
  <2>4. CASE UNCHANGED vars \/ \E m \in net : Drop(m) \/ Lose(m)
    BY <2>4 DEF vars, srvVars, Drop, Lose, Left
  <2> QED BY <2>1, <2>2, <2>3, <2>4 DEF Next
<1> QED BY <1>1, <1>2, InvHolds, PTL DEF Spec

\* Only what was written as a notice that p is forgotten, or garbled, reads as one.
LEMMA ReadsNoNotice ==
  ASSUME NobodyUnregisters, "SRV_UNREGISTERED" \notin Garbled, NEW p \in Peers, NEW m \in net
  PROVE  "SRV_UNREGISTERED" \notin Deciphered(p, m)
BY DEF NobodyUnregisters, Deciphered

\* As long as it runs a peer loses none of those it holds, and once linked it never
\* registers again.
LinksLast ==
  [][\A p \in Peers :
       "SRV_UNREGISTERED" \notin Garbled /\ run[p] = "up" /\ run'[p] = "up" =>
         /\ pset[p] \subseteq pset'[p]
         /\ status[p] = "PER_LINKED" => status'[p] = "PER_LINKED"]_vars

\* A link ends only when its holder is killed: the way back to registering, on
\* SRV_UNREGISTERED, is never taken, because no peer asks for it (_srv_process).
THEOREM LinksLastWhileUp == Spec => LinksLast
<1>1. ASSUME Inv, NobodyUnregisters, Next, NEW p \in Peers, "SRV_UNREGISTERED" \notin Garbled,
             run[p] = "up", run'[p] = "up"
      PROVE  pset[p] \subseteq pset'[p] /\ (status[p] = "PER_LINKED" => status'[p] = "PER_LINKED")
  <2>0. PeerTypes
    BY <1>1 DEF Inv
  <2>1. CASE ServerAlone \/ \E m \in net : Serve(m) \/ Drop(m) \/ Lose(m)
    BY <2>1 DEF ServerAlone, Serve, Drop, Lose, peerVars
  <2>2. ASSUME NEW q \in Peers, PeerStep(q), q # p
        PROVE  pset'[p] = pset[p] /\ status'[p] = status[p]
    BY <2>0, <2>2
       DEF PeerStep, Start, Crash, Register, Type, peerVars, Receive, ShortText, SrvProcess,
           SrvAnswered, Peering, SrvOtherVerb, PerProcess, Pinged, Ponged, DataIn,
           PerOtherVerb, PeerTypes
  <2>3. CASE PeerStep(p)
    <3>1. CASE \E i \in Starts[p] : Start(p, i)
      BY <1>1, <3>1 DEF Start
    <3>2. CASE Crash(p)
      BY <1>1, <2>0, <3>2 DEF Crash, PeerTypes
    <3>3. CASE Register(p) \/ \E kind \in Kinds : Type(p, kind)
      BY <3>3 DEF Register, Type, peerVars
    <3>4. ASSUME NEW m \in net, Receive(p, m)
          PROVE  pset[p] \subseteq pset'[p] /\ (status[p] = "PER_LINKED" => status'[p] = "PER_LINKED")
      <4>1. CASE ShortText(p, m)
        BY <4>1 DEF ShortText
      <4>2. ASSUME NEW verb \in Deciphered(p, m), SrvProcess(p, m, verb)
            PROVE  pset[p] \subseteq pset'[p] /\ (status[p] = "PER_LINKED" => status'[p] = "PER_LINKED")
        <5>1. verb # "SRV_UNREGISTERED"
          BY <1>1, ReadsNoNotice
        <5> QED BY <2>0, <4>2, <5>1
                DEF SrvProcess, SrvAnswered, Peering, SrvOtherVerb, PeerTypes
      <4>3. ASSUME NEW verb \in Deciphered(p, m), PerProcess(p, m, verb)
            PROVE  pset[p] \subseteq pset'[p] /\ (status[p] = "PER_LINKED" => status'[p] = "PER_LINKED")
        BY <2>0, <4>3
           DEF PerProcess, Pinged, Ponged, DataIn, PerOtherVerb, PeerTypes, SetInsert
      <4> QED BY <3>4, <4>1, <4>2, <4>3 DEF Receive
    <3> QED BY <2>3, <3>1, <3>2, <3>3, <3>4 DEF PeerStep
  <2> QED BY <1>1, <2>1, <2>2, <2>3 DEF Next
<1>2. Inv /\ NobodyUnregisters /\ [Next]_vars =>
        [\A p \in Peers :
           "SRV_UNREGISTERED" \notin Garbled /\ run[p] = "up" /\ run'[p] = "up" =>
             /\ pset[p] \subseteq pset'[p]
             /\ status[p] = "PER_LINKED" => status'[p] = "PER_LINKED"]_vars
  BY <1>1
<1> QED BY <1>2, InvHolds, NobodyUnregistersHolds, PTL DEF Spec, LinksLast
=============================================================================
