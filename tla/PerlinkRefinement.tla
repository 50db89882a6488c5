------------------------- MODULE PerlinkRefinement -------------------------
(***************************************************************************)
(* The system implements Rendezvous: every step of Perlink is a step of    *)
(* Rendezvous under the mapping of Promise, or one that it does not see.   *)
(*                                                                         *)
(* The network may lose, delay and repeat; what was ever in it is as sound *)
(* as what is there now.  No bytes of another key read as an introduction  *)
(* or a pong.                                                              *)
(***************************************************************************)
EXTENDS PerlinkHistory, PerlinkProofs

\* The four variables of Rendezvous that are not variables of Perlink.
Up == {p \in Peers : run[p] = "up"}
Called == Wrote("PER_PING")
Answered == {<<pq[2], pq[1]>> : pq \in Wrote("PER_PONG")}
Linked == UNION {{<<p, Whose[EndpointOf(x)]>> : x \in pset[p]} : p \in Peers}

\* What the steps of a peer rest on: there is an answer behind each link, and a call
\* behind each answer; and a line, which under a wrong key may read as a ping, was sent
\* by one that called long ago.
ChainOK ==
  /\ Answered \subseteq Called
  /\ Linked \subseteq Answered
  /\ \A m \in ever : m.verb = "LONG" => <<Whose[m.src], Whose[m.dst]>> \in Answered

\* What was ever in the network includes what is there, and is as sound as it.
EverOK == net \subseteq ever /\ \A m \in ever : Sound(m)

HistoryInv == Inv /\ EverOK /\ ChainOK

\* A datagram is remembered from the step that sends it.
Remembers == ever' = ever \cup net'

-----------------------------------------------------------------------------
(* What is remembered.                                                     *)

\* A step that posts nothing but what is as described adds no more than that.
LEMMA NewIsPosted ==
  ASSUME EverOK, Remembers
  PROVE  ever \subseteq ever' /\ \A m \in ever' : m \in ever \/ (m \in net' /\ m \notin net)
BY DEF EverOK, Remembers

\* No step takes a role from a peer or a mapping from a NAT.
LEMMA StepGrows == Inv /\ [Next]_vars => Grown
<1> SUFFICES ASSUME Inv, [Next]_vars PROVE Grown
  OBVIOUS
<1>1. /\ hole \in [Peers -> SUBSET Addr] /\ been \in [Peers -> SUBSET {0, 1}]
  BY DEF Inv, PeerTypes
<1>2. ASSUME NEW p \in Peers, NEW to, Punch(p, to), been' = been
      PROVE  Grown
  BY <1>1, <1>2 DEF Punch, Grown
<1>3. ASSUME UNCHANGED <<been, hole>> PROVE Grown
  BY <1>3 DEF Grown
<1>4. ASSUME NEW p \in Peers, PeerStep(p) PROVE Grown
  <2>1. ASSUME NEW i \in Starts[p], Start(p, i) PROVE Grown
    BY <1>1, <2>1 DEF Start, envVars, Grown
  <2>2. CASE Crash(p)
    BY <1>3, <2>2 DEF Crash
  <2>3. CASE Register(p) \/ \E kind \in Kinds : Type(p, kind)
    BY <1>2, <2>3 DEF Register, Type, peerVars
  <2>4. ASSUME NEW m \in net, Receive(p, m) PROVE Grown
    <3>1. been' = been /\ \E replies : Send(p, m, replies)
      BY <2>4 DEF Receive, ShortText, SrvProcess, SrvAnswered, Peering, SrvOtherVerb,
                  PerProcess, Pinged, Ponged, DataIn, PerOtherVerb
    <3> QED BY <1>2, <3>1 DEF Send
  <2> QED BY <1>4, <2>1, <2>2, <2>3, <2>4 DEF PeerStep
<1>5. CASE ServerAlone \/ \E m \in net : Serve(m) \/ Drop(m) \/ Lose(m)
  BY <1>3, <1>5 DEF ServerAlone, Serve, Drop, Lose, peerVars, envVars
<1>6. CASE UNCHANGED vars
  BY <1>3, <1>6 DEF vars, peerVars, envVars
<1> QED BY <1>4, <1>5, <1>6 DEF Next

LEMMA EverStaysOK ==
  ASSUME EverOK, Inv', Grown, Remembers
  PROVE  EverOK'
<1>1. \A m \in ever : Sound(m)'
  BY SoundGrows DEF EverOK
<1>2. \A m \in net' : Sound(m)'
  BY DEF Inv, NetOK
<1> QED BY <1>1, <1>2 DEF EverOK, Remembers

-----------------------------------------------------------------------------
(* What the mapping sees of the state.                                     *)

LEMMA WhoseAt ==
  /\ \A p \in Peers : Whose[At[p]] = p
  /\ DOMAIN Whose = {At[p] : p \in Peers}
<1>1. ASSUME NEW p \in Peers
      PROVE  Whose[At[p]] = p
  <2>1. (CHOOSE q \in Peers : At[q] = At[p]) = p
    BY Hosts
  <2> QED BY <2>1 DEF Whose
<1> QED BY <1>1 DEF Whose

\* A datagram between two peers that the receiver can read is in the relation of its verb.
LEMMA WroteHas ==
  ASSUME NEW m \in ever, NEW p \in Peers, NEW q \in Peers,
         m.src = At[p], m.dst = At[q], m.enc = PeerKey[q]
  PROVE  <<p, q>> \in Wrote(m.verb)
<1>1. Whose[m.src] = p /\ Whose[m.dst] = q /\ m.dst \in DOMAIN Whose
  BY WhoseAt
<1> QED BY <1>1 DEF Wrote

LEMMA LinkedHas ==
  ASSUME Inv, NEW p \in Peers, NEW q \in Peers
  PROVE  <<p, q>> \in Linked <=> Holds(p, q)
<1>1. \A x \in pset[p] : \E s \in Peers : x = Received(At[s]) /\ Whose[EndpointOf(x)] = s
  BY Hosts, EndpointBack, WhoseAt DEF Inv, PeerOK
<1>2. ASSUME <<p, q>> \in Linked PROVE Holds(p, q)
  <2>1. PICK x \in pset[p] : q = Whose[EndpointOf(x)]
    BY <1>2 DEF Linked
  <2> QED BY <1>1, <2>1 DEF Holds
<1>3. ASSUME Holds(p, q) PROVE <<p, q>> \in Linked
  <2>1. Received(At[q]) \in pset[p] /\ Whose[EndpointOf(Received(At[q]))] = q
    BY <1>3, Hosts, EndpointBack, WhoseAt DEF Holds
  <2> QED BY <2>1 DEF Linked
<1> QED BY <1>2, <1>3

\* Whoever is told is told of one that had the other role.
LEMMA ToldAreOpposed == EverOK => Told \subseteq Promise!Opposed
<1> SUFFICES ASSUME EverOK, NEW m \in ever, m.verb = "SRV_SET_PEER"
             PROVE  <<Whose[m.dst], Whose[m.arg.addr]>> \in Promise!Opposed
  BY DEF Told
<1>1. ServerSent(m)
  BY DEF EverOK, Sound, PeerSent, Registration, Ping, Pong, Line
<1>2. PICK p \in Peers, q \in Peers : /\ m.dst = At[q] /\ Opposite(q, p)
                                     /\ m.arg = [addr |-> At[p], key |-> PeerKey[p]]
  BY <1>1 DEF ServerSent
<1>3. Whose[m.dst] = q /\ Whose[m.arg.addr] = p
  <2>1. m.arg.addr = At[p]
    BY <1>2
  <2> QED BY <1>2, <2>1, WhoseAt
<1> QED BY <1>2, <1>3 DEF Opposite, Promise!Opposed

\* A relation grows only by datagrams of its verb.
LEMMA Unheard ==
  ASSUME ever \subseteq ever', NEW verb, \A m \in ever' : m \in ever \/ m.verb # verb
  PROVE  Wrote(verb)' = Wrote(verb)
BY DEF Wrote

LEMMA WroteGrows ==
  ASSUME ever \subseteq ever', NEW verb
  PROVE  Wrote(verb) \subseteq Wrote(verb)'
BY DEF Wrote

\* Nothing but a ping and a pong is seen of what peers write, and neither is lost.
LEMMA ReadsEver ==
  ASSUME ever \subseteq ever'
  PROVE  /\ Called \subseteq Called' /\ Answered \subseteq Answered' /\ Told \subseteq Told'
         /\ (\A m \in ever' : m \in ever \/ m.verb # "PER_PING") => Called' = Called
         /\ (\A m \in ever' : m \in ever \/ m.verb # "PER_PONG") => Answered' = Answered
         /\ (\A m \in ever' : m \in ever \/ m.verb # "SRV_SET_PEER") => Told' = Told
<1>1. Called \subseteq Called' /\ Wrote("PER_PONG") \subseteq Wrote("PER_PONG")'
  BY WroteGrows DEF Called
<1>2. Answered \subseteq Answered'
  BY <1>1 DEF Answered
<1>3. (\A m \in ever' : m \in ever \/ m.verb # "PER_PING") => Called' = Called
  BY Unheard DEF Called
<1>4. (\A m \in ever' : m \in ever \/ m.verb # "PER_PONG") => Answered' = Answered
  BY Unheard DEF Answered
<1>5. /\ Told \subseteq Told'
      /\ (\A m \in ever' : m \in ever \/ m.verb # "SRV_SET_PEER") => Told' = Told
  BY DEF Told
<1> QED BY <1>1, <1>2, <1>3, <1>4, <1>5

\* So a step is seen in what it posts.
LEMMA ReadsPosted ==
  ASSUME EverOK, Remembers
  PROVE  /\ Called \subseteq Called' /\ Answered \subseteq Answered' /\ Told \subseteq Told'
         /\ (\A m \in net' : m \in net \/ m.verb # "PER_PING") => Called' = Called
         /\ (\A m \in net' : m \in net \/ m.verb # "PER_PONG") => Answered' = Answered
         /\ (\A m \in net' : m \in net \/ m.verb # "SRV_SET_PEER") => Told' = Told
<1>1. ever \subseteq ever' /\ \A m \in ever' : m \in ever \/ (m \in net' /\ m \notin net)
  BY NewIsPosted
<1> QED BY <1>1, ReadsEver

-----------------------------------------------------------------------------
(* The steps.                                                              *)

\* Who is told, and every step that is not seen at all.
LEMMA MapsToTell ==
  ASSUME EverOK, EverOK', Remembers, ChainOK, UNCHANGED <<run, been, pset>>,
         \A m \in net' : m \in net \/ m.verb \notin {"PER_PING", "PER_PONG"},
         \A m \in net' :
           m.verb = "LONG" => m \in net \/ <<Whose[m.src], Whose[m.dst]>> \in Answered
  PROVE  Promise!Tell /\ ChainOK'
<1>1. Told \subseteq Told' /\ Called' = Called /\ Answered' = Answered
  BY ReadsPosted
<1>2. Up' = Up /\ Linked' = Linked
  BY DEF Up, Linked
<1>3. EverOK' => (Told \subseteq Promise!Opposed)'
  BY ToldAreOpposed, PTL
<1>4. Promise!Opposed' = Promise!Opposed
  BY DEF Promise!Opposed
<1>5. Promise!Tell
  BY <1>1, <1>2, <1>3, <1>4
     DEF Promise!Tell, Promise!Grows, Promise!who, Up, Called, Answered, Linked
<1>6. \A m \in ever' : m \in ever \/ (m \in net' /\ m \notin net)
  BY NewIsPosted
<1>7. ChainOK'
  BY <1>1, <1>2, <1>6 DEF ChainOK
<1> QED BY <1>5, <1>7

LEMMA StartMaps ==
  ASSUME HistoryInv, Remembers, NEW p \in Peers, NEW i \in Starts[p], Start(p, i)
  PROVE  Promise!Enter(p, i.typ) /\ i.typ \in {0, 1} /\ ChainOK'
<1> USE DEF HistoryInv
<1>1. /\ UNCHANGED <<net, ever, pset>> /\ run[p] = "down"
      /\ been' = [been EXCEPT ![p] = @ \cup {i.typ}]
  BY DEF Start, srvVars, Remembers, EverOK
<1>2. UNCHANGED <<Told, Called, Answered, Linked>>
  BY <1>1 DEF Told, Called, Answered, Linked, Wrote
<1>3. p \notin Up /\ Up' = Up \cup {p}
  BY <1>1 DEF Start, Up, Inv, PeerTypes
<1>4. Promise!Enter(p, i.typ)
  BY <1>1, <1>2, <1>3 DEF Promise!Enter, Up, Called, Answered, Linked
<1>5. i.typ \in {0, 1}
  BY PerlinkAssumption DEF PerlinkAssumption, Id
<1> QED BY <1>1, <1>2, <1>4, <1>5 DEF ChainOK

LEMMA CrashMaps ==
  ASSUME HistoryInv, Remembers, NEW p \in Peers, Crash(p)
  PROVE  Promise!Leave(p) /\ ChainOK'
<1> USE DEF HistoryInv
<1>1. /\ UNCHANGED <<net, ever, been>> /\ run[p] = "up" /\ run' = [run EXCEPT ![p] = "down"]
      /\ pset' = [pset EXCEPT ![p] = {}]
  BY DEF Crash, srvVars, Remembers, EverOK
<1>2. UNCHANGED <<Told, Called, Answered>>
  BY <1>1 DEF Told, Called, Answered, Wrote
<1>3. p \in Up /\ Up' = Up \ {p}
  BY <1>1 DEF Up, Inv, PeerTypes
<1>4. Linked' = {pq \in Linked : pq[1] # p}
  <2>1. pset'[p] = {} /\ \A q \in Peers : q # p => pset'[q] = pset[q]
    BY <1>1 DEF Inv, PeerTypes
  <2>2. ASSUME NEW pq \in Linked' PROVE pq \in Linked /\ pq[1] # p
    <3>1. PICK q \in Peers : \E x \in pset'[q] : pq = <<q, Whose[EndpointOf(x)]>>
      BY <2>2 DEF Linked
    <3>2. PICK x \in pset'[q] : pq = <<q, Whose[EndpointOf(x)]>>
      BY <3>1
    <3>3. q # p /\ x \in pset[q]
      BY <2>1, <3>2
    <3> QED BY <3>2, <3>3 DEF Linked
  <2>3. ASSUME NEW pq \in Linked, pq[1] # p PROVE pq \in Linked'
    <3>1. PICK q \in Peers : \E x \in pset[q] : pq = <<q, Whose[EndpointOf(x)]>>
      BY <2>3 DEF Linked
    <3>2. PICK x \in pset[q] : pq = <<q, Whose[EndpointOf(x)]>>
      BY <3>1
    <3>3. x \in pset'[q]
      BY <2>1, <2>3, <3>2
    <3> QED BY <3>2, <3>3 DEF Linked
  <2> QED BY <2>2, <2>3
<1>5. Promise!Leave(p)
  BY <1>1, <1>2, <1>3, <1>4 DEF Promise!Leave, Up, Called, Answered, Linked
<1> QED BY <1>1, <1>2, <1>4, <1>5 DEF ChainOK

\* _peering is a call of one that p was told of.
LEMMA PeeringMaps ==
  ASSUME HistoryInv, Remembers, "SRV_SET_PEER" \notin Garbled,
         NEW p \in Peers, NEW m \in net, Arrives(p, m),
         NEW verb \in Deciphered(p, m), Peering(p, m, verb), UNCHANGED <<run, been, pset>>
  PROVE  Promise!Call /\ ChainOK'
<1> USE DEF HistoryInv
<1>1. m.enc = PeerKey[p] /\ m.verb = "SRV_SET_PEER"
  BY DEF Peering, Deciphered
<1>2. ServerSent(m)
  BY <1>1 DEF Inv, NetOK, Sound, PeerSent, Registration, Ping, Pong, Line
<1>3. PICK q \in Peers : m.arg.addr = At[q] /\ m.dst = At[p]
  <2>1. PICK q \in Peers : m.arg = [addr |-> At[q], key |-> PeerKey[q]]
    BY <1>1, <1>2 DEF ServerSent
  <2>2. m.arg.addr = At[q]
    BY <2>1
  <2> QED BY <2>2 DEF Arrives
<1>4. net' = Left(m) \cup {PerPing(p, m.arg)}
  BY <1>1 DEF Peering, Introduced, Send
<1>5. PICK ping : ping = PerPing(p, m.arg) /\ \A n \in net' : n \in net \/ n = ping
  BY <1>4 DEF Left
<1>6. ping.verb = "PER_PING" /\ ping.src = At[p] /\ ping.dst = At[q]
  BY <1>3, <1>5 DEF PerPing, Datagram
<1>7. <<p, q>> \in Told /\ p \in Up
  <2>1. Whose[m.dst] = p /\ Whose[m.arg.addr] = q
    BY <1>3, WhoseAt
  <2> QED BY <1>1, <2>1 DEF Told, Up, Arrives, EverOK
<1>8. Told \subseteq Told' /\ Told' = Told /\ Answered' = Answered /\ Called \subseteq Called'
  BY <1>5, <1>6, ReadsPosted
<1>9. Called' \subseteq Called \cup {<<p, q>>}
  <2> SUFFICES ASSUME NEW n \in ever', n.verb = "PER_PING", n.dst \in DOMAIN Whose,
                      n.enc = PeerKey[Whose[n.dst]], n \notin ever
               PROVE  <<Whose[n.src], Whose[n.dst]>> = <<p, q>>
    BY DEF Called, Wrote
  <2>1. n = ping
    BY <1>5, NewIsPosted
  <2> QED BY <1>6, <2>1, WhoseAt
<1>10. Up' = Up /\ Linked' = Linked
  BY DEF Up, Linked
<1>11. Promise!Call
  BY <1>7, <1>8, <1>9, <1>10
     DEF Promise!Call, Promise!Grows, Promise!who, Up, Called, Answered, Linked
<1>12. \A n \in ever' : n.verb = "LONG" => n \in ever
  BY <1>5, <1>6, NewIsPosted
<1> QED BY <1>8, <1>10, <1>11, <1>12 DEF ChainOK

\* A ping is answered to one that called, whether or not it can read the answer.
LEMMA PingedMaps ==
  ASSUME HistoryInv, Remembers, "SRV_SET_PEER" \notin Garbled,
         NEW p \in Peers, NEW m \in net, Arrives(p, m), m.verb # "TEXT", ~FromServer(m),
         NEW verb \in Deciphered(p, m), Pinged(p, m, verb), UNCHANGED <<run, been, pset>>
  PROVE  Promise!Answer /\ ChainOK'
<1> USE DEF HistoryInv
<1>1. m \in Datagrams /\ m.src \in Addr
  BY DEF Inv, NetOK, Sound, Datagrams
<1>2. ~ServerSent(m)
  BY <1>1, FromServerPort DEF ServerSent
<1>3. PICK q \in Peers : m.src = At[q] /\ m.dst = At[p] /\ (Ping(q, m) \/ Pong(q, m) \/ Line(q, m))
  BY <1>2, Heard
<1>4. PICK pong : pong = PerPong(p, At[q])
  OBVIOUS
<1>5. /\ pong.verb = "PER_PONG" /\ pong.src = At[p] /\ pong.dst = At[q]
      /\ pong.enc = PeerKey[p]
  BY <1>4 DEF PerPong, Datagram
<1>6. /\ \A n \in net' : n \in net \/ n = pong
      /\ \A n \in ever' : n \in ever \/ n = pong
  <2>1. net' = Left(m) \cup {pong}
    BY <1>3, <1>4 DEF Pinged, Send
  <2> QED BY <2>1, NewIsPosted DEF Left
<1>7. /\ Told' = Told /\ Called' = Called /\ Answered \subseteq Answered'
  BY <1>5, <1>6, ReadsPosted
<1>8. p \in Up
  BY DEF Arrives, Up

\* What was read as a ping was one, is a line, or is a pong under another key.
<1>9. PeerKey[p] = PeerKey[q] => <<q, p>> \in Called
  <2>1. CASE m.enc = PeerKey[p]
    <3>1. m.verb = "PER_PING"
      BY <2>1 DEF Pinged, Deciphered
    <3> QED BY <1>3, <2>1, <3>1, WroteHas DEF Called, EverOK
  <2>2. CASE Line(q, m)
    <3>1. m.verb = "LONG" /\ Whose[m.src] = q /\ Whose[m.dst] = p
      BY <1>3, <2>2, WhoseAt DEF Line
    <3> QED BY <3>1 DEF ChainOK, EverOK
  <2>3. CASE (Ping(q, m) \/ Pong(q, m)) /\ m.enc # PeerKey[p]
    BY <1>3, <2>3, Hosts DEF Ping, Pong
  <2> QED BY <1>3, <2>1, <2>2, <2>3
<1>10. Answered' \subseteq Answered \cup {pq \in Called : pq[2] \in Up}
  <2>1. ASSUME NEW n \in ever', n.verb = "PER_PONG", n.dst \in DOMAIN Whose,
               n.enc = PeerKey[Whose[n.dst]], n \notin ever
        PROVE  /\ <<Whose[n.dst], Whose[n.src]>> \in Called
               /\ Whose[n.src] \in Up
    <3>1. n = pong
      BY <1>6, <2>1
    <3>2. Whose[n.dst] = q /\ Whose[n.src] = p
      BY <1>5, <3>1, WhoseAt
    <3> QED BY <1>5, <1>8, <1>9, <2>1, <3>1, <3>2
  <2>2. ASSUME NEW pq \in Answered' PROVE pq \in Answered \cup {rs \in Called : rs[2] \in Up}
    <3>1. PICK n \in ever' :
            /\ n.verb = "PER_PONG" /\ n.dst \in DOMAIN Whose /\ n.enc = PeerKey[Whose[n.dst]]
            /\ pq = <<Whose[n.dst], Whose[n.src]>>
      BY <2>2 DEF Answered, Wrote
    <3>2. CASE n \in ever
      BY <3>1, <3>2 DEF Answered, Wrote
    <3>3. CASE n \notin ever
      BY <2>1, <3>1, <3>3
    <3> QED BY <3>2, <3>3
  <2> QED BY <2>2
<1>11. Up' = Up /\ Linked' = Linked
  BY DEF Up, Linked
<1>12. Promise!Answer
  BY <1>7, <1>10, <1>11
     DEF Promise!Answer, Promise!Grows, Promise!who, Up, Called, Answered, Linked
<1>13. \A n \in ever' : n.verb = "LONG" => n \in ever
  BY <1>5, <1>6
<1> QED BY <1>7, <1>10, <1>11, <1>12, <1>13 DEF ChainOK

\* A pong that was read makes a link with one that answered.
LEMMA PongedMaps ==
  ASSUME HistoryInv, Remembers, "PER_PONG" \notin Garbled,
         NEW p \in Peers, NEW m \in net, Arrives(p, m), ~FromServer(m),
         NEW verb \in Deciphered(p, m), Ponged(p, m, verb), UNCHANGED <<run, been>>
  PROVE  Promise!Link /\ ChainOK'
<1> USE DEF HistoryInv
<1>1. m.enc = PeerKey[p] /\ m.verb = "PER_PONG"
  BY DEF Ponged, Deciphered
<1>2. PICK q \in Peers : m.src = At[q] /\ m.dst = At[p]
  BY <1>1, Heard DEF ServerSent
<1>3. <<p, q>> \in Answered /\ p \in Up
  <2>1. <<q, p>> \in Wrote("PER_PONG")
    BY <1>1, <1>2, WroteHas DEF EverOK
  <2> QED BY <2>1 DEF Answered, Up, Arrives
<1>4. ever' = ever
  BY DEF Ponged, Send, Left, Remembers, EverOK
<1>5. UNCHANGED <<Told, Called, Answered, Up>>
  BY <1>4 DEF Told, Called, Answered, Wrote, Up
<1>6. /\ pset[p] \subseteq pset'[p] /\ pset'[p] \subseteq pset[p] \cup {Received(At[q])}
      /\ \A s \in Peers : s # p => pset'[s] = pset[s]
  BY <1>2 DEF Ponged, SetInsert, Inv, PeerTypes
<1>7. Linked \subseteq Linked'
  BY <1>6 DEF Linked
<1>8. Linked' \subseteq Linked \cup {<<p, q>>}
  <2> SUFFICES ASSUME NEW s \in Peers, NEW x \in pset'[s], x \notin pset[s]
               PROVE  <<s, Whose[EndpointOf(x)]>> = <<p, q>>
    BY DEF Linked
  <2>1. s = p /\ x = Received(At[q])
    BY <1>6
  <2> QED BY <2>1, Hosts, EndpointBack, WhoseAt
<1>9. Promise!Link
  BY <1>3, <1>5, <1>7, <1>8
     DEF Promise!Link, Promise!Grows, Promise!who, Up, Called, Answered, Linked
<1> QED BY <1>3, <1>4, <1>5, <1>8, <1>9 DEF ChainOK

\* Whatever p takes in.
LEMMA ReceiveMaps ==
  ASSUME HistoryInv, Inv', EverOK', Remembers,
         "SRV_SET_PEER" \notin Garbled, "PER_PONG" \notin Garbled,
         NEW p \in Peers, NEW m \in net, Receive(p, m)
  PROVE  Promise!Next /\ ChainOK'
<1> USE DEF HistoryInv
<1>1. Arrives(p, m) /\ been' = been
  BY DEF Receive

\* A step that is not seen.
<1>2. ASSUME Send(p, m, {}), UNCHANGED <<run, pset>>
      PROVE  Promise!Next /\ ChainOK'
  <2>1. net' \subseteq net
    BY <1>2 DEF Send, Left
  <2> QED BY <1>1, <1>2, <2>1, MapsToTell DEF Promise!Next
<1>3. CASE ShortText(p, m)
  BY <1>2, <1>3 DEF ShortText
<1>4. ASSUME NEW verb \in Deciphered(p, m), SrvProcess(p, m, verb)
      PROVE  Promise!Next /\ ChainOK'
  <2>1. run' = run /\ pset' = pset
    <3>1. GarbageLinksNobody
      BY DEF GarbageLinksNobody
    <3>2. run'[p] # "aborted"
      BY <3>1 DEF Inv, PeerOK
    <3>3. run' = run \/ run' = [run EXCEPT ![p] = "aborted"]
      BY <1>4 DEF SrvProcess, AfterLoop
    <3> QED BY <1>4, <3>2, <3>3 DEF SrvProcess, Inv, PeerTypes
  <2>2. CASE Peering(p, m, verb)
    BY <1>1, <2>1, <2>2, PeeringMaps DEF Promise!Next
  <2>3. CASE SrvAnswered(p, m, verb) \/ SrvOtherVerb(p, m, verb)
    BY <1>2, <2>1, <2>3 DEF SrvAnswered, SrvOtherVerb
  <2> QED BY <1>4, <2>2, <2>3 DEF SrvProcess
<1>5. ASSUME m.verb # "TEXT", NEW verb \in Deciphered(p, m), PerProcess(p, m, verb)
      PROVE  Promise!Next /\ ChainOK'
  <2>1. UNCHANGED run /\ ~FromServer(m)
    BY <1>5 DEF PerProcess
  <2>2. CASE Pinged(p, m, verb)
    <3>1. pset' = pset
      BY <2>2 DEF Pinged
    <3> QED BY <1>1, <1>5, <2>1, <2>2, <3>1, PingedMaps DEF Promise!Next
  <2>3. CASE Ponged(p, m, verb)
    BY <1>1, <1>5, <2>1, <2>3, PongedMaps DEF Promise!Next
  <2>4. CASE DataIn(p, m, verb) \/ PerOtherVerb(p, m, verb)
    BY <1>2, <2>1, <2>4 DEF DataIn, PerOtherVerb
  <2> QED BY <1>5, <2>2, <2>3, <2>4 DEF PerProcess
<1> QED BY <1>3, <1>4, <1>5 DEF Receive

\* What the server does, and what a peer sends of its own accord, is seen when it
\* tells somebody of somebody.
LEMMA ServerMaps ==
  ASSUME HistoryInv, EverOK', Remembers,
         ServerAlone \/ \E m \in net : Serve(m)
  PROVE  Promise!Next /\ ChainOK'
<1> USE DEF HistoryInv
<1>1. UNCHANGED <<run, been, pset>>
  BY DEF ServerAlone, Serve, peerVars
<1>2. \A n \in net' : n \in net \/ ServerSent(n)
  <2>1. ASSUME NEW m \in net, Serve(m)
        PROVE  \A n \in net' : n \in net \/ ServerSent(n)
    <3>1. SrvReceive(m, Left(m)) /\ Left(m) \subseteq net /\ m \in Datagrams
      BY <2>1 DEF Serve, Left, Inv, NetOK, Sound
    <3> QED BY <3>1, AnswersSound
  <2>2. CASE SrvSweep(net)
    <3>1. PICK listed \in SqlResult : net' = Posted(net, Notices(GetPers(listed)))
      BY <2>2 DEF SrvSweep
    <3>2. GetPers(listed) \in SUBSET pers
      BY DEF GetPers
    <3> QED BY <3>1, <3>2, NoticesSound DEF Posted
  <2>3. CASE ServerAlone /\ ~SrvSweep(net)
    BY <2>3 DEF ServerAlone, SrvIdle, SrvRest, SrvClock, Lapse, Midnight, HalfMinute, SrvRestart
  <2> QED BY <2>1, <2>2, <2>3 DEF ServerAlone
<1> QED BY <1>1, <1>2, MapsToTell DEF ServerSent, Promise!Next

LEMMA SendingMaps ==
  ASSUME HistoryInv, EverOK', Remembers, NEW p \in Peers,
         Register(p) \/ \E kind \in Kinds : Type(p, kind)
  PROVE  Promise!Next /\ ChainOK'
<1> USE DEF HistoryInv
<1>1. UNCHANGED <<run, been, pset>>
  BY DEF Register, Type, peerVars
<1>2. ASSUME Register(p)
      PROVE  Promise!Next /\ ChainOK'
  <2>1. PICK m : m = Datagram("SRV_REGISTER", At[p], SrvAddr, PeerKey[p], id[p])
    OBVIOUS
  <2>2. net' = net \cup {m} /\ m.verb = "SRV_REGISTER"
    BY <1>2, <2>1 DEF Register, Datagram
  <2> QED BY <1>1, <2>2, MapsToTell DEF Promise!Next
<1>3. ASSUME NEW kind \in Kinds, Type(p, kind)
      PROVE  Promise!Next /\ ChainOK'
  <2>1. net' = net \cup Lines(p, kind)
    BY <1>3 DEF Type
  <2>2. ASSUME NEW m \in Lines(p, kind)
        PROVE  m.verb \in {"TEXT", "LONG"} /\ <<Whose[m.src], Whose[m.dst]>> \in Answered
    <3>1. PICK x \in pset[p] : m = Datagram(kind, At[p], EndpointOf(x), NoKey, NoArg)
      BY <2>2 DEF Lines
    <3>2. m.verb = kind /\ m.src = At[p] /\ m.dst = EndpointOf(x)
      BY <3>1 DEF Datagram
    <3>3. <<p, Whose[EndpointOf(x)]>> \in Linked
      BY DEF Linked
    <3>4. kind \in {"TEXT", "LONG"}
      BY PerlinkAssumption DEF PerlinkAssumption
    <3> QED BY <3>2, <3>3, <3>4, WhoseAt DEF ChainOK
  <2> QED BY <1>1, <2>1, <2>2, MapsToTell DEF Promise!Next
<1> QED BY <1>2, <1>3

LEMMA InitMaps ==
  ASSUME HistoryInit
  PROVE  Promise!Init /\ HistoryInv
<1> USE DEF HistoryInit
<1>1. net = {} /\ ever = {} /\ \A p \in Peers : pset[p] = {} /\ run[p] = "down"
  BY DEF Init, SrvInit
<1>2. Told = {} /\ Called = {} /\ Answered = {} /\ Linked = {} /\ Up = {}
  BY <1>1 DEF Told, Called, Answered, Wrote, Linked, Up
<1>3. Promise!Init
  BY <1>2 DEF Promise!Init, Init, Up, Called, Answered, Linked
<1>4. ChainOK /\ EverOK
  BY <1>1, <1>2 DEF ChainOK, EverOK
<1> QED BY <1>3, <1>4, InitInv DEF HistoryInv

\* Over a network that may lose, delay and repeat whatever was sent, a link is the end of
\* a chain of an introduction, a call and an answer (a_peer.cpp, u_server.cpp).
THEOREM SystemImplementsRendezvous ==
  ASSUME "SRV_SET_PEER" \notin Garbled, "PER_PONG" \notin Garbled
  PROVE  HistorySpec => NobodyLinksUncalled
<1>1. HistoryInit => Promise!Init /\ HistoryInv
  BY InitMaps
<1>2. ASSUME HistoryInv, [HistoryNext]_hvars
      PROVE  [Promise!Next]_(Promise!rvars) /\ HistoryInv'
  <2>1. Inv /\ EverOK /\ ChainOK /\ [Next]_vars
    BY <1>2 DEF HistoryInv, HistoryNext, hvars
  <2>2. Remembers
    <3>1. CASE HistoryNext
      BY <3>1 DEF HistoryNext, Remembers
    <3>2. CASE UNCHANGED hvars
      BY <2>1, <3>2 DEF hvars, vars, srvVars, Remembers, EverOK
    <3> QED BY <1>2, <3>1, <3>2
  <2>3. Inv' /\ EverOK'
    BY <2>1, <2>2, StepInv, StepGrows, EverStaysOK
  <2>4. CASE ServerAlone \/ \E m \in net : Serve(m)
    BY <1>2, <2>2, <2>3, <2>4, ServerMaps DEF HistoryInv
  <2>5. ASSUME NEW m \in net, Drop(m) \/ Lose(m)
        PROVE  Promise!Next /\ ChainOK'
    <3>1. net' \subseteq net /\ UNCHANGED <<run, been, pset>>
      BY <2>5 DEF Drop, Lose, Left, peerVars
    <3> QED BY <2>1, <2>2, <2>3, <3>1, MapsToTell DEF Promise!Next
  <2>6. ASSUME NEW p \in Peers, PeerStep(p) PROVE Promise!Next /\ ChainOK'
    <3>1. ASSUME NEW i \in Starts[p], Start(p, i) PROVE Promise!Next /\ ChainOK'
      BY <1>2, <2>2, <3>1, StartMaps DEF Promise!Next
    <3>2. CASE Crash(p)
      BY <1>2, <2>2, <3>2, CrashMaps DEF Promise!Next
    <3>3. CASE Register(p) \/ \E kind \in Kinds : Type(p, kind)
      BY <1>2, <2>2, <2>3, <3>3, SendingMaps
    <3>4. ASSUME NEW m \in net, Receive(p, m) PROVE Promise!Next /\ ChainOK'
      BY <1>2, <2>2, <2>3, <3>4, ReceiveMaps
    <3> QED BY <2>6, <3>1, <3>2, <3>3, <3>4 DEF PeerStep
  <2>7. CASE UNCHANGED vars
    <3>1. UNCHANGED <<net, run, been, pset>>
      BY <2>7 DEF vars, srvVars, peerVars
    <3> QED BY <2>1, <2>2, <2>3, <3>1, MapsToTell DEF Promise!Next, HistoryInv
  <2> QED BY <2>1, <2>3, <2>4, <2>5, <2>6, <2>7 DEF Next, HistoryInv
<1> QED BY <1>1, <1>2, PTL DEF HistorySpec, NobodyLinksUncalled, Promise!Spec

\* The memory changes nothing that the system does.
LEMMA HistoryIsPassive == HistorySpec => Spec
<1>1. HistoryInit => Init
  BY DEF HistoryInit
<1>2. [HistoryNext]_hvars => [Next]_vars
  BY DEF HistoryNext, hvars
<1> QED BY <1>1, <1>2, PTL DEF HistorySpec, Spec

\* What the promise is worth: behind a link there is an answer, behind that a call,
\* behind that an introduction, and behind that two peers of opposite roles.
History ==
  /\ Linked \subseteq Answered /\ Answered \subseteq Called /\ Called \subseteq Told
  /\ Told \subseteq Promise!Opposed

\* No step of Rendezvous makes a link, an answer, a call or an introduction out of nothing.
LEMMA PromiseKeepsHistory ==
  ASSUME History, Promise!Next, DOMAIN been = Peers
  PROVE  History'
<1> USE DEF History, Up, Linked, Answered, Called
<1>1. ASSUME NEW p \in Peers, Promise!Leave(p) PROVE History'
  <2>1. Linked' \subseteq Linked /\ UNCHANGED <<been, Told, Called, Answered>>
    BY <1>1 DEF Promise!Leave
  <2> QED BY <2>1 DEF Promise!Opposed
<1>2. ASSUME NEW p \in Peers, NEW r \in {0, 1}, Promise!Enter(p, r) PROVE History'
  <2>1. been' = [been EXCEPT ![p] = @ \cup {r}] /\ UNCHANGED <<Told, Called, Answered, Linked>>
    BY <1>2 DEF Promise!Enter
  <2>2. Promise!Opposed \subseteq Promise!Opposed'
    BY <2>1 DEF Promise!Opposed
  <2> QED BY <2>1, <2>2
<1>3. CASE Promise!Tell
  <2>1. /\ UNCHANGED <<been, Called, Answered, Linked>>
        /\ Told \subseteq Told' /\ Told' \subseteq Told \cup Promise!Opposed
    BY <1>3 DEF Promise!Tell, Promise!Grows, Promise!who
  <2> QED BY <2>1 DEF Promise!Opposed
<1>4. CASE Promise!Call
  <2>1. /\ UNCHANGED <<been, Told, Answered, Linked>>
        /\ Called \subseteq Called' /\ Called' \subseteq Called \cup Told
    BY <1>4 DEF Promise!Call, Promise!Grows, Promise!who
  <2> QED BY <2>1 DEF Promise!Opposed
<1>5. CASE Promise!Answer
  <2>1. /\ UNCHANGED <<been, Told, Called, Linked>>
        /\ Answered \subseteq Answered' /\ Answered' \subseteq Answered \cup Called
    BY <1>5 DEF Promise!Answer, Promise!Grows, Promise!who
  <2> QED BY <2>1 DEF Promise!Opposed
<1>6. CASE Promise!Link
  <2>1. /\ UNCHANGED <<been, Told, Called, Answered>>
        /\ Linked \subseteq Linked' /\ Linked' \subseteq Linked \cup Answered
    BY <1>6 DEF Promise!Link, Promise!Grows, Promise!who
  <2> QED BY <2>1 DEF Promise!Opposed
<1> QED BY <1>1, <1>2, <1>3, <1>4, <1>5, <1>6 DEF Promise!Next

\* So it is in the system, whoever was killed and started again since (a_peer.cpp).
THEOREM LinksHaveHistory ==
  ASSUME "SRV_SET_PEER" \notin Garbled, "PER_PONG" \notin Garbled
  PROVE  HistorySpec => []History
<1>1. HistoryInit => History
  <2> SUFFICES ASSUME HistoryInit PROVE History
    OBVIOUS
  <2>1. ever = {} /\ \A p \in Peers : pset[p] = {}
    BY DEF HistoryInit, Init
  <2>2. Told = {} /\ Called = {} /\ Answered = {} /\ Linked = {}
    BY <2>1 DEF Told, Called, Answered, Wrote, Linked
  <2> QED BY <2>2 DEF History
<1>2. Inv => DOMAIN been = Peers
  BY DEF Inv, PeerTypes
<1>3. UNCHANGED Promise!rvars /\ History => History'
  BY DEF History, Promise!rvars, Promise!who, Promise!Opposed, Linked, Answered, Called
<1>4. Inv /\ History /\ [Promise!Next]_(Promise!rvars) => History'
  BY <1>2, <1>3, PromiseKeepsHistory
<1> QED BY <1>1, <1>4, InvHolds, HistoryIsPassive, SystemImplementsRendezvous, PTL
        DEF HistorySpec, NobodyLinksUncalled, Promise!Spec
=============================================================================
