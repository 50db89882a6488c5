---------------------------- MODULE PeerSet ----------------------------
(***************************************************************************)
(* The set of linked peers a_peer::_pers, a std::set<SADDR_46>, under the  *)
(* one operation the program performs on it: the insertion of the source   *)
(* of a PER_PONG (a_peer::_per_process).                                   *)
(*                                                                         *)
(* mask is the mask of the addresses inserted: 0 for those that receive()  *)
(* reports, which are the ones the program inserts, and 1 for addresses    *)
(* made by a constructor, which is what the type was written for; the      *)
(* second is the reference the first is compared with.                     *)
(***************************************************************************)
EXTENDS SockAddr, FiniteSets

CONSTANTS Ips, Ports     \* no host sends from port 0

ASSUME PeerSetAssumption == Ips \subseteq Nat /\ Ports \subseteq Nat \ {0}

VARIABLES
  mask,      \* the mask of the addresses that are inserted
  pset,      \* _pers
  given      \* history: the endpoints whose insertion was asked for

psetVars == <<mask, pset, given>>

PeerSetTypeOK ==
  /\ mask \in {0, 1}
  /\ pset \subseteq SockAddrs(Ips, Ports)
  /\ given \subseteq Endpoint(Ips, Ports)

\* Variant: the port left in network byte order.
SockUnswapped(a) == [ip |-> a.ip, port |-> 256 * a.port, mask |-> mask]

Sock(a) == [ip |-> a.ip, port |-> a.port, mask |-> mask]

PeerSetInit == mask \in {0, 1} /\ pset = {} /\ given = {}

Insert(a) ==
  /\ pset' = SetInsert(pset, Sock(a))
  /\ given' = given \cup {a}
  /\ UNCHANGED mask

PeerSetNext == \E a \in Endpoint(Ips, Ports) : Insert(a)

PeerSetSpec == PeerSetInit /\ [][PeerSetNext]_psetVars

-----------------------------------------------------------------------------
\* The tree std::set keeps is searched by <, which must be a strict total order
\* on its members: sock.h's < ignores part of the address, so this is no given.
StrictlyOrdered ==
  \A x, y, z \in pset :
    /\ ~SLess(x, x)
    /\ x # y => (SLess(x, y) \/ SLess(y, x))
    /\ SLess(x, y) /\ SLess(y, z) => SLess(x, z)

\* insert() finds its place with < and _rec_udp recognises a sender with ==; the
\* two must agree, or a peer that was refused as already present would not be
\* recognised, or one that is recognised would be inserted a second time.
RecognisedIsPresent ==
  \A a \in Endpoint(Ips, Ports) :
    SetMatches(pset, Sock(a)) <=> SetInsert(pset, Sock(a)) = pset

\* What the peer can later send to: every endpoint that was inserted when the
\* mask is all ones, but with the mask receive() leaves exactly one endpoint for
\* each port, whichever came first.
OnePerPort ==
  /\ mask = 1 => {EndpointOf(x) : x \in pset} = given
  /\ mask = 0 => /\ {EndpointOf(x) : x \in pset} \subseteq given
                 /\ \A g \in given : \E x \in pset : x.port = g.port
                 /\ Cardinality(pset) = Cardinality({g.port : g \in given})
=============================================================================
