-------------------------- MODULE PerlinkHistory --------------------------
(***************************************************************************)
(* Perlink with a memory: which datagrams were ever in the network.  It is *)
(* a history variable, which no action reads, and every step of Perlink    *)
(* can be taken with it.  What the system promises of what was ever said   *)
(* is stated with it, of any network: one that repeats what was sent, and  *)
(* one that forgets what arrived.                                          *)
(***************************************************************************)
EXTENDS Perlink

VARIABLE ever      \* history: the datagrams that were ever in net

hvars == <<vars, ever>>

HistoryInit == Init /\ ever = {}

HistoryNext == Next /\ ever' = ever \cup net'

HistorySpec == HistoryInit /\ [][HistoryNext]_hvars

-----------------------------------------------------------------------------
(* What the system promises.                                               *)

Whose == [a \in {At[p] : p \in Peers} |-> CHOOSE p \in Peers : At[p] = a]

\* Who was ever told where whom is.
Told ==
  {<<Whose[m.dst], Whose[m.arg.addr]>> : m \in {n \in ever : n.verb = "SRV_SET_PEER"}}

\* Who ever wrote a capsule of a verb to whom.  Only what the other can read: a ping is
\* under the key of who is called, a pong under that of who answers, and one of
\* another key says nothing.
Wrote(verb) ==
  {<<Whose[m.src], Whose[m.dst]>> :
     m \in {n \in ever : /\ n.verb = verb /\ n.dst \in DOMAIN Whose
                         /\ n.enc = PeerKey[Whose[n.dst]]}}

Promise == INSTANCE Rendezvous WITH
  Roles <- {0, 1},
  up <- {p \in Peers : run[p] = "up"},
  roles <- been,
  told <- Told,
  called <- Wrote("PER_PING"),
  answered <- {<<pq[2], pq[1]>> : pq \in Wrote("PER_PONG")},
  linked <- UNION {{<<p, Whose[EndpointOf(x)]>> : x \in pset[p]} : p \in Peers}

\* The system implements Rendezvous: a link is the end of a chain of an
\* introduction, a ping and a pong, each caused by the one before, whatever was
\* repeated, late, lost, of another key, or sent before somebody was killed.
NobodyLinksUncalled == Promise!Spec
=============================================================================
