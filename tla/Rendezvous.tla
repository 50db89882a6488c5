---------------------------- MODULE Rendezvous ----------------------------
(***************************************************************************)
(* What Perlink promises, with the server, the datagrams and the NATs left *)
(* out: nobody links uncalled.  A peer that runs is told of others, by     *)
(* somebody who saw both of them in opposite roles; it calls those it was  *)
(* told of, and no one else; who is called answers when it runs; and the   *)
(* caller links with one that answered, until it stops.                    *)
(* What was said once may be heard again at any later time.                *)
(*                                                                         *)
(* The four relations grow by any number of pairs at a time; a step makes  *)
(* only one of them grow.                                                  *)
(***************************************************************************)
CONSTANTS Peers, Roles

VARIABLES
  up,          \* the peers that run
  roles,       \* the roles each of them ever had
  told,        \* <<p, q>>: p was ever told of q
  called,      \* <<p, q>>: p ever called q
  answered,    \* <<p, q>>: q ever answered p's call
  linked       \* <<p, q>>: p is linked with q

who == <<up, roles>>
rvars == <<who, told, called, answered, linked>>

Opposed == {pq \in Peers \X Peers :
              \E r \in roles[pq[1]], s \in roles[pq[2]] : r # s}

\* The relation grows, by pairs of the given ones.
Grows(relation, grown, pairs) ==
  relation \subseteq grown /\ grown \subseteq relation \cup pairs

Init ==
  /\ up = {} /\ roles = [p \in Peers |-> {}]
  /\ told = {} /\ called = {} /\ answered = {} /\ linked = {}

Enter(p, r) ==
  /\ p \notin up /\ up' = up \cup {p}
  /\ roles' = [roles EXCEPT ![p] = @ \cup {r}]
  /\ UNCHANGED <<told, called, answered, linked>>

\* The links of a peer go with it; others may keep theirs with it.
Leave(p) ==
  /\ p \in up /\ up' = up \ {p}
  /\ linked' = {pq \in linked : pq[1] # p}
  /\ UNCHANGED <<roles, told, called, answered>>

Tell ==
  /\ Grows(told, told', Opposed)
  /\ UNCHANGED <<who, called, answered, linked>>

Call ==
  /\ Grows(called, called', {pq \in told : pq[1] \in up})
  /\ UNCHANGED <<who, told, answered, linked>>

Answer ==
  /\ Grows(answered, answered', {pq \in called : pq[2] \in up})
  /\ UNCHANGED <<who, told, called, linked>>

Link ==
  /\ Grows(linked, linked', {pq \in answered : pq[1] \in up})
  /\ UNCHANGED <<who, told, called, answered>>

Next ==
  \/ \E p \in Peers : Leave(p) \/ \E r \in Roles : Enter(p, r)
  \/ Tell \/ Call \/ Answer \/ Link

Spec == Init /\ [][Next]_rvars
=============================================================================
