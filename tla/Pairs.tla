---------------------------- MODULE Pairs ----------------------------
(***************************************************************************)
(* The map of peers.cpp: under each name the two ends of a connection, an  *)
(* end being two addresses, the one it is seen at and the one it has.      *)
(*                                                                         *)
(* ipp::operator= does not copy the type of an address, and operator==     *)
(* compares it.  A new entry of the map is zeroed, so the type of what is  *)
(* stored is 0, whatever was given.                                        *)
(***************************************************************************)
EXTENDS Naturals

CONSTANTS
  Names,
  Hosts, LocalHost,  \* 127.0.0.1 is one of the hosts
  ThePorts,          \* with 0, which a slot that is not filled has
  Types

ASSUME PairsAssumption == LocalHost \in Hosts /\ ThePorts \subseteq Nat /\ Types \subseteq Nat

VARIABLES
  pairs,     \* _pairs: _a and _b of a name, or NoPair
  old,       \* the names born more than TTLIVE seconds ago
  second      \* history: the two addresses from which _b was filled

pairVars == <<pairs, old, second>>

Ipp == [host : Hosts, port : ThePorts, type : Types]
Stored == [host : Hosts \cup {0}, port : ThePorts \cup {0}]
Unset == [host |-> 0, port |-> 0]
NoPair == [a |-> <<>>, b |-> <<>>]

\* operator=
Store(p) == [host |-> p.host, port |-> p.port]

\* operator==, of what is stored and what is given.
Same(x, p) == x.host = p.host /\ x.port = p.port /\ p.type = 0

PairsTypeOK ==
  /\ pairs \in [Names -> [a : {<<>>} \cup Stored \X Stored, b : {<<>>} \cup Stored \X Stored]]
  /\ old \subseteq Names
  /\ second \in [Names -> {<<>>} \cup Ipp \X Ipp]

PairsInit ==
  /\ pairs = [n \in Names |-> NoPair]
  /\ old = {} /\ second = [n \in Names |-> <<>>]

Present(n) == pairs[n] # NoPair

-----------------------------------------------------------------------------
\* add() under a new name.
AddFirst(n, p, q) ==
  /\ ~Present(n)
  /\ pairs' = [pairs EXCEPT ![n] = [a |-> <<Store(p), Store(q)>>, b |-> <<Unset, Unset>>]]
  /\ second' = [second EXCEPT ![n] = <<>>]
  /\ UNCHANGED old

\* The first end again, when it was stored with port 0.
AddAgain(n, p, q) ==
  /\ Present(n) /\ pairs[n].a[1].port = 0
  /\ pairs' = [pairs EXCEPT ![n].a = <<Store(p), Store(q)>>]
  /\ UNCHANGED <<old, second>>

\* Variant: only the first address is looked at.
SameOneFirst(x, p, q) == Same(x.a[1], p) \/ Same(x.a[1], q)

\* "same one": the end that is there has come again.  Its second address may belong to
\* another one when both are on this host.
SameOne(x, p, q) ==
  \/ Same(x.a[1], p) \/ Same(x.a[1], q)
  \/ /\ Same(x.a[2], p) \/ Same(x.a[2], q)
     /\ p.host # LocalHost /\ q.host # LocalHost

\* The second end.  When both are there nothing is changed, and add() says that they are.
AddSecond(n, p, q) ==
  /\ Present(n) /\ pairs[n].a[1].port # 0
  /\ pairs[n].b[1].port = 0 /\ ~SameOne(pairs[n], p, q)
  /\ pairs' = [pairs EXCEPT ![n].b = <<Store(p), Store(q)>>]
  /\ second' = [second EXCEPT ![n] = <<p, q>>]
  /\ UNCHANGED old

Gone(names) ==
  /\ pairs' = [n \in Names |-> IF n \in names THEN NoPair ELSE pairs[n]]
  /\ second' = [n \in Names |-> IF n \in names THEN <<>> ELSE second[n]]
  /\ old' = old \ names

Remove(n) == Present(n) /\ Gone({n})

\* TTLIVE seconds pass, counted from the first end's arrival.
Ages(n) ==
  /\ Present(n) /\ n \notin old /\ old' = old \cup {n}
  /\ UNCHANGED <<pairs, second>>

\* del_oldies()
PairsDelOldies == old # {} /\ Gone(old)

PairsNext ==
  \/ \E n \in Names, p, q \in Ipp : AddFirst(n, p, q) \/ AddAgain(n, p, q) \/ AddSecond(n, p, q)
  \/ \E n \in Names : Remove(n) \/ Ages(n)
  \/ PairsDelOldies

PairsSpec == PairsInit /\ [][PairsNext]_pairVars

-----------------------------------------------------------------------------
\* An end is associated with itself only when the type it came with the second time
\* is not 0, for then it is not recognised, or over its second address on one host.
SelfPairedOnlyIf ==
  \A n \in Names : \A i, j \in {1, 2} :
    LET x == pairs[n]
    IN  Present(n) /\ second[n] # <<>> /\ x.b[i] = x.a[j] =>
          \/ second[n][i].type # 0
          \/ j = 2 /\ LocalHost \in {x.b[1].host, x.b[2].host}
=============================================================================
