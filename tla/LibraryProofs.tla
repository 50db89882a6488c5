------------------------ MODULE LibraryProofs ------------------------
(***************************************************************************)
(* What holds of the set of linked peers for any hosts and ports, of the   *)
(* map of pairs for any names, hosts and types of addresses, and of the    *)
(* cipher for words of any width, any keys and any number of rounds; and   *)
(* what the classes keep when a behaviour exercises any one of them.       *)
(***************************************************************************)
EXTENDS Library, TcpSocketProofs, OsThreadProofs, FiniteSetTheorems, SequenceTheorems,
        WellFoundedInduction, TLAPS

-----------------------------------------------------------------------------
(* The comparisons of SADDR_46, on addresses with the mask that the program *)
(* gives all of them.                                                      *)

Masked == {x \in SockAddrs(Ips, Ports) : x.mask = mask}

LEMMA SockIs ==
  ASSUME PeerSetTypeOK, NEW a \in Endpoint(Ips, Ports)
  PROVE  /\ Sock(a) \in Masked /\ Sock(a).ip = a.ip /\ Sock(a).port = a.port
         /\ EndpointOf(Sock(a)) = a
BY DEF PeerSetTypeOK, Masked, SockAddrs, Endpoint, Sock, EndpointOf

\* What < and == see: the port, and the address when the mask is all ones.
LEMMA ComparisonsAre ==
  ASSUME PeerSetTypeOK, NEW x \in Masked, NEW y \in Masked
  PROVE  /\ x.ip \in Nat /\ y.ip \in Nat /\ x.port \in Nat /\ y.port \in Nat
         /\ SLess(x, y) <=> \/ mask = 1 /\ x.ip < y.ip
                            \/ (mask = 1 => x.ip = y.ip) /\ x.port < y.port
         /\ SEq(x, y) <=> (mask = 1 => x.ip = y.ip) /\ x.port = y.port
<1>1. /\ x.ip \in Nat /\ y.ip \in Nat /\ x.port \in Nat \ {0} /\ y.port \in Nat \ {0}
      /\ x.mask = mask /\ y.mask = mask /\ mask \in {0, 1}
  BY PeerSetAssumption DEF PeerSetAssumption, PeerSetTypeOK, Masked, SockAddrs
<1>2. /\ MaskedIp(x, y) = IF mask = 1 THEN x.ip ELSE 0
      /\ MaskedIp(y, x) = IF mask = 1 THEN y.ip ELSE 0
  BY <1>1 DEF MaskedIp
<1> QED BY <1>1, <1>2 DEF SLess, SEq

\* So two addresses are the same key of the set when == says that they are equal.
LEMMA EquivalentIsEqual ==
  ASSUME PeerSetTypeOK, NEW x \in Masked, NEW y \in Masked
  PROVE  /\ Equivalent(x, y) <=> (mask = 1 => x.ip = y.ip) /\ x.port = y.port
         /\ Equivalent(x, y) <=> SEq(x, y)
         /\ Equivalent(x, x)
BY ComparisonsAre DEF Equivalent, PeerSetTypeOK

-----------------------------------------------------------------------------
(* The set.                                                                *)

\* No two members are the same key, and every endpoint that was inserted has one that
\* is the same key as it: the member that came first.
Distinct == \A x, y \in pset : Equivalent(x, y) => x = y
Represented == \A g \in given : \E x \in pset : Equivalent(x, Sock(g))

PeerSetInv ==
  /\ PeerSetTypeOK /\ IsFiniteSet(pset)
  /\ pset \subseteq Masked /\ {EndpointOf(x) : x \in pset} \subseteq given
  /\ Distinct /\ Represented

LEMMA PeerSetInvHolds == PeerSetSpec => []PeerSetInv
<1>1. PeerSetInit => PeerSetInv
  BY FS_EmptySet
     DEF PeerSetInit, PeerSetInv, PeerSetTypeOK, Masked, Distinct, Represented
<1>2. PeerSetInv /\ [PeerSetNext]_psetVars => PeerSetInv'
  <2> SUFFICES ASSUME PeerSetInv, [PeerSetNext]_psetVars PROVE PeerSetInv'
    OBVIOUS
  <2>1. CASE UNCHANGED psetVars
    BY <2>1 DEF psetVars, PeerSetInv, PeerSetTypeOK, Masked, Distinct, Represented, Sock
  <2>2. ASSUME NEW a \in Endpoint(Ips, Ports), Insert(a)
        PROVE  PeerSetInv'
    <3>1. /\ pset' = SetInsert(pset, Sock(a)) /\ given' = given \cup {a} /\ mask' = mask
          /\ Sock(a)' = Sock(a)
      BY <2>2 DEF Insert, Sock
    <3>2. /\ PeerSetTypeOK /\ IsFiniteSet(pset) /\ pset \subseteq Masked
          /\ {EndpointOf(x) : x \in pset} \subseteq given /\ Distinct /\ Represented
      BY DEF PeerSetInv
    <3>3. Sock(a) \in Masked /\ EndpointOf(Sock(a)) = a
      BY <3>2, SockIs
    <3>4. pset' \in {pset, pset \cup {Sock(a)}}
      BY <3>1 DEF SetInsert
    <3>5. PeerSetTypeOK' /\ pset' \subseteq Masked' /\ {EndpointOf(x) : x \in pset'} \subseteq given'
      BY <3>1, <3>2, <3>3, <3>4 DEF PeerSetTypeOK, Masked
    <3>6. IsFiniteSet(pset')
      BY <3>2, <3>4, FS_AddElement
    <3>7. Distinct'
      <4> SUFFICES ASSUME NEW x \in pset', NEW y \in pset', Equivalent(x, y) PROVE x = y
        BY DEF Distinct
      <4>1. CASE x \in pset /\ y \in pset
        BY <3>2, <4>1 DEF Distinct
      <4>2. CASE x \notin pset \/ y \notin pset
        <5>1. ~\E b \in pset : Equivalent(b, Sock(a))
          BY <3>1, <4>2 DEF SetInsert
        <5>2. Equivalent(y, x)
          BY DEF Equivalent
        <5> QED BY <3>4, <4>2, <5>1, <5>2
      <4> QED BY <4>1, <4>2
    <3>8. Represented'
      <4> SUFFICES ASSUME NEW g \in given' PROVE \E x \in pset' : Equivalent(x, Sock(g))
        BY <3>1 DEF Represented, Sock
      <4>1. CASE g = a
        BY <3>1, <3>2, <3>3, <4>1, EquivalentIsEqual DEF SetInsert
      <4>2. CASE g \in given
        BY <3>2, <3>4, <4>2 DEF Represented
      <4> QED BY <3>1, <4>1, <4>2
    <3> QED BY <3>5, <3>6, <3>7, <3>8 DEF PeerSetInv
  <2> QED BY <2>1, <2>2 DEF PeerSetNext
<1> QED BY <1>1, <1>2, PTL DEF PeerSetSpec

\* < is a strict total order on the members of the set, though it looks at no more
\* than a part of them: what it does not tell apart is never there twice.
THEOREM TreeIsOrdered == PeerSetSpec => []StrictlyOrdered
<1>1. PeerSetInv => StrictlyOrdered
  <2> SUFFICES ASSUME PeerSetInv, NEW x \in pset, NEW y \in pset, NEW z \in pset
               PROVE  /\ ~SLess(x, x)
                      /\ x # y => (SLess(x, y) \/ SLess(y, x))
                      /\ SLess(x, y) /\ SLess(y, z) => SLess(x, z)
    BY DEF StrictlyOrdered
  <2>1. PeerSetTypeOK /\ x \in Masked /\ y \in Masked /\ z \in Masked
    BY DEF PeerSetInv
  <2>2. ~SLess(x, x)
    BY <2>1, ComparisonsAre
  <2>3. x # y => (SLess(x, y) \/ SLess(y, x))
    BY DEF PeerSetInv, Distinct, Equivalent
  <2>4. SLess(x, y) /\ SLess(y, z) => SLess(x, z)
    BY <2>1, ComparisonsAre
  <2> QED BY <2>2, <2>3, <2>4
<1> QED BY <1>1, PeerSetInvHolds, PTL

\* _rec_udp recognises a sender exactly when insert() would find it present.
THEOREM RecognisedWhenPresent == PeerSetSpec => []RecognisedIsPresent
<1>1. PeerSetInv => RecognisedIsPresent
  <2> SUFFICES ASSUME PeerSetInv, NEW a \in Endpoint(Ips, Ports)
               PROVE  SetMatches(pset, Sock(a)) <=> SetInsert(pset, Sock(a)) = pset
    BY DEF RecognisedIsPresent
  <2>1. PeerSetTypeOK /\ pset \subseteq Masked /\ Sock(a) \in Masked
    BY SockIs DEF PeerSetInv
  <2>2. \A b \in pset : Equivalent(b, Sock(a)) <=> SEq(b, Sock(a))
    BY <2>1, EquivalentIsEqual
  <2>3. Equivalent(Sock(a), Sock(a))
    BY <2>1, EquivalentIsEqual
  <2> QED BY <2>2, <2>3 DEF SetMatches, SetInsert
<1> QED BY <1>1, PeerSetInvHolds, PTL

\* What is in the set, whatever was inserted and in whatever order: all of it when the
\* mask is all ones, and with the mask of receive() one endpoint for each port.
THEOREM OneForEachPort == PeerSetSpec => []OnePerPort
<1>1. PeerSetInv => OnePerPort
  <2> SUFFICES ASSUME PeerSetInv PROVE OnePerPort
    OBVIOUS
  <2>1. /\ PeerSetTypeOK /\ IsFiniteSet(pset) /\ pset \subseteq Masked
        /\ {EndpointOf(x) : x \in pset} \subseteq given
        /\ given \subseteq Endpoint(Ips, Ports)
    BY DEF PeerSetInv, PeerSetTypeOK
  <2>2. ASSUME NEW x \in pset, NEW y \in pset
        PROVE  (mask = 1 => x.ip = y.ip) /\ x.port = y.port => x = y
    BY <2>1, EquivalentIsEqual DEF PeerSetInv, Distinct
  <2>3. ASSUME NEW g \in given
        PROVE  \E x \in pset : (mask = 1 => x.ip = g.ip) /\ x.port = g.port
    <3>1. Sock(g) \in Masked /\ Sock(g).ip = g.ip /\ Sock(g).port = g.port
      BY <2>1, SockIs
    <3> QED BY <2>1, <3>1, EquivalentIsEqual DEF PeerSetInv, Represented
  <2>4. ASSUME mask = 1
        PROVE  given \subseteq {EndpointOf(x) : x \in pset}
    <3> SUFFICES ASSUME NEW g \in given PROVE \E x \in pset : EndpointOf(x) = g
      OBVIOUS
    <3>1. g = [ip |-> g.ip, port |-> g.port]
      BY <2>1 DEF Endpoint
    <3> QED BY <2>3, <2>4, <3>1 DEF EndpointOf
  <2>5. ASSUME mask = 0
        PROVE  Cardinality(pset) = Cardinality({g.port : g \in given})
    <3>1. {g.port : g \in given} = {x.port : x \in pset}
      <4>1. ASSUME NEW x \in pset PROVE EndpointOf(x) \in given /\ EndpointOf(x).port = x.port
        BY <2>1 DEF EndpointOf
      <4> QED BY <2>3, <4>1
    <3> DEFINE f == [x \in pset |-> x.port]
    <3>2. f \in Bijection(pset, {x.port : x \in pset})
      BY <2>2, <2>5 DEF Bijection, Injection, Surjection, IsInjective
    <3>3. ExistsBijection(pset, {x.port : x \in pset})
      BY <3>2 DEF ExistsBijection
    <3> QED BY <2>1, <3>1, <3>3, FS_Bijection
  <2> QED BY <2>1, <2>3, <2>4, <2>5 DEF OnePerPort
<1> QED BY <1>1, PeerSetInvHolds, PTL

-----------------------------------------------------------------------------
(* The pairs.                                                              *)

TwoEnds == [a : Stored \X Stored, b : Stored \X Stored]

\* An entry has both slots, and the second end that was filled is what it came as, was
\* not recognised as the first, and found a first end that nothing replaces any more.
PairOK(n) ==
  Present(n) =>
    /\ pairs[n] \in TwoEnds
    /\ second[n] # <<>> =>
         /\ pairs[n].a[1].port # 0
         /\ pairs[n].b = <<Store(second[n][1]), Store(second[n][2])>>
         /\ ~SameOne(pairs[n], second[n][1], second[n][2])

PairsInv == PairsTypeOK /\ \A n \in Names : PairOK(n)

LEMMA StoreIs ==
  ASSUME NEW p \in Ipp
  PROVE  Store(p) \in Stored /\ Store(p).host = p.host /\ Store(p).port = p.port
BY DEF Ipp, Stored, Store

\* A step that touches one name leaves the others as they are.
LEMMA OtherPairs ==
  ASSUME PairsTypeOK, NEW n \in Names, NEW m \in Names, m # n, PairOK(m),
         NEW x, NEW y, pairs' = [pairs EXCEPT ![n] = x],
         second' = second \/ second' = [second EXCEPT ![n] = y]
  PROVE  PairOK(m)'
<1>1. pairs'[m] = pairs[m] /\ second'[m] = second[m]
  BY DEF PairsTypeOK
<1> QED BY <1>1 DEF PairOK, Present, SameOne, Same

LEMMA PairsInvHolds == PairsSpec => []PairsInv
<1>1. PairsInit => PairsInv
  BY DEF PairsInit, PairsInv, PairsTypeOK, PairOK, Present, NoPair
<1>2. PairsInv /\ [PairsNext]_pairVars => PairsInv'
  <2> SUFFICES ASSUME PairsInv, [PairsNext]_pairVars PROVE PairsInv'
    OBVIOUS
  <2>1. PairsTypeOK /\ \A n \in Names : PairOK(n)
    BY DEF PairsInv
  <2>2. ASSUME NEW n \in Names, NEW p \in Ipp, NEW q \in Ipp, AddFirst(n, p, q)
        PROVE  PairsInv'
    <3> DEFINE new == [a |-> <<Store(p), Store(q)>>, b |-> <<Unset, Unset>>]
    <3>1. pairs' = [pairs EXCEPT ![n] = new] /\ second' = [second EXCEPT ![n] = <<>>] /\ old' = old
      BY <2>2 DEF AddFirst
    <3>2. new \in TwoEnds
      BY StoreIs DEF TwoEnds, Unset, Stored
    <3>3. PairsTypeOK'
      BY <2>1, <3>1, <3>2 DEF PairsTypeOK, TwoEnds
    <3>4. PairOK(n)'
      <4>1. pairs'[n] = new /\ second'[n] = <<>>
        BY <2>1, <3>1 DEF PairsTypeOK
      <4> QED BY <3>2, <4>1 DEF PairOK
    <3> HIDE DEF new
    <3>5. \A m \in Names : PairOK(m)'
      BY <2>1, <3>1, <3>4, OtherPairs
    <3> QED BY <3>3, <3>5 DEF PairsInv
  <2>3. ASSUME NEW n \in Names, NEW p \in Ipp, NEW q \in Ipp, AddAgain(n, p, q)
        PROVE  PairsInv'
    <3> DEFINE new == [pairs[n] EXCEPT !.a = <<Store(p), Store(q)>>]
    <3>1. /\ pairs' = [pairs EXCEPT ![n] = new] /\ second' = second /\ old' = old
          /\ Present(n) /\ pairs[n].a[1].port = 0
      BY <2>3 DEF AddAgain
    <3>2. pairs[n] \in TwoEnds /\ second[n] = <<>>
      BY <2>1, <3>1 DEF PairOK
    <3>3. new \in TwoEnds
      BY <3>2, StoreIs DEF TwoEnds
    <3>4. PairsTypeOK'
      BY <2>1, <3>1, <3>3 DEF PairsTypeOK, TwoEnds
    <3>5. PairOK(n)'
      <4>1. pairs'[n] = new /\ second'[n] = <<>>
        BY <2>1, <3>1, <3>2 DEF PairsTypeOK
      <4> QED BY <3>3, <4>1 DEF PairOK
    <3> HIDE DEF new
    <3>6. \A m \in Names : PairOK(m)'
      BY <2>1, <3>1, <3>5, OtherPairs
    <3> QED BY <3>4, <3>6 DEF PairsInv
  <2>4. ASSUME NEW n \in Names, NEW p \in Ipp, NEW q \in Ipp, AddSecond(n, p, q)
        PROVE  PairsInv'
    <3> DEFINE new == [pairs[n] EXCEPT !.b = <<Store(p), Store(q)>>]
    <3>1. /\ pairs' = [pairs EXCEPT ![n] = new] /\ second' = [second EXCEPT ![n] = <<p, q>>]
          /\ old' = old /\ Present(n) /\ pairs[n].a[1].port # 0 /\ ~SameOne(pairs[n], p, q)
      BY <2>4 DEF AddSecond
    <3>2. pairs[n] \in TwoEnds
      BY <2>1, <3>1 DEF PairOK
    <3>3. new \in TwoEnds /\ new.a = pairs[n].a /\ new.b = <<Store(p), Store(q)>>
      BY <3>2, StoreIs DEF TwoEnds
    <3>4. PairsTypeOK'
      BY <2>1, <3>1, <3>3 DEF PairsTypeOK, TwoEnds
    <3>5. PairOK(n)'
      <4>1. pairs'[n] = new /\ second'[n] = <<p, q>>
        BY <2>1, <3>1 DEF PairsTypeOK
      <4>2. ~SameOne(new, p, q)
        BY <3>1, <3>3 DEF SameOne
      <4> HIDE DEF new
      <4>3. second'[n][1] = p /\ second'[n][2] = q
        BY <4>1
      <4>4. ~SameOne(pairs'[n], second'[n][1], second'[n][2])
        BY <4>1, <4>2, <4>3
      <4>5. pairs'[n].b = <<Store(second'[n][1]), Store(second'[n][2])>>
        BY <3>3, <4>1, <4>3
      <4>6. pairs'[n] \in TwoEnds /\ pairs'[n].a[1].port # 0
        BY <3>1, <3>3, <4>1
      <4> QED BY <4>4, <4>5, <4>6 DEF PairOK, SameOne, Same, Store
    <3> HIDE DEF new
    <3>6. \A m \in Names : PairOK(m)'
      BY <2>1, <3>1, <3>5, OtherPairs
    <3> QED BY <3>4, <3>6 DEF PairsInv
  <2>5. ASSUME NEW names, Gone(names)
        PROVE  PairsInv'
    <3>1. PairsTypeOK'
      BY <2>1, <2>5 DEF Gone, PairsTypeOK, NoPair
    <3>2. ASSUME NEW m \in Names PROVE PairOK(m)'
      <4>1. CASE m \in names
        BY <2>5, <4>1 DEF Gone, PairOK, Present
      <4>2. CASE m \notin names
        <5>1. pairs'[m] = pairs[m] /\ second'[m] = second[m]
          BY <2>5, <4>2 DEF Gone
        <5> QED BY <2>1, <5>1 DEF PairOK, Present, SameOne, Same
      <4> QED BY <4>1, <4>2
    <3> QED BY <3>1, <3>2 DEF PairsInv
  <2>6. ASSUME pairs' = pairs, second' = second, old' \subseteq Names
        PROVE  PairsInv'
    BY <2>1, <2>6 DEF PairsInv, PairsTypeOK, PairOK, Present, SameOne, Same
  <2>7. ASSUME NEW n \in Names, Ages(n)
        PROVE  PairsInv'
    BY <2>1, <2>6, <2>7 DEF Ages, PairsTypeOK
  <2>8. CASE UNCHANGED pairVars
    BY <2>1, <2>6, <2>8 DEF pairVars, PairsTypeOK
  <2> QED BY <2>2, <2>3, <2>4, <2>5, <2>7, <2>8 DEF PairsNext, Remove, PairsDelOldies
<1> QED BY <1>1, <1>2, PTL DEF PairsSpec

\* An end is paired with itself only when it came the second time with a type, which
\* the comparison then sees, or over its second address on one host.
THEOREM SelfPairedOnlyThen == PairsSpec => []SelfPairedOnlyIf
<1>1. PairsInv => SelfPairedOnlyIf
  <2> SUFFICES ASSUME PairsInv, NEW n \in Names, NEW i \in {1, 2}, NEW j \in {1, 2},
                      Present(n), second[n] # <<>>, pairs[n].b[i] = pairs[n].a[j],
                      second[n][i].type = 0
               PROVE  j = 2 /\ LocalHost \in {pairs[n].b[1].host, pairs[n].b[2].host}
    BY DEF SelfPairedOnlyIf
  <2>1. PICK p \in Ipp, q \in Ipp : second[n] = <<p, q>>
    BY DEF PairsInv, PairsTypeOK
  <2>2. pairs[n].b = <<Store(p), Store(q)>> /\ ~SameOne(pairs[n], p, q)
    <3>1. /\ pairs[n].b = <<Store(second[n][1]), Store(second[n][2])>>
          /\ ~SameOne(pairs[n], second[n][1], second[n][2])
      BY DEF PairsInv, PairOK
    <3>2. second[n][1] = p /\ second[n][2] = q
      BY <2>1
    <3> QED BY <3>1, <3>2
  <2>3. PICK r \in {p, q} : Store(r) = pairs[n].a[j] /\ r.type = 0
    BY <2>1, <2>2
  <2>4. Same(pairs[n].a[j], r)
    BY <2>1, <2>3, StoreIs DEF Same
  <2>5. j = 2 /\ (p.host = LocalHost \/ q.host = LocalHost)
    BY <2>2, <2>3, <2>4 DEF SameOne
  <2> QED BY <2>1, <2>2, <2>5, StoreIs
<1> QED BY <1>1, PairsInvHolds, PTL

-----------------------------------------------------------------------------
(* Rounds.                                                                 *)

\* What is so at 0, and at n + 1 when it is at n, is so everywhere.
LEMMA Climb ==
  ASSUME NEW N \in Nat, NEW T, 0 \in T, \A n \in 0 .. N - 1 : n \in T => n + 1 \in T
  PROVE  0 .. N \subseteq T
<1> DEFINE R == OpToRel(<, Nat)
           U == {n \in 0 .. N : n \notin T}
<1>1. \A x, y \in Nat : <<x, y>> \in R <=> x < y
  BY DEF OpToRel
<1>2. IsWellFoundedOn(R, Nat)
  BY NatLessThanWellFounded
<1>3. U = {}
  <2> SUFFICES ASSUME U # {} PROVE FALSE
    OBVIOUS
  <2> HIDE DEF R
  <2>0. U \subseteq Nat
    OBVIOUS
  <2>1. \E x \in U : \A y \in U : ~ (<<y, x>> \in R)
    <3> HIDE DEF U
    <3> QED BY <1>2, <2>0, WFMin
  <2>2. PICK x \in U : \A y \in U : ~ (<<y, x>> \in R)
    BY <2>1
  <2>3. x \in 0 .. N /\ x # 0 /\ x - 1 \in 0 .. N - 1 /\ x - 1 < x /\ x \notin T
    OBVIOUS
  <2>4. x - 1 \notin U
    <3>1. <<x - 1, x>> \in R
      BY <1>1, <2>3
    <3> QED BY <2>2, <3>1
  <2>5. x - 1 \in T /\ (x - 1) + 1 = x
    BY <2>3, <2>4
  <2> QED BY <2>3, <2>5
<1> QED BY <1>3

\* f is what a loop goes through that takes N turns of step, from s.
Loop(f, S, s, step, N) ==
  f \in [0 .. N -> S] /\ f[0] = s /\ \A i \in 1 .. N : f[i] = step[f[i - 1]]

\* There is such a loop.
LEMMA LoopExists ==
  ASSUME NEW S, NEW s \in S, NEW step \in [S -> S], NEW N \in Nat
  PROVE  \E f : Loop(f, S, s, step, N)
<1> DEFINE T == {n \in Nat : \E f : Loop(f, S, s, step, n)}
<1>1. 0 \in T
  <2>1. Loop([i \in 0 .. 0 |-> s], S, s, step, 0)
    BY DEF Loop
  <2> QED BY <2>1
<1>2. ASSUME NEW n \in 0 .. N - 1, n \in T PROVE n + 1 \in T
  <2>1. PICK f : Loop(f, S, s, step, n)
    BY <1>2
  <2> DEFINE g == [i \in 0 .. n + 1 |-> IF i = n + 1 THEN step[f[n]] ELSE f[i]]
  <2>2. f \in [0 .. n -> S] /\ f[0] = s /\ \A i \in 1 .. n : f[i] = step[f[i - 1]]
    BY <2>1 DEF Loop
  <2>3. Loop(g, S, s, step, n + 1)
    <3>0. g \in [0 .. n + 1 -> S]
      BY <2>2
    <3>1. g[0] = s
      BY <2>2
    <3>2. ASSUME NEW i \in 1 .. n + 1 PROVE g[i] = step[g[i - 1]]
      <4>1. CASE i = n + 1
        BY <4>1
      <4>2. CASE i # n + 1
        BY <2>2, <4>2
      <4> QED BY <4>1, <4>2
    <3> HIDE DEF g
    <3> QED BY <3>0, <3>1, <3>2 DEF Loop
  <2>4. n + 1 \in Nat
    OBVIOUS
  <2> HIDE DEF g
  <2> QED BY <2>3, <2>4
<1>3. N \in T
  <2> HIDE DEF T
  <2>1. 0 .. N \subseteq T
    BY <1>1, <1>2, Climb
  <2> QED BY <2>1
<1> QED BY <1>3

\* A function on 0 .. N that does what the loop does as long as it is in S never leaves S.
LEMMA LoopIs ==
  ASSUME NEW S, NEW s \in S, NEW step \in [S -> S], NEW N \in Nat, NEW f,
         f = [i \in 0 .. N |-> f[i]], f[0] = s,
         \A i \in 1 .. N : f[i - 1] \in S => f[i] = step[f[i - 1]]
  PROVE  Loop(f, S, s, step, N)
<1> DEFINE T == {i \in 0 .. N : f[i] \in S}
<1>1. 0 \in T
  OBVIOUS
<1>2. ASSUME NEW n \in 0 .. N - 1, n \in T PROVE n + 1 \in T
  <2>1. n + 1 \in 1 .. N /\ (n + 1) - 1 = n /\ f[n] \in S
    BY <1>2
  <2>2. f[n + 1] = step[f[n]]
    BY <2>1
  <2> QED BY <2>1, <2>2
<1>3. 0 .. N \subseteq T
  <2> HIDE DEF T
  <2> QED BY <1>1, <1>2, Climb
<1>4. \A i \in 0 .. N : f[i] \in S
  BY <1>3
<1>5. f \in [0 .. N -> S]
  BY <1>4
<1>6. \A i \in 1 .. N : f[i] = step[f[i - 1]]
  <2>1. \A i \in 1 .. N : i - 1 \in 0 .. N
    OBVIOUS
  <2> QED BY <1>4, <2>1
<1> QED BY <1>5, <1>6 DEF Loop

-----------------------------------------------------------------------------
(* XTEA.                                                                   *)

\* Whole multiples do not count.
LEMMA ModShift ==
  ASSUME NEW M \in Nat \ {0}, NEW x \in Int, NEW k \in Int
  PROVE  (x + k * M) % M = x % M
<1> DEFINE q == x \div M
           r == x % M
<1>1. q \in Int /\ r \in 0 .. M - 1 /\ x = q * M + r
  OBVIOUS
<1> HIDE DEF q, r
<1>2. (q + k) * M = q * M + k * M
  BY <1>1
<1>3. (r + (q + k) * M) % M = r
  BY <1>1
<1>4. x + k * M = r + (q + k) * M
  <2> DEFINE a == q * M
             b == k * M
  <2>1. a \in Int /\ b \in Int
    BY <1>1
  <2>2. x = a + r /\ (q + k) * M = a + b
    BY <1>1, <1>2
  <2> HIDE DEF a
  <2>3. x + b = r + (a + b)
    <3> HIDE DEF b
    <3> QED BY <1>1, <2>1, <2>2
  <2> QED BY <2>2, <2>3
<1> QED BY <1>3, <1>4 DEF r

\* A sum may be reduced as it is formed.
LEMMA ModAdd ==
  ASSUME NEW M \in Nat \ {0}, NEW a \in Int, NEW b \in Int
  PROVE  ((a % M) + b) % M = (a + b) % M
<1> DEFINE q == a \div M
           t == q * M
<1>1. q \in Int /\ a % M \in Int /\ a = q * M + (a % M)
  OBVIOUS
<1> HIDE DEF q
<1>2. t \in Int /\ a = t + (a % M)
  BY <1>1
<1>3. (-q) * M = -t
  BY <1>1
<1> HIDE DEF t
<1>4. (a % M) + b = (a + b) + (-q) * M
  BY <1>1, <1>2, <1>3
<1>5. ((a + b) + (-q) * M) % M = (a + b) % M
  <2>1. a + b \in Int /\ -q \in Int
    BY <1>1
  <2> QED BY <2>1, ModShift
<1> QED BY <1>4, <1>5

LEMMA DivLess ==
  ASSUME NEW M \in Nat \ {0}, NEW a \in 0 .. M - 1, NEW d \in Nat \ {0}
  PROVE  a \div d \in 0 .. M - 1
OBVIOUS

LEMMA WrapIs ==
  /\ \A n \in Int : Wrap(n) \in Word
  /\ \A n \in Word : Wrap(n) = n
  /\ 0 \in Word /\ Word \subseteq Nat
<1>1. 2^Width \in Nat \ {0}
  BY CipherAssumption DEF CipherAssumption
<1> DEFINE M == 2^Width
<1> HIDE DEF M
<1>2. /\ \A n \in Int : n % M \in 0 .. M - 1
      /\ \A n \in 0 .. M - 1 : n % M = n
      /\ 0 \in 0 .. M - 1 /\ 0 .. M - 1 \subseteq Nat
  BY <1>1 DEF M
<1> QED BY <1>2 DEF Wrap, Word, M

LEMMA WordIsInt == \A n \in Word : n \in Int
BY WrapIs

LEMMA WrapAdd ==
  ASSUME NEW a \in Int, NEW b \in Int
  PROVE  Wrap(Wrap(a) + b) = Wrap(a + b)
<1>1. 2^Width \in Nat \ {0}
  BY CipherAssumption DEF CipherAssumption
<1> QED BY <1>1, ModAdd DEF Wrap

\* What was added in 32 bits is taken away again in 32 bits.
LEMMA WrapBack ==
  ASSUME NEW a \in Word, NEW m \in Word
  PROVE  Wrap(Wrap(a + m) - m) = a
<1>1. a \in Int /\ m \in Int
  BY WrapIs
<1>2. a + m \in Int /\ -m \in Int /\ (a + m) + (-m) = a
  BY <1>1
<1>3. Wrap(a + m) \in Int
  BY <1>2, WrapIs, WordIsInt
<1>4. Wrap(Wrap(a + m) + (-m)) = a
  BY <1>2, WrapAdd, WrapIs
<1>5. Wrap(a + m) + (-m) = Wrap(a + m) - m
  BY <1>1, <1>3
<1> QED BY <1>4, <1>5

\* sum, counted up in a loop, is what is computed at once.
LEMMA WrapSum ==
  ASSUME NEW n \in Nat
  PROVE  Wrap(Wrap(Delta * n) + Delta) = Wrap(Delta * (n + 1))
<1>1. Delta \in Int
  BY CipherAssumption, WrapIs DEF CipherAssumption
<1>2. Delta * n \in Int /\ Delta * n + Delta = Delta * (n + 1)
  BY <1>1
<1> QED BY <1>1, <1>2, WrapAdd

LEMMA MixIs ==
  ASSUME NEW v \in Word, NEW sum \in Word, NEW k \in Secrets, NEW i \in 0 .. 3
  PROVE  Mix(v, sum, k, i) \in Word
<1>1. /\ 2^Width \in Nat \ {0} /\ 2^Left \in Nat \ {0} /\ 2^Right \in Nat \ {0}
      /\ k \in [1 .. 4 -> Word] /\ \A a, b \in Word : XorOf(a, b) \in Word
  BY CipherAssumption DEF CipherAssumption
<1>2. Wrap(v * 2^Left) \in Word
  <2>1. v * 2^Left \in Int
    BY <1>1, WrapIs
  <2> QED BY <2>1, WrapIs
<1>3. v \div 2^Right \in Word
  BY <1>1, DivLess DEF Word
<1>4. XorOf(Wrap(v * 2^Left), v \div 2^Right) \in Word
  BY <1>1, <1>2, <1>3
<1>5. Wrap(sum + k[i + 1]) \in Word
  <2>1. i + 1 \in 1 .. 4
    OBVIOUS
  <2>2. k[i + 1] \in Word
    BY <1>1, <2>1
  <2>3. sum \in Int /\ k[i + 1] \in Int
    BY <2>2, WordIsInt
  <2>4. sum + k[i + 1] \in Int
    BY <2>3
  <2> QED BY <2>4, WrapIs
<1>6. Wrap(XorOf(Wrap(v * 2^Left), v \div 2^Right) + v) \in Word
  <2>1. XorOf(Wrap(v * 2^Left), v \div 2^Right) \in Int /\ v \in Int
    BY <1>4, WordIsInt
  <2>2. XorOf(Wrap(v * 2^Left), v \div 2^Right) + v \in Int
    BY <2>1
  <2> QED BY <2>2, WrapIs
<1> QED BY <1>1, <1>5, <1>6 DEF Mix

LEMMA PartIs ==
  ASSUME NEW sum \in Word
  PROVE  First(sum) \in 0 .. 3 /\ Second(sum) \in 0 .. 3
<1>1. 2^SumRight \in Nat \ {0} /\ sum \in Nat
  BY CipherAssumption, WrapIs DEF CipherAssumption
<1>2. sum \div 2^SumRight \in Int
  BY <1>1
<1> QED BY <1>1, <1>2 DEF First, Second

LEMMA WrapPlus ==
  ASSUME NEW a \in Word, NEW b \in Word
  PROVE  Wrap(a + b) \in Word /\ Wrap(a - b) \in Word
<1>1. a \in Int /\ b \in Int
  BY WrapIs
<1>2. a + b \in Int /\ a - b \in Int
  BY <1>1
<1> QED BY <1>2, WrapIs

\* A round of deciphering undoes one of enciphering, whatever the words are mixed with.
LEMMA RoundBack ==
  ASSUME NEW r \in Locals, NEW k \in Secrets
  PROVE  /\ EncipherRound(r, k) \in Locals /\ DecipherRound(r, k) \in Locals
         /\ DecipherRound(EncipherRound(r, k), k) = r
         /\ EncipherRound(r, k).sum = Wrap(r.sum + Delta)
<1>1. Delta \in Word
  BY CipherAssumption DEF CipherAssumption
<1>2. r.v0 \in Word /\ r.v1 \in Word /\ r.sum \in Word
  BY DEF Locals
<1>3. \A v, sum \in Word :
        /\ Mix(v, sum, k, First(sum)) \in Word
        /\ Mix(v, sum, k, Second(sum)) \in Word
  BY MixIs, PartIs
<1> DEFINE mix0 == Mix(r.v1, r.sum, k, First(r.sum))
           v0 == Wrap(r.v0 + mix0)
           sum == Wrap(r.sum + Delta)
           mix1 == Mix(v0, sum, k, Second(sum))
           v1 == Wrap(r.v1 + mix1)
           e == [v0 |-> v0, v1 |-> v1, sum |-> sum]
<1>4. mix0 \in Word /\ v0 \in Word /\ sum \in Word
  BY <1>1, <1>2, <1>3, WrapPlus
<1>5. mix1 \in Word /\ v1 \in Word
  <2> HIDE DEF v0, sum
  <2>1. mix1 \in Word
    BY <1>3, <1>4
  <2> HIDE DEF mix1
  <2> QED BY <1>2, <2>1, WrapPlus
<1>6. EncipherRound(r, k) = e /\ e \in Locals /\ e.sum = Wrap(r.sum + Delta)
  BY <1>4, <1>5 DEF EncipherRound, Locals
<1>7. Wrap(sum - Delta) = r.sum /\ Wrap(v1 - mix1) = r.v1 /\ Wrap(v0 - mix0) = r.v0
  <2> HIDE DEF mix0, mix1
  <2> QED BY <1>1, <1>2, <1>4, <1>5, WrapBack
<1>8. DecipherRound(e, k) = r
  <2>1. r = [v0 |-> r.v0, v1 |-> r.v1, sum |-> r.sum]
    BY DEF Locals
  <2>2. DecipherRound(e, k) =
          LET w1 == Wrap(v1 - Mix(v0, sum, k, Second(sum)))
              lower == Wrap(sum - Delta)
          IN  [v0 |-> Wrap(v0 - Mix(w1, lower, k, First(lower))), v1 |-> w1, sum |-> lower]
    BY DEF DecipherRound
  <2> HIDE DEF v0, v1, sum
  <2> QED BY <1>7, <2>1, <2>2
<1>9. DecipherRound(r, k) \in Locals
  <2> DEFINE w1 == Wrap(r.v1 - Mix(r.v0, r.sum, k, Second(r.sum)))
             lower == Wrap(r.sum - Delta)
  <2>1. w1 \in Word /\ lower \in Word
    BY <1>1, <1>2, <1>3, WrapPlus
  <2>2. Wrap(r.v0 - Mix(w1, lower, k, First(lower))) \in Word
    <3> HIDE DEF w1, lower
    <3>1. Mix(w1, lower, k, First(lower)) \in Word
      BY <1>3, <2>1
    <3> QED BY <1>2, <3>1, WrapPlus
  <2> QED BY <2>1, <2>2 DEF DecipherRound, Locals
<1> QED BY <1>6, <1>8, <1>9

EncipherStep(k) == [r \in Locals |-> EncipherRound(r, k)]
DecipherStep(k) == [r \in Locals |-> DecipherRound(r, k)]

EncipherStart(v) == [v0 |-> v[1], v1 |-> v[2], sum |-> 0]
DecipherStart(v) == [v0 |-> v[1], v1 |-> v[2], sum |-> Wrap(Delta * Rounds)]

LEMMA SumIs == \A n \in Nat : Wrap(Delta * n) \in Word
<1> SUFFICES ASSUME NEW n \in Nat PROVE Wrap(Delta * n) \in Word
  OBVIOUS
<1>1. Delta \in Int
  BY CipherAssumption, WordIsInt DEF CipherAssumption
<1>2. Delta * n \in Int
  BY <1>1
<1> QED BY <1>2, WrapIs

\* What xtea_encipher goes through, and what it returns.
LEMMA EncipherIs ==
  ASSUME NEW k \in Secrets, NEW v, v[1] \in Word, v[2] \in Word
  PROVE  \E f : /\ Loop(f, Locals, EncipherStart(v), EncipherStep(k), Rounds)
                /\ Encipher(v, k) = <<f[Rounds].v0, f[Rounds].v1>>
<1> DEFINE s == EncipherStart(v)
           step == EncipherStep(k)
           f == CHOOSE g :
                  g = [i \in 0 .. Rounds |-> IF i = 0 THEN s ELSE EncipherRound(g[i - 1], k)]
<1>1. s \in Locals /\ step \in [Locals -> Locals] /\ Rounds \in Nat
  BY RoundBack, WrapIs, SumIs, CipherAssumption DEF Locals, CipherAssumption, EncipherStep, EncipherStart
<1>2. Encipher(v, k) = <<f[Rounds].v0, f[Rounds].v1>>
  BY DEF Encipher, EncipherStart
<1> HIDE DEF s
<1>3. PICK h : Loop(h, Locals, s, step, Rounds)
  BY <1>1, LoopExists
<1>4. h = [i \in 0 .. Rounds |-> IF i = 0 THEN s ELSE EncipherRound(h[i - 1], k)]
  <2>1. /\ h \in [0 .. Rounds -> Locals] /\ h[0] = s
        /\ \A i \in 1 .. Rounds : h[i] = step[h[i - 1]] /\ i - 1 \in 0 .. Rounds
    BY <1>1, <1>3 DEF Loop
  <2>2. \A i \in 1 .. Rounds : h[i] = EncipherRound(h[i - 1], k)
    BY <2>1 DEF EncipherStep
  <2> QED BY <2>1, <2>2
<1>5. f = [i \in 0 .. Rounds |-> IF i = 0 THEN s ELSE EncipherRound(f[i - 1], k)]
  BY <1>4
<1> HIDE DEF f
<1>6. \A i \in 0 .. Rounds : f[i] = IF i = 0 THEN s ELSE EncipherRound(f[i - 1], k)
  BY <1>5, Zenon
<1>7. f = [i \in 0 .. Rounds |-> f[i]] /\ f[0] = s
  <2>1. DOMAIN f = 0 .. Rounds /\ f = [i \in DOMAIN f |-> f[i]]
    BY <1>5, Zenon
  <2>2. f[0] = s
    <3>1. 0 \in 0 .. Rounds
      BY <1>1
    <3> QED BY <1>6, <3>1
  <2> QED BY <2>1, <2>2, Zenon
<1>8. \A i \in 1 .. Rounds : f[i - 1] \in Locals => f[i] = step[f[i - 1]]
  BY <1>1, <1>6 DEF EncipherStep
<1> HIDE DEF step
<1>9. Loop(f, Locals, s, step, Rounds)
  BY <1>1, <1>7, <1>8, LoopIs
<1> QED BY <1>2, <1>9 DEF s, step

\* What xtea_decipher goes through, and what it returns.
LEMMA DecipherIs ==
  ASSUME NEW k \in Secrets, NEW v, v[1] \in Word, v[2] \in Word
  PROVE  \E f : /\ Loop(f, Locals, DecipherStart(v), DecipherStep(k), Rounds)
                /\ Decipher(v, k) = <<f[Rounds].v0, f[Rounds].v1>>
<1> DEFINE s == DecipherStart(v)
           step == DecipherStep(k)
           f == CHOOSE g :
                  g = [i \in 0 .. Rounds |-> IF i = 0 THEN s ELSE DecipherRound(g[i - 1], k)]
<1>1. s \in Locals /\ step \in [Locals -> Locals] /\ Rounds \in Nat
  BY RoundBack, WrapIs, SumIs, CipherAssumption DEF Locals, CipherAssumption, DecipherStep, DecipherStart
<1>2. Decipher(v, k) = <<f[Rounds].v0, f[Rounds].v1>>
  BY DEF Decipher, DecipherStart
<1> HIDE DEF s
<1>3. PICK h : Loop(h, Locals, s, step, Rounds)
  BY <1>1, LoopExists
<1>4. h = [i \in 0 .. Rounds |-> IF i = 0 THEN s ELSE DecipherRound(h[i - 1], k)]
  <2>1. /\ h \in [0 .. Rounds -> Locals] /\ h[0] = s
        /\ \A i \in 1 .. Rounds : h[i] = step[h[i - 1]] /\ i - 1 \in 0 .. Rounds
    BY <1>1, <1>3 DEF Loop
  <2>2. \A i \in 1 .. Rounds : h[i] = DecipherRound(h[i - 1], k)
    BY <2>1 DEF DecipherStep
  <2> QED BY <2>1, <2>2
<1>5. f = [i \in 0 .. Rounds |-> IF i = 0 THEN s ELSE DecipherRound(f[i - 1], k)]
  BY <1>4
<1> HIDE DEF f
<1>6. \A i \in 0 .. Rounds : f[i] = IF i = 0 THEN s ELSE DecipherRound(f[i - 1], k)
  BY <1>5, Zenon
<1>7. f = [i \in 0 .. Rounds |-> f[i]] /\ f[0] = s
  <2>1. DOMAIN f = 0 .. Rounds /\ f = [i \in DOMAIN f |-> f[i]]
    BY <1>5, Zenon
  <2>2. f[0] = s
    <3>1. 0 \in 0 .. Rounds
      BY <1>1
    <3> QED BY <1>6, <3>1
  <2> QED BY <2>1, <2>2, Zenon
<1>8. \A i \in 1 .. Rounds : f[i - 1] \in Locals => f[i] = step[f[i - 1]]
  BY <1>1, <1>6 DEF DecipherStep
<1> HIDE DEF step
<1>9. Loop(f, Locals, s, step, Rounds)
  BY <1>1, <1>7, <1>8, LoopIs
<1> QED BY <1>2, <1>9 DEF s, step

\* Enciphering counts sum up to where deciphering starts.
LEMMA SumReached ==
  ASSUME NEW k \in Secrets, NEW s \in Locals, s.sum = 0, NEW f,
         Loop(f, Locals, s, EncipherStep(k), Rounds)
  PROVE  f[Rounds].sum = Wrap(Delta * Rounds)
<1> DEFINE T == {i \in 0 .. Rounds : f[i].sum = Wrap(Delta * i)}
<1>1. Rounds \in Nat /\ Delta \in Int
  BY CipherAssumption, WordIsInt DEF CipherAssumption
<1>2. 0 \in T
  <2>1. Delta * 0 = 0 /\ Wrap(0) = 0
    BY <1>1, WrapIs
  <2> QED BY <1>1, <2>1 DEF Loop
<1>3. ASSUME NEW n \in 0 .. Rounds - 1, n \in T PROVE n + 1 \in T
  <2>1. n \in Nat /\ n \in 0 .. Rounds /\ n + 1 \in 1 .. Rounds /\ (n + 1) - 1 = n
    BY <1>1
  <2>2. f[n] \in Locals /\ f[n + 1] = EncipherRound(f[n], k)
    BY <1>1, <2>1 DEF Loop, EncipherStep
  <2>3. f[n + 1].sum = Wrap(f[n].sum + Delta)
    BY <2>2, RoundBack
  <2>4. f[n].sum = Wrap(Delta * n)
    BY <1>3
  <2>5. f[n + 1].sum = Wrap(Delta * (n + 1))
    BY <2>1, <2>3, <2>4, WrapSum
  <2> QED BY <2>1, <2>5
<1>4. 0 .. Rounds \subseteq T
  <2> HIDE DEF T
  <2> QED BY <1>1, <1>2, <1>3, Climb
<1> QED BY <1>1, <1>4

LEMMA DecipherType ==
  ASSUME NEW k \in Secrets, NEW v, v[1] \in Word, v[2] \in Word
  PROVE  Decipher(v, k) \in Word \X Word
<1>1. PICK f : /\ Loop(f, Locals, DecipherStart(v), DecipherStep(k), Rounds)
               /\ Decipher(v, k) = <<f[Rounds].v0, f[Rounds].v1>>
  BY DecipherIs
<1>2. f[Rounds] \in Locals
  BY <1>1, CipherAssumption DEF Loop, CipherAssumption
<1> QED BY <1>1, <1>2 DEF Locals

\* A block comes back, whatever the key, the number of rounds and the shifts: each round
\* of deciphering is at the locals that enciphering had as many rounds before its end.
LEMMA BlockBack ==
  ASSUME NEW k \in Secrets, NEW v, v[1] \in Word, v[2] \in Word
  PROVE  /\ Encipher(v, k) \in Word \X Word
         /\ \A w : w[1] = Encipher(v, k)[1] /\ w[2] = Encipher(v, k)[2]
                     => Decipher(w, k)[1] = v[1] /\ Decipher(w, k)[2] = v[2]
<1>1. Rounds \in Nat
  BY CipherAssumption DEF CipherAssumption
<1>2. PICK f : /\ Loop(f, Locals, EncipherStart(v), EncipherStep(k), Rounds)
               /\ Encipher(v, k) = <<f[Rounds].v0, f[Rounds].v1>>
  BY EncipherIs
<1>3. EncipherStart(v) \in Locals /\ EncipherStart(v).sum = 0
  BY WrapIs DEF EncipherStart, Locals
<1>4. f[Rounds].sum = Wrap(Delta * Rounds)
  BY <1>2, <1>3, SumReached
<1>5. \A i \in 0 .. Rounds : f[i] \in Locals
  BY <1>2 DEF Loop
<1>6. Encipher(v, k) \in Word \X Word
  BY <1>1, <1>2, <1>5 DEF Locals
<1>7. ASSUME NEW w, w[1] = Encipher(v, k)[1], w[2] = Encipher(v, k)[2]
      PROVE  Decipher(w, k)[1] = v[1] /\ Decipher(w, k)[2] = v[2]
  <2>1. w[1] = f[Rounds].v0 /\ w[2] = f[Rounds].v1 /\ w[1] \in Word /\ w[2] \in Word
    BY <1>1, <1>2, <1>5, <1>7 DEF Locals
  <2>2. PICK g : /\ Loop(g, Locals, DecipherStart(w), DecipherStep(k), Rounds)
                 /\ Decipher(w, k) = <<g[Rounds].v0, g[Rounds].v1>>
    BY <2>1, DecipherIs
  <2> DEFINE T == {i \in 0 .. Rounds : g[i] = f[Rounds - i]}
  <2>3. 0 \in T
    <3>1. DecipherStart(w) = f[Rounds]
      BY <1>1, <1>4, <1>5, <2>1 DEF DecipherStart, Locals
    <3> QED BY <1>1, <2>2, <3>1 DEF Loop
  <2>4. ASSUME NEW n \in 0 .. Rounds - 1, n \in T PROVE n + 1 \in T
    <3> DEFINE m == Rounds - (n + 1)
    <3>1. /\ n \in 0 .. Rounds /\ n + 1 \in 1 .. Rounds /\ (n + 1) - 1 = n
          /\ m \in 0 .. Rounds /\ m + 1 \in 1 .. Rounds /\ (m + 1) - 1 = m /\ m + 1 = Rounds - n
      BY <1>1
    <3> HIDE DEF m
    <3>2. f[m + 1] = EncipherRound(f[m], k)
      BY <1>2, <1>5, <3>1 DEF Loop, EncipherStep
    <3>3. g[n + 1] = DecipherRound(g[n], k)
      BY <2>2, <3>1 DEF Loop, DecipherStep
    <3>4. g[n] = f[m + 1]
      BY <2>4, <3>1
    <3>5. g[n + 1] = f[m]
      BY <1>5, <3>1, <3>2, <3>3, <3>4, RoundBack
    <3> QED BY <3>1, <3>5 DEF m
  <2>5. 0 .. Rounds \subseteq T
    <3> HIDE DEF T
    <3> QED BY <1>1, <2>3, <2>4, Climb
  <2>6. g[Rounds] = f[0] /\ f[0] = EncipherStart(v)
    BY <1>1, <1>2, <2>5 DEF Loop
  <2> QED BY <2>2, <2>6 DEF EncipherStart
<1> QED BY <1>6, <1>7
-----------------------------------------------------------------------------
(* Texts.                                                                  *)

Texts(n) == [1 .. n -> Word]

LEMMA TextIs ==
  ASSUME NEW n \in Nat, NEW s \in Texts(n)
  PROVE  s \in Seq(Word) /\ Len(s) = n /\ DOMAIN s = 1 .. n
<1>1. s \in Seq(Word)
  BY SeqDef DEF Texts
<1>2. DOMAIN s = 1 .. n /\ DOMAIN s = 1 .. Len(s) /\ Len(s) \in Nat
  BY <1>1, LenProperties DEF Texts
<1> QED BY <1>1, <1>2

\* The word where the block of word i starts.
BlockStart(i) == i - ((i - 1) % BlockSize)

BlockAt(s, i, junk) ==
  <<s[BlockStart(i)], IF i <= Full(s) THEN s[BlockStart(i) + 1] ELSE junk>>

Ciphered(v, k, encrypt) == IF encrypt THEN Encipher(v, k) ELSE Decipher(v, k)

LEMMA EdIs ==
  ASSUME NEW s, NEW k, NEW encrypt, NEW junk
  PROVE  Ed(s, k, encrypt, junk) =
           [i \in 1 .. Len(s) |->
              Ciphered(BlockAt(s, i, junk), k, encrypt)[1 + i - BlockStart(i)]]
BY DEF Ed, BlockAt, BlockStart, Ciphered

\* Full blocks lie within the text.
LEMMA Blocks ==
  ASSUME NEW n \in Nat, NEW s \in Texts(n), NEW i \in 1 .. n
  PROVE  /\ BlockStart(i) \in 1 .. n /\ 1 + i - BlockStart(i) \in {1, 2}
         /\ BlockStart(BlockStart(i)) = BlockStart(i)
         /\ i <= Full(s) =>
              /\ BlockStart(i) + 1 \in 1 .. n
              /\ BlockStart(i) <= Full(s) /\ BlockStart(i) + 1 <= Full(s)
              /\ BlockStart(BlockStart(i) + 1) = BlockStart(i)
<1>1. Len(s) = n
  BY TextIs
<1> DEFINE b == BlockStart(i)
<1>2. b = i - ((i - 1) % 2) /\ (i - 1) % 2 \in {0, 1}
  BY DEF BlockStart, BlockSize
<1>3. b \in 1 .. n /\ 1 + i - b \in {1, 2} /\ (b - 1) % 2 = 0 /\ b % 2 = 1
  BY <1>2
<1>4. Full(s) = (n \div 2) * 2
  BY <1>1 DEF Full, BlockSize
<1>5. ASSUME i <= Full(s)
      PROVE  b + 1 \in 1 .. n /\ b <= Full(s) /\ b + 1 <= Full(s)
  BY <1>3, <1>4, <1>5
<1>6. BlockStart(b) = b /\ BlockStart(b + 1) = b
  <2> HIDE DEF b
  <2> QED BY <1>3 DEF BlockStart, BlockSize
<1> QED BY <1>3, <1>5, <1>6

LEMMA EdType ==
  ASSUME NEW n \in Nat, NEW s \in Texts(n), NEW k \in Secrets, NEW encrypt \in BOOLEAN,
         NEW junk \in Word
  PROVE  Ed(s, k, encrypt, junk) \in Texts(n)
<1>1. Len(s) = n
  BY TextIs
<1>2. ASSUME NEW i \in 1 .. n
      PROVE  Ciphered(BlockAt(s, i, junk), k, encrypt)[1 + i - BlockStart(i)] \in Word
  <2> DEFINE v == BlockAt(s, i, junk)
  <2>1. v[1] \in Word /\ v[2] \in Word
    BY Blocks DEF BlockAt, Texts
  <2> HIDE DEF v
  <2>2. Encipher(v, k) \in Word \X Word /\ Decipher(v, k) \in Word \X Word
    BY <2>1, BlockBack, DecipherType
  <2> QED BY <2>2, Blocks DEF Ciphered, v
<1> QED BY <1>1, <1>2, EdIs DEF Texts

\* The two words of a full block come from that block.
LEMMA EdBlock ==
  ASSUME NEW n \in Nat, NEW s \in Texts(n), NEW k, NEW encrypt, NEW junk,
         NEW i \in 1 .. n, i <= Full(s),
         NEW b, b = BlockStart(i), NEW t, t = Ed(s, k, encrypt, junk)
  PROVE  /\ t[b] = Ciphered(<<s[b], s[b + 1]>>, k, encrypt)[1]
         /\ t[b + 1] = Ciphered(<<s[b], s[b + 1]>>, k, encrypt)[2]
<1> DEFINE v == <<s[b], s[b + 1]>>
<1>1. /\ b \in 1 .. n /\ b + 1 \in 1 .. n /\ b <= Full(s) /\ b + 1 <= Full(s)
      /\ BlockStart(b) = b /\ BlockStart(b + 1) = b
  BY Blocks
<1>2. \A j \in 1 .. n : t[j] = Ciphered(BlockAt(s, j, junk), k, encrypt)[1 + j - BlockStart(j)]
  BY EdIs, TextIs
<1>3. BlockAt(s, b, junk) = v /\ BlockAt(s, b + 1, junk) = v
  BY <1>1 DEF BlockAt
<1>4. 1 + b - BlockStart(b) = 1 /\ 1 + (b + 1) - BlockStart(b + 1) = 2
  BY <1>1
<1>5. t[b] = Ciphered(v, k, encrypt)[1] /\ t[b + 1] = Ciphered(v, k, encrypt)[2]
  <2> HIDE DEF v
  <2> QED BY <1>1, <1>2, <1>3, <1>4
<1> QED BY <1>5

\* What was enciphered and deciphered again, with anything on the stack, is as it was as
\* far as its blocks are full.
LEMMA TextBack ==
  ASSUME NEW n \in Nat, NEW s \in Texts(n), NEW k \in Secrets, NEW j1 \in Word, NEW j2 \in Word,
         NEW i \in 1 .. Full(s)
  PROVE  Ed(Ed(s, k, TRUE, j1), k, FALSE, j2)[i] = s[i]
<1> DEFINE c == Ed(s, k, TRUE, j1)
           p == Ed(c, k, FALSE, j2)
           b == BlockStart(i)
<1>1. Len(s) = n /\ c \in Texts(n) /\ Len(c) = n /\ Full(c) = Full(s)
  BY EdType, TextIs DEF Full
<1>2. i \in 1 .. n /\ i <= Full(s)
  BY <1>1 DEF Full, BlockSize
<1>3. /\ b \in 1 .. n /\ b + 1 \in 1 .. n /\ 1 + i - b \in {1, 2}
  BY <1>2, Blocks
<1> HIDE DEF c, b
<1>4. c[b] = Encipher(<<s[b], s[b + 1]>>, k)[1] /\ c[b + 1] = Encipher(<<s[b], s[b + 1]>>, k)[2]
  <2>1. PICK e : e = TRUE
    OBVIOUS
  <2>2. b = BlockStart(i) /\ c = Ed(s, k, e, j1)
    BY <2>1 DEF b, c
  <2>3. /\ c[b] = Ciphered(<<s[b], s[b + 1]>>, k, e)[1]
        /\ c[b + 1] = Ciphered(<<s[b], s[b + 1]>>, k, e)[2]
    BY <1>2, <2>2, EdBlock
  <2> QED BY <2>1, <2>3 DEF Ciphered
<1>5. p[b] = Decipher(<<c[b], c[b + 1]>>, k)[1] /\ p[b + 1] = Decipher(<<c[b], c[b + 1]>>, k)[2]
  <2>1. PICK e : e = FALSE
    OBVIOUS
  <2>2. b = BlockStart(i) /\ p = Ed(c, k, e, j2)
    BY <2>1 DEF b
  <2> HIDE DEF p
  <2>3. /\ p[b] = Ciphered(<<c[b], c[b + 1]>>, k, e)[1]
        /\ p[b + 1] = Ciphered(<<c[b], c[b + 1]>>, k, e)[2]
    BY <1>1, <1>2, <2>2, EdBlock
  <2> QED BY <2>1, <2>3 DEF Ciphered
<1>6. p[b] = s[b] /\ p[b + 1] = s[b + 1]
  <2> DEFINE v == <<s[b], s[b + 1]>>
             w == <<c[b], c[b + 1]>>
  <2>1. v[1] = s[b] /\ v[2] = s[b + 1] /\ w[1] = c[b] /\ w[2] = c[b + 1]
    OBVIOUS
  <2>2. s[b] \in Word /\ s[b + 1] \in Word
    BY <1>3 DEF Texts
  <2> HIDE DEF v, w
  <2>3. w[1] = Encipher(v, k)[1] /\ w[2] = Encipher(v, k)[2]
    BY <1>4, <2>1 DEF v
  <2>4. Decipher(w, k)[1] = v[1] /\ Decipher(w, k)[2] = v[2]
    BY <2>1, <2>2, <2>3, BlockBack
  <2> QED BY <1>5, <2>1, <2>4 DEF w
<1>7. i = b \/ i = b + 1
  BY <1>3
<1> QED BY <1>6, <1>7 DEF c

\* The text is what plain became.
CipherInv ==
  /\ CipherTypeOK /\ \E n \in 0 .. MaxLen : text \in Texts(n) /\ plain \in Texts(n)
  /\ stage = "plain" => text = plain
  /\ stage = "cipher" => \E junk \in Word : text = Ed(plain, secret, TRUE, junk)
  /\ FullBlocksComeBack

LEMMA CipherInvHolds == CipherSpec => []CipherInv
<1>0. \A t : t \in UNION {[1 .. n -> Word] : n \in 0 .. MaxLen} <=> \E n \in 0 .. MaxLen : t \in Texts(n)
  BY DEF Texts
<1>m. MaxLen \in Nat
  BY CipherAssumption DEF CipherAssumption
<1>1. CipherInit => CipherInv
  <2> SUFFICES ASSUME CipherInit PROVE CipherInv
    OBVIOUS
  <2>1. text \in Texts(0) /\ plain \in Texts(0) /\ 0 \in 0 .. MaxLen
    BY <1>m DEF CipherInit, Texts
  <2>2. secret \in Secrets
    BY CipherAssumption DEF CipherInit, CipherAssumption
  <2>3. CipherTypeOK
    BY <1>0, <2>1, <2>2 DEF CipherInit, CipherTypeOK
  <2> QED BY <2>1, <2>3 DEF CipherInit, CipherInv, FullBlocksComeBack
<1>2. CipherInv /\ [CipherNext]_cipherVars => CipherInv'
  <2> SUFFICES ASSUME CipherInv, [CipherNext]_cipherVars PROVE CipherInv'
    OBVIOUS
  <2> USE DEF CipherInv
  <2>1. CASE Put
    <3>1. PICK n \in 1 .. MaxLen : text' \in Texts(n) /\ plain' = text'
      BY <2>1 DEF Put, Texts
    <3>2. n \in 0 .. MaxLen
      BY <1>m
    <3>3. CipherTypeOK'
      BY <1>0, <2>1, <3>1, <3>2 DEF Put, CipherTypeOK
    <3> QED BY <2>1, <3>1, <3>2, <3>3 DEF Put, FullBlocksComeBack
  <2>2. PICK n \in 0 .. MaxLen : text \in Texts(n) /\ plain \in Texts(n)
    OBVIOUS
  <2>3. n \in Nat /\ secret \in Secrets
    BY <1>m DEF CipherTypeOK
  <2>4. ASSUME NEW encrypt \in BOOLEAN, NEW junk \in Word,
               text' = Ed(text, secret, encrypt, junk), UNCHANGED <<plain, secret>>,
               stage' \in {"cipher", "back"}
        PROVE  text' \in Texts(n) /\ plain' \in Texts(n) /\ CipherTypeOK'
    <3>1. text' \in Texts(n) /\ plain' \in Texts(n)
      BY <2>2, <2>3, <2>4, EdType
    <3>2. Len(plain') = Len(text')
      BY <2>3, <3>1, TextIs
    <3> QED BY <1>0, <2>4, <3>1, <3>2 DEF CipherTypeOK
  <2>5. CASE Encrypt
    <3>1. PICK junk \in Word : text' = Ed(text, secret, TRUE, junk)
      BY <2>5 DEF Encrypt
    <3>2. text = plain /\ UNCHANGED <<plain, secret>> /\ stage = "plain" /\ stage' = "cipher"
      BY <2>5 DEF Encrypt
    <3>3. text' = Ed(plain', secret', TRUE, junk)
      BY <3>1, <3>2
    <3>4. text' \in Texts(n) /\ plain' \in Texts(n) /\ CipherTypeOK'
      BY <2>4, <3>1, <3>2
    <3> QED BY <3>2, <3>3, <3>4 DEF FullBlocksComeBack
  <2>6. CASE Decrypt
    <3>1. PICK junk \in Word : text' = Ed(text, secret, FALSE, junk)
      BY <2>6 DEF Decrypt
    <3>2. UNCHANGED <<plain, secret>> /\ stage = "cipher" /\ stage' = "back"
      BY <2>6 DEF Decrypt
    <3>3. text' \in Texts(n) /\ plain' \in Texts(n) /\ CipherTypeOK'
      BY <2>4, <3>1, <3>2
    <3>4. PICK was \in Word : text = Ed(plain, secret, TRUE, was)
      BY <3>2
    <3>5. text' = Ed(Ed(plain, secret, TRUE, was), secret, FALSE, junk)
      BY <3>1, <3>4
    <3>6. Full(text') = Full(plain)
      BY <2>2, <2>3, <3>3, TextIs DEF Full
    <3>7. \A i \in 1 .. Full(plain) : text'[i] = plain[i]
      BY <2>2, <2>3, <3>5, TextBack
    <3>8. FullBlocksComeBack'
      BY <3>2, <3>6, <3>7 DEF FullBlocksComeBack
    <3> QED BY <3>2, <3>3, <3>8
  <2>7. CASE UNCHANGED cipherVars
    BY <2>2, <2>7 DEF cipherVars, CipherTypeOK, FullBlocksComeBack
  <2> QED BY <2>1, <2>5, <2>6, <2>7 DEF CipherNext
<1> QED BY <1>1, <1>2, PTL DEF CipherSpec

\* Every full block comes back, whatever the width of a word, the key, the constant, the
\* shifts and the number of rounds, whatever follows the block, and whatever the stack
\* held where the text ends within one.
THEOREM FullBlocksReturn == CipherSpec => []FullBlocksComeBack
<1>1. CipherInv => FullBlocksComeBack
  BY DEF CipherInv
<1> QED BY <1>1, CipherInvHolds, PTL

-----------------------------------------------------------------------------
(* The library.                                                            *)

\* What a behaviour of the library does to one class, the class could do on its own.
LEMMA Classes ==
  LibrarySpec => PeerSetSpec /\ PairsSpec /\ CipherSpec /\ TcpSpec /\ OsThreadSpec
<1>1. LibraryInit => PeerSetInit /\ PairsInit /\ CipherInit /\ TcpInit /\ OsThreadInit
  BY DEF LibraryInit
<1>2. [LibraryNext]_libraryVars =>
        /\ [PeerSetNext]_psetVars /\ [PairsNext]_pairVars /\ [CipherNext]_cipherVars
        /\ [TcpNext]_tcpVars /\ [OsThreadNext]_threadVars
  BY DEF LibraryNext, libraryVars, SetStep, PairsStep, CipherStep, SocketStep, ThreadStep
<1> QED
  BY <1>1, <1>2, PTL
     DEF LibrarySpec, PeerSetSpec, PairsSpec, CipherSpec, TcpSpec, OsThreadSpec

\* Every class holds what its type says: the set of linked peers, the map of pairs, the
\* text and the key of the cipher, the sockets, the thread and its owner.
THEOREM LibraryTypes == LibrarySpec => []LibraryTypeOK
<1>1. /\ PeerSetInv => PeerSetTypeOK
      /\ PairsInv => PairsTypeOK
      /\ CipherInv => CipherTypeOK
  BY DEF PeerSetInv, PairsInv, CipherInv
<1>2. PeerSetTypeOK /\ PairsTypeOK /\ CipherTypeOK /\ TcpSocketTypeOK /\ OsThreadTypeOK
        => LibraryTypeOK
  BY DEF LibraryTypeOK
<1> QED
  BY <1>1, <1>2, Classes, PeerSetInvHolds, PairsInvHolds, CipherInvHolds, TcpSocketTypes,
     OsThreadTypes, PTL
=============================================================================
