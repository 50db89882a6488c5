------------------------- MODULE UServerProofs -------------------------
(***************************************************************************)
(* What holds of the server for every value of its constants.              *)
(*                                                                         *)
(* The lemmas on the steps take keep and the datagram as parameters, with  *)
(* no more than the type of the datagram assumed, so that the proofs about *)
(* the composed system use them too.                                       *)
(***************************************************************************)
EXTENDS UServer, WellFoundedInduction, TLAPS

-----------------------------------------------------------------------------
(* The last row of a scan exists: Ids are numbers bounded by rowid.         *)

\* A set of naturals has a least member.
LEMMA LeastMember ==
  ASSUME NEW T, T \subseteq Nat, T # {}
  PROVE  \E x \in T : \A y \in T : x <= y
<1> DEFINE R == OpToRel(<, Nat)
<1>1. \A x, y \in Nat : <<x, y>> \in R <=> x < y
  BY DEF OpToRel
<1>2. IsWellFoundedOn(R, Nat)
  BY NatLessThanWellFounded
<1> HIDE DEF R
<1>3. PICK x \in T : \A y \in T : ~ (<<y, x>> \in R)
  BY <1>2, WFMin
<1>4. ASSUME NEW y \in T PROVE x <= y
  <2>1. ~ (<<y, x>> \in R) /\ x \in Nat /\ y \in Nat
    BY <1>3
  <2>2. ~ (y < x)
    BY <1>1, <2>1
  <2> QED BY <2>1, <2>2
<1> QED BY <1>3, <1>4

\* A set of naturals below a bound has a greatest member.
LEMMA GreatestMember ==
  ASSUME NEW T, T \subseteq Nat, T # {}, NEW b \in Nat, \A x \in T : x <= b
  PROVE  \E x \in T : \A y \in T : y <= x
<1> DEFINE U == {b - x : x \in T}
<1>1. U \subseteq Nat /\ U # {}
  <2>1. \A x \in T : b - x \in Nat
    OBVIOUS
  <2> QED BY <2>1
<1>2. \A y \in T : b - y \in U
  OBVIOUS
<1>3. \A u \in U : \E x \in T : u = b - x
  OBVIOUS
<1> HIDE DEF U
<1>4. PICK u \in U : \A v \in U : u <= v
  BY <1>1, LeastMember
<1>5. PICK x \in T : u = b - x
  BY <1>3
<1>6. ASSUME NEW y \in T PROVE y <= x
  <2>1. u <= b - y
    BY <1>2, <1>4
  <2> QED BY <1>5, <2>1
<1> QED BY <1>6

\* The row whose rank store_peer reads: it is in the group, and no row of the
\* group has a greater Id.
LEMMA LastRow ==
  ASSUME SrvTypeOK, TableSound, NEW name, InGroup(name) # {}
  PROVE  \E r \in InGroup(name) :
           /\ LastRank(name) = r.R
           /\ \A s \in InGroup(name) : s.Id <= r.Id
<1> DEFINE T == {r.Id : r \in InGroup(name)}
<1>1. InGroup(name) \subseteq pers /\ pers \subseteq Row /\ rowid \in Nat
  BY DEF InGroup, SrvTypeOK
<1>2. \A r \in pers : r.Id \in Nat /\ r.Id <= rowid
  BY <1>1 DEF Row, TableSound
<1>3. T \subseteq Nat /\ T # {} /\ \A x \in T : x <= rowid
  BY <1>1, <1>2
<1>4. \E x \in T : \A y \in T : y <= x
  <2> HIDE DEF T
  <2> QED BY <1>1, <1>3, GreatestMember
<1>5. \E r \in InGroup(name) : \A s \in InGroup(name) : s.Id <= r.Id
  BY <1>4
<1> QED BY <1>5 DEF LastRank

LEMMA LastRankType ==
  ASSUME SrvTypeOK, TableSound, NEW name
  PROVE  LastRank(name) \in Nat
<1>1. CASE InGroup(name) = {}
  BY <1>1 DEF LastRank
<1>2. CASE InGroup(name) # {}
  BY <1>2, LastRow DEF SrvTypeOK, InGroup, Row
<1> QED BY <1>1, <1>2

-----------------------------------------------------------------------------
(* The table, under each of the three things that happen to it.            *)

TableOK == pers \subseteq Row /\ TableSound /\ RankOrder

\* Rows go, or none does: the sweep, a restart, and every step that leaves the
\* table alone.
LEMMA TableShrinks ==
  ASSUME TableOK, pers' \subseteq pers, rowid' = rowid \/ pers' = {},
         day \in Nat, day' \in Nat, day <= day'
  PROVE  TableOK'
<1>1. \A r \in pers' : r \in pers /\ r \in Row /\ r.D <= day'
  BY DEF TableOK, TableSound, Row
<1>2. TableSound'
  BY <1>1 DEF TableOK, TableSound
<1>3. RankOrder'
  BY <1>1 DEF TableOK, RankOrder
<1> QED BY <1>1, <1>2, <1>3 DEF TableOK

\* An UPDATE of D moves no row and no rank.
LEMMA TableStamped ==
  ASSUME TableOK, NEW rows, pers' = Stamped(rows), rowid' = rowid, day' = day, day \in Nat
  PROVE  TableOK'
<1> DEFINE st(r) == IF r \in rows THEN [r EXCEPT !.D = day] ELSE r
<1>1. \A s \in pers' : \E r \in pers : s = st(r)
  BY DEF Stamped
<1>2. \A r \in pers : /\ st(r) \in Row
                     /\ st(r).Id = r.Id /\ st(r).K = r.K /\ st(r).I = r.I /\ st(r).R = r.R
                     /\ st(r).D <= day
  BY DEF TableOK, TableSound, Row
<1> HIDE DEF st
<1>3. pers' \subseteq Row
  BY <1>1, <1>2
<1>4. TableSound'
  BY <1>1, <1>2 DEF TableOK, TableSound
<1>5. RankOrder'
  BY <1>1, <1>2 DEF TableOK, RankOrder
<1> QED BY <1>3, <1>4, <1>5 DEF TableOK

\* An INSERT that met no row of the same K: the new row has the greatest Id, and
\* its rank is one above that of the last row of its group.
LEMMA TableInserts ==
  ASSUME SrvTypeOK, TableOK, NEW cap, cap.src \in Addr, cap.enc \in Mids, cap.arg \in Id,
         NEW refs \in Nat, ~SqlFaults => refs = LastRank(cap.arg.grp),
         Conflicting(NewRow(cap, refs)) = {},
         pers' = pers \cup {NewRow(cap, refs)}, rowid' = rowid + 1, day' = day
  PROVE  TableOK'
<1> DEFINE new == NewRow(cap, refs)
<1>1. /\ new \in Row /\ new.Id = rowid + 1 /\ new.R = refs + 1 /\ new.D = day
      /\ new.I = cap.arg.grp
  BY DEF NewRow, Row, RowKeys, KeyOf, Id, SrvTypeOK
<1>2. \A r \in pers : /\ r.K # new.K /\ r.Id <= rowid /\ r.Id \in Nat /\ r.R \in Nat
                     /\ r.D <= day /\ 0 < r.Id
  BY DEF Conflicting, TableOK, TableSound, Row
<1>3. rowid \in Nat /\ day \in Nat
  BY DEF SrvTypeOK
<1>4. ASSUME ~SqlFaults, NEW r \in pers, r.I = new.I
      PROVE  r.R < new.R
  <2>1. r \in InGroup(cap.arg.grp)
    BY <1>1, <1>4 DEF InGroup
  <2>2. PICK last \in InGroup(cap.arg.grp) :
          /\ LastRank(cap.arg.grp) = last.R
          /\ \A s \in InGroup(cap.arg.grp) : s.Id <= last.Id
    BY <2>1, LastRow DEF TableOK
  <2>3. last \in pers /\ last.I = r.I /\ new.R = last.R + 1
    BY <1>1, <1>4, <2>2 DEF InGroup
  <2>4. CASE r.Id = last.Id
    <3>1. r = last
      BY <2>3, <2>4 DEF TableOK, TableSound
    <3> QED BY <1>2, <2>3, <3>1
  <2>5. CASE r.Id < last.Id
    BY <1>2, <1>4, <2>3, <2>5 DEF TableOK, RankOrder
  <2> QED BY <1>2, <2>1, <2>2, <2>3, <2>4, <2>5
<1> HIDE DEF new
<1>5. pers' = pers \cup {new}
  BY DEF new
<1>6. pers' \subseteq Row
  BY <1>1, <1>5 DEF TableOK
<1>7. TableSound'
  <2> SUFFICES ASSUME NEW r \in pers', NEW s \in pers'
               PROVE  /\ r.K = s.K \/ r.Id = s.Id => r = s
                      /\ 0 < r.Id /\ r.Id <= rowid' /\ r.D <= day'
    BY DEF TableSound
  <2>1. CASE r \in pers /\ s \in pers
    BY <1>2, <1>3, <2>1 DEF TableOK, TableSound
  <2>2. CASE r = new \/ s = new
    BY <1>1, <1>2, <1>3, <1>5, <2>2
  <2> QED BY <1>5, <2>1, <2>2
<1>8. RankOrder'
  <2> SUFFICES ASSUME ~SqlFaults, NEW r \in pers', NEW s \in pers', r.I = s.I, r.Id < s.Id
               PROVE  r.R < s.R
    BY DEF RankOrder
  <2>1. CASE s = new
    BY <1>1, <1>2, <1>3, <1>4, <1>5, <2>1
  <2>2. CASE s \in pers
    <3>1. r \in pers
      BY <1>1, <1>2, <1>3, <1>5, <2>2
    <3> QED BY <2>2, <3>1 DEF TableOK, RankOrder
  <2> QED BY <1>5, <2>1, <2>2
<1> QED BY <1>6, <1>7, <1>8 DEF TableOK

-----------------------------------------------------------------------------
(* The invariant and the steps of the server.                              *)

\* Why the loop's upper half finds _prev clear: what sets it sets _dirty too, and
\* the sweep that _dirty forces clears it before the loop comes round.
PrevOK == ~SqlFaults => prev = NoCap \/ (loop = "tail" /\ dirty)

SrvInv == SrvTypeOK /\ TableSound /\ RankOrder /\ PrevOK

LEMMA SrvInitInv ==
  ASSUME SrvInit
  PROVE  SrvInv
<1>1. TableSound /\ RankOrder
  BY DEF SrvInit, TableSound, RankOrder
<1>2. PrevOK
  BY DEF SrvInit, PrevOK
<1>3. rej \in [Ips -> Nat] /\ pers \subseteq Row /\ ufw \subseteq Ips
  BY DEF SrvInit
<1>4. dirty \in BOOLEAN /\ lapsed \in BOOLEAN
  BY DEF SrvInit
<1>5. SrvTypeOK
  BY <1>3, <1>4 DEF SrvInit, SrvTypeOK
<1> QED BY <1>1, <1>2, <1>5 DEF SrvInv

LEMMA SrvIdleInv ==
  ASSUME SrvInv, NEW keep, SrvIdle(keep) \/ SrvRest(keep)
  PROVE  SrvInv'
<1> USE DEF SrvInv
<1>1. UNCHANGED <<srvTables, prev, dirty, lapsed, srvClock, restarts>>
  BY DEF SrvIdle, SrvRest
<1>2. SrvTypeOK'
  BY <1>1 DEF SrvIdle, SrvRest, SrvTypeOK, Row, RowKeys, srvTables, srvClock
<1>3. TableOK'
  BY <1>1, TableShrinks DEF TableOK, SrvTypeOK, srvTables, srvClock
<1>4. PrevOK'
  BY <1>1 DEF PrevOK, SrvIdle, SrvRest, SweepDue
<1> QED BY <1>2, <1>3, <1>4 DEF TableOK

LEMMA SrvSweepInv ==
  ASSUME SrvInv, NEW keep, SrvSweep(keep)
  PROVE  SrvInv'
<1> USE DEF SrvInv
<1>1. pers' \subseteq pers
  BY DEF SrvSweep
<1>2. SrvTypeOK'
  BY <1>1 DEF SrvSweep, SrvTypeOK, srvClock
<1>3. TableOK'
  BY <1>1, TableShrinks DEF TableOK, SrvTypeOK, SrvSweep, srvClock
<1>4. PrevOK'
  BY DEF PrevOK, SrvSweep
<1> QED BY <1>2, <1>3, <1>4 DEF TableOK

LEMMA SrvClockInv ==
  ASSUME SrvInv, SrvClock \/ SrvRestart
  PROVE  SrvInv'
<1> USE DEF SrvInv
<1>1. CASE SrvRestart
  <2>1. TableSound' /\ RankOrder'
    BY <1>1 DEF SrvRestart, TableSound, RankOrder
  <2>2. PrevOK'
    BY <1>1 DEF SrvRestart, PrevOK
  <2>3. rej' \in [Ips -> Nat] /\ pers' \subseteq Row /\ ufw' \subseteq Ips
    BY <1>1 DEF SrvRestart
  <2>4. dirty' \in BOOLEAN /\ lapsed' \in BOOLEAN
    BY <1>1 DEF SrvRestart
  <2>5. SrvTypeOK'
    BY <1>1, <2>3, <2>4 DEF SrvRestart, SrvTypeOK, srvClock
  <2> QED BY <2>1, <2>2, <2>5
<1>2. CASE SrvClock
  <2>0. /\ UNCHANGED <<srvTables, prev, dirty, loop, restarts>>
        /\ lapsed' \in BOOLEAN
        /\ day \in Nat /\ day' \in Nat /\ day <= day' /\ cut' \in Nat /\ cut' <= day'
    <3>1. CASE Lapse
      BY <3>1 DEF Lapse, SrvTypeOK, srvClock
    <3>2. CASE Midnight
      BY <3>2 DEF Midnight, SrvTypeOK, srvLoop
    <3>3. CASE HalfMinute
      BY <3>3 DEF HalfMinute, SrvTypeOK, srvLoop
    <3> QED BY <1>2, <3>1, <3>2, <3>3 DEF SrvClock
  <2>1. SrvTypeOK' /\ day \in Nat /\ day' \in Nat /\ day <= day'
    BY <2>0 DEF SrvTypeOK, srvTables
  <2>2. TableOK'
    BY <2>0, TableShrinks DEF TableOK, SrvTypeOK, srvTables
  <2>3. PrevOK'
    BY <2>0 DEF PrevOK
  <2> QED BY <2>1, <2>2, <2>3 DEF TableOK
<1> QED BY <1>1, <1>2

\* A datagram that any host may send.
CapOK(cap) == cap.src \in Addr /\ (cap.verb = "SRV_REGISTER" => cap.arg \in Id)

LEMMA SrvDenyInv ==
  ASSUME SrvInv, NEW cap, CapOK(cap), NEW keep, SrvDeny(cap, keep)
  PROVE  SrvInv'
<1> USE DEF SrvInv
<1>1. UNCHANGED <<pers, rowid, prev, dirty, lapsed, srvClock, restarts>>
  BY DEF SrvDeny
<1>2. cap.src.ip \in Ips
  BY DEF CapOK, Addr, Endpoint
<1>3. rej' \in [Ips -> Nat] /\ ufw' \subseteq Ips
  <2>1. PICK read \in SqlResult, write \in SqlResult :
          /\ rej' = [rej EXCEPT ![cap.src.ip] = IF read /\ write THEN @ + 1 ELSE @]
          /\ ufw' = IF read /\ rej[cap.src.ip] > MaxAttempts THEN ufw \cup {cap.src.ip} ELSE ufw
    BY DEF SrvDeny, Deny
  <2>2. rej[cap.src.ip] \in Nat
    BY <1>2 DEF SrvTypeOK
  <2>3. (IF read /\ write THEN rej[cap.src.ip] + 1 ELSE rej[cap.src.ip]) \in Nat
    BY <2>2
  <2> QED BY <1>2, <2>1, <2>3 DEF SrvTypeOK
<1>4. SrvTypeOK'
  BY <1>1, <1>3 DEF SrvDeny, SrvTypeOK, srvClock
<1>5. TableOK'
  BY <1>1, TableShrinks DEF TableOK, SrvTypeOK, srvClock
<1>6. PrevOK'
  BY <1>1 DEF PrevOK, SrvDeny
<1> QED BY <1>4, <1>5, <1>6 DEF TableOK

LEMMA SrvRegisterInv ==
  ASSUME SrvInv, NEW cap, CapOK(cap), NEW keep, SrvRegister(cap, keep)
  PROVE  SrvInv'
<1> USE DEF SrvInv
<1>1. /\ cap.src \in Addr /\ cap.enc \in Mids /\ cap.arg \in Id /\ cap.arg.grp \in Groups
      /\ loop' = "tail" /\ UNCHANGED <<rej, ufw, lapsed, srvClock, restarts>>
  BY DEF SrvRegister, Accepted, CapOK, Id
<1>2. CASE prev = Capsule(cap)
  <2>1. UNCHANGED <<pers, rowid, prev, dirty>> /\ (SqlFaults \/ dirty)
    BY <1>2, <1>1, UServerAssumption
       DEF SrvRegister, PrevOK, Accepted, Capsule, UServerAssumption
  <2>2. SrvTypeOK'
    BY <1>1, <2>1 DEF SrvTypeOK, srvClock
  <2>3. TableOK'
    BY <1>1, <2>1, TableShrinks DEF TableOK, SrvTypeOK, srvClock
  <2> QED BY <1>1, <2>1, <2>2, <2>3 DEF TableOK, PrevOK
<1>3. CASE prev # Capsule(cap)
  <2>1. PICK prepared \in SqlResult, inserts \in SqlResult, updates \in SqlResult :
          LET row == NewRow(cap, IF prepared THEN LastRank(cap.arg.grp) ELSE 0)
              same == Conflicting(row)
              inserted == inserts /\ same = {}
          IN /\ pers' = IF inserted THEN pers \cup {row}
                        ELSE IF updates THEN Stamped(same) ELSE pers
             /\ rowid' = IF inserted THEN rowid + 1 ELSE rowid
             /\ dirty' = (prepared \/ inserted)
    BY <1>3 DEF SrvRegister, StorePeer
  <2> DEFINE refs == IF prepared THEN LastRank(cap.arg.grp) ELSE 0
  <2> DEFINE row == NewRow(cap, refs)
  <2>2. refs \in Nat /\ (~SqlFaults => refs = LastRank(cap.arg.grp))
    BY LastRankType DEF SqlResult
  <2>3. ASSUME inserts, Conflicting(row) = {}
        PROVE  TableOK'
    <3>1. pers' = pers \cup {row} /\ rowid' = rowid + 1 /\ day' = day
      BY <1>1, <2>1, <2>3 DEF srvClock
    <3> QED
      <4> HIDE DEF refs
      <4> QED BY <1>1, <2>2, <2>3, <3>1, TableInserts DEF TableOK, SrvTypeOK
  <2>4. ASSUME ~(inserts /\ Conflicting(row) = {})
        PROVE  TableOK'
    <3>1. (pers' = Stamped(Conflicting(row)) \/ pers' = pers) /\ rowid' = rowid /\ day' = day
      BY <1>1, <2>1, <2>4 DEF srvClock
    <3> HIDE DEF row
    <3> QED BY <3>1, TableStamped, TableShrinks DEF TableOK, SrvTypeOK
  <2>5. TableOK'
    BY <2>3, <2>4
  <2>6. rowid' \in Nat /\ dirty' \in BOOLEAN
    BY <2>1 DEF SrvTypeOK
  <2>7. ~SqlFaults => dirty'
    BY <2>1 DEF SqlResult
  <2>8. prev' \in [enc : Mids, id : Id]
    BY <1>1, <1>3 DEF SrvRegister, Capsule
  <2>9. SrvTypeOK'
    BY <1>1, <2>5, <2>6, <2>8 DEF SrvTypeOK, TableOK, srvClock
  <2> QED BY <1>1, <2>5, <2>7, <2>9 DEF TableOK, PrevOK
<1> QED BY <1>2, <1>3

LEMMA SrvUnregisterInv ==
  ASSUME SrvInv, NEW cap, NEW keep, SrvUnregister(cap, keep) \/ SrvOther(cap, keep)
  PROVE  SrvInv'
<1> USE DEF SrvInv
<1>1. /\ UNCHANGED <<srvTables, prev, lapsed, srvClock, restarts>>
      /\ loop = "select" /\ loop' = "tail"
  BY DEF SrvUnregister, Accepted, RemovePeer, SrvOther, srvTables
<1>2. dirty' \in BOOLEAN
  <2>1. CASE SrvUnregister(cap, keep)
    BY <2>1 DEF SrvUnregister, RemovePeer
  <2>2. CASE SrvOther(cap, keep)
    BY <2>2 DEF SrvOther, SrvTypeOK
  <2> QED BY <2>1, <2>2
<1>3. SrvTypeOK'
  BY <1>1, <1>2 DEF SrvTypeOK, srvTables, srvClock
<1>4. TableOK'
  BY <1>1, TableShrinks DEF TableOK, SrvTypeOK, srvTables, srvClock
<1>5. PrevOK'
  BY <1>1 DEF PrevOK
<1> QED BY <1>3, <1>4, <1>5 DEF TableOK

LEMMA SrvHereIAmInv ==
  ASSUME SrvInv, NEW cap, NEW keep, SrvHereIAm(cap, keep)
  PROVE  SrvInv'
<1> USE DEF SrvInv
<1> DEFINE rows == {r \in pers : r.PA = cap.src}
<1>1. /\ UNCHANGED <<rowid, rej, ufw, prev, dirty, lapsed, srvClock, restarts>>
      /\ loop = "select" /\ loop' = "tail"
      /\ pers' = Stamped(rows) \/ pers' = pers
  BY DEF SrvHereIAm, Accepted
<1> HIDE DEF rows
<1>2. TableOK'
  BY <1>1, TableStamped, TableShrinks DEF TableOK, SrvTypeOK, srvClock
<1>3. SrvTypeOK'
  BY <1>1, <1>2 DEF SrvTypeOK, TableOK, srvClock
<1>4. PrevOK'
  BY <1>1 DEF PrevOK
<1> QED BY <1>2, <1>3, <1>4 DEF TableOK

\* Whatever datagram the server takes, and whatever statement fails on the way.
LEMMA SrvReceiveInv ==
  ASSUME SrvInv, NEW cap, CapOK(cap), NEW keep, SrvReceive(cap, keep)
  PROVE  SrvInv'
BY SrvDenyInv, SrvRegisterInv, SrvUnregisterInv, SrvHereIAmInv DEF SrvReceive

\* Steps of others.
LEMMA SrvStandsStill ==
  ASSUME SrvInv, UNCHANGED <<srvTables, srvLoop, srvClock, restarts>>
  PROVE  SrvInv'
<1>1. UNCHANGED <<srvTables, prev, dirty, loop, lapsed, srvClock, restarts>>
  BY DEF srvLoop
<1>2. SrvTypeOK'
  BY <1>1 DEF SrvInv, SrvTypeOK, srvTables, srvClock
<1>3. TableOK'
  BY <1>1, TableShrinks DEF SrvInv, TableOK, SrvTypeOK, srvTables, srvClock
<1>4. PrevOK'
  BY <1>1 DEF SrvInv, PrevOK
<1> QED BY <1>2, <1>3, <1>4 DEF SrvInv, TableOK

\* The invariant of the server alone.
THEOREM SrvInvariant == SrvSpec => []SrvInv
<1>1. SrvInit => SrvInv
  BY SrvInitInv
<1>2. SrvInv /\ [SrvNext]_srvVars => SrvInv'
  <2> SUFFICES ASSUME SrvInv, [SrvNext]_srvVars PROVE SrvInv'
    OBVIOUS
  <2>1. CASE SrvNext
    <3>1. ASSUME NEW cap \in SrvInputs, SrvReceive(cap, {}) PROVE SrvInv'
      <4>1. CapOK(cap)
        BY DEF SrvInputs, Datagram, CapOK
      <4> QED BY <3>1, <4>1, SrvReceiveInv
    <3> QED BY <2>1, <3>1, SrvIdleInv, SrvSweepInv, SrvClockInv DEF SrvNext
  <2>2. CASE UNCHANGED srvVars
    <3>1. UNCHANGED <<srvTables, srvLoop, srvClock, restarts>>
      BY <2>2 DEF srvVars
    <3> QED BY <3>1, SrvStandsStill
  <2> QED BY <2>1, <2>2
<1> QED BY <1>1, <1>2, PTL DEF SrvSpec

\* The types of the server's variables (u_server.cpp, sqliter.cpp).
THEOREM SrvTypeCorrect == SrvSpec => []SrvTypeOK
<1>1. SrvInv => SrvTypeOK
  BY DEF SrvInv
<1> QED BY <1>1, SrvInvariant, PTL

\* Table pers holds one row for each peer, with an Id given out since the last
\* start, whatever statements fail (Sqlyte::store_peer, del_oldies, update_peer).
THEOREM TableStaysSound == SrvSpec => []TableSound
<1>1. SrvInv => TableSound
  BY DEF SrvInv
<1> QED BY <1>1, SrvInvariant, PTL

\* The ranks of a group grow in the order its peers came (store_peer's refs).
THEOREM RanksInOrder == SrvSpec => []RankOrder
<1>1. SrvInv => RankOrder
  BY DEF SrvInv
<1> QED BY <1>1, SrvInvariant, PTL

\* No REGISTER meets a _prev left by an earlier one (u_server::main, _store_peer).
THEOREM PrevIsClear == SrvSpec => []PrevClear
<1>1. SrvInv => PrevClear
  BY DEF SrvInv, PrevOK, PrevClear
<1> QED BY <1>1, SrvInvariant, PTL

\* cap is answered, and its sender is in the table with today's date.
InEffect(cap) ==
  /\ "SRV_REGISTERRED" \notin Muted => Registerred(cap.src, cap.enc) \in net'
  /\ \E r \in pers' : r.K = KeyOf(cap) /\ r.D = day

\* What was stored for another capsule is never in the way of this one: a _prev that is
\* set is cleared before the next capsule is taken.
LEMMA RegisterWorks ==
  ASSUME SrvInv, ~SqlFaults, NEW cap, CapOK(cap), NEW keep, SrvRegister(cap, keep)
  PROVE  InEffect(cap)
<1>1. SqlResult = {TRUE}
  BY DEF SqlResult
<1>2. prev # Capsule(cap)
  BY UServerAssumption
     DEF SrvInv, PrevOK, CapOK, SrvRegister, Accepted, Capsule, UServerAssumption
<1> DEFINE row == NewRow(cap, LastRank(cap.arg.grp))
           same == Conflicting(row)
<1>3. /\ pers' = IF same = {} THEN pers \cup {row} ELSE Stamped(same)
      /\ net' = Posted(keep, {Registerred(cap.src, cap.enc)})
  BY <1>1, <1>2 DEF SrvRegister, StorePeer
<1>4. row.K = KeyOf(cap) /\ row.D = day
  BY DEF NewRow
<1>5. ASSUME NEW r \in same
      PROVE  \E s \in Stamped(same) : s.K = KeyOf(cap) /\ s.D = day
  <2>1. r \in pers /\ r.K = KeyOf(cap) /\ r \in Row
    BY <1>4, <1>5 DEF Conflicting, SrvInv, SrvTypeOK
  <2>2. [r EXCEPT !.D = day] \in Stamped(same)
    BY <1>5, <2>1 DEF Stamped
  <2> QED BY <2>1, <2>2 DEF Row
<1>6. \E r \in pers' : r.K = KeyOf(cap) /\ r.D = day
  <2> HIDE DEF row, same
  <2> QED BY <1>3, <1>4, <1>5
<1>7. "SRV_REGISTERRED" \notin Muted => Registerred(cap.src, cap.enc) \in net'
  BY <1>3 DEF Posted, Registerred, Datagram
<1> QED BY <1>6, <1>7 DEF InEffect

\* An authorised REGISTER is never taken for a repetition: its sender gets into the
\* table, or has its row stamped, and is answered (_store_peer, Sqlyte::store_peer).
THEOREM RegisterIsEffective == SrvSpec => RegisterTakesEffect
<1>1. \A cap \in SrvInputs : CapOK(cap)
  BY DEF SrvInputs, Datagram, CapOK
<1>2. SrvInv /\ [SrvNext]_srvVars =>
        [~SqlFaults =>
           \A cap \in SrvInputs :
             SrvRegister(cap, {}) =>
               /\ "SRV_REGISTERRED" \notin Muted => Registerred(cap.src, cap.enc) \in net'
               /\ \E r \in pers' : r.K = KeyOf(cap) /\ r.D = day]_srvVars
  BY <1>1, RegisterWorks DEF InEffect
<1> QED BY <1>2, SrvInvariant, PTL DEF SrvSpec, RegisterTakesEffect

\* What keeps a row r: the table after the step has it, with a date no older.
Kept(r) == \E s \in pers' : s.K = r.K /\ s.D >= r.D

\* A step that leaves the rows alone, adds one or stamps some keeps every row.
LEMMA RowKept ==
  ASSUME SrvTypeOK, TableSound, NEW r \in pers,
         pers \subseteq pers' \/ \E rows : pers' = Stamped(rows)
  PROVE  Kept(r)
<1>1. r \in Row /\ r.D \in Nat /\ r.D <= day /\ day \in Nat
  BY DEF SrvTypeOK, TableSound, Row
<1>2. CASE pers \subseteq pers'
  BY <1>1, <1>2 DEF Kept
<1>3. CASE \E rows : pers' = Stamped(rows)
  <2>1. PICK rows : pers' = Stamped(rows)
    BY <1>3
  <2>2. CASE r \in rows
    <3>1. [r EXCEPT !.D = day] \in pers'
      BY <2>1, <2>2 DEF Stamped
    <3> QED BY <1>1, <3>1 DEF Kept, Row
  <2>3. CASE r \notin rows
    <3>1. r \in pers'
      BY <2>1, <2>3 DEF Stamped
    <3> QED BY <1>1, <3>1 DEF Kept
  <2> QED BY <2>2, <2>3
<1> QED BY <1>2, <1>3

\* Whatever capsule the server takes, it keeps every row (_process).
LEMMA ReceiveKeeps ==
  ASSUME SrvTypeOK, TableSound, NEW cap, NEW keep, SrvReceive(cap, keep), NEW r \in pers
  PROVE  Kept(r)
<1>1. CASE SrvRegister(cap, keep)
  <2>1. CASE prev = Capsule(cap)
    BY <1>1, <2>1, RowKept DEF SrvRegister
  <2>2. CASE prev # Capsule(cap)
    <3>1. pers \subseteq pers' \/ \E rows : pers' = Stamped(rows)
      BY <1>1, <2>2 DEF SrvRegister, StorePeer
    <3> QED BY <3>1, RowKept
  <2> QED BY <2>1, <2>2
<1>2. CASE SrvHereIAm(cap, keep)
  BY <1>2, RowKept DEF SrvHereIAm
<1>3. CASE SrvDeny(cap, keep) \/ SrvUnregister(cap, keep) \/ SrvOther(cap, keep)
  BY <1>3, RowKept DEF SrvDeny, SrvUnregister, RemovePeer, SrvOther, srvTables
<1> QED BY <1>1, <1>2, <1>3 DEF SrvReceive

\* Whatever the server does of its own accord, a row it loses was stale, or the server
\* was started again.
LEMMA AloneKeeps ==
  ASSUME SrvTypeOK, TableSound, NEW r \in pers, NEW keep,
         SrvIdle(keep) \/ SrvSweep(keep) \/ SrvRest(keep) \/ SrvClock \/ SrvRestart
  PROVE  r.D < cut \/ Kept(r) \/ restarts' # restarts
<1>1. CASE SrvIdle(keep) \/ SrvRest(keep)
  BY <1>1, RowKept DEF SrvIdle, SrvRest, srvTables
<1>2. CASE SrvSweep(keep)
  <2>1. CASE Outdated(r)
    BY <2>1 DEF Outdated
  <2>2. CASE ~Outdated(r)
    <3>1. r \in pers' /\ r.D \in Nat
      BY <1>2, <2>2 DEF SrvSweep, SrvTypeOK, Row
    <3> QED BY <3>1 DEF Kept
  <2> QED BY <2>1, <2>2
<1>3. CASE SrvClock
  BY <1>3, RowKept DEF SrvClock, Lapse, Midnight, HalfMinute, srvTables
<1>4. CASE SrvRestart
  BY <1>4 DEF SrvRestart, SrvTypeOK
<1> QED BY <1>1, <1>2, <1>3, <1>4

\* The server forgets no peer that was heard of within 30 seconds, whatever fails:
\* the sweep of del_oldies is the only step that takes rows out.
THEOREM FreshRowsStay == SrvSpec => NoFreshRowLost
<1>1. ASSUME SrvInv, SrvNext, NEW r \in pers
      PROVE  r.D < cut \/ Kept(r) \/ restarts' # restarts
  BY <1>1, ReceiveKeeps, AloneKeeps DEF SrvInv, SrvNext
<1>2. SrvInv /\ [SrvNext]_srvVars =>
        [\A r \in pers :
           \/ r.D < cut
           \/ \E s \in pers' : s.K = r.K /\ s.D >= r.D
           \/ restarts' # restarts
           \/ \E cap \in SrvInputs : cap.src = r.PA /\ SrvUnregister(cap, {})]_srvVars
  BY <1>1 DEF Kept
<1> QED BY <1>2, SrvInvariant, PTL DEF SrvSpec, NoFreshRowLost

-----------------------------------------------------------------------------
(* The denials.                                                            *)

LEMMA DenyCounts ==
  ASSUME SrvTypeOK, RejectThreshold, NEW ip \in Ips, Deny(ip)
  PROVE  RejectThreshold'
<1>1. PICK read \in SqlResult, write \in SqlResult :
        /\ rej' = [rej EXCEPT ![ip] = IF read /\ write THEN @ + 1 ELSE @]
        /\ ufw' = IF read /\ rej[ip] > MaxAttempts THEN ufw \cup {ip} ELSE ufw
  BY DEF Deny
<1>2. /\ rej \in [Ips -> Nat] /\ MaxAttempts \in Nat
      /\ read \in BOOLEAN /\ write \in BOOLEAN /\ (~SqlFaults => read /\ write)
  BY <1>1, UServerAssumption DEF SrvTypeOK, SqlResult, UServerAssumption
<1> SUFFICES ASSUME NEW other \in Ips
             PROVE  /\ other \in ufw' => rej'[other] > MaxAttempts
                    /\ ~SqlFaults => (other \in ufw' <=> rej'[other] > MaxAttempts + 1)
  BY DEF RejectThreshold
<1>3. /\ other \in ufw => rej[other] > MaxAttempts
      /\ ~SqlFaults => (other \in ufw <=> rej[other] > MaxAttempts + 1)
  BY DEF RejectThreshold
<1>4. rej[other] \in Nat
  BY <1>2
<1>5. CASE other # ip
  <2>1. rej'[other] = rej[other] /\ (other \in ufw' <=> other \in ufw)
    BY <1>1, <1>2, <1>5
  <2> QED BY <1>3, <2>1
<1>6. CASE other = ip
  <2>1. CASE read /\ write
    <3>1. rej'[ip] = rej[ip] + 1 /\ (ip \in ufw' <=> ip \in ufw \/ rej[ip] > MaxAttempts)
      BY <1>1, <1>2, <2>1
    <3> QED BY <1>2, <1>3, <1>4, <1>6, <3>1
  <2>2. CASE ~(read /\ write)
    <3>1. SqlFaults /\ rej'[ip] = rej[ip] /\ (ip \in ufw' => ip \in ufw \/ rej[ip] > MaxAttempts)
      BY <1>1, <1>2, <2>2
    <3> QED BY <1>3, <1>6, <3>1
  <2> QED BY <2>1, <2>2
<1> QED BY <1>5, <1>6

LEMMA NobodyDenied ==
  ASSUME RejectThreshold, rej' = rej, ufw' = ufw
  PROVE  RejectThreshold'
BY DEF RejectThreshold

\* Of the capsules only one that is denied counts, and it counts for its source.
LEMMA ReceiveCounts ==
  ASSUME SrvTypeOK, RejectThreshold, NEW cap, CapOK(cap), NEW keep, SrvReceive(cap, keep)
  PROVE  RejectThreshold'
<1>1. CASE SrvDeny(cap, keep)
  <2>1. cap.src.ip \in Ips
    BY DEF CapOK, Addr, Endpoint
  <2> QED BY <1>1, <2>1, DenyCounts DEF SrvDeny
<1>2. CASE ~SrvDeny(cap, keep)
  <2>1. rej' = rej /\ ufw' = ufw
    BY <1>2 DEF SrvReceive, SrvRegister, SrvUnregister, SrvHereIAm, SrvOther, srvTables
  <2> QED BY <2>1, NobodyDenied
<1> QED BY <1>1, <1>2

LEMMA AloneCounts ==
  ASSUME RejectThreshold, NEW keep,
         SrvIdle(keep) \/ SrvSweep(keep) \/ SrvRest(keep) \/ SrvClock \/ SrvRestart
  PROVE  RejectThreshold'
<1>1. CASE SrvIdle(keep) \/ SrvSweep(keep) \/ SrvRest(keep) \/ SrvClock
  <2>1. rej' = rej /\ ufw' = ufw
    BY <1>1 DEF SrvIdle, SrvSweep, SrvRest, SrvClock, Lapse, Midnight, HalfMinute, srvTables
  <2> QED BY <2>1, NobodyDenied
<1>2. CASE SrvRestart
  <2>1. rej' = [ip \in Ips |-> 0] /\ ufw' = {}
    BY <1>2 DEF SrvRestart
  <2> QED BY <2>1, UServerAssumption DEF RejectThreshold, UServerAssumption
<1> QED BY <1>1, <1>2

LEMMA NobodyCounted == SrvInit => RejectThreshold
BY UServerAssumption DEF SrvInit, RejectThreshold, UServerAssumption

\* _ufw_reject is called for a host at the denial that follows MAX_ATTEMPS + 1 counted
\* ones and no sooner, whoever else is denied in between; failing statements can only put it off.
THEOREM RejectedInTime == SrvSpec => []RejectThreshold
<1>1. SrvInv /\ RejectThreshold /\ [SrvNext]_srvVars => RejectThreshold'
  <2> SUFFICES ASSUME SrvInv, RejectThreshold, [SrvNext]_srvVars PROVE RejectThreshold'
    OBVIOUS
  <2>1. ASSUME NEW cap \in SrvInputs, SrvReceive(cap, {})
        PROVE  RejectThreshold'
    <3>1. CapOK(cap)
      BY DEF SrvInputs, Datagram, CapOK
    <3> QED BY <2>1, <3>1, ReceiveCounts DEF SrvInv
  <2>2. CASE UNCHANGED srvVars
    BY <2>2, NobodyDenied DEF srvVars, srvTables
  <2> QED BY <2>1, <2>2, AloneCounts DEF SrvNext
<1> QED BY <1>1, NobodyCounted, SrvInvariant, PTL DEF SrvSpec
=============================================================================
