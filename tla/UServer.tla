---------------------------- MODULE UServer ----------------------------
(***************************************************************************)
(* The relay server: the loop of u_server::main() and the SQLite table of  *)
(* registered peers (Sqlyte) it works on.  The server is one thread; what  *)
(* interleaves with it is the clock and the arrival of datagrams.          *)
(*                                                                         *)
(* One iteration of the loop is two steps.  The first waits in select()    *)
(* and handles at most one datagram; the second is the sweep at the bottom *)
(* of the loop, run when TTLIVE seconds passed or a handler set _dirty.    *)
(* Every step takes keep, what stays in the network beside what it sends,  *)
(* so that the module that composes the server with its peers can choose   *)
(* whether a datagram is consumed.                                         *)
(***************************************************************************)
EXTENDS SockAddr, FiniteSets

CONSTANTS
  Ips, Ports,     \* hosts and UDP ports
  SrvAddr,        \* where the server is
  Groups,         \* the part of a peer's id after "p:" or "c:"
  Keys,           \* XTEA keys in use
  Mids,           \* the keys of the rows of table mid
  NoKey,          \* in the clear, or under a key nobody holds
  NoArg,          \* a datagram whose body nobody reads
  NoCap,          \* a capsule of zeros
  SqlFaults,      \* may a statement fail?
  Muted,          \* verbs of the server's datagrams that a model leaves out as lost
  MaxAttempts,    \* MAX_ATTEMPS
  MaxRej,         \* bound: denials counted for one host
  MaxRowId,       \* bound: rows inserted between two starts
  MaxDay,         \* bound: midnights
  MaxRestarts     \* bound: restarts of the server

Addr == Endpoint(Ips, Ports)
Id == [typ : {0, 1}, grp : Groups]        \* typ 1 is a provider

ASSUME UServerAssumption ==
  /\ Ips \subseteq Nat /\ Ports \subseteq Nat \ {0}
  /\ SrvAddr \in Addr
  /\ Mids \subseteq Keys /\ NoKey \notin Keys
  /\ NoCap \notin [enc : Keys, id : Id]
  /\ SqlFaults \in BOOLEAN
  /\ {MaxAttempts, MaxRej, MaxRowId, MaxDay, MaxRestarts} \subseteq Nat

VARIABLES
  pers,      \* the rows of table pers
  rowid,     \* the last autoincrement Id given out
  rej,       \* table rej: denials counted for each host
  ufw,       \* history: the hosts _ufw_reject was called for
  prev,      \* _prev, the last REGISTER capsule stored
  dirty,     \* _dirty
  loop,      \* "select" or "tail": where the loop is
  lapsed,    \* now - pingpers > TTLIVE
  day, cut,  \* the day it is, and the day it was 30 seconds ago
  restarts,  \* restarts so far
  net        \* datagrams sent

srvLoop == <<prev, dirty, loop, lapsed>>
srvTables == <<pers, rowid, rej, ufw>>
srvClock == <<day, cut>>
srvVars == <<srvTables, srvLoop, srvClock, restarts, net>>

-----------------------------------------------------------------------------
(* Datagrams.  enc is the key that the 112 byte capsule is enciphered with *)
(* and that a registration carries as its meiot.                           *)

Datagram(verb, src, dst, enc, arg) ==
  [verb |-> verb, src |-> src, dst |-> dst, enc |-> enc, arg |-> arg]

Registerred(dst, key) == Datagram("SRV_REGISTERRED", SrvAddr, dst, key, NoArg)
Unregistered(dst) == Datagram("SRV_UNREGISTERED", SrvAddr, dst, NoKey, NoArg)
SrvPing(p) == Datagram("SRV_PING", SrvAddr, p.PA, p.MK, NoArg)

\* ipp: a row as get_pers returns it, where the peer is and the key to write to it
\* with.  Assigning one copies the key too.
Ipp(row) == [addr |-> row.PA, key |-> row.MK]
SetPeer(p, q) == Datagram("SRV_SET_PEER", SrvAddr, q.PA, q.MK, Ipp(p))

\* What the network holds when these were sent: see keep above.
Posted(keep, sent) == keep \cup {m \in sent : m.verb \notin Muted}

-----------------------------------------------------------------------------
(* Rows of table pers.  K is the hash of the source, the id and the key;   *)
(* collisions of the hash are left out.                                    *)

KeyOf(cap) == [addr |-> cap.src, id |-> cap.arg, mk |-> cap.enc]
RowKeys == [addr : Addr, id : Id, mk : Mids]
Row == [Id : Nat, D : Nat, I : Groups, K : RowKeys, PA : Addr,
        T : {0, 1}, R : Nat, MK : Mids]

InGroup(name) == {r \in pers : r.I = name}

\* Variant: rank by the first row of the scan.
FirstRank(name) ==
  IF InGroup(name) = {} THEN 0
  ELSE (CHOOSE r \in InGroup(name) : \A s \in InGroup(name) : r.Id <= s.Id).R

\* refs after the scan of the SELECT: R of the last row, the rows come by Id.
LastRank(name) ==
  IF InGroup(name) = {} THEN 0
  ELSE (CHOOSE r \in InGroup(name) : \A s \in InGroup(name) : s.Id <= r.Id).R

\* Variant: the keys were never stored in the row.
NewRowWithoutKey(cap, refs) ==
  [Id |-> rowid + 1, D |-> day, I |-> cap.arg.grp, K |-> KeyOf(cap),
   PA |-> cap.src, T |-> cap.arg.typ, R |-> refs + 1, MK |-> NoKey]

NewRow(cap, refs) ==
  [Id |-> rowid + 1, D |-> day, I |-> cap.arg.grp, K |-> KeyOf(cap),
   PA |-> cap.src, T |-> cap.arg.typ, R |-> refs + 1, MK |-> cap.enc]

\* The rows after UPDATE pers SET D=now of those that meet a condition.
Stamped(rows) == {IF r \in rows THEN [r EXCEPT !.D = day] ELSE r : r \in pers}

\* How a statement can end.
SqlResult == IF SqlFaults THEN BOOLEAN ELSE {TRUE}

SrvInit ==
  /\ pers = {} /\ rowid = 0
  /\ rej = [ip \in Ips |-> 0] /\ ufw = {}
  /\ prev = NoCap /\ dirty = FALSE /\ loop = "select" /\ lapsed = TRUE
  /\ day = 0 /\ cut = 0 /\ restarts = 0 /\ net = {}

-----------------------------------------------------------------------------
(* The upper half of the loop.                                             *)

\* select() timed out, or the datagram had not the size of a capsule.
SrvIdle(keep) ==
  /\ loop = "select" /\ loop' = "tail"
  /\ net' = keep
  /\ UNCHANGED <<srvTables, prev, dirty, lapsed, srvClock, restarts>>

\* Variant: the count is compared after it was raised.
DenyLate(ip) ==
  \E read, write \in SqlResult :
    /\ rej' = [rej EXCEPT ![ip] = IF read /\ write THEN @ + 1 ELSE @]
    /\ ufw' = IF read /\ rej[ip] + 1 > MaxAttempts THEN ufw \cup {ip} ELSE ufw

\* Sqlyte::deny and what _deny does with its answer: the count is compared
\* before it is raised, and the first denial has no row to compare.
Deny(ip) ==
  \E read, write \in SqlResult :
    /\ rej' = [rej EXCEPT ![ip] = IF read /\ write THEN @ + 1 ELSE @]
    /\ ufw' = IF read /\ rej[ip] > MaxAttempts THEN ufw \cup {ip} ELSE ufw

\* A capsule that no row of mid deciphers, or whose meiot differs; also one that
\* would have passed, when the SELECT on mid fails.
SrvDeny(cap, keep) ==
  /\ loop = "select" /\ loop' = "tail"
  /\ cap.enc \in Mids => SqlFaults
  /\ rej[cap.src.ip] < MaxRej
  /\ Deny(cap.src.ip)
  /\ net' = keep
  /\ UNCHANGED <<pers, rowid, prev, dirty, lapsed, srvClock, restarts>>

\* _auth accepted the capsule, and _process branches on its verb.
Accepted(cap, verb) ==
  /\ loop = "select" /\ loop' = "tail"
  /\ cap.enc \in Mids /\ cap.verb = verb

Capsule(cap) == [enc |-> cap.enc, id |-> cap.arg]

\* Variant: the column K is not UNIQUE.
NoConflict(row) == {}

\* The row that stands in the way of an INSERT: K is UNIQUE.
Conflicting(row) == {r \in pers : r.K = row.K}

\* Sqlyte::store_peer: read the rank, INSERT, and on a failure of the INSERT, which
\* the UNIQUE key K causes when the peer is known, UPDATE the date.
StorePeer(cap, keep) ==
  \E prepared, inserts, updates \in SqlResult :
    LET row == NewRow(cap, IF prepared THEN LastRank(cap.arg.grp) ELSE 0)
        same == Conflicting(row)
        inserted == inserts /\ same = {}
    IN /\ inserted => rowid < MaxRowId
       /\ pers' = IF inserted THEN pers \cup {row}
                  ELSE IF updates THEN Stamped(same) ELSE pers
       /\ rowid' = IF inserted THEN rowid + 1 ELSE rowid
       /\ dirty' = (prepared \/ inserted)
       /\ net' = Posted(keep, IF prepared \/ inserted
                              THEN {Registerred(cap.src, cap.enc)} ELSE {})

\* _store_peer: a capsule equal to the previous one is dropped without an answer.
SrvRegister(cap, keep) ==
  /\ Accepted(cap, "SRV_REGISTER")
  /\ IF prev = Capsule(cap)
     THEN net' = keep /\ UNCHANGED <<pers, rowid, prev, dirty>>
     ELSE StorePeer(cap, keep) /\ prev' = Capsule(cap)
  /\ UNCHANGED <<rej, ufw, lapsed, srvClock, restarts>>

\* Sqlyte::remove_peer.  The condition of the DELETE compares K with one character,
\* the low byte of a hash, so it removes no row; whether the statement is well
\* formed depends on that character, and _dirty says so.
RemovePeer == dirty' \in BOOLEAN /\ UNCHANGED pers

SrvUnregister(cap, keep) ==
  /\ Accepted(cap, "SRV_UNREGISTER")
  /\ net' = Posted(keep, {Unregistered(cap.src)})
  /\ RemovePeer
  /\ UNCHANGED <<rowid, rej, ufw, prev, lapsed, srvClock, restarts>>

\* _update_client_time: every row of the sender's address.
SrvHereIAm(cap, keep) ==
  /\ Accepted(cap, "PER_AIH")
  /\ \E updates \in SqlResult :
       pers' = IF updates THEN Stamped({r \in pers : r.PA = cap.src}) ELSE pers
  /\ net' = keep
  /\ UNCHANGED <<rowid, rej, ufw, prev, dirty, lapsed, srvClock, restarts>>

\* A verb the server does not serve.
SrvOther(cap, keep) ==
  /\ loop = "select" /\ loop' = "tail"
  /\ cap.enc \in Mids
  /\ cap.verb \notin {"SRV_REGISTER", "SRV_UNREGISTER", "PER_AIH"}
  /\ net' = keep
  /\ UNCHANGED <<srvTables, prev, dirty, lapsed, srvClock, restarts>>

SrvReceive(cap, keep) ==
  \/ SrvDeny(cap, keep)
  \/ SrvRegister(cap, keep)
  \/ SrvUnregister(cap, keep)
  \/ SrvHereIAm(cap, keep)
  \/ SrvOther(cap, keep)

-----------------------------------------------------------------------------
(* The lower half: _ping_pers, then _prev, then _delete_olies, then _dirty. *)

\* Variant: everybody is told of everybody else.
MatchedAll(p, q) == p # q

\* Variant: consumers are told of providers, and not the other way round.
MatchedOneWay(p, q) == p.T = 1 /\ q.T = 0

\* _ping_pers: who is told of whom.  Groups and keys are not compared.
Matched(p, q) == p.T # q.T

Notices(rows) ==
  {SrvPing(p) : p \in rows}
    \cup UNION {{SetPeer(p, q) : q \in {x \in rows : Matched(p, x)}} : p \in rows}

\* Sqlyte::get_pers: a SELECT that fails gives no row.
GetPers(ok) == IF ok THEN pers ELSE {}

\* Variant: the date is compared with today.
OutdatedToday(r) == r.D < day

\* Variant: the date is compared with yesterday.
OutdatedYesterday(r) == r.D + 1 < cut

\* D <= date('now','-30 seconds'): a time of a day is greater than the bare date
\* of that day, so the row must have been stamped before it.
Outdated(r) == r.D < cut

\* Variant: no sweep unless a handler asks for it.
SweepWhenDirty == dirty

SweepDue == lapsed \/ dirty

\* Variant: _prev is not cleared.
SrvSweepKeepsPrev(keep) ==
  /\ loop = "tail" /\ loop' = "select"
  /\ SweepDue
  /\ net' = Posted(keep, Notices(pers))
  /\ pers' = {r \in pers : ~Outdated(r)}
  /\ dirty' = FALSE /\ lapsed' = FALSE
  /\ UNCHANGED <<rowid, rej, ufw, prev, srvClock, restarts>>

\* The table is read for the notices before the old rows go.
SrvSweep(keep) ==
  /\ loop = "tail" /\ loop' = "select"
  /\ SweepDue
  /\ \E listed \in SqlResult : net' = Posted(keep, Notices(GetPers(listed)))
  /\ \E deleted \in SqlResult :
       pers' = IF deleted THEN {r \in pers : ~Outdated(r)} ELSE pers
  /\ prev' = NoCap /\ dirty' = FALSE /\ lapsed' = FALSE
  /\ UNCHANGED <<rowid, rej, ufw, srvClock, restarts>>

SrvRest(keep) ==
  /\ loop = "tail" /\ loop' = "select"
  /\ ~SweepDue
  /\ net' = keep
  /\ UNCHANGED <<srvTables, prev, dirty, lapsed, srvClock, restarts>>

-----------------------------------------------------------------------------
(* The clock, and a stop of the server followed by a new start, which       *)
(* removes the database file.                                              *)

Lapse ==
  /\ ~lapsed /\ lapsed' = TRUE
  /\ UNCHANGED <<srvTables, prev, dirty, loop, srvClock, restarts, net>>

Midnight ==
  /\ cut = day /\ day < MaxDay /\ day' = day + 1
  /\ UNCHANGED <<srvTables, srvLoop, cut, restarts, net>>

HalfMinute ==
  /\ cut < day /\ cut' = day
  /\ UNCHANGED <<srvTables, srvLoop, day, restarts, net>>

SrvRestart ==
  /\ restarts < MaxRestarts /\ restarts' = restarts + 1
  /\ pers' = {} /\ rowid' = 0
  /\ rej' = [ip \in Ips |-> 0] /\ ufw' = {}
  /\ prev' = NoCap /\ dirty' = FALSE /\ loop' = "select" /\ lapsed' = TRUE
  /\ UNCHANGED <<srvClock, net>>

SrvClock == Lapse \/ Midnight \/ HalfMinute

-----------------------------------------------------------------------------
(* The server alone, with hosts that send it any datagram.                 *)

SrvInputs ==
  {Datagram(verb, src, SrvAddr, enc, id) :
     verb \in {"SRV_REGISTER", "SRV_UNREGISTER", "PER_AIH", "PER_PING"},
     src \in Addr, enc \in Keys \cup {NoKey}, id \in Id}

SrvNext ==
  \/ SrvIdle({})
  \/ \E cap \in SrvInputs : SrvReceive(cap, {})
  \/ SrvSweep({})
  \/ SrvRest({})
  \/ SrvClock
  \/ SrvRestart

SrvSpec == SrvInit /\ [][SrvNext]_srvVars

\* The loop never stops, and time passes.
SrvFairness ==
  /\ WF_srvVars(SrvIdle({}))
  /\ WF_srvVars(SrvSweep({}) \/ SrvRest({}))
  /\ WF_srvVars(Lapse)
  /\ WF_srvVars(HalfMinute)

SrvFairSpec == SrvSpec /\ SrvFairness

-----------------------------------------------------------------------------
(* Properties.                                                             *)

\* Every variable has its type; net is typed by the module that composes.
SrvTypeOK ==
  /\ pers \subseteq Row /\ rowid \in Nat
  /\ rej \in [Ips -> Nat] /\ ufw \subseteq Ips
  /\ prev \in [enc : Mids, id : Id] \cup {NoCap}
  /\ dirty \in BOOLEAN /\ loop \in {"select", "tail"} /\ lapsed \in BOOLEAN
  /\ day \in Nat /\ cut \in Nat /\ cut <= day
  /\ restarts \in Nat

\* The table stays a table whatever statement fails: one row for each peer, with
\* an Id of its own that was given out since the last start, and stamped with a
\* day that has come.  INSERT, the UPDATE after its failure, and the sweep could
\* each break it.
TableSound ==
  \A r, s \in pers :
    /\ r.K = s.K \/ r.Id = s.Id => r = s
    /\ 0 < r.Id /\ r.Id <= rowid /\ r.D <= day

\* R numbers the peers of a group in the order they came, also after the sweep
\* took rows out of the middle; the code takes R of the last row and adds one.
\* A SELECT that fails starts the count again, so this needs statements that work.
RankOrder ==
  ~SqlFaults =>
    \A r, s \in pers : r.I = s.I /\ r.Id < s.Id => r.R < s.R

\* The loop hands its upper half a _prev that is clear, so that the deduplication
\* never swallows a REGISTER: only a statement that fails lets _prev survive.
PrevClear == ~SqlFaults /\ loop = "select" => prev = NoCap

\* A REGISTER that is authorised is answered, and its sender is then in the table
\* with today's date; the server may not drop it as a repetition of another's.
RegisterTakesEffect ==
  [][~SqlFaults =>
       \A cap \in SrvInputs :
         SrvRegister(cap, {}) =>
           /\ "SRV_REGISTERRED" \notin Muted => Registerred(cap.src, cap.enc) \in net'
           /\ \E r \in pers' : r.K = KeyOf(cap) /\ r.D = day]_srvVars

\* No row is lost, or set back, that was stamped within the last 30 seconds, by
\* any handler or sweep, unless the peer itself unregisters or the server stops.
NoFreshRowLost ==
  [][\A r \in pers :
       \/ r.D < cut
       \/ \E s \in pers' : s.K = r.K /\ s.D >= r.D
       \/ restarts' # restarts
       \/ \E cap \in SrvInputs : cap.src = r.PA /\ SrvUnregister(cap, {})]_srvVars

\* _ufw_reject is called for a host at the denial that follows MAX_ATTEMPS + 1
\* earlier ones, and no sooner; when a statement fails it may be later.
RejectThreshold ==
  \A ip \in Ips :
    /\ ip \in ufw => rej[ip] > MaxAttempts
    /\ ~SqlFaults => (ip \in ufw <=> rej[ip] > MaxAttempts + 1)

\* A row that was not refreshed since a day that is over goes, or is refreshed.
StaleRowsGo ==
  \A k \in RowKeys :
    (\E r \in pers : r.K = k /\ r.D < day)
      ~> ~(\E r \in pers : r.K = k /\ r.D < day)

\* Two peers of opposite roles that both stay in the table are introduced to each
\* other again and again, so a lost notice never decides whether they meet.
IntroducedForever ==
  \A j, k \in RowKeys :
    j.id.typ # k.id.typ =>
      (<>[](\E p, q \in pers : p.K = j /\ q.K = k)
         => []<>(Datagram("SRV_SET_PEER", SrvAddr, k.addr, k.mk,
                          [addr |-> j.addr, key |-> j.mk]) \in net))

\* A REGISTER whose INSERT failed is not held back for ever: _prev is forgotten.
PrevForgotten == prev # NoCap ~> prev = NoCap

\* "dropping <id>", says the handler of SRV_UNREGISTER: the peer is then gone.
UnregisterDrops ==
  [][\A cap \in SrvInputs :
       SrvUnregister(cap, {}) => ~\E r \in pers' : r.K = KeyOf(cap)]_srvVars
=============================================================================
