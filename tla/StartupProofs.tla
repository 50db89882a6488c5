------------------------- MODULE StartupProofs -------------------------
(***************************************************************************)
(* Proofs about the start of processes on one host, for any number of      *)
(* processes, any ports and any number of tries.                           *)
(***************************************************************************)
EXTENDS Startup, TLAPS

\* Ports are held by one process, and a peer that runs holds the one it found.
PortsApart ==
  /\ \A p \in Procs : bound[p] # NoPort =>
       bound[p] \notin others /\ \A q \in Procs \ {p} : bound[q] # bound[p]
  /\ \A p \in Procs : pc[p] = "listen" => bound[p] # NoPort /\ bound[p] = Port(i[p])

\* What was refused are the ports from the first one to the one before the next.
RefusedSoFar ==
  \A p \in Procs :
    /\ pc[p] \in {"off", "construct", "srvbind", "serve"} => refused[p] = {}
    /\ pc[p] \in {"search", "gaveup"} =>
         first[p] <= i[p] /\ refused[p] = first[p]..(i[p] - 1)
    /\ pc[p] = "search" => i[p] < first[p] + Tries
    /\ pc[p] = "gaveup" => i[p] = first[p] + Tries

StartupInv == StartupTypeOK /\ PortsApart /\ RefusedSoFar /\ TablesKept

-----------------------------------------------------------------------------
\* A port is 16 bits.
LEMMA PortRange ==
  ASSUME NEW n \in Nat PROVE Port(n) \in Ports \cup {NoPort}
  BY StartupAssumption DEF Port, Ports, NoPort

LEMMA StartupInitInv == StartupInit => StartupInv
<1> SUFFICES ASSUME StartupInit PROVE StartupInv
  OBVIOUS
<1>1. spoiled \in BOOLEAN
  BY DEF StartupInit
<1>2. StartupTypeOK
  BY <1>1, StartupAssumption DEF StartupInit, StartupTypeOK, Places, NoPort
<1>3. PortsApart
  BY DEF StartupInit, PortsApart
<1>4. RefusedSoFar
  BY DEF StartupInit, RefusedSoFar
<1>5. TablesKept
  BY DEF StartupInit, TablesKept
<1> QED BY <1>2, <1>3, <1>4, <1>5 DEF StartupInv

\* The types are kept.
LEMMA StartupTypes ==
  ASSUME StartupInv, [StartupNext]_startupVars PROVE StartupTypeOK'
<1> USE StartupAssumption DEF StartupInv, StartupTypeOK, Goes, NoPort, Places, Ports
<1>1. CASE UNCHANGED startupVars
  BY <1>1 DEF startupVars
<1>2. ASSUME NEW p \in Procs, NEW arguments \in 2..4, NEW given \in PortArgs,
             StartPeer(p, arguments, given)
      PROVE  StartupTypeOK'
  BY <1>2 DEF StartPeer, PortOf
<1>3. ASSUME NEW p \in Procs, Attempt(p) PROVE StartupTypeOK'
  <2>1. i[p] \in Nat /\ Port(i[p]) \in Ports \cup {NoPort}
    BY PortRange
  <2> QED BY <1>3, <2>1 DEF Attempt, Aborts, Found, Refused
<1>4. ASSUME NEW p \in Procs, AttemptWithout(p) PROVE StartupTypeOK'
  BY <1>4 DEF AttemptWithout, Aborts, Refused
<1>5. ASSUME NEW p \in Procs, NEW server \in BOOLEAN, StartOne(p, server)
      PROVE  StartupTypeOK'
  BY <1>5 DEF StartOne
<1>6. ASSUME NEW p \in Procs, Construct(p) \/ ConstructFails(p) PROVE StartupTypeOK'
  BY <1>6 DEF Construct, ConstructFails
<1>7. ASSUME NEW p \in Procs, ServerBind(p) \/ ServerBindWithout(p)
      PROVE  StartupTypeOK'
  BY <1>7 DEF ServerBind, ServerBindWithout
<1>8. ASSUME NEW p \in Procs, Access(p) \/ Leave(p) PROVE StartupTypeOK'
  <2>1. spoiled' \in BOOLEAN
    BY <1>8, Zenon DEF Access, Leave
  <2>2. CASE Access(p)
    BY <2>2 DEF Access
  <2>3. CASE Leave(p)
    <3>1. /\ pc' = [pc EXCEPT ![p] = "off"]
          /\ first' = [first EXCEPT ![p] = 0] /\ i' = [i EXCEPT ![p] = 0]
          /\ named' = [named EXCEPT ![p] = NoPort]
          /\ bound' = [bound EXCEPT ![p] = NoPort]
          /\ refused' = [refused EXCEPT ![p] = {}]
          /\ others' = others /\ db' = db
      BY <2>3, Zenon DEF Leave
    <3> QED BY <2>1, <3>1
  <2> QED BY <1>8, <2>2, <2>3
<1>9. ASSUME NEW port \in OtherPorts, OtherProgram(port) PROVE StartupTypeOK'
  BY <1>9 DEF OtherProgram
<1>10. ASSUME NEW p \in Procs, Step(p) PROVE StartupTypeOK'
  BY ONLY <1>2, <1>3, <1>4, <1>5, <1>6, <1>7, <1>8, <1>10 DEF Step
<1> QED BY ONLY <1>1, <1>9, <1>10, [StartupNext]_startupVars DEF StartupNext

\* Ports stay apart.
LEMMA PortsStayApart ==
  ASSUME StartupInv, [StartupNext]_startupVars PROVE PortsApart'
<1> USE DEF StartupInv, StartupTypeOK, PortsApart, Goes, NoPort
<1>1. CASE UNCHANGED startupVars
  BY <1>1 DEF startupVars
<1>2. ASSUME NEW p \in Procs, NEW arguments \in 2..4, NEW given \in PortArgs,
             StartPeer(p, arguments, given)
      PROVE  PortsApart'
  BY <1>2 DEF StartPeer
<1>3. ASSUME NEW p \in Procs, Attempt(p) PROVE PortsApart'
  <2>1. CASE Aborts(p)
    BY <1>3, <2>1 DEF Attempt, Aborts
  <2>2. CASE Refused(p)
    BY <1>3, <2>2 DEF Attempt, Refused
  <2>3. CASE Port(i[p]) # 0 /\ ~Taken(Port(i[p])) /\ Found(p, Port(i[p]))
    BY <1>3, <2>3 DEF Attempt, Found, Taken
  <2> QED BY <1>3, <2>1, <2>2, <2>3 DEF Attempt
<1>4. ASSUME NEW p \in Procs, AttemptWithout(p) PROVE PortsApart'
  BY <1>4 DEF AttemptWithout, Aborts, Refused
<1>5. ASSUME NEW p \in Procs, NEW server \in BOOLEAN, StartOne(p, server)
      PROVE  PortsApart'
  BY <1>5 DEF StartOne
<1>6. ASSUME NEW p \in Procs, Construct(p) \/ ConstructFails(p) PROVE PortsApart'
  BY <1>6 DEF Construct, ConstructFails
<1>7. ASSUME NEW p \in Procs, ServerBind(p) \/ ServerBindWithout(p)
      PROVE  PortsApart'
  BY <1>7 DEF ServerBind, ServerBindWithout, Taken
<1>8. ASSUME NEW p \in Procs, Access(p) \/ Leave(p) PROVE PortsApart'
  BY <1>8 DEF Access, Leave
<1>9. ASSUME NEW port \in OtherPorts, OtherProgram(port) PROVE PortsApart'
  BY <1>9 DEF OtherProgram, Taken
<1>10. ASSUME NEW p \in Procs, Step(p) PROVE PortsApart'
  BY ONLY <1>2, <1>3, <1>4, <1>5, <1>6, <1>7, <1>8, <1>10 DEF Step
<1> QED BY ONLY <1>1, <1>9, <1>10, [StartupNext]_startupVars DEF StartupNext

\* A search leaves nothing out.
LEMMA SearchIsExact ==
  ASSUME StartupInv, [StartupNext]_startupVars PROVE RefusedSoFar'
<1> USE StartupAssumption DEF StartupInv, StartupTypeOK, RefusedSoFar, Goes
<1>1. CASE UNCHANGED startupVars
  BY <1>1 DEF startupVars
<1>2. ASSUME NEW p \in Procs, NEW arguments \in 2..4, NEW given \in PortArgs,
             StartPeer(p, arguments, given)
      PROVE  RefusedSoFar'
  <2> DEFINE port == PortOf(arguments, given)
  <2>1. port \in Nat
    BY DEF PortOf
  <2>2. port..(port - 1) = {}
    BY <2>1
  <2> HIDE DEF port
  <2>3. /\ pc[p] = "off" /\ pc' = [pc EXCEPT ![p] = "search"]
        /\ first' = [first EXCEPT ![p] = port] /\ i' = [i EXCEPT ![p] = port]
        /\ refused' = refused
    BY <1>2 DEF StartPeer, port
  <2>4. refused'[p] = first'[p]..(i'[p] - 1)
    BY <2>2, <2>3
  <2>5. i'[p] < first'[p] + Tries
    BY <2>1, <2>3
  <2> QED BY <2>1, <2>3, <2>4, <2>5
<1>3. ASSUME NEW p \in Procs, pc[p] = "search", Refused(p), UNCHANGED first
      PROVE  RefusedSoFar'
  <2>1. (first[p]..(i[p] - 1)) \cup {i[p]} = first[p]..((i[p] + 1) - 1)
    BY <1>3
  <2> QED BY <1>3, <2>1 DEF Refused
<1>4. ASSUME NEW p \in Procs, pc[p] = "search", UNCHANGED first,
             Aborts(p) \/ Found(p, Port(i[p]))
      PROVE  RefusedSoFar'
  BY <1>4 DEF Aborts, Found
<1>5. ASSUME NEW p \in Procs, Attempt(p) \/ AttemptWithout(p) PROVE RefusedSoFar'
  BY ONLY <1>3, <1>4, <1>5 DEF Attempt, AttemptWithout
<1>6. ASSUME NEW p \in Procs, NEW server \in BOOLEAN, StartOne(p, server)
      PROVE  RefusedSoFar'
  BY <1>6 DEF StartOne
<1>7. ASSUME NEW p \in Procs, Construct(p) \/ ConstructFails(p) PROVE RefusedSoFar'
  BY <1>7 DEF Construct, ConstructFails
<1>8. ASSUME NEW p \in Procs, ServerBind(p) \/ ServerBindWithout(p)
      PROVE  RefusedSoFar'
  BY <1>8 DEF ServerBind, ServerBindWithout
<1>9. ASSUME NEW p \in Procs, Access(p) \/ Leave(p) PROVE RefusedSoFar'
  BY <1>9 DEF Access, Leave
<1>10. ASSUME NEW port \in OtherPorts, OtherProgram(port) PROVE RefusedSoFar'
  BY <1>10 DEF OtherProgram
<1>11. ASSUME NEW p \in Procs, Step(p) PROVE RefusedSoFar'
  BY ONLY <1>2, <1>5, <1>6, <1>7, <1>8, <1>9, <1>11 DEF Step
<1> QED BY ONLY <1>1, <1>10, <1>11, [StartupNext]_startupVars DEF StartupNext

\* The last to remove the file makes it again.
LEMMA TablesStay ==
  ASSUME StartupInv, [StartupNext]_startupVars PROVE TablesKept'
<1> USE DEF StartupInv, StartupTypeOK, TablesKept, Goes
<1>1. CASE UNCHANGED startupVars
  BY <1>1 DEF startupVars
<1>2. ASSUME NEW p \in Procs, NEW arguments \in 2..4, NEW given \in PortArgs,
             StartPeer(p, arguments, given)
      PROVE  TablesKept'
  BY <1>2 DEF StartPeer
<1>3. ASSUME NEW p \in Procs, Attempt(p) \/ AttemptWithout(p) PROVE TablesKept'
  BY <1>3 DEF Attempt, AttemptWithout, Aborts, Found, Refused
<1>4. ASSUME NEW p \in Procs, NEW server \in BOOLEAN, StartOne(p, server)
      PROVE  TablesKept'
  BY <1>4 DEF StartOne
<1>5. ASSUME NEW p \in Procs, Construct(p) \/ ConstructFails(p) PROVE TablesKept'
  BY <1>5 DEF Construct, ConstructFails
<1>6. ASSUME NEW p \in Procs, ServerBind(p) \/ ServerBindWithout(p)
      PROVE  TablesKept'
  BY <1>6 DEF ServerBind, ServerBindWithout
<1>7. ASSUME NEW p \in Procs, Access(p) \/ Leave(p) PROVE TablesKept'
  BY <1>7 DEF Access, Leave
<1>8. ASSUME NEW port \in OtherPorts, OtherProgram(port) PROVE TablesKept'
  BY <1>8 DEF OtherProgram
<1>9. ASSUME NEW p \in Procs, Step(p) PROVE TablesKept'
  BY ONLY <1>2, <1>3, <1>4, <1>5, <1>6, <1>7, <1>9 DEF Step
<1> QED BY ONLY <1>1, <1>8, <1>9, [StartupNext]_startupVars DEF StartupNext

-----------------------------------------------------------------------------
\* Everything above holds of every start on every host.
THEOREM StartupInvariant == StartupSpec => []StartupInv
<1>1. StartupInv /\ [StartupNext]_startupVars => StartupInv'
  BY StartupTypes, PortsStayApart, SearchIsExact, TablesStay DEF StartupInv
<1> QED BY <1>1, StartupInitInv, PTL DEF StartupSpec

\* The variables keep their types; the port handed to bind() always has 16 bits.
THEOREM StartupTypeCorrect == StartupSpec => []StartupTypeOK
  BY StartupInvariant, PTL DEF StartupInv

\* A peer that runs is alone on the port it prints.
THEOREM PeersOwnTheirPorts == StartupSpec => []PeerOwnsItsPort
<1>1. StartupInv => PeerOwnsItsPort
  BY DEF StartupInv, PortsApart, PeerOwnsItsPort
<1> QED BY <1>1, StartupInvariant, PTL

\* A peer gives up only after it was refused each of its ports.
THEOREM NobodyGivesUpEarly == StartupSpec => []GivesUpWhenAllRefused
<1>1. StartupInv => GivesUpWhenAllRefused
  BY StartupAssumption
     DEF StartupInv, StartupTypeOK, RefusedSoFar, GivesUpWhenAllRefused
<1> QED BY <1>1, StartupInvariant, PTL

\* While a server runs its tables are there, unless one who will not make them
\* removed the file.
THEOREM ServersKeepTables == StartupSpec => []TablesKept
  BY StartupInvariant, PTL DEF StartupInv
=============================================================================
