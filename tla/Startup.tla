---------------------------- MODULE Startup ----------------------------
(***************************************************************************)
(* The start of perlink processes on one host.  They share two things: the *)
(* host's UDP ports, among which a peer searches for a free one, and the   *)
(* file of the database, which whoever is started with a single argument   *)
(* removes and the server makes anew.                                      *)
(*                                                                         *)
(* A peer reads its port from the command line only when it has three      *)
(* arguments, and tries Tries ports upwards from it.  A port is 16 bits    *)
(* wide, and bind() asserts that it is not zero.  create() answers -1 when *)
(* it fails, which its callers take for success.                           *)
(***************************************************************************)
EXTENDS Naturals, FiniteSets

CONSTANTS
  Procs,       \* the processes of the host
  SrvPort,     \* SRV_PORT
  CliPort,     \* CLI_PORT
  Tries,       \* the ports a peer tries, 100 in the code
  PortSpace,   \* 2^16
  PortArgs,    \* what may stand on the command line for the port
  OtherPorts   \* the ports that programs other than perlink come to use

NoPort == 0    \* a socket that is not bound; no socket is ever bound to port 0

ASSUME StartupAssumption ==
  /\ PortSpace \in Nat \ {0} /\ Tries \in Nat \ {0}
  /\ SrvPort \in 1..(PortSpace - 1) /\ CliPort \in 1..(PortSpace - 1)
  /\ PortArgs \subseteq Nat /\ OtherPorts \subseteq 1..(PortSpace - 1)

VARIABLES
  pc,       \* pc[p]: where p is in main()
  first,    \* __perport when the search began
  i,        \* the port a peer tries, or the one it found and prints
  named,    \* named[p]: the port in _local_sin, 0 until create() wrote it
  bound,    \* bound[p]: the port p's socket is bound to
  others,   \* the ports other programs hold
  db,       \* the file: absent, empty or with its tables
  refused,  \* history: what each peer's search could not have
  spoiled   \* history: the file was removed by one who will not make the tables

startupVars == <<pc, first, i, named, bound, others, db, refused, spoiled>>

Ports == 1..(PortSpace - 1)
Places == {"off", "search", "listen", "gaveup", "construct", "srvbind", "serve",
           "aborted"}

-----------------------------------------------------------------------------
(* Ports.                                                                  *)

\* Variant: a port as wide as its argument.
PortUnwrapped(n) == n

\* htons
Port(n) == n % PortSpace

Taken(port) == port \in others \/ \E q \in Procs : bound[q] = port

\* main: argv[3] is the port when there are three arguments and no others.
PortOf(arguments, given) == IF arguments = 3 THEN given ELSE CliPort

StartupInit ==
  /\ pc = [p \in Procs |-> "off"]
  /\ first = [p \in Procs |-> 0] /\ i = [p \in Procs |-> 0]
  /\ named = [p \in Procs |-> NoPort] /\ bound = [p \in Procs |-> NoPort]
  /\ others = {} /\ db = "absent"
  /\ refused = [p \in Procs |-> {}] /\ spoiled = FALSE

Goes(p, place) == pc' = [pc EXCEPT ![p] = place]

-----------------------------------------------------------------------------
(* A peer.                                                                 *)

StartPeer(p, arguments, given) ==
  /\ pc[p] = "off"
  /\ Goes(p, "search")
  /\ first' = [first EXCEPT ![p] = PortOf(arguments, given)]
  /\ i' = [i EXCEPT ![p] = PortOf(arguments, given)]
  /\ UNCHANGED <<named, bound, others, db, refused, spoiled>>

\* Variant: the loop compares its counter with <= instead of <.
RefusedOnceMore(p) ==
  /\ refused' = [refused EXCEPT ![p] = @ \cup {i[p]}]
  /\ i' = [i EXCEPT ![p] = @ + 1]
  /\ Goes(p, IF i[p] < first[p] + Tries THEN "search" ELSE "gaveup")
  /\ UNCHANGED bound

\* Variant: the counter starts anew after each port.
RefusedForgets(p) ==
  /\ refused' = [refused EXCEPT ![p] = @ \cup {i[p]}]
  /\ i' = [i EXCEPT ![p] = first[p]]
  /\ UNCHANGED <<pc, bound>>

\* s.destroy(), and the loop goes on or ends.
Refused(p) ==
  /\ refused' = [refused EXCEPT ![p] = @ \cup {i[p]}]
  /\ i' = [i EXCEPT ![p] = @ + 1]
  /\ Goes(p, IF i[p] + 1 < first[p] + Tries THEN "search" ELSE "gaveup")
  /\ UNCHANGED bound

\* bind() finds no port in _local_sin, and its assertion fails.
Aborts(p) == Goes(p, "aborted") /\ UNCHANGED <<i, bound, refused>>

\* bind() is granted the port.
Found(p, port) ==
  /\ bound' = [bound EXCEPT ![p] = port]
  /\ Goes(p, "listen")
  /\ UNCHANGED <<i, refused>>

\* Variant: what bind() returns is not looked at.
AttemptBlindly(p) ==
  /\ pc[p] = "search"
  /\ named' = [named EXCEPT ![p] = Port(i[p])]
  /\ bound' = [bound EXCEPT ![p] = IF Taken(Port(i[p])) THEN NoPort ELSE Port(i[p])]
  /\ Goes(p, "listen")
  /\ UNCHANGED <<first, i, others, db, refused, spoiled>>

\* create() made a socket: bind, and keep it or destroy it.
Attempt(p) ==
  /\ pc[p] = "search"
  /\ named' = [named EXCEPT ![p] = Port(i[p])]
  /\ LET port == Port(i[p])
     IN \/ port = 0 /\ Aborts(p)
        \/ port # 0 /\ ~Taken(port) /\ Found(p, port)
        \/ port # 0 /\ Taken(port) /\ Refused(p)
  /\ UNCHANGED <<first, others, db, spoiled>>

\* create() failed with -1: bind() is called all the same, with the port of the
\* attempt before, and with no socket it fails.
AttemptWithout(p) ==
  /\ pc[p] = "search"
  /\ \/ named[p] = 0 /\ Aborts(p)
     \/ named[p] # 0 /\ Refused(p)
  /\ UNCHANGED <<first, named, others, db, spoiled>>

-----------------------------------------------------------------------------
(* One argument: the file goes, and a server comes or nobody.              *)

StartOne(p, server) ==
  /\ pc[p] = "off"
  /\ db' = "absent"
  /\ IF server
     THEN Goes(p, "construct") /\ UNCHANGED spoiled
     ELSE UNCHANGED pc /\ spoiled' = TRUE
  /\ UNCHANGED <<first, i, named, bound, others, refused>>

\* Variant: the file is removed after the server's object was made.
ConstructThenRemove(p) ==
  /\ pc[p] = "construct"
  /\ db' = "absent" /\ spoiled' = FALSE
  /\ Goes(p, "srvbind")
  /\ UNCHANGED <<first, i, named, bound, others, refused>>

\* Sqlyte::Sqlyte()
Construct(p) ==
  /\ pc[p] = "construct"
  /\ db' = "tables" /\ spoiled' = FALSE
  /\ Goes(p, "srvbind")
  /\ UNCHANGED <<first, i, named, bound, others, refused>>

\* A statement of the constructor fails, after sqlite3_open made the file.
ConstructFails(p) ==
  /\ pc[p] = "construct"
  /\ db' = IF db = "absent" THEN "empty" ELSE db
  /\ spoiled' = TRUE
  /\ Goes(p, "off")
  /\ UNCHANGED <<first, i, named, bound, others, refused>>

\* s.create(SRV_PORT), and s.bind() of which the server does not look at the result.
ServerBind(p) ==
  /\ pc[p] = "srvbind"
  /\ Goes(p, "serve")
  /\ named' = [named EXCEPT ![p] = SrvPort]
  /\ bound' = [bound EXCEPT ![p] = IF Taken(SrvPort) THEN NoPort ELSE SrvPort]
  /\ UNCHANGED <<first, i, others, db, refused, spoiled>>

\* create() failed: bind() finds no port in _local_sin.
ServerBindWithout(p) ==
  /\ pc[p] = "srvbind"
  /\ Goes(p, "aborted")
  /\ UNCHANGED <<first, i, named, bound, others, db, refused, spoiled>>

\* Any method of Sqlyte: sqlite3_open makes a file that is not there.
Access(p) ==
  /\ pc[p] = "serve" /\ db = "absent"
  /\ db' = "empty"
  /\ UNCHANGED <<pc, first, i, named, bound, others, refused, spoiled>>

-----------------------------------------------------------------------------
(* The host.                                                               *)

\* A process is killed, or is over; another takes its place with nothing of it.
Leave(p) ==
  /\ pc[p] # "off"
  /\ Goes(p, "off")
  /\ first' = [first EXCEPT ![p] = 0] /\ i' = [i EXCEPT ![p] = 0]
  /\ named' = [named EXCEPT ![p] = NoPort] /\ bound' = [bound EXCEPT ![p] = NoPort]
  /\ refused' = [refused EXCEPT ![p] = {}]
  /\ spoiled' = (spoiled \/ pc[p] = "construct")
  /\ UNCHANGED <<others, db>>

\* Another program takes a port, or gives it back.
OtherProgram(port) ==
  /\ \/ ~Taken(port) /\ others' = others \cup {port}
     \/ others' = others \ {port}
  /\ UNCHANGED <<pc, first, i, named, bound, db, refused, spoiled>>

Step(p) ==
  \/ \E arguments \in 2..4, given \in PortArgs : StartPeer(p, arguments, given)
  \/ Attempt(p) \/ AttemptWithout(p)
  \/ StartOne(p, TRUE) \/ StartOne(p, FALSE)
  \/ Construct(p) \/ ConstructFails(p)
  \/ ServerBind(p) \/ ServerBindWithout(p) \/ Access(p)
  \/ Leave(p)

StartupNext ==
  \/ \E p \in Procs : Step(p)
  \/ \E port \in OtherPorts : OtherProgram(port)

StartupSpec == StartupInit /\ [][StartupNext]_startupVars

\* A process that searches is scheduled.
StartupFairSpec ==
  StartupSpec /\ \A p \in Procs : WF_startupVars(Attempt(p) \/ AttemptWithout(p))

-----------------------------------------------------------------------------
(* Properties.                                                             *)

StartupTypeOK ==
  /\ pc \in [Procs -> Places]
  /\ first \in [Procs -> Nat] /\ i \in [Procs -> Nat]
  /\ named \in [Procs -> Ports \cup {NoPort}] /\ bound \in [Procs -> Ports \cup {NoPort}]
  /\ others \subseteq Ports
  /\ db \in {"absent", "empty", "tables"}
  /\ refused \in [Procs -> SUBSET Nat] /\ spoiled \in BOOLEAN

\* A peer that runs is alone on the port it prints, modulo 2^16, whoever searched,
\* served or stopped meanwhile.
PeerOwnsItsPort ==
  \A p \in Procs : pc[p] = "listen" =>
    /\ bound[p] = Port(i[p])
    /\ bound[p] \notin others
    /\ \A q \in Procs \ {p} : bound[q] # bound[p]

\* A peer gives up only after each of its Tries ports, and no other, was refused.
GivesUpWhenAllRefused ==
  \A p \in Procs : pc[p] = "gaveup" => refused[p] = first[p]..(first[p] + Tries - 1)

\* While a server runs, its tables are there, though each start removes the file
\* under the servers that run: the last to remove it also makes it, unless that one
\* was no server, or did not come to its constructor's end.
TablesKept ==
  /\ \E p \in Procs : pc[p] \in {"srvbind", "serve"}
  /\ \A p \in Procs : pc[p] # "construct"
  /\ ~spoiled
  => db = "tables"

\* The search of a peer ends.
SearchEnds == \A p \in Procs : pc[p] = "search" ~> pc[p] # "search"
=============================================================================
