---------------------------- MODULE Sqliter ----------------------------
(***************************************************************************)
(* The database handles of the server.  Every method of Sqlyte starts with *)
(* a local Sqliter, whose constructor remembers the handle in Sqlyte::_db  *)
(* and opens a new one in its place, and whose destructor closes the one   *)
(* it remembered.  sqlite3_close refuses a handle that has a statement     *)
(* which was not finalized, and the destructor does not look.              *)
(*                                                                         *)
(* A method is the sequence of operations on handles that its body makes,  *)
(* and an iteration of the server's loop the sequence of its methods.  A   *)
(* handle is a number that the next open may give out again once it is     *)
(* closed, as both descriptors and addresses are.                          *)
(***************************************************************************)
EXTENDS Naturals, Sequences, FiniteSets

CONSTANT MaxHandles      \* the handles a process can have open

ASSUME SqliterAssumption == MaxHandles \in Nat \ {0}

VARIABLES
  db,        \* Sqlyte::_db, 0 for nullptr
  olds,      \* Sqliter::_db of the Sqliter objects alive, the innermost last
  open,      \* the handles that are open
  busy,      \* those with a statement that was not finalized
  leaked,    \* history: handles nobody holds and nobody closed
  todo,      \* the operations this iteration has still to make
  exited     \* exit(1) was called

sqliterVars == <<db, olds, open, busy, leaked, todo, exited>>

Handles == 1..MaxHandles
Ops == {"open", "reopen", "select", "exec", "commit", "close"}

-----------------------------------------------------------------------------
(* The methods.                                                            *)

Test == <<"open", "exec", "close">>

\* The constructor of Sqlyte, which calls _test() before it returns.
Construct == <<"open", "exec">> \o Test \o <<"close">>

Authorize == <<"open", "select", "close">>
GetPers == <<"open", "select", "close">>

\* remove_peer, update_peer, del_oldies; also deny, which finalizes its statement.
Simple == <<"open", "exec", "close">>

\* The INSERT succeeds, or it fails and both COMMITs run on the old handle.
StorePeers ==
  {<<"open", "reopen", "select", "exec", "close">>,
   <<"open", "reopen", "select", "exec", "commit", "exec", "commit", "close">>}

\* A capsule is authorised and then at most one method serves it.
Served == {<<>>, Authorize, Authorize \o Simple} \cup {Authorize \o s : s \in StorePeers}

Sweep == GetPers \o Simple

SqliterInit ==
  /\ db = 0 /\ olds = <<>> /\ open = {} /\ busy = {} /\ leaked = {}
  /\ todo = Construct /\ exited = FALSE

-----------------------------------------------------------------------------
(* The operations.                                                         *)

\* The next operation is op, and it is done.
Does(op) == ~exited /\ todo # <<>> /\ Head(todo) = op /\ todo' = Tail(todo)

\* sqlite3_open, with what a caller does when it fails.
Opened ==
  \/ /\ open # Handles
     /\ \E h \in Handles \ open : db' = h /\ open' = open \cup {h}
     /\ UNCHANGED exited
  \/ /\ open = Handles /\ exited' = TRUE
     /\ UNCHANGED <<db, open>>

\* Variant: the constructor opens first, and remembers the new handle.
OpenRemembersNew ==
  /\ Does("open")
  /\ Opened
  /\ olds' = Append(olds, db')
  /\ UNCHANGED <<busy, leaked>>

\* Sqliter(&_db, __LINE__)
Open ==
  /\ Does("open")
  /\ Opened
  /\ olds' = Append(olds, db)
  /\ UNCHANGED <<busy, leaked>>

\* The sqlite3_open in store_peer: the handle its Sqliter just opened is lost.
Reopen ==
  /\ Does("reopen")
  /\ Opened
  /\ leaked' = IF exited' THEN leaked ELSE leaked \cup {db}
  /\ UNCHANGED <<olds, busy>>

\* A SELECT that is reset and not finalized; when it was not prepared there is none.
Select(prepared) ==
  /\ Does("select")
  /\ busy' = IF prepared THEN busy \cup {db} ELSE busy
  /\ UNCHANGED <<db, olds, open, leaked, exited>>

\* sqlite3_exec on _db, or Sqliter::commit on the handle remembered.
Exec ==
  /\ Does("exec") \/ Does("commit")
  /\ UNCHANGED <<db, olds, open, busy, leaked, exited>>

\* Variant: the destructor closes the handle that is in use.
CloseCurrent ==
  /\ Does("close")
  /\ olds' = SubSeq(olds, 1, Len(olds) - 1)
  /\ IF db \in busy
     THEN leaked' = leaked \cup {db} /\ UNCHANGED open
     ELSE open' = open \ {db} /\ UNCHANGED leaked
  /\ UNCHANGED <<db, busy, exited>>

\* Variant: the destructor finalizes what is left first (sqlite3_close_v2).
CloseAll ==
  /\ Does("close")
  /\ olds' = SubSeq(olds, 1, Len(olds) - 1)
  /\ open' = open \ {olds[Len(olds)]} /\ busy' = busy \ {olds[Len(olds)]}
  /\ UNCHANGED <<db, leaked, exited>>

\* Variant: a handle is closed under its statement.
CloseBusy ==
  /\ Does("close")
  /\ olds' = SubSeq(olds, 1, Len(olds) - 1)
  /\ open' = open \ {olds[Len(olds)]}
  /\ UNCHANGED <<db, busy, leaked, exited>>

\* ~Sqliter
Close ==
  /\ Does("close")
  /\ olds' = SubSeq(olds, 1, Len(olds) - 1)
  /\ LET old == olds[Len(olds)]
     IN IF old \in busy
        THEN leaked' = leaked \cup {old} /\ UNCHANGED open
        ELSE open' = open \ {old} /\ UNCHANGED leaked
  /\ UNCHANGED <<db, busy, exited>>

\* An iteration of u_server::main begins.
Turn(methods) ==
  /\ ~exited /\ todo = <<>> /\ todo' = methods
  /\ UNCHANGED <<db, olds, open, busy, leaked, exited>>

SweepTurn == \E served \in Served : Turn(served \o Sweep)

Step == Open \/ Reopen \/ Select(TRUE) \/ Select(FALSE) \/ Exec \/ Close

SqliterNext ==
  \/ Step
  \/ SweepTurn
  \/ \E served \in Served : Turn(served)

SqliterSpec == SqliterInit /\ [][SqliterNext]_sqliterVars

\* The loop goes on, TTLIVE passes again and again, and a SELECT does not fail
\* every time.
SqliterFairSpec ==
  /\ SqliterSpec
  /\ WF_sqliterVars(Step) /\ SF_sqliterVars(SweepTurn) /\ SF_sqliterVars(Select(TRUE))

-----------------------------------------------------------------------------
(* Properties.                                                             *)

SqliterTypeOK ==
  /\ db \in Handles \cup {0} /\ olds \in Seq(Handles \cup {0})
  /\ open \subseteq Handles /\ busy \subseteq open /\ leaked \subseteq open
  /\ todo \in Seq(Ops) /\ exited \in BOOLEAN

Held == ({db} \cup {olds[i] : i \in 1..Len(olds)}) \ {0}

\* No handle is used or remembered after it was closed, though each method closes
\* the handle of the method before it, a nested one that of its caller, and COMMIT
\* runs on a remembered one.
HeldAreOpen ==
  /\ Held \subseteq open
  /\ ~exited /\ todo # <<>> /\ Head(todo) \in {"exec", "select", "reopen"} => db # 0
  /\ ~exited /\ todo # <<>> /\ Head(todo) = "commit" => olds[Len(olds)] # 0

\* Every handle is held by the server or is lost to it for good, never both; and
\* the server ends only when it has lost all but two.
HandlesAccounted ==
  /\ open = Held \cup leaked
  /\ Held \cap leaked = {}
  /\ exited => Cardinality(leaked) + 2 >= MaxHandles

\* get_pers leaves a statement behind at every sweep, so a server that runs loses
\* handles until an open fails and ends it.
RunsOut == <>exited
=============================================================================
