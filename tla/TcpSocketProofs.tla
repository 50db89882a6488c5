------------------------ MODULE TcpSocketProofs ------------------------
(***************************************************************************)
(* What holds of tcp_cli_sock for any objects and any descriptors.         *)
(***************************************************************************)
EXTENDS TcpSocket, WellFoundedInduction, TLAPS

-----------------------------------------------------------------------------
(* Descriptors.                                                            *)

\* The kernel gives out the lowest descriptor that is free, when one is.
LEMMA LowestIs ==
  ASSUME NEW S, S \subseteq Fds, S # {}
  PROVE  Lowest(S) \in S
<1> DEFINE R == OpToRel(<, Nat)
<1>1. S \subseteq Nat /\ IsWellFoundedOn(R, Nat) /\ \A x, y \in Nat : <<x, y>> \in R <=> x < y
  BY NatLessThanWellFounded, TcpSocketAssumption DEF TcpSocketAssumption, OpToRel
<1> HIDE DEF R
<1>2. PICK f \in S : \A g \in S : ~ (<<g, f>> \in R)
  BY <1>1, WFMin
<1>3. ASSUME NEW g \in S PROVE f <= g
  <2>1. f \in Nat /\ g \in Nat /\ ~ (g < f)
    BY <1>1, <1>2
  <2> QED BY <2>1
<1>4. \E x \in S : \A y \in S : x <= y
  BY <1>3
<1> QED BY <1>4 DEF Lowest

LEMMA ClosedIsNone == Closed \notin Fds
BY TcpSocketAssumption DEF TcpSocketAssumption, Closed

\* No two objects hold a descriptor, none holds one that was let go, and those that are
\* open are these and no others: DescriptorsOwned, of one descriptor at a time.
Owned ==
  ~copied =>
    /\ \A o, p \in Socks : IsOpen(o) /\ thesock[o] = thesock[p] => o = p
    /\ \A o \in Socks : thesock[o] \notin loose
    /\ \A f \in Fds : conn[f] # "free" <=> f \in loose \/ \E o \in Socks : thesock[o] = f

\* o holds fd now, and the others what they held.
LEMMA OwnedAfter ==
  ASSUME TcpSocketTypeOK, Owned, copied' = copied, NEW o \in Socks, NEW fd \in Fds \cup {Closed},
         thesock' = [thesock EXCEPT ![o] = fd], loose' \subseteq Fds, fd \notin loose',
         ~copied =>
           /\ \A p \in Socks \ {o} : thesock[p] \notin loose' /\ (fd # Closed => thesock[p] # fd)
           /\ \A f \in Fds :
                conn'[f] # "free" <=> f = fd \/ f \in loose' \/ \E p \in Socks \ {o} : thesock[p] = f
  PROVE  Owned'
<1> SUFFICES ASSUME ~copied PROVE Owned'
  BY DEF Owned
<1>1. thesock'[o] = fd /\ \A p \in Socks \ {o} : thesock'[p] = thesock[p]
  BY DEF TcpSocketTypeOK
<1>2. \A p, q \in Socks : thesock'[p] # Closed /\ thesock'[p] = thesock'[q] => p = q
  BY <1>1 DEF Owned, IsOpen
<1>3. \A p \in Socks : thesock'[p] \notin loose'
  BY <1>1
<1>4. \A f \in Fds : conn'[f] # "free" <=> f \in loose' \/ \E p \in Socks : thesock'[p] = f
  BY <1>1
<1> QED BY <1>2, <1>3, <1>4 DEF Owned, IsOpen

\* What is open, when o has closed what it held.
LEMMA OthersOpen ==
  ASSUME TcpSocketTypeOK, Owned, ~copied, NEW o \in Socks, NEW f \in Fds
  PROVE  Without(thesock[o])[f] # "free" <=>
           f \in loose \ {thesock[o]} \/ \E p \in Socks \ {o} : thesock[p] = f
BY ClosedIsNone DEF Owned, Without, IsOpen, TcpSocketTypeOK

LEMMA WithoutType ==
  ASSUME TcpSocketTypeOK, NEW fd
  PROVE  Without(fd) \in [Fds -> {"free", "new", "pending", "up", "refused"}]
BY DEF TcpSocketTypeOK, Without

\* o closes what it held, and holds nothing.
LEMMA OwnedClosed ==
  ASSUME TcpSocketTypeOK, Owned, copied' = copied, NEW o \in Socks,
         thesock' = [thesock EXCEPT ![o] = Closed], conn' = Without(thesock[o]),
         loose' = loose \ {thesock[o]}
  PROVE  Owned'
<1>1. loose' \subseteq Fds /\ Closed \notin loose'
  BY ClosedIsNone DEF TcpSocketTypeOK
<1>2. ~copied => /\ \A p \in Socks \ {o} : thesock[p] \notin loose'
                 /\ \A f \in Fds : conn'[f] # "free" <=>
                      f = Closed \/ f \in loose' \/ \E p \in Socks \ {o} : thesock[p] = f
  BY OthersOpen, ClosedIsNone DEF Owned
<1> QED BY <1>1, <1>2, OwnedAfter

\* o closes what it held, if anything, and holds one that was just opened.
LEMMA OwnedOpened ==
  ASSUME TcpSocketTypeOK, Owned, copied' = copied, NEW o \in Socks,
         NEW base, base = Without(thesock[o]), NEW fd \in Free(base), NEW answer, answer # "free",
         thesock' = [thesock EXCEPT ![o] = fd], conn' = [base EXCEPT ![fd] = answer],
         loose' = loose \ {thesock[o]}
  PROVE  Owned'
<1>1. fd \in Fds /\ base[fd] = "free" /\ base \in [Fds -> {"free", "new", "pending", "up", "refused"}]
  BY WithoutType DEF Free
<1>2. \A f \in Fds : conn'[f] = IF f = fd THEN answer ELSE base[f]
  BY <1>1
<1>3. loose' \subseteq Fds
  BY DEF TcpSocketTypeOK
<1>4. ASSUME ~copied
      PROVE  /\ fd \notin loose'
             /\ \A p \in Socks \ {o} : thesock[p] \notin loose' /\ thesock[p] # fd
             /\ \A f \in Fds : conn'[f] # "free" <=>
                  f = fd \/ f \in loose' \/ \E p \in Socks \ {o} : thesock[p] = f
  <2>1. \A f \in Fds : base[f] # "free" <=> f \in loose' \/ \E p \in Socks \ {o} : thesock[p] = f
    BY <1>4, OthersOpen
  <2>2. \A p \in Socks : thesock[p] \notin loose'
    BY <1>4 DEF Owned
  <2> QED BY <1>1, <1>2, <2>1, <2>2
<1>5. CASE copied
  BY <1>5 DEF Owned
<1> QED BY <1>1, <1>3, <1>4, <1>5, OwnedAfter

\* An object that holds nothing closes nothing.
LEMMA NothingClosed ==
  ASSUME TcpSocketTypeOK, NEW o \in Socks, ~IsOpen(o)
  PROVE  Without(thesock[o]) = conn /\ loose \ {thesock[o]} = loose
BY ClosedIsNone DEF TcpSocketTypeOK, IsOpen, Without

\* o holds fd, and what it held before is closed by nobody.
LEMMA OwnedTaken ==
  ASSUME TcpSocketTypeOK, Owned, copied' = copied, NEW o \in Socks, NEW fd, Takes(o, fd),
         \/ fd \in loose \cup {Closed} /\ conn' = conn
         \/ fd \in Free(conn) /\ conn' = [conn EXCEPT ![fd] = "up"]
  PROVE  Owned' /\ loose' \subseteq Fds /\ thesock' \in [Socks -> Fds \cup {Closed}]
<1>1. /\ thesock' = [thesock EXCEPT ![o] = fd] /\ loose' = (loose \cup {thesock[o]}) \ {fd, Closed}
      /\ fd \in Fds \cup {Closed}
  BY DEF Takes, TcpSocketTypeOK, Free
<1>2. loose' \subseteq Fds /\ thesock' \in [Socks -> Fds \cup {Closed}]
  BY <1>1 DEF TcpSocketTypeOK
<1>3. ASSUME ~copied
      PROVE  /\ \A p \in Socks \ {o} : thesock[p] \notin loose' /\ (fd # Closed => thesock[p] # fd)
             /\ \A f \in Fds : conn'[f] # "free" <=>
                  f = fd \/ f \in loose' \/ \E p \in Socks \ {o} : thesock[p] = f
  <2>1. /\ \A p, q \in Socks : thesock[p] # Closed /\ thesock[p] = thesock[q] => p = q
        /\ \A p \in Socks : thesock[p] \notin loose
        /\ \A f \in Fds : conn[f] # "free" <=> f \in loose \/ \E p \in Socks : thesock[p] = f
    BY <1>3 DEF Owned, IsOpen
  <2>2. \A f \in Fds : conn'[f] # "free" <=> conn[f] # "free" \/ f = fd
    BY <2>1, ClosedIsNone DEF TcpSocketTypeOK, Free
  <2>3. fd # Closed => \A p \in Socks \ {o} : thesock[p] # fd
    BY <2>1 DEF Free, TcpSocketTypeOK
  <2> QED BY <1>1, <2>1, <2>2, <2>3, ClosedIsNone
<1>4. Owned'
  BY <1>1, <1>2, <1>3, OwnedAfter
<1> QED BY <1>2, <1>4

-----------------------------------------------------------------------------
(* The calls.                                                              *)

\* A call that waits has returned nothing yet, and made an attempt on a descriptor that
\* nobody takes from it meanwhile.
Waiting ==
  progress # NoCall =>
    /\ ret = NoRet /\ progress.on \in Socks /\ IsOpen(progress.on)
    /\ conn[thesock[progress.on]] \in {"pending", "up", "refused"}

\* A result is that of a call of an object.
Returned == ret # NoRet => ret.on \in Socks

TcpInv == TcpSocketTypeOK /\ Owned /\ Waiting /\ Returned /\ ResultMeans

\* The state of the descriptor of o, as ResultMeans looks at it.
StateOf(o) == IF IsOpen(o) THEN conn[thesock[o]] ELSE "none"

LEMMA NothingReturned ==
  ASSUME ret' = NoRet
  PROVE  Returned' /\ ResultMeans'
BY DEF Returned, ResultMeans, NoRet

\* A call that does not wait is over, with a result or without.
LEMMA CallOver ==
  ASSUME progress' = NoCall
  PROVE  Waiting'
BY DEF Waiting

\* The calls that have no result: opening, closing and passing on.
LEMMA CallKeeps ==
  ASSUME TcpInv, NEW o \in Socks,
         \/ Close(o) \/ Renew(o) \/ Create(o) \/ Detach(o) \/ Accept(o) \/ SetConnected(o)
         \/ \E from \in Socks : Copy(o, from)
         \/ \E fd \in Fds : Attach(o, fd)
  PROVE  TcpInv'
<1>1. TcpSocketTypeOK /\ Owned /\ progress = NoCall /\ progress' = NoCall /\ ret' = NoRet
  BY DEF TcpInv, Close, Renew, Create, Detach, Accept, SetConnected, Copy, Attach, Ready
<1>2. Waiting' /\ Returned' /\ ResultMeans'
  BY <1>1, CallOver, NothingReturned
<1>3. connecting' \in [Socks -> {0, 1}] /\ copied' \in BOOLEAN
  BY <1>1 DEF TcpSocketTypeOK, Close, Renew, Create, Detach, Accept, SetConnected, Copy, Attach,
              Destroy, histVars
<1>4. progress' \in [on : Socks \cup {"none"}, by : {"none", "raw", "callback"}, err : {-1, 0}]
      /\ ret' \in [on : Socks \cup {"none"}, val : {"none", "sock", "zero", "minus"},
                   waited : BOOLEAN, quit : BOOLEAN, again : BOOLEAN]
  BY <1>1 DEF TcpSocketTypeOK, NoRet
<1> DEFINE Descriptors ==
      /\ thesock' \in [Socks -> Fds \cup {Closed}] /\ loose' \subseteq Fds /\ Owned'
      /\ conn' \in [Fds -> {"free", "new", "pending", "up", "refused"}]
<1>5. ASSUME Close(o) \/ Renew(o)
      PROVE  Descriptors
  <2>1. /\ thesock' = [thesock EXCEPT ![o] = Closed] /\ conn' = Without(thesock[o])
        /\ loose' = loose \ {thesock[o]} /\ copied' = copied
    BY <1>5 DEF Close, Renew, Destroy
  <2>2. Owned'
    BY <1>1, <2>1, OwnedClosed
  <2> QED BY <1>1, <2>1, <2>2, WithoutType DEF TcpSocketTypeOK
<1>6. ASSUME Create(o)
      PROVE  Descriptors
  <2>1. PICK fd \in Free(conn) : /\ thesock' = [thesock EXCEPT ![o] = fd]
                                 /\ conn' = [conn EXCEPT ![fd] = "new"]
    BY <1>6, LowestIs DEF Create, Free
  <2>2. ~IsOpen(o) /\ loose' = loose /\ copied' = copied
    BY <1>6 DEF Create, histVars
  <2>3. Owned'
    BY <1>1, <2>1, <2>2, NothingClosed, OwnedOpened
  <2> QED BY <1>1, <2>1, <2>2, <2>3 DEF TcpSocketTypeOK, Free
<1>7. ASSUME Detach(o) \/ (\E fd \in Fds : Attach(o, fd))
      PROVE  Descriptors
  <2>1. PICK fd \in loose \cup {Closed} : Takes(o, fd)
    BY <1>7 DEF Detach, Attach
  <2>2. conn' = conn /\ copied' = copied
    BY <1>7 DEF Detach, Attach
  <2> QED BY <1>1, <2>1, <2>2, OwnedTaken DEF TcpSocketTypeOK
<1>8. ASSUME Accept(o)
      PROVE  Descriptors
  <2>1. CASE Takes(o, Closed) /\ UNCHANGED conn
    BY <1>1, <1>8, <2>1, OwnedTaken DEF Accept, TcpSocketTypeOK
  <2>2. CASE /\ Free(conn) # {} /\ Takes(o, Lowest(Free(conn)))
             /\ conn' = [conn EXCEPT ![Lowest(Free(conn))] = "up"]
    <3>1. PICK fd \in Free(conn) : Takes(o, fd) /\ conn' = [conn EXCEPT ![fd] = "up"]
      BY <2>2, LowestIs DEF Free
    <3> QED BY <1>1, <1>8, <3>1, OwnedTaken DEF Accept, TcpSocketTypeOK
  <2> QED BY <1>8, <2>1, <2>2 DEF Accept
<1>9. ASSUME SetConnected(o)
      PROVE  Descriptors
  BY <1>1, <1>9 DEF SetConnected, histVars, TcpSocketTypeOK, Owned, IsOpen
<1>10. ASSUME NEW from \in Socks, Copy(o, from)
       PROVE  Descriptors
  <2>1. /\ thesock' = [thesock EXCEPT ![o] = thesock[from]] /\ conn' = conn
        /\ loose' = (loose \cup {thesock[o]}) \ {thesock[from], Closed}
        /\ copied' = (copied \/ IsOpen(from))
    BY <1>10 DEF Copy, Takes
  <2>2. CASE IsOpen(from)
    <3>1. /\ thesock' \in [Socks -> Fds \cup {Closed}] /\ loose' \subseteq Fds
          /\ conn' \in [Fds -> {"free", "new", "pending", "up", "refused"}]
      BY <1>1, <2>1 DEF TcpSocketTypeOK
    <3>2. copied'
      BY <2>1, <2>2, Zenon
    <3>3. Owned'
      BY <3>2, Zenon DEF Owned
    <3> QED BY <3>1, <3>3
  <2>3. CASE ~IsOpen(from)
    <3>1. thesock[from] = Closed /\ copied' = copied
      BY <1>1, <2>1, <2>3 DEF IsOpen, TcpSocketTypeOK
    <3>2. Takes(o, Closed)
      BY <1>10, <3>1 DEF Copy
    <3> QED BY <1>1, <2>1, <3>1, <3>2, OwnedTaken DEF TcpSocketTypeOK
  <2> QED BY <2>2, <2>3
<1>11. Descriptors
  BY <1>5, <1>6, <1>7, <1>8, <1>9, <1>10
<1> QED BY <1>2, <1>3, <1>4, <1>11 DEF TcpInv, TcpSocketTypeOK

RetType == [on : Socks \cup {"none"}, val : {"none", "sock", "zero", "minus"},
            waited : BOOLEAN, quit : BOOLEAN, again : BOOLEAN]

LEMMA ReturnsIs ==
  ASSUME NEW o \in Socks, NEW val \in {"sock", "zero", "minus"}, Returns(o, val)
  PROVE  /\ ret' = [on |-> o, val |-> val, waited |-> FALSE, quit |-> FALSE, again |-> FALSE]
         /\ ret' \in RetType /\ progress' = progress
BY DEF Returns, NoRet, RetType

LEMMA RefusesIs ==
  ASSUME NEW o \in Socks, Refuses(o)
  PROVE  /\ ret' = [on |-> o, val |-> "zero", waited |-> FALSE, quit |-> FALSE,
                    again |-> IsOpen(o) /\ conn[thesock[o]] \in {"pending", "up"}]
         /\ ret' \in RetType /\ progress' = progress
BY DEF Refuses, NoRet, RetType

LEMMA FlagType ==
  ASSUME TcpSocketTypeOK, NEW o \in Socks, NEW b \in {0, 1}, Flag(o, b)
  PROVE  connecting' \in [Socks -> {0, 1}] /\ connecting'[o] = b
BY DEF TcpSocketTypeOK, Flag

LEMMA TryKeeps ==
  ASSUME TcpInv, NEW o \in Socks, TryConnect(o) \/ ConnectUnresolved(o)
  PROVE  TcpInv'
<1>1. /\ TcpSocketTypeOK /\ Owned /\ progress = NoCall /\ UNCHANGED <<thesock, loose, copied>>
      /\ thesock[o] \in Fds \cup {Closed}
  BY DEF TcpInv, TryConnect, ConnectUnresolved, Ready, histVars, TcpSocketTypeOK
<1> DEFINE Good ==
      /\ conn' \in [Fds -> {"free", "new", "pending", "up", "refused"}]
      /\ \A f \in Fds : conn'[f] = "free" <=> conn[f] = "free"
      /\ connecting' \in [Socks -> {0, 1}] /\ ret' \in RetType /\ progress' = progress
      /\ Returned' /\ ResultMeans'
<1>2. ASSUME Refuses(o), conn' = conn, connecting' = connecting \/ Flag(o, 0)
      PROVE  Good
  <2>1. /\ ret' = [on |-> o, val |-> "zero", waited |-> FALSE, quit |-> FALSE,
                   again |-> IsOpen(o) /\ conn[thesock[o]] \in {"pending", "up"}]
        /\ ret' \in RetType /\ progress' = progress
    BY <1>2, RefusesIs
  <2>2. ResultMeans'
    <3> DEFINE again == IsOpen(o) /\ conn[thesock[o]] \in {"pending", "up"}
    <3>1. StateOf(o)' = StateOf(o) /\ again' = again
      BY <1>1, <1>2 DEF StateOf, IsOpen
    <3>2. ret'.on = o /\ ret'.val = "zero" /\ ret'.again = again
      BY <2>1
    <3> QED BY <3>1, <3>2 DEF ResultMeans, StateOf, IsOpen
  <2>3. connecting' \in [Socks -> {0, 1}]
    BY <1>1, <1>2, FlagType DEF TcpSocketTypeOK
  <2> QED BY <1>1, <1>2, <2>1, <2>2, <2>3 DEF TcpSocketTypeOK, Returned
<1>3. ASSUME NEW fd \in Fds, fd = thesock[o], conn[fd] \in {"new", "refused"},
             NEW answer \in Answers, conn' = [conn EXCEPT ![fd] = answer],
             \/ answer = "up" /\ Flag(o, 0) /\ Returns(o, "sock")
             \/ answer = "pending" /\ Flag(o, 1) /\ Returns(o, "minus")
             \/ answer = "refused" /\ Flag(o, 0) /\ Refuses(o)
      PROVE  Good
  <2>1. /\ conn' \in [Fds -> {"free", "new", "pending", "up", "refused"}]
        /\ \A f \in Fds : conn'[f] = "free" <=> conn[f] = "free"
    BY <1>1, <1>3 DEF TcpSocketTypeOK, Answers
  <2>2. StateOf(o)' = answer
    BY <1>1, <1>3, ClosedIsNone DEF StateOf, IsOpen, TcpSocketTypeOK
  <2>3. connecting' \in [Socks -> {0, 1}] /\ ret' \in RetType /\ progress' = progress
    BY <1>1, <1>3, FlagType, ReturnsIs, RefusesIs
  <2>4. ret'.on = o /\ \/ answer = "up" /\ ret'.val = "sock"
                       \/ answer = "pending" /\ ret'.val = "minus" /\ connecting'[o] = 1
                       \/ answer = "refused" /\ ret'.val = "zero"
    BY <1>1, <1>3, FlagType, ReturnsIs, RefusesIs
  <2>5. ResultMeans'
    BY <2>2, <2>4 DEF ResultMeans, StateOf, IsOpen
  <2> QED BY <2>1, <2>3, <2>4, <2>5 DEF Returned
<1>4. ASSUME IsOpen(o), conn[thesock[o]] = "up", Returns(o, "sock"), Flag(o, 0), conn' = conn
      PROVE  Good
  <2>1. StateOf(o)' = "up"
    BY <1>1, <1>4 DEF StateOf, IsOpen
  <2>2. ret'.on = o /\ ret'.val = "sock" /\ ret' \in RetType /\ progress' = progress
    BY <1>4, ReturnsIs
  <2>3. ResultMeans'
    BY <2>1, <2>2 DEF ResultMeans, StateOf, IsOpen
  <2> QED BY <1>1, <1>4, <2>2, <2>3, FlagType DEF TcpSocketTypeOK, Returned
<1>5. Good
  <2>1. CASE ConnectUnresolved(o)
    BY <1>2, <2>1 DEF ConnectUnresolved
  <2>2. CASE TryConnect(o)
    <3>1. PICK fd \in Fds : fd = thesock[o] /\ IsOpen(o)
      BY <1>1, <2>2 DEF TryConnect, IsOpen
    <3>2. \/ /\ conn[fd] \in {"new", "refused"}
             /\ \E answer \in Answers :
                  /\ conn' = [conn EXCEPT ![fd] = answer]
                  /\ \/ answer = "up" /\ Flag(o, 0) /\ Returns(o, "sock")
                     \/ answer = "pending" /\ Flag(o, 1) /\ Returns(o, "minus")
                     \/ answer = "refused" /\ Flag(o, 0) /\ Refuses(o)
          \/ Refuses(o) /\ conn' = conn /\ (connecting' = connecting \/ Flag(o, 0))
          \/ conn[fd] = "up" /\ Returns(o, "sock") /\ Flag(o, 0) /\ conn' = conn
      BY <2>2, <3>1 DEF TryConnect, Answers
    <3> QED BY <1>2, <1>3, <1>4, <3>1, <3>2
  <2> QED BY <2>1, <2>2
<1> HIDE DEF Good
<1>6. TcpSocketTypeOK'
  BY <1>1, <1>5 DEF TcpSocketTypeOK, RetType, Good
<1>7. Owned'
  BY <1>1, <1>5 DEF Owned, IsOpen, Good
<1> QED BY <1>1, <1>5, <1>6, <1>7, CallOver DEF TcpInv, Good

\* Whether a call may have opened fd with that answer, or opened none, and has closed
\* what the object held: raw_connect(), where that is nothing, and the others.
LEMMA ConnectKeeps ==
  ASSUME TcpInv, NEW o \in Socks, NEW early \in BOOLEAN, NEW poll \in BOOLEAN,
         Connect(o, early, poll) \/ RawConnect(o, poll)
  PROVE  TcpInv'
<1>1. /\ TcpSocketTypeOK /\ Owned /\ progress = NoCall /\ copied' = copied
      /\ thesock[o] \in Fds \cup {Closed}
  BY DEF TcpInv, Connect, RawConnect, Ready, histVars, TcpSocketTypeOK
<1>2. loose' = loose \ {thesock[o]}
  <2>1. CASE Connect(o, early, poll)
    BY <2>1 DEF Connect
  <2>2. CASE RawConnect(o, poll)
    BY <1>1, <2>2, NothingClosed DEF RawConnect, histVars
  <2> QED BY <2>1, <2>2
<1>3. PICK base : base = Without(thesock[o])
  OBVIOUS
<1>4. base \in [Fds -> {"free", "new", "pending", "up", "refused"}]
  BY <1>1, <1>3, WithoutType
<1>5. loose' \subseteq Fds
  BY <1>1, <1>2 DEF TcpSocketTypeOK

\* The attempt fails before there is a descriptor.
<1>6. ASSUME thesock' = [thesock EXCEPT ![o] = Closed], conn' = base, Returns(o, "zero"),
             connecting' = connecting \/ Flag(o, 0) \/ Flag(o, 1)
      PROVE  TcpInv'
  <2>1. /\ ret'.on = o /\ ret'.val = "zero" /\ ret' \in RetType /\ progress' = progress
        /\ connecting' \in [Socks -> {0, 1}]
    BY <1>1, <1>6, ReturnsIs, FlagType DEF TcpSocketTypeOK
  <2>2. Owned'
    BY <1>1, <1>2, <1>3, <1>6, OwnedClosed
  <2>3. TcpSocketTypeOK'
    BY <1>1, <1>4, <1>5, <1>6, <2>1 DEF TcpSocketTypeOK, RetType
  <2>4. ~IsOpen(o)'
    BY <1>1, <1>6 DEF TcpSocketTypeOK, IsOpen
  <2>5. ResultMeans'
    BY <2>1, <2>4 DEF ResultMeans
  <2> QED BY <1>1, <2>1, <2>2, <2>3, <2>5, CallOver DEF TcpInv, Returned

\* It is made.
<1>7. ASSUME NEW fd \in Free(base), thesock' = [thesock EXCEPT ![o] = fd],
             NEW answer \in Answers, conn' = [base EXCEPT ![fd] = answer],
             \/ answer = "up" /\ Flag(o, 0) /\ Returns(o, "sock")
             \/ answer = "refused" /\ Flag(o, 0) /\ Returns(o, "zero")
             \/ answer = "pending" /\ Flag(o, 1) /\ Returns(o, "minus")
             \/ answer = "pending" /\ Flag(o, 0) /\ Waits(o, "raw")
             \/ answer = "pending" /\ Flag(o, 1) /\ Waits(o, "callback")
      PROVE  TcpInv'
  <2>1. fd \in Fds /\ fd # Closed /\ answer # "free"
    BY ClosedIsNone DEF Free, Answers
  <2>2. Owned'
    BY <1>1, <1>2, <1>3, <1>7, <2>1, OwnedOpened
  <2>3. /\ conn' \in [Fds -> {"free", "new", "pending", "up", "refused"}] /\ conn'[fd] = answer
        /\ thesock' \in [Socks -> Fds \cup {Closed}] /\ thesock'[o] = fd
    BY <1>1, <1>4, <1>7, <2>1 DEF TcpSocketTypeOK, Answers
  <2>4. connecting' \in [Socks -> {0, 1}]
    BY <1>1, <1>7, FlagType
  <2>5. StateOf(o)' = answer /\ IsOpen(o)'
    BY <2>1, <2>3 DEF StateOf, IsOpen
  <2>6. CASE \/ answer = "up" /\ Flag(o, 0) /\ Returns(o, "sock")
             \/ answer = "refused" /\ Flag(o, 0) /\ Returns(o, "zero")
             \/ answer = "pending" /\ Flag(o, 1) /\ Returns(o, "minus")
    <3>1. /\ ret'.on = o /\ ret' \in RetType /\ progress' = progress
          /\ \/ answer = "up" /\ ret'.val = "sock"
             \/ answer = "refused" /\ ret'.val = "zero"
             \/ answer = "pending" /\ ret'.val = "minus" /\ connecting'[o] = 1
      BY <1>1, <2>6, ReturnsIs, FlagType
    <3>2. ResultMeans'
      BY <2>5, <3>1 DEF ResultMeans, StateOf, IsOpen
    <3>3. TcpSocketTypeOK'
      BY <1>1, <1>5, <2>3, <2>4, <3>1 DEF TcpSocketTypeOK, RetType
    <3> QED BY <1>1, <2>2, <3>1, <3>2, <3>3, CallOver DEF TcpInv, Returned
  <2>7. CASE \/ answer = "pending" /\ Flag(o, 0) /\ Waits(o, "raw")
             \/ answer = "pending" /\ Flag(o, 1) /\ Waits(o, "callback")
    <3>1. PICK by \in {"raw", "callback"} : progress' = [on |-> o, by |-> by, err |-> -1]
      BY <2>7 DEF Waits
    <3>2. ret' = NoRet /\ answer = "pending"
      BY <2>7 DEF Waits
    <3>3. TcpSocketTypeOK'
      BY <1>1, <1>5, <2>3, <2>4, <3>1, <3>2 DEF TcpSocketTypeOK, NoRet
    <3>4. Waiting'
      BY <2>3, <2>5, <3>1, <3>2 DEF Waiting, IsOpen
    <3> QED BY <2>2, <3>2, <3>3, <3>4, NothingReturned DEF TcpInv
  <2> QED BY <1>7, <2>6, <2>7
<1>8. CASE Connect(o, early, poll)
  <2> DEFINE fd == Lowest(Free(base))
  <2>1. \/ /\ thesock' = [thesock EXCEPT ![o] = Closed] /\ conn' = base /\ Returns(o, "zero")
           /\ connecting' = connecting \/ Flag(o, 0) \/ Flag(o, 1)
        \/ /\ Free(base) # {} /\ thesock' = [thesock EXCEPT ![o] = fd]
           /\ \/ conn' = [base EXCEPT ![fd] = "up"] /\ Flag(o, 0) /\ Returns(o, "sock")
              \/ /\ conn' = [base EXCEPT ![fd] = "pending"] /\ Flag(o, 1)
                 /\ Returns(o, "minus") \/ Waits(o, "callback")
    BY <1>3, <1>8 DEF Connect
  <2>2. Free(base) # {} => fd \in Free(base)
    BY LowestIs DEF Free
  <2> HIDE DEF fd
  <2> QED BY <1>6, <1>7, <2>1, <2>2 DEF Answers
<1>9. CASE RawConnect(o, poll)
  <2>1. ~IsOpen(o) /\ base = conn
    BY <1>1, <1>3, <1>9, NothingClosed DEF RawConnect
  <2>2. thesock = [thesock EXCEPT ![o] = Closed]
    BY <1>1, <2>1 DEF IsOpen, TcpSocketTypeOK
  <2> DEFINE fd == Lowest(Free(base))
  <2>3. \/ /\ thesock' = thesock /\ conn' = base /\ Returns(o, "zero") /\ Flag(o, 0)
        \/ /\ Free(base) # {} /\ thesock' = [thesock EXCEPT ![o] = fd]
           /\ \/ conn' = [base EXCEPT ![fd] = "up"] /\ Flag(o, 0) /\ Returns(o, "sock")
              \/ conn' = [base EXCEPT ![fd] = "refused"] /\ Flag(o, 0) /\ Returns(o, "zero")
              \/ conn' = [base EXCEPT ![fd] = "pending"] /\ Flag(o, 1) /\ Returns(o, "minus")
              \/ conn' = [base EXCEPT ![fd] = "pending"] /\ Flag(o, 0) /\ Waits(o, "raw")
    BY <1>9, <2>1 DEF RawConnect
  <2>4. Free(base) # {} => fd \in Free(base)
    BY LowestIs DEF Free
  <2> HIDE DEF fd
  <2> QED BY <1>6, <1>7, <2>2, <2>3, <2>4 DEF Answers
<1> QED BY <1>8, <1>9

\* The turns of the select() loop of a call that waits.
LEMMA TurnsKeep ==
  ASSUME TcpInv, NEW o \in Socks, Turn(o)
  PROVE  TcpInv'
<1>1. TcpSocketTypeOK /\ Owned /\ Waiting /\ progress.on = o /\ progress # NoCall
  <2>1. progress.on = o
    BY DEF Turn, Writable, SelectAgain, RawGivesUp, CallbackStops
  <2>2. NoCall.on = "none" /\ o # "none"
    BY TcpSocketAssumption DEF NoCall, TcpSocketAssumption
  <2> QED BY <2>1, <2>2 DEF TcpInv
<1>2. ret = NoRet /\ IsOpen(o) /\ StateOf(o) \in {"pending", "up", "refused"}
  BY <1>1 DEF Waiting, StateOf
<1>3. CASE SelectAgain(o)
  <2>1. PICK e \in {-1, 0} : progress' = [progress EXCEPT !.err = e]
    BY <1>3 DEF SelectAgain
  <2>2. UNCHANGED <<thesock, connecting, conn, ret, loose, copied>>
    BY <1>3 DEF SelectAgain, objVars, histVars
  <2>3. progress'.on = o
    BY <1>1, <2>1 DEF TcpSocketTypeOK
  <2>4. TcpSocketTypeOK'
    BY <1>1, <2>1, <2>2 DEF TcpSocketTypeOK
  <2>5. Waiting'
    BY <1>1, <2>2, <2>3 DEF Waiting, IsOpen
  <2>6. Owned'
    BY <1>1, <2>2 DEF Owned, IsOpen
  <2> QED BY <1>2, <2>2, <2>4, <2>5, <2>6, NothingReturned DEF TcpInv

\* The call returns, and the object keeps its descriptor.
<1>4. ASSUME UNCHANGED <<thesock, conn, loose, copied>>, NEW b \in {0, 1}, Flag(o, b),
             NEW val \in {"sock", "minus"}, NEW quit \in BOOLEAN, Ends(o, val, TRUE, quit),
             val = "sock" => quit \/ StateOf(o) # "pending",
             val = "minus" => b = 1
      PROVE  TcpInv'
  <2>1. /\ progress' = NoCall
        /\ ret' = [on |-> o, val |-> val, waited |-> TRUE, quit |-> quit, again |-> FALSE]
    BY <1>4 DEF Ends
  <2>2. connecting' \in [Socks -> {0, 1}] /\ connecting'[o] = b
    BY <1>1, <1>4, FlagType
  <2>3. TcpSocketTypeOK'
    BY <1>1, <1>4, <2>1, <2>2 DEF TcpSocketTypeOK, NoCall
  <2>4. Owned'
    BY <1>1, <1>4 DEF Owned, IsOpen
  <2>5. ret'.on = o /\ ret'.val = val /\ ret'.waited /\ ret'.quit = quit
    BY <2>1
  <2>6. StateOf(o)' = StateOf(o)
    BY <1>4 DEF StateOf, IsOpen
  <2>7. ResultMeans'
    BY <1>2, <1>4, <2>2, <2>5, <2>6 DEF ResultMeans, StateOf, IsOpen
  <2> QED BY <2>1, <2>3, <2>4, <2>5, <2>7, CallOver DEF TcpInv, Returned
<1>5. CASE Writable(o)
  <2>1. StateOf(o) # "pending"
    BY <1>1, <1>2, <1>5 DEF Writable, StateOf
  <2> QED BY <1>4, <1>5, <2>1 DEF Writable, histVars
<1>6. CASE RawGivesUp(o)
  BY <1>4, <1>6 DEF RawGivesUp, histVars
<1>7. CASE CallbackStops(o)
  <2>1. CASE Flag(o, 0) /\ Ends(o, "sock", TRUE, TRUE) /\ UNCHANGED <<thesock, conn, loose>>
    BY <1>4, <1>7, <2>1 DEF CallbackStops
  <2>2. CASE Destroy(o) /\ Ends(o, "zero", TRUE, TRUE)
    <3>1. /\ progress' = NoCall /\ copied' = copied
          /\ ret' = [on |-> o, val |-> "zero", waited |-> TRUE, quit |-> TRUE, again |-> FALSE]
          /\ thesock' = [thesock EXCEPT ![o] = Closed] /\ conn' = Without(thesock[o])
          /\ loose' = loose \ {thesock[o]} /\ connecting' = [connecting EXCEPT ![o] = 0]
      BY <1>2, <1>7, <2>2 DEF CallbackStops, Ends, Destroy
    <3>2. TcpSocketTypeOK'
      BY <1>1, <3>1, WithoutType DEF TcpSocketTypeOK, NoCall
    <3>3. Owned'
      BY <1>1, <3>1, OwnedClosed
    <3>4. ret'.on = o /\ ret'.val = "zero" /\ ~IsOpen(o)'
      BY <1>1, <3>1 DEF TcpSocketTypeOK, IsOpen
    <3>5. ResultMeans'
      BY <3>4 DEF ResultMeans
    <3> QED BY <3>1, <3>2, <3>3, <3>4, <3>5, CallOver DEF TcpInv, Returned
  <2> QED BY <1>7, <2>1, <2>2 DEF CallbackStops
<1> QED BY <1>3, <1>5, <1>6, <1>7 DEF Turn

\* The network's answer comes while the call waits, or long after it returned.
LEMMA AnswerKeeps ==
  ASSUME TcpInv, NEW fd \in Fds, Answer(fd)
  PROVE  TcpInv'
<1>1. PICK answer \in {"up", "refused"} : conn' = [conn EXCEPT ![fd] = answer]
  BY DEF Answer
<1>2. /\ conn[fd] = "pending" /\ UNCHANGED <<thesock, connecting, progress, ret, loose, copied>>
      /\ TcpSocketTypeOK /\ Owned /\ Waiting /\ Returned /\ ResultMeans
  BY DEF Answer, TcpInv, objVars, histVars
<1>3. \A f \in Fds : conn'[f] = IF f = fd THEN answer ELSE conn[f]
  BY <1>1, <1>2 DEF TcpSocketTypeOK
<1>4. TcpSocketTypeOK'
  BY <1>1, <1>2 DEF TcpSocketTypeOK
<1>5. Owned'
  BY <1>2, <1>3 DEF Owned, IsOpen
<1>6. Waiting'
  BY <1>2, <1>3 DEF Waiting, IsOpen, TcpSocketTypeOK
<1>7. ResultMeans'
  <2>1. CASE ret = NoRet
    BY <1>2, <2>1, NothingReturned
  <2>2. CASE ret.on \in Socks
    <3>1. PICK o \in Socks : o = ret.on
      BY <2>2
    <3>2. thesock[o] \in Fds \cup {Closed}
      BY <1>2 DEF TcpSocketTypeOK
    <3>3. StateOf(o)' = StateOf(o) \/ (StateOf(o) = "pending" /\ StateOf(o)' = answer)
      BY <1>2, <1>3, <3>2 DEF StateOf, IsOpen
    <3> QED BY <1>2, <3>1, <3>3 DEF ResultMeans, StateOf, IsOpen
  <2> QED BY <1>2, <2>1, <2>2 DEF Returned
<1> QED BY <1>2, <1>4, <1>5, <1>6, <1>7 DEF TcpInv, Returned

LEMMA TcpInvHolds == TcpSpec => []TcpInv
<1>1. TcpInit => TcpInv
  <2> SUFFICES ASSUME TcpInit PROVE TcpInv
    OBVIOUS
  <2>1. TcpSocketTypeOK
    BY DEF TcpInit, TcpSocketTypeOK, NoCall, NoRet
  <2>2. Owned
    BY ClosedIsNone DEF TcpInit, Owned, IsOpen
  <2>3. Waiting /\ Returned /\ ResultMeans
    BY DEF TcpInit, Waiting, Returned, ResultMeans, NoRet
  <2> QED BY <2>1, <2>2, <2>3 DEF TcpInv
<1>2. TcpInv /\ [TcpNext]_tcpVars => TcpInv'
  <2> SUFFICES ASSUME TcpInv, [TcpNext]_tcpVars PROVE TcpInv'
    OBVIOUS
  <2>1. ASSUME NEW o \in Socks, NEW b \in BOOLEAN, RawConnect(o, b)
        PROVE  TcpInv'
    BY <2>1, ConnectKeeps
  <2>2. ASSUME NEW o \in Socks, NEW early \in BOOLEAN, NEW poll \in BOOLEAN, Connect(o, early, poll)
        PROVE  TcpInv'
    BY <2>2, ConnectKeeps
  <2>3. CASE UNCHANGED tcpVars
    BY <2>3 DEF tcpVars, objVars, histVars, TcpInv, TcpSocketTypeOK, Owned, Waiting, Returned,
                ResultMeans, IsOpen
  <2> QED BY <2>1, <2>2, <2>3, CallKeeps, TryKeeps, TurnsKeep, AnswerKeeps DEF TcpNext
<1> QED BY <1>1, <1>2, PTL DEF TcpSpec

\* Objects, descriptors, the call that waits and the last result.
THEOREM TcpSocketTypes == TcpSpec => []TcpSocketTypeOK
<1>1. TcpInv => TcpSocketTypeOK
  BY DEF TcpInv
<1> QED BY <1>1, TcpInvHolds, PTL

\* Whatever sequence of calls is made and whenever the network answers, a result of
\* the connecting calls means what ResultMeans says, and keeps meaning it until the
\* next call.
THEOREM ResultsMean == TcpSpec => []ResultMeans
<1>1. TcpInv => ResultMeans
  BY DEF TcpInv
<1> QED BY <1>1, TcpInvHolds, PTL

\* Until an object is copied no descriptor is lost, held twice, or held after it was
\* closed.
THEOREM NoDescriptorLost == TcpSpec => []DescriptorsOwned
<1>1. TcpInv => DescriptorsOwned
  <2> SUFFICES ASSUME TcpInv, ~copied PROVE DescriptorsOwned
    BY DEF DescriptorsOwned
  <2> DEFINE held == {thesock[o] : o \in {p \in Socks : IsOpen(p)}}
  <2>1. /\ \A o, p \in Socks : IsOpen(o) /\ thesock[o] = thesock[p] => o = p
        /\ \A o \in Socks : thesock[o] \notin loose
        /\ \A f \in Fds : conn[f] # "free" <=> f \in loose \/ \E o \in Socks : thesock[o] = f
    BY DEF TcpInv, Owned
  <2>2. held \cap loose = {} /\ held \subseteq Fds /\ loose \subseteq Fds
    BY <2>1 DEF TcpInv, TcpSocketTypeOK, IsOpen
  <2>3. \A f \in Fds : f \in held <=> \E o \in Socks : thesock[o] = f
    BY ClosedIsNone DEF IsOpen
  <2>4. {f \in Fds : conn[f] # "free"} = held \cup loose
    BY <2>1, <2>2, <2>3
  <2> QED BY <2>1, <2>2, <2>4 DEF DescriptorsOwned
<1> QED BY <1>1, TcpInvHolds, PTL
=============================================================================
