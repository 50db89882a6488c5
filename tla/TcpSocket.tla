---------------------------- MODULE TcpSocket ----------------------------
(***************************************************************************)
(* tcp_cli_sock of sock.cpp: objects of one thread that hold descriptors   *)
(* of the kernel, the calls that open, connect, pass on and close them,    *)
(* and a network that answers an attempt to connect when it likes.         *)
(*                                                                         *)
(* A call is one step, except for those that wait for the network: a turn  *)
(* of their select() loop is a step.                                       *)
(*                                                                         *)
(* _connected is left out, since no call reads it, and so is _blocking:    *)
(* connecting calls that wait do not block and restore it, the others may  *)
(* find the answer there or not.                                           *)
(***************************************************************************)
EXTENDS Integers

CONSTANTS
  Socks,       \* the objects
  Fds          \* the descriptors a process may have, all above 0

ASSUME TcpSocketAssumption == Fds \subseteq Nat \ {0} /\ "none" \notin Socks

Closed == -1

VARIABLES
  thesock,     \* _thesock
  connecting,  \* _connecting
  conn,        \* external: what the kernel knows of a descriptor
  progress,    \* the call that waits, if one does
  ret,         \* what the last call returned, if it was one that connects
  loose,       \* history: open descriptors that were let go, not closed
  copied       \* history: did two objects ever share a descriptor?

objVars == <<thesock, connecting>>
histVars == <<loose, copied>>
tcpVars == <<objVars, conn, progress, ret, histVars>>

\* err is the variable of i4connect and s4connect that remembers the last system call.
NoCall == [on |-> "none", by |-> "none", err |-> 0]

\* "sock" is a positive result, "zero" is 0 and "minus" -1.  The rest is history: did the
\* call wait, did its callback make it stop, was there an attempt already?
NoRet == [on |-> "none", val |-> "none", waited |-> FALSE, quit |-> FALSE, again |-> FALSE]

TcpSocketTypeOK ==
  /\ thesock \in [Socks -> Fds \cup {Closed}]
  /\ connecting \in [Socks -> {0, 1}]
  /\ conn \in [Fds -> {"free", "new", "pending", "up", "refused"}]
  /\ progress \in [on : Socks \cup {"none"}, by : {"none", "raw", "callback"}, err : {-1, 0}]
  /\ ret \in [on : Socks \cup {"none"}, val : {"none", "sock", "zero", "minus"},
              waited : BOOLEAN, quit : BOOLEAN, again : BOOLEAN]
  /\ loose \subseteq Fds /\ copied \in BOOLEAN

TcpInit ==
  /\ thesock = [o \in Socks |-> Closed]
  /\ connecting = [o \in Socks |-> 0]
  /\ conn = [f \in Fds |-> "free"]
  /\ progress = NoCall /\ ret = NoRet
  /\ loose = {} /\ copied = FALSE

IsOpen(o) == thesock[o] # Closed
Free(c) == {f \in Fds : c[f] = "free"}
Lowest(S) == CHOOSE f \in S : \A g \in S : f <= g

\* What the kernel knows after close(fd).
Without(fd) == [f \in Fds |-> IF f = fd THEN "free" ELSE conn[f]]

\* No call is waiting: the thread can make one.
Ready == progress = NoCall

-----------------------------------------------------------------------------
(* Opening, closing, passing on.                                           *)

\* Variant: the descriptor is closed and stays in the object.
DestroyKeeps(o) ==
  /\ conn' = Without(thesock[o]) /\ loose' = loose \ {thesock[o]}
  /\ connecting' = IF IsOpen(o) THEN [connecting EXCEPT ![o] = 0] ELSE connecting
  /\ UNCHANGED thesock

\* destroy(): shut down, drained without blocking, closed.  Nothing happens, to the
\* flags either, when the object holds no descriptor.
Destroy(o) ==
  /\ conn' = Without(thesock[o]) /\ loose' = loose \ {thesock[o]}
  /\ connecting' = IF IsOpen(o) THEN [connecting EXCEPT ![o] = 0] ELSE connecting
  /\ thesock' = [thesock EXCEPT ![o] = Closed]

\* destroy() by the caller, or by sendall() after an error of send().
Close(o) ==
  /\ Ready /\ Destroy(o) /\ ret' = NoRet
  /\ UNCHANGED <<progress, copied>>

\* The destructor, and a constructor in its place.
Renew(o) ==
  /\ Ready
  /\ conn' = Without(thesock[o]) /\ loose' = loose \ {thesock[o]}
  /\ thesock' = [thesock EXCEPT ![o] = Closed]
  /\ connecting' = [connecting EXCEPT ![o] = 0]
  /\ ret' = NoRet
  /\ UNCHANGED <<progress, copied>>

\* create(), whose assertion asks that the object hold no descriptor.
Create(o) ==
  /\ Ready /\ ~IsOpen(o) /\ Free(conn) # {}
  /\ thesock' = [thesock EXCEPT ![o] = Lowest(Free(conn))]
  /\ conn' = [conn EXCEPT ![Lowest(Free(conn))] = "new"]
  /\ ret' = NoRet
  /\ UNCHANGED <<connecting, progress, histVars>>

\* The object holds fd from now on, and nobody closes what it held before.
Takes(o, fd) ==
  /\ thesock' = [thesock EXCEPT ![o] = fd]
  /\ loose' = (loose \cup {thesock[o]}) \ {fd, Closed}

\* operator= and the copy constructor: both objects hold the descriptor, and both
\* will close it, or neither holds one.
Copy(o, from) ==
  /\ Ready /\ o # from
  /\ Takes(o, thesock[from]) /\ copied' = (copied \/ IsOpen(from))
  /\ connecting' = [connecting EXCEPT ![o] = connecting[from]]
  /\ ret' = NoRet
  /\ UNCHANGED <<conn, progress>>

\* detach(): the caller has the descriptor.  attach(): the object takes one that
\* somebody let go.  The flags stay as they are.
Detach(o) ==
  /\ Ready /\ IsOpen(o) /\ Takes(o, Closed) /\ ret' = NoRet
  /\ UNCHANGED <<connecting, conn, progress, copied>>

Attach(o, fd) ==
  /\ Ready /\ fd \in loose /\ Takes(o, fd) /\ ret' = NoRet
  /\ UNCHANGED <<connecting, conn, progress, copied>>

\* tcp_srv_sock::accept() into this object: a descriptor, or -1, in place of what
\* was there.
Accept(o) ==
  /\ Ready
  /\ \/ /\ Free(conn) # {}
        /\ Takes(o, Lowest(Free(conn)))
        /\ conn' = [conn EXCEPT ![Lowest(Free(conn))] = "up"]
     \/ Takes(o, Closed) /\ UNCHANGED conn
  /\ ret' = NoRet
  /\ UNCHANGED <<connecting, progress, copied>>

SetConnected(o) ==
  /\ Ready
  /\ connecting' = [connecting EXCEPT ![o] = 0]
  /\ ret' = NoRet
  /\ UNCHANGED <<thesock, conn, progress, histVars>>

-----------------------------------------------------------------------------
(* Connecting.                                                             *)

Flag(o, b) == connecting' = [connecting EXCEPT ![o] = b]
Returns(o, val) == ret' = [NoRet EXCEPT !.on = o, !.val = val] /\ UNCHANGED progress
Waits(o, by) == progress' = [on |-> o, by |-> by, err |-> -1] /\ ret' = NoRet

\* The answers connect() can give; a descriptor that blocks is never pending.
Answers == {"up", "refused", "pending"}

\* 0 from a call that leaves what the object held before alone.
Refuses(o) ==
  /\ ret' = [NoRet EXCEPT !.on = o, !.val = "zero",
                          !.again = IsOpen(o) /\ conn[thesock[o]] \in {"pending", "up"}]
  /\ UNCHANGED progress

\* try_connect(), on a descriptor made before.
TryConnect(o) ==
  LET fd == thesock[o]  before == conn[fd]
  IN  /\ Ready /\ IsOpen(o)
      /\ \/ \* a first attempt, or one after a refusal
            /\ before \in {"new", "refused"}
            /\ \E answer \in Answers :
                 /\ conn' = [conn EXCEPT ![fd] = answer]
                 /\ CASE answer = "up" -> Flag(o, 0) /\ Returns(o, "sock")
                      [] answer = "pending" -> Flag(o, 1) /\ Returns(o, "minus")
                      [] answer = "refused" -> Flag(o, 0) /\ Refuses(o)
         \/ before = "free" /\ Flag(o, 0) /\ Refuses(o) /\ UNCHANGED conn
         \/ \* EALREADY, or EISCONN, which the first call after the success does not give
            /\ before \in {"pending", "up"}
            /\ Flag(o, 0) /\ UNCHANGED conn
            /\ Refuses(o) \/ (before = "up" /\ Returns(o, "sock"))
         \/ \* the name is not resolved
            Refuses(o) /\ UNCHANGED <<connecting, conn>>
      /\ UNCHANGED <<thesock, histVars>>

\* raw_connect() and raw_connect_sin(), which has no time-out.  A connection refused
\* at once leaves its descriptor in the object.
RawConnect(o, timeout) ==
  LET fd == Lowest(Free(conn))
      Opened(answer) ==
        /\ thesock' = [thesock EXCEPT ![o] = fd]
        /\ conn' = [conn EXCEPT ![fd] = answer]
  IN  /\ Ready /\ ~IsOpen(o)
      /\ \/ Flag(o, 0) /\ Returns(o, "zero") /\ UNCHANGED <<thesock, conn>>
         \/ /\ Free(conn) # {}
            /\ \/ Opened("up") /\ Flag(o, 0) /\ Returns(o, "sock")
               \/ Opened("refused") /\ Flag(o, 0) /\ Returns(o, "zero")
               \/ Opened("pending") /\ ~timeout /\ Flag(o, 1) /\ Returns(o, "minus")
               \/ Opened("pending") /\ timeout /\ Flag(o, 0) /\ Waits(o, "raw")
      /\ UNCHANGED histVars

\* i4connect(), s4connect() and connect(): what the object held is destroyed first.
\* early: what connect() sets _connecting to.  poll: the caller of s4connect() does
\* not want to wait.
Connect(o, early, poll) ==
  LET base == Without(thesock[o])
      fd == Lowest(Free(base))
      Opened(answer) ==
        /\ thesock' = [thesock EXCEPT ![o] = fd]
        /\ conn' = [base EXCEPT ![fd] = answer]
      NotOpened == thesock' = [thesock EXCEPT ![o] = Closed] /\ conn' = base
  IN  /\ Ready
      /\ loose' = loose \ {thesock[o]}
      /\ \/ \* socket() fails
            /\ NotOpened /\ Returns(o, "zero")
            /\ IF IsOpen(o) THEN Flag(o, 0)
               ELSE IF early THEN Flag(o, 1) ELSE UNCHANGED connecting
         \/ NotOpened /\ Flag(o, 0) /\ Returns(o, "zero")
         \/ /\ Free(base) # {}
            /\ \/ Opened("up") /\ Flag(o, 0) /\ Returns(o, "sock")
               \/ Opened("pending") /\ Flag(o, 1)
                  /\ IF poll THEN Returns(o, "minus") ELSE Waits(o, "callback")
      /\ UNCHANGED copied

\* connect(), when the name is not resolved: what the object holds stays.
ConnectUnresolved(o) ==
  /\ Ready /\ Flag(o, 0) /\ Refuses(o)
  /\ UNCHANGED <<thesock, conn, histVars>>

\* The call that waits returns.
Ends(o, val, waited, quit) ==
  /\ progress' = NoCall
  /\ ret' = [on |-> o, val |-> val, waited |-> waited, quit |-> quit, again |-> FALSE]

\* select() finds the descriptor writable, which it is whatever the answer was.
Writable(o) ==
  /\ progress.on = o /\ conn[thesock[o]] # "pending"
  /\ Ends(o, "sock", TRUE, FALSE)
  /\ Flag(o, 0)
  /\ UNCHANGED <<thesock, conn, histVars>>

\* select() times out, or fails: the loop goes on, and i4connect and s4connect
\* remember which.
SelectAgain(o) ==
  /\ progress.on = o /\ progress.by = "callback"
  /\ \E e \in {-1, 0} : progress' = [progress EXCEPT !.err = e]
  /\ UNCHANGED <<objVars, conn, ret, histVars>>

\* raw_connect() after its time-out.
RawGivesUp(o) ==
  /\ progress.on = o /\ progress.by = "raw"
  /\ Flag(o, 1) /\ Ends(o, "minus", TRUE, TRUE)
  /\ UNCHANGED <<thesock, conn, histVars>>

\* Variant: a call that fails leaves its attempt to itself.
CallbackStopsUndestroyed(o) ==
  /\ progress.on = o /\ progress.by = "callback"
  /\ Flag(o, 0)
  /\ Ends(o, IF progress.err = -1 THEN "zero" ELSE "sock", TRUE, TRUE)
  /\ UNCHANGED <<thesock, conn, histVars>>

\* The callback stops the wait.  After a time-out of select() err is 0, and the call
\* returns the descriptor as it does when it is connected.
CallbackStops(o) ==
  /\ progress.on = o /\ progress.by = "callback"
  /\ \/ /\ progress.err = -1
        /\ Destroy(o) /\ Ends(o, "zero", TRUE, TRUE)
     \/ /\ progress.err = 0
        /\ Flag(o, 0) /\ Ends(o, "sock", TRUE, TRUE)
        /\ UNCHANGED <<thesock, conn, loose>>
  /\ UNCHANGED copied

\* The network answers.
Answer(fd) ==
  /\ conn[fd] = "pending"
  /\ \E answer \in {"up", "refused"} : conn' = [conn EXCEPT ![fd] = answer]
  /\ UNCHANGED <<objVars, progress, ret, histVars>>

Turn(o) == Writable(o) \/ SelectAgain(o) \/ RawGivesUp(o) \/ CallbackStops(o)

TcpNext ==
  \/ \E o \in Socks :
       \/ Close(o) \/ Renew(o) \/ Create(o) \/ Detach(o) \/ Accept(o)
       \/ SetConnected(o) \/ TryConnect(o) \/ ConnectUnresolved(o)
       \/ \E from \in Socks : Copy(o, from)
       \/ \E fd \in Fds : Attach(o, fd)
       \/ \E b \in BOOLEAN : RawConnect(o, b)
       \/ \E early, poll \in BOOLEAN : Connect(o, early, poll)
       \/ Turn(o)
  \/ \E fd \in Fds : Answer(fd)

TcpSpec == TcpInit /\ [][TcpNext]_tcpVars

-----------------------------------------------------------------------------
(* Properties.                                                             *)

\* "0 no connection, >0 OK, -1 in progress": what a result does mean.  A positive one
\* means a connection, unless the call waited, and then the attempt may have been
\* refused, or be pending still when the callback made the call stop.  A 0 means that
\* there is and will be none, unless the call, try_connect() or a connect() to a name that is
\* not resolved, left an earlier attempt alone.  A -1 comes with _connecting and an attempt that was made.
ResultMeans ==
  LET o == ret.on  state == IF IsOpen(o) THEN conn[thesock[o]] ELSE "none"
  IN  /\ ret.val = "sock" =>
           state = "up" \/ (ret.waited /\ (state = "refused" \/ (ret.quit /\ state = "pending")))
      /\ ret.val = "zero" => state \notin {"pending", "up"} \/ ret.again
      /\ ret.val = "minus" => connecting[o] = 1 /\ state \in {"pending", "up", "refused"}

\* As long as no object was copied, every open descriptor belongs to one object,
\* which will close it, or was let go by detach(), attach() or accept(); no failure
\* of an attempt to connect loses one, and none is held that was closed.
DescriptorsOwned ==
  LET held == {thesock[o] : o \in {p \in Socks : IsOpen(p)}}
  IN  ~copied =>
        /\ \A o, p \in Socks : IsOpen(o) /\ thesock[o] = thesock[p] => o = p
        /\ held \cap loose = {}
        /\ {f \in Fds : conn[f] # "free"} = held \cup loose
=============================================================================
