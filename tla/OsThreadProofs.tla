------------------------ MODULE OsThreadProofs ------------------------
(***************************************************************************)
(* What holds of OsThread for any number of threads and of starts.         *)
(***************************************************************************)
EXTENDS OsThread, FiniteSetTheorems, TLAPS

Joining == {"joining", "dtor joining"}

\* t is the only thread the object started, and _hthread is not what a start that
\* failed left there.
Only(t) == Started = {t} /\ hthread # Stale

\* Then _hthread is this thread and _stopped tells of it; a join that is over, and the
\* destructor when it is past its own, leave it alive only if it is one of late.
Followed(t) ==
  /\ hthread = t
  /\ thread[t] = "main" => stopped = 0
  /\ Alive(t) /\ joined /\ owner \notin Joining => t \in late
  /\ Alive(t) /\ owner \in {"dtor", "destroyed"} => t \in late

OsThreadInv ==
  /\ OsThreadTypeOK /\ IsFiniteSet(Started)
  /\ owner \in Joining => joined /\ hthread \in Threads
  /\ \A t \in Threads : Only(t) => Followed(t)

\* A step that starts no thread.
LEMMA SameStarted ==
  ASSUME NEW u \in Threads, NEW to, thread' = [thread EXCEPT ![u] = to], thread[u] # "none",
         to # "none", OsThreadTypeOK
  PROVE  Started' = Started /\ thread'[u] = to /\ \A t \in Threads : t # u => thread'[t] = thread[t]
BY DEF Started, OsThreadTypeOK

LEMMA StartFollows ==
  ASSUME OsThreadInv, StartThread
  PROVE  OsThreadInv'
<1>1. /\ owner = "ready" /\ bstop' = 0 /\ stopped' = stopped /\ joined' = joined /\ owner' = owner
      /\ OsThreadTypeOK /\ IsFiniteSet(Started)
      /\ \A t \in Threads : Only(t) => Followed(t)
  BY DEF StartThread, OsThreadInv
<1>2. ASSUME NEW u \in Threads, thread[u] = "none", thread' = [thread EXCEPT ![u] = "created"],
             hthread' = u, late' = IF joined THEN late \cup {u} ELSE late
      PROVE  OsThreadInv'
  <2>1. OsThreadTypeOK'
    BY <1>1, <1>2 DEF OsThreadTypeOK
  <2>2. Started' = Started \cup {u} /\ u \notin Started /\ thread'[u] = "created"
    BY <1>1, <1>2 DEF Started, OsThreadTypeOK
  <2>3. IsFiniteSet(Started')
    BY <1>1, <2>2, FS_AddElement
  <2>4. ASSUME NEW t \in Threads, Only(t)'
        PROVE  Followed(t)'
    <3>1. t = u
      BY <2>2, <2>4 DEF Only
    <3> QED BY <1>1, <1>2, <2>2, <3>1 DEF Followed, Joining
  <2> QED BY <1>1, <2>1, <2>3, <2>4 DEF OsThreadInv, Joining
<1>3. ASSUME hthread' \in {hthread, Stale}, thread' = thread, late' = late
      PROVE  OsThreadInv'
  <2>1. OsThreadTypeOK' /\ Started' = Started
    BY <1>1, <1>3 DEF OsThreadTypeOK, Started
  <2>2. ASSUME NEW t \in Threads, Only(t)'
        PROVE  Followed(t)'
    BY <1>1, <1>3, <2>1, <2>2 DEF Only, Followed, Alive
  <2> QED BY <1>1, <2>1, <2>2 DEF OsThreadInv, Joining
<1> QED BY <1>2, <1>3 DEF StartThread

LEMMA OwnerFollows ==
  ASSUME OsThreadInv, SignalToStop \/ StopThread \/ Destructor
  PROVE  OsThreadInv'
<1>1. /\ OsThreadTypeOK /\ IsFiniteSet(Started) /\ owner = "ready"
      /\ \A t \in Threads : Only(t) => Followed(t)
      /\ UNCHANGED <<hthread, stopped, joined, thread>>
  BY DEF OsThreadInv, SignalToStop, StopThread, Destructor
<1>2. /\ owner' \in {"ready", "join", "dtor", "dtor join"} /\ bstop' \in {0, 1}
      /\ late' \in {late, late \cup {t \in Threads : thread[t] = "created"}}
      /\ owner' = "dtor" => stopped # 0 /\ late' = late \cup {t \in Threads : thread[t] = "created"}
  BY <1>1 DEF SignalToStop, StopThread, Destructor, OsThreadTypeOK
<1>3. OsThreadTypeOK' /\ Started' = Started
  BY <1>1, <1>2 DEF OsThreadTypeOK, Started
<1>4. ASSUME NEW t \in Threads, Only(t)'
      PROVE  Followed(t)'
  <2>1. Followed(t)
    BY <1>1, <1>3, <1>4 DEF Only
  <2> QED BY <1>1, <1>2, <2>1 DEF Followed, Alive, Joining
<1> QED BY <1>1, <1>2, <1>3, <1>4 DEF OsThreadInv, Joining

LEMMA JoinFollows ==
  ASSUME OsThreadInv, TJoin \/ Destroyed
  PROVE  OsThreadInv'
<1>1. /\ OsThreadTypeOK /\ IsFiniteSet(Started)
      /\ \A t \in Threads : Only(t) => Followed(t)
      /\ UNCHANGED <<bstop, hthread, stopped, thread, late>>
  BY DEF OsThreadInv, TJoin, Destroyed
<1>2. \/ /\ owner \in {"join", "dtor join"} /\ joined' = TRUE
         /\ \/ owner' \in {"ready", "dtor"} /\ (joined \/ hthread = Stale)
            \/ owner' = "crashed" /\ hthread \notin Threads
            \/ owner' \in Joining /\ hthread \in Threads
      \/ owner = "dtor" /\ owner' \in {"destroyed", "crashed"} /\ joined' = joined
  BY OsThreadAssumption DEF OsThreadAssumption, TJoin, Destroyed, Then, Wait, Joining
<1>3. OsThreadTypeOK' /\ Started' = Started
  BY <1>1, <1>2 DEF OsThreadTypeOK, Started, Joining
<1>4. ASSUME NEW t \in Threads, Only(t)'
      PROVE  Followed(t)'
  <2>1. Followed(t) /\ hthread # Stale /\ hthread = t
    BY <1>1, <1>3, <1>4 DEF Only, Followed
  <2> QED BY <1>1, <1>2, <2>1 DEF Followed, Alive, Joining
<1> QED BY <1>1, <1>2, <1>3, <1>4 DEF OsThreadInv, Joining

LEMMA ThreadFollows ==
  ASSUME OsThreadInv, NEW u \in Threads,
         Begin(u) \/ End(u) \/ (Joined /\ hthread = u)
  PROVE  OsThreadInv'
<1>1. /\ OsThreadTypeOK /\ IsFiniteSet(Started)
      /\ \A t \in Threads : Only(t) => Followed(t)
      /\ owner \in Joining => joined /\ hthread \in Threads
      /\ UNCHANGED <<bstop, hthread, joined, late>>
  BY DEF OsThreadInv, Begin, End, Joined
<1>2. PICK to \in {"main", "ended", "joined"} :
        /\ thread[u] # "none" /\ thread' = [thread EXCEPT ![u] = to]
        /\ to = "main" => thread[u] = "created" /\ stopped' = 0 /\ owner' = owner
        /\ to = "ended" => stopped' = 1 /\ owner' = owner
        /\ to = "joined" => /\ stopped' = stopped /\ owner \in Joining
                            /\ owner' \in {"ready", "dtor"}
  BY DEF Begin, End, Joined, Then, Joining
<1>3. Started' = Started /\ thread'[u] = to /\ \A t \in Threads : t # u => thread'[t] = thread[t]
  BY <1>1, <1>2, SameStarted
<1>4. OsThreadTypeOK'
  BY <1>1, <1>2 DEF OsThreadTypeOK, Joining
<1>5. ASSUME NEW t \in Threads, Only(t)'
      PROVE  Followed(t)'
  <2>1. Followed(t) /\ t = u
    BY <1>1, <1>2, <1>3, <1>5 DEF Only, Started
  <2> QED BY <1>1, <1>2, <1>3, <2>1 DEF Followed, Alive, Joining
<1> QED BY <1>1, <1>2, <1>3, <1>4, <1>5 DEF OsThreadInv, Joining

LEMMA OsThreadInvHolds == OsThreadSpec => []OsThreadInv
<1>1. OsThreadInit => OsThreadInv
  <2> SUFFICES ASSUME OsThreadInit PROVE OsThreadInv
    OBVIOUS
  <2>1. Started = {}
    BY DEF OsThreadInit, Started
  <2> QED BY <2>1, FS_EmptySet DEF OsThreadInit, OsThreadInv, OsThreadTypeOK, Only, Joining
<1>2. OsThreadInv /\ [OsThreadNext]_threadVars => OsThreadInv'
  <2> SUFFICES ASSUME OsThreadInv, [OsThreadNext]_threadVars PROVE OsThreadInv'
    OBVIOUS
  <2>1. CASE Joined
    <3>1. hthread \in Threads
      BY <2>1 DEF Joined, OsThreadInv, Joining
    <3> QED BY <2>1, <3>1, ThreadFollows
  <2>2. CASE UNCHANGED threadVars
    BY <2>2 DEF threadVars, OsThreadInv, OsThreadTypeOK, Started, Only, Followed, Alive, Joining
  <2> QED BY <2>1, <2>2, StartFollows, OwnerFollows, JoinFollows, ThreadFollows
          DEF OsThreadNext, OwnerReturns
<1> QED BY <1>1, <1>2, PTL DEF OsThreadSpec

\* _bstop, _hthread, _stopped, _joined and the places where owner and threads are.
THEOREM OsThreadTypes == OsThreadSpec => []OsThreadTypeOK
<1>1. OsThreadInv => OsThreadTypeOK
  BY DEF OsThreadInv
<1> QED BY <1>1, OsThreadInvHolds, PTL

\* When the destructor is done, a thread that still runs had not begun when it looked
\* at _stopped, was started after a join, or another start took its place.
THEOREM OutlivesOnlyThen == OsThreadSpec => []OutlivesOnlyIf
<1>1. OsThreadInv => OutlivesOnlyIf
  <2> SUFFICES ASSUME OsThreadInv, owner = "destroyed", NEW t \in Threads, Alive(t),
                      hthread # Stale, ~(Cardinality(Started) > 1)
               PROVE  t \in late
    BY DEF OutlivesOnlyIf
  <2>1. IsFiniteSet(Started) /\ {t} \subseteq Started
    BY DEF OsThreadInv, Started, Alive
  <2>2. Cardinality({t}) = 1 /\ Cardinality({t}) <= Cardinality(Started)
        /\ (Cardinality({t}) = Cardinality(Started) => Started = {t})
    BY <2>1, FS_Subset, FS_Singleton
  <2>3. Cardinality(Started) \in Nat
    BY <2>1, FS_CardinalityType
  <2>4. Started = {t}
    BY <2>2, <2>3
  <2> QED BY <2>4 DEF OsThreadInv, Only, Followed
<1> QED BY <1>1, OsThreadInvHolds, PTL
=============================================================================
