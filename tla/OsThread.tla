---------------------------- MODULE OsThread ----------------------------
(***************************************************************************)
(* OsThread of osthread.h (the part for Linux): an object that starts a    *)
(* thread, tells it to stop, joins it, and is destroyed, by the calls of   *)
(* one owner, while the thread goes through SFoo.                          *)
(*                                                                         *)
(* thread_main is the caller's: it may return at any time.  A join of      *)
(* thread 0 crashes; a join of a stale one, or a detach of one that is     *)
(* stale or joined, may.                                                   *)
(***************************************************************************)
EXTENDS FiniteSets, Naturals

CONSTANTS
  Threads,   \* what pthread_create() hands out; bound: each once
  NoThread,  \* 0
  Stale      \* what a pthread_create() that fails may leave: no thread

ASSUME OsThreadAssumption == {NoThread, Stale} \cap Threads = {} /\ NoThread # Stale

VARIABLES
  bstop,       \* _bstop
  hthread,     \* _hthread
  stopped,     \* _stopped, which the constructor leaves as it finds it
  joined,      \* _joined
  thread,      \* where each thread is in SFoo
  owner,       \* where the owner is
  late         \* history: threads started after a join, or that had not begun when
               \* the destructor looked

threadVars == <<bstop, hthread, stopped, joined, thread, owner, late>>

OsThreadTypeOK ==
  /\ {bstop, stopped} \subseteq {0, 1} /\ joined \in BOOLEAN
  /\ hthread \in Threads \cup {NoThread, Stale}
  /\ thread \in [Threads -> {"none", "created", "main", "ended", "joined"}]
  /\ owner \in {"ready", "join", "joining", "dtor", "dtor join", "dtor joining",
                "destroyed", "crashed"}
  /\ late \subseteq Threads

\* The constructor; _stopped is what the memory held.
OsThreadInit ==
  /\ bstop = 1 /\ hthread = NoThread /\ stopped \in {0, 1} /\ joined = FALSE
  /\ thread = [t \in Threads |-> "none"]
  /\ owner = "ready" /\ late = {}

-----------------------------------------------------------------------------
(* The owner.                                                              *)

\* start_thread().  A thread started before is forgotten, perhaps also when this one is
\* not created.
StartThread ==
  /\ owner = "ready" /\ bstop' = 0
  /\ \/ \E t \in Threads :
          /\ thread[t] = "none" /\ thread' = [thread EXCEPT ![t] = "created"]
          /\ hthread' = t /\ late' = IF joined THEN late \cup {t} ELSE late
     \/ hthread' \in {hthread, Stale} /\ UNCHANGED <<thread, late>>
  /\ UNCHANGED <<stopped, joined, owner>>

SignalToStop ==
  /\ owner = "ready" /\ bstop' = 1
  /\ UNCHANGED <<hthread, stopped, joined, thread, owner, late>>

\* stop_thread(), up to t_join(), which the owner may also call alone.
StopThread ==
  /\ owner = "ready" /\ owner' = "join" /\ bstop' \in {bstop, 1}
  /\ UNCHANGED <<hthread, stopped, joined, thread, late>>

\* Variant: the destructor leaves the thread alone.
DestructorAlone ==
  /\ owner = "ready" /\ owner' = "dtor"
  /\ late' = late \cup {t \in Threads : thread[t] = "created"}
  /\ UNCHANGED <<bstop, hthread, stopped, joined, thread>>

\* The destructor, up to t_join() if it finds _stopped to be 0.
Destructor ==
  /\ owner = "ready"
  /\ IF stopped = 0 THEN owner' = "dtor join" /\ bstop' = 1
                    ELSE owner' = "dtor" /\ UNCHANGED bstop
  /\ late' = late \cup {t \in Threads : thread[t] = "created"}
  /\ UNCHANGED <<hthread, stopped, joined, thread>>

\* The place that follows t_join() in its caller, and the one where it waits.
Then(place) == IF place \in {"join", "joining"} THEN "ready" ELSE "dtor"
Wait(place) == IF place = "join" THEN "joining" ELSE "dtor joining"

\* t_join(): once for an object, however many threads it started.
TJoin ==
  /\ owner \in {"join", "dtor join"} /\ joined' = TRUE
  /\ \/ owner' = Then(owner) /\ (joined \/ hthread = Stale)
     \/ owner' = "crashed" /\ ~joined /\ hthread \in {NoThread, Stale}
     \/ owner' = Wait(owner) /\ ~joined /\ hthread \in Threads
  /\ UNCHANGED <<bstop, hthread, stopped, thread, late>>

\* pthread_join() returns.
Joined ==
  /\ owner \in {"joining", "dtor joining"} /\ thread[hthread] = "ended"
  /\ thread' = [thread EXCEPT ![hthread] = "joined"]
  /\ owner' = Then(owner)
  /\ UNCHANGED <<bstop, hthread, stopped, joined, late>>

\* The end of the destructor: a thread is detached if it, or one before it, was joined.
Destroyed ==
  /\ owner = "dtor"
  /\ \/ owner' = "destroyed"
     \/ /\ owner' = "crashed" /\ joined
        /\ hthread = Stale \/ (hthread \in Threads /\ thread[hthread] = "joined")
  /\ UNCHANGED <<bstop, hthread, stopped, joined, thread, late>>

-----------------------------------------------------------------------------
(* A thread, which ends with a program that crashed.                       *)

\* Variant: the thread itself clears _bstop.
BeginUnstopped(t) ==
  /\ thread[t] = "created" /\ owner # "crashed"
  /\ thread' = [thread EXCEPT ![t] = "main"] /\ stopped' = 0 /\ bstop' = 0
  /\ UNCHANGED <<hthread, joined, owner, late>>

\* SFoo up to thread_main(): _stopped is cleared here, not by the owner.
Begin(t) ==
  /\ thread[t] = "created" /\ owner # "crashed"
  /\ thread' = [thread EXCEPT ![t] = "main"] /\ stopped' = 0
  /\ UNCHANGED <<bstop, hthread, joined, owner, late>>

\* thread_main() returns.
End(t) ==
  /\ thread[t] = "main" /\ owner # "crashed"
  /\ thread' = [thread EXCEPT ![t] = "ended"] /\ stopped' = 1
  /\ UNCHANGED <<bstop, hthread, joined, owner, late>>

OwnerReturns == TJoin \/ Joined \/ Destroyed

OsThreadNext ==
  \/ StartThread \/ SignalToStop \/ StopThread \/ Destructor \/ OwnerReturns
  \/ \E t \in Threads : Begin(t) \/ End(t)

\* Threads are scheduled, and thread_main returns once is_stopped() says so.
OsThreadFairness ==
  /\ WF_threadVars(OwnerReturns)
  /\ \A t \in Threads : WF_threadVars(Begin(t)) /\ WF_threadVars(bstop = 1 /\ End(t))

OsThreadSpec == OsThreadInit /\ [][OsThreadNext]_threadVars /\ OsThreadFairness

-----------------------------------------------------------------------------
(* Properties.                                                             *)

Started == {t \in Threads : thread[t] # "none"}
Alive(t) == thread[t] \in {"created", "main"}

\* A thread outlives the object it works on only if it had not begun when the destructor
\* looked at _stopped, if the object was joined before it was started, or if another
\* start took its place or wrote its _stopped; the destructor waits for every other one.
OutlivesOnlyIf ==
  owner = "destroyed" =>
    \A t \in Threads :
      Alive(t) => t \in late \/ Cardinality(Started) > 1 \/ hthread = Stale

\* One that was told to stop before it was joined is joined: no stop is lost, though
\* start_thread(), the thread and the owner write the same flags without a lock.
StopReturns ==
  (owner \in {"joining", "dtor joining"} /\ bstop = 1)
    ~> (owner \in {"ready", "dtor", "destroyed", "crashed"})
=============================================================================
