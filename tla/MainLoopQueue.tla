--------------------------- MODULE MainLoopQueue ---------------------------
(***************************************************************************)
(* The queue between the threads that produce work for a connection and    *)
(* the application's main loop (class Watch with its DispatchSource).  An  *)
(* entry is queued and the semaphore eventfd is written in two steps; the  *)
(* main loop sleeps on the eventfd, looks at the front of the queue, reads *)
(* the eventfd once, pops the entry and processes it.                      *)
(*                                                                         *)
(* A pushing thread is between its two steps while it is in writing.  The  *)
(* eventfd is a counter; its limit of 2^64 is out of reach.  What entries  *)
(* are and what processing one does is up to the module that uses this one.*)
(* The supervisor thread only writes log messages and is left out.         *)
(***************************************************************************)
EXTENDS Naturals, Sequences, FiniteSets

CONSTANTS
  Pushers,  \* the threads that queue entries
  Entries   \* what they queue

ASSUME PushersAssumption == IsFiniteSet(Pushers)

VARIABLES
  queue,    \* Watch::queue_
  eventFd,  \* the value of the eventfd
  writing,  \* the threads that have queued an entry and not yet written
  loop,     \* where the main loop is
  front     \* the entry that DispatchSource::dispatch took from the front

queueVars == <<queue, eventFd, writing, loop, front>>

LoopPlaces == {"polling", "awake", "reading", "popping", "processing"}

QueueTypeOK ==
  /\ queue \in Seq(Entries)
  /\ eventFd \in Nat
  /\ writing \subseteq Pushers
  /\ loop \in LoopPlaces
  /\ front \in Entries

QueueInit ==
  /\ queue = <<>>
  /\ eventFd = 0
  /\ writing = {}
  /\ loop = "polling"
  /\ front \in Entries

-----------------------------------------------------------------------------

\* A faulty variant, for the runs' mutants: the newest entry goes first.
PushFirst(t, entry) ==
  /\ t \notin writing
  /\ queue' = <<entry>> \o queue
  /\ writing' = writing \cup {t}
  /\ UNCHANGED <<eventFd, loop, front>>

\* A faulty variant: a write that fails with EAGAIN is not tried again.
WriteGivenUp(t) ==
  /\ t \in writing
  /\ writing' = writing \ {t}
  /\ UNCHANGED <<queue, eventFd, loop, front>>

\* A faulty variant: the eventfd is not a semaphore (no EFD_SEMAPHORE).
ReadEverything ==
  /\ loop = "reading"
  /\ eventFd > 0
  /\ eventFd' = 0
  /\ loop' = "popping"
  /\ UNCHANGED <<queue, writing, front>>

(* Watch::pushQueue, the critical section. *)
PushQueue(t, entry) ==
  /\ t \notin writing
  /\ queue' = Append(queue, entry)
  /\ writing' = writing \cup {t}
  /\ UNCHANGED <<eventFd, loop, front>>

(* Watch::pushQueue, the write that follows it. *)
WriteEventFd(t) ==
  /\ t \in writing
  /\ eventFd' = eventFd + 1
  /\ writing' = writing \ {t}
  /\ UNCHANGED <<queue, loop, front>>

(* The main loop sleeps until the eventfd can be read, and goes to sleep   *)
(* only when DispatchSource::prepare finds the queue empty.                *)
WakeUp ==
  /\ loop = "polling"
  /\ eventFd > 0
  /\ loop' = "awake"
  /\ UNCHANGED <<queue, eventFd, writing, front>>

Prepare ==
  /\ loop = "awake"
  /\ queue = <<>>
  /\ loop' = "polling"
  /\ UNCHANGED <<queue, eventFd, writing, front>>

(* DispatchSource::dispatch finds an entry and keeps it. *)
FrontQueue ==
  /\ loop = "awake"
  /\ queue # <<>>
  /\ front' = Head(queue)
  /\ loop' = "reading"
  /\ UNCHANGED <<queue, eventFd, writing>>

(* Watch::popQueue reads the semaphore, trying again until it can ... *)
ReadEventFd ==
  /\ loop = "reading"
  /\ eventFd > 0
  /\ eventFd' = eventFd - 1
  /\ loop' = "popping"
  /\ UNCHANGED <<queue, writing, front>>

(* ... and then pops the entry. *)
PopQueue ==
  /\ loop = "popping"
  /\ queue' = Tail(queue)
  /\ loop' = "processing"
  /\ UNCHANGED <<eventFd, writing, front>>

(* Watch::processQueueEntry has returned, and dispatch with it. *)
EndDispatch ==
  /\ loop = "processing"
  /\ loop' = "awake"
  /\ UNCHANGED <<queue, eventFd, writing, front>>

QueueNext ==
  \/ \E t \in Pushers : (\E entry \in Entries : PushQueue(t, entry)) \/ WriteEventFd(t)
  \/ WakeUp \/ Prepare \/ FrontQueue \/ ReadEventFd \/ PopQueue \/ EndDispatch

QueueSpec == QueueInit /\ [][QueueNext]_queueVars

-----------------------------------------------------------------------------

(* The eventfd counts the entries of the queue, but for those whose write  *)
(* is still to come and the one that is being popped (pushQueue and        *)
(* popQueue never hold a mutex over both): so no entry waits behind a      *)
(* sleeping main loop, and none is popped twice.                           *)
FdCounts ==
  Len(queue) = eventFd + Cardinality(writing) + (IF loop = "popping" THEN 1 ELSE 0)

(* The entry popped is the one that is processed, although pushes come     *)
(* between frontQueue and popQueue (dispatch takes the mutex twice).       *)
FrontKept ==
  loop \in {"reading", "popping"} => queue # <<>> /\ front = Head(queue)
=============================================================================
