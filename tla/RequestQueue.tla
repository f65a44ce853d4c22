---------------------------- MODULE RequestQueue ----------------------------
(***************************************************************************)
(* The per-agent request queue of src/rw_core/utils/request_queue.go: the  *)
(* lock every device and logical-device operation takes.  Requests form a  *)
(* doubly linked list; each one waits on the completion channel of the     *)
(* request that arrived before it, and an aborted request hands its own    *)
(* channel to whoever must close it in its place.                          *)
(*                                                                         *)
(* Requests are numbered in order of arrival and a channel has the number  *)
(* of the request that made it (0 is the closed channel of a new queue),   *)
(* so request r waits on channel r - 1 and lastCompleteCh is channel n.    *)
(* 0 is also the nil pointer.  One action is one section under rq.mutex: a *)
(* closed channel stays closed, so the choice the select makes before it   *)
(* takes the mutex is still valid inside.  A context may be cancelled at   *)
(* any time, hence no variable says which ones are.                        *)
(***************************************************************************)
EXTENDS Naturals

CONSTANT MaxRequests      \* bound on the number of arrivals

ASSUME MaxRequestsAssumption == MaxRequests \in Nat

VARIABLES n,              \* requests so far; channel n is rq.lastCompleteCh
          status,         \* what the goroutine of each request is doing
          prev, next,     \* request.prev, request.next
          notify,         \* request.notifyOnComplete
          last, current,  \* rq.last, rq.current
          closed          \* the channels that have been closed

vars == <<n, status, prev, next, notify, last, current, closed>>

Nil == 0
Requests == 1..MaxRequests

\* "dropped": cancelled, but only after the green light was already on.
Statuses == {"idle", "waiting", "holding", "done", "aborted", "dropped"}

Waiting(r) == status[r] = "waiting"
Holding(r) == status[r] = "holding"
Live(r) == Waiting(r) \/ Holding(r)
GreenLight(r) == r - 1 \in closed

Init ==
    /\ n = 0
    /\ status = [r \in Requests |-> "idle"]
    /\ prev = [r \in Requests |-> Nil]
    /\ next = [r \in Requests |-> Nil]
    /\ notify = [r \in Requests |-> Nil]
    /\ last = Nil
    /\ current = Nil
    /\ closed = {0}
-----------------------------------------------------------------------------
\* Mutant: the arrival does not publish its own channel as lastCompleteCh.
EnqueueKeepsChannel ==
    /\ n < MaxRequests
    /\ status' = [status EXCEPT ![n + 1] = "waiting"]
    /\ notify' = [notify EXCEPT ![n + 1] = n + 1]
    /\ prev' = [prev EXCEPT ![n + 1] = last]
    /\ next' = [r \in Requests |-> IF r = last THEN n + 1 ELSE next[r]]
    /\ last' = n + 1
    /\ UNCHANGED <<n, current, closed>>

\* WaitForGreenLight up to the select: join the end of the queue.
Enqueue ==
    /\ n < MaxRequests
    /\ n' = n + 1
    /\ status' = [status EXCEPT ![n + 1] = "waiting"]
    /\ notify' = [notify EXCEPT ![n + 1] = n + 1]
    /\ prev' = [prev EXCEPT ![n + 1] = last]
    /\ next' = [r \in Requests |-> IF r = last THEN n + 1 ELSE next[r]]
    /\ last' = n + 1
    /\ UNCHANGED <<current, closed>>

\* Mutant: the select ignores the channel of the previous request.
AcquireEarly(r) ==
    /\ Waiting(r)
    /\ status' = [status EXCEPT ![r] = "holding"]
    /\ current' = r
    /\ next' = [s \in Requests |-> IF s = r THEN Nil
                                   ELSE IF s = prev[r] THEN next[r] ELSE next[s]]
    /\ prev' = [s \in Requests |-> IF s = r THEN Nil
                                   ELSE IF s = next[r] THEN prev[r] ELSE prev[s]]
    /\ last' = IF last = r THEN prev[r] ELSE last
    /\ UNCHANGED <<n, notify, closed>>

\* The select takes the waitingOn branch: r becomes the current request.
Acquire(r) ==
    /\ Waiting(r)
    /\ GreenLight(r)
    /\ status' = [status EXCEPT ![r] = "holding"]
    /\ current' = r
    /\ next' = [s \in Requests |-> IF s = r THEN Nil
                                   ELSE IF s = prev[r] THEN next[r] ELSE next[s]]
    /\ prev' = [s \in Requests |-> IF s = r THEN Nil
                                   ELSE IF s = next[r] THEN prev[r] ELSE prev[s]]
    /\ last' = IF last = r THEN prev[r] ELSE last
    /\ UNCHANGED <<n, notify, closed>>

\* releaseWithoutLock, with r as the current request.
ReleaseWithoutLock(r) ==
    /\ closed' = IF notify[r] # Nil THEN closed \cup {notify[r]} ELSE closed
    /\ notify' = [notify EXCEPT ![r] = Nil]
    /\ prev' = [s \in Requests |-> IF s = next[r] THEN Nil ELSE prev[s]]
    /\ current' = Nil
    /\ UNCHANGED <<n, next, last>>

\* The context is done, and under the mutex the green light turns out to be on:
\* the lock is taken and released at once.  The request stays linked.
Drop(r) ==
    /\ Waiting(r)
    /\ GreenLight(r)
    /\ status' = [status EXCEPT ![r] = "dropped"]
    /\ ReleaseWithoutLock(r)

\* Mutant: the channel is not handed over to the current request.
HeirInQueueOnly(r) == prev[r]

\* Mutant: the channel always goes to the current request.
HeirIsCurrent(r) == current

\* Who must close r's channel once r has left: its predecessor in the queue,
\* else the request being processed.
Heir(r) == IF prev[r] # Nil THEN prev[r] ELSE current

\* rq.last once r has unlinked itself (the four cases of the unlink).
LastAfterAbort(r) ==
    IF next[r] # Nil THEN last ELSE prev[r]

\* The context is done and the green light is off: r hands its channel over
\* and leaves the queue.
Abort(r) ==
    /\ Waiting(r)
    /\ ~GreenLight(r)
    /\ status' = [status EXCEPT ![r] = "aborted"]
    /\ notify' = [s \in Requests |-> IF s = Heir(r) THEN notify[r] ELSE notify[s]]
    /\ next' = [s \in Requests |-> IF s = r THEN Nil
                                   ELSE IF s = prev[r] THEN next[r] ELSE next[s]]
    /\ prev' = [s \in Requests |-> IF s = r THEN Nil
                                   ELSE IF s = next[r] THEN prev[r] ELSE prev[s]]
    /\ last' = LastAfterAbort(r)
    /\ UNCHANGED <<n, current, closed>>

\* RequestComplete, called by the request that has the lock; it releases
\* whatever rq.current points to.
RequestComplete(r) ==
    /\ Holding(r)
    /\ current # Nil
    /\ status' = [status EXCEPT ![r] = "done"]
    /\ ReleaseWithoutLock(current)
-----------------------------------------------------------------------------
Next ==
    \/ Enqueue
    \/ \E r \in Requests : Acquire(r)
    \/ \E r \in Requests : Drop(r)
    \/ \E r \in Requests : Abort(r)
    \/ \E r \in Requests : RequestComplete(r)

Spec == Init /\ [][Next]_vars

\* A runnable goroutine is eventually scheduled, and an operation that was
\* given the green light eventually calls RequestComplete.  Nothing forces a
\* context to be cancelled or a request to arrive.
Fairness ==
    \A r \in Requests : WF_vars(Acquire(r)) /\ WF_vars(RequestComplete(r))

FairSpec == Spec /\ Fairness
-----------------------------------------------------------------------------
TypeOK ==
    /\ n \in 0..MaxRequests
    /\ status \in [Requests -> Statuses]
    /\ \A r \in Requests : status[r] = "idle" <=> r > n
    /\ prev \in [Requests -> 0..n]
    /\ next \in [Requests -> 0..n]
    /\ notify \in [Requests -> 0..n]
    /\ last \in 0..n
    /\ current \in 0..n
    /\ closed \in SUBSET (0..n)

\* At most one request is processed at a time ("each request is processed to
\* completion before another request is given the green light").
MutualExclusion ==
    \A r, s \in Requests : Holding(r) /\ Holding(s) => r = s

\* No request is processed while an older one is still waiting, whatever was
\* aborted in between.
NoOvertaking ==
    \A r, s \in Requests : Holding(s) /\ Waiting(r) => s < r

\* rq.current is the request being processed, and its channel is still open:
\* RequestComplete neither dereferences nil, nor closes a channel twice, nor
\* gives the green light in someone else's name.
ReleasesOwnLock ==
    \A r \in Requests :
        /\ Holding(r) <=> current = r
        /\ Holding(r) => notify[r] # Nil /\ notify[r] \notin closed

NothingDropped == \A r \in Requests : status[r] # "dropped"

\* Every channel that somebody waits on, or will wait on next, is closed or is
\* the one a live request closes when it completes.
NoLostWakeup ==
    \A c \in 0..n :
        (c = n \/ Waiting(c + 1)) /\ c \notin closed
            => \E s \in Requests : Live(s) /\ notify[s] = c

\* As long as no request was cancelled after its green light came on, aborts
\* never lose the wake-up of a request behind them.
WakeupKept == NothingDropped => NoLostWakeup

\* Every waiting request eventually proceeds or gives up, unless one was
\* cancelled after its green light came on.
EventuallyServed ==
    \A r \in Requests : Waiting(r) ~> (~Waiting(r) \/ ~NothingDropped)

Lock == INSTANCE FifoLock WITH
            arrived <- n,
            waiting <- {r \in Requests : Waiting(r)},
            holder  <- current

\* The linked list with channels implements the abstract first-come lock.
ImplementsFifoLock == Lock!Spec
=============================================================================
