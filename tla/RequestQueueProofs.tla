------------------------- MODULE RequestQueueProofs -------------------------
(***************************************************************************)
(* Proofs about RequestQueue for every bound on the number of requests.    *)
(***************************************************************************)
EXTENDS RequestQueue, TLAPS

\* A closed channel means that every request up to its number has left.
ClosedInv ==
    \A c \in closed, r \in Requests : r <= c => ~Live(r)

\* A live request will close an open channel, its own or that of an aborted
\* request behind it with nobody left in between.
NotifyInv ==
    \A s \in Requests : Live(s) =>
        /\ s <= notify[s]
        /\ notify[s] \notin closed
        /\ \A k \in Requests : s < k /\ k <= notify[s] => ~Live(k)

\* The request being processed has been unlinked from the queue.
HolderInv ==
    \A h \in Requests : Holding(h) =>
        /\ GreenLight(h)
        /\ current = h
        /\ last # h /\ next[h] = Nil
        /\ \A q \in Requests : Waiting(q) => prev[q] # h

CurrentInv == current # Nil => Holding(current)

\* prev is the nearest older waiting request; when it is nil or a request
\* that left (one that was dropped while linked), no older one is waiting.
PrevInv ==
    \A q \in Requests : Waiting(q) =>
        \/ /\ prev[q] \in Requests
           /\ Waiting(prev[q])
           /\ prev[q] < q
           /\ \A k \in Requests : prev[q] < k /\ k < q => ~Waiting(k)
        \/ /\ prev[q] = Nil \/ ~Waiting(prev[q])
           /\ \A k \in Requests : k < q => ~Waiting(k)

\* next is the other direction of prev, and nil before a request arrives.
NextInv ==
    /\ \A r \in Requests : Waiting(r) =>
          \/ next[r] = Nil /\ \A k \in Requests : r < k => ~Waiting(k)
          \/ next[r] \in Requests /\ Waiting(next[r]) /\ prev[next[r]] = r
    /\ \A r \in Requests : r > n => next[r] = Nil

LastInv ==
    \/ last \in Requests /\ Waiting(last) /\ \A k \in Requests : last < k => ~Waiting(k)
    \/ (last = Nil \/ ~Waiting(last)) /\ \A k \in Requests : ~Waiting(k)

IInv ==
    TypeOK /\ ClosedInv /\ NotifyInv /\ HolderInv /\ CurrentInv /\ PrevInv
    /\ NextInv /\ LastInv

\* Who closes the channel a waiting request, or the next arrival, waits on,
\* when no request was ever dropped.
WakeInv ==
    NothingDropped =>
        /\ \A r \in Requests : Waiting(r) =>
              /\ prev[r] = Nil /\ current = Nil => r - 1 \in closed
              /\ prev[r] = Nil /\ current # Nil => notify[current] = r - 1
              /\ prev[r] # Nil => Waiting(prev[r]) /\ notify[prev[r]] = r - 1
        /\ last = Nil /\ current = Nil => n \in closed
        /\ last = Nil /\ current # Nil => notify[current] = n
        /\ last # Nil => Waiting(last) /\ notify[last] = n
-----------------------------------------------------------------------------
\* The queue's variables keep their types.
LEMMA TypeCorrect == ASSUME TypeOK, [Next]_vars PROVE TypeOK'
<1> USE MaxRequestsAssumption DEF TypeOK, Requests, Nil
<1>1. CASE Enqueue
  <2>1. n' = n + 1 /\ n' \in 0..MaxRequests /\ n + 1 \in Requests
    BY <1>1 DEF Enqueue
  <2>2. 0..n \subseteq 0..n' /\ n + 1 \in 0..n'
    BY <2>1
  <2>3a. prev' \in [Requests -> 0..n']
    BY <1>1, <2>1, <2>2 DEF Enqueue
  <2>3b. next' \in [Requests -> 0..n']
    BY <1>1, <2>1, <2>2 DEF Enqueue
  <2>3c. notify' \in [Requests -> 0..n']
    BY <1>1, <2>1, <2>2 DEF Enqueue
  <2>4. status' \in [Requests -> Statuses]
    <3>1. status' = [status EXCEPT ![n + 1] = "waiting"]
      BY <1>1 DEF Enqueue
    <3>2. "waiting" \in Statuses /\ status \in [Requests -> Statuses]
      BY DEF Statuses
    <3> HIDE DEF TypeOK, Requests
    <3> QED BY <3>1, <3>2
  <2>5. \A s \in Requests : status'[s] = "idle" <=> s > n'
    <3>1. status \in [Requests -> Statuses] /\ n \in Nat
      OBVIOUS
    <3>2. status' = [status EXCEPT ![n + 1] = "waiting"]
      BY <1>1 DEF Enqueue
    <3>3. \A s \in Requests : status'[s] = IF s = n + 1 THEN "waiting" ELSE status[s]
      <4> HIDE DEF TypeOK, Requests
      <4> QED BY <3>1, <3>2
    <3>4. \A s \in Requests : s \in Nat /\ (status[s] = "idle" <=> s > n)
      OBVIOUS
    <3> HIDE DEF TypeOK, Requests
    <3>5. \A s \in Requests : s # n + 1 => (s > n <=> s > n + 1)
      BY <3>1, <3>4
    <3> QED BY <2>1, <3>1, <3>3, <3>4, <3>5
  <2>6. last' \in 0..n' /\ current' \in 0..n' /\ closed' \in SUBSET (0..n')
    BY <1>1, <2>1, <2>2 DEF Enqueue
  <2> QED BY <2>1, <2>3a, <2>3b, <2>3c, <2>4, <2>5, <2>6
<1>2. ASSUME NEW r \in Requests, Acquire(r) PROVE TypeOK'
  <2>1. n' = n /\ status' \in [Requests -> Statuses]
    BY <1>2 DEF Acquire, Statuses
  <2>2. \A s \in Requests : status'[s] = "idle" <=> s > n
    BY <1>2 DEF Acquire, Waiting, Holding
  <2>3a. prev' \in [Requests -> 0..n]
    BY <1>2 DEF Acquire
  <2>3b. next' \in [Requests -> 0..n]
    BY <1>2 DEF Acquire
  <2>3c. notify' \in [Requests -> 0..n]
    BY <1>2 DEF Acquire
  <2>4. last' \in 0..n /\ current' \in 0..n /\ closed' \in SUBSET (0..n)
    BY <1>2, <2>2 DEF Acquire
  <2> QED BY <2>1, <2>2, <2>3a, <2>3b, <2>3c, <2>4
<1>3. ASSUME NEW r \in Requests, Drop(r) PROVE TypeOK'
  <2>1. n' = n /\ status' \in [Requests -> Statuses]
    BY <1>3 DEF Drop, ReleaseWithoutLock, Statuses
  <2>2. \A s \in Requests : status'[s] = "idle" <=> s > n
    BY <1>3 DEF Drop, ReleaseWithoutLock, Waiting, Holding
  <2>3a. prev' \in [Requests -> 0..n]
    BY <1>3 DEF Drop, ReleaseWithoutLock
  <2>3b. next' \in [Requests -> 0..n]
    BY <1>3 DEF Drop, ReleaseWithoutLock
  <2>3c. notify' \in [Requests -> 0..n]
    BY <1>3 DEF Drop, ReleaseWithoutLock
  <2>4. last' \in 0..n /\ current' \in 0..n
    BY <1>3 DEF Drop, ReleaseWithoutLock
  <2>5. closed' = closed \/ closed' = closed \cup {notify[r]}
    BY <1>3 DEF Drop, ReleaseWithoutLock
  <2>6. notify[r] \in 0..n
    BY <1>3 DEF RequestComplete
  <2>7. closed' \in SUBSET (0..n)
    BY <2>5, <2>6
  <2> QED BY <2>1, <2>2, <2>3a, <2>3b, <2>3c, <2>4, <2>7
<1>4. ASSUME NEW r \in Requests, Abort(r) PROVE TypeOK'
  <2>1. n' = n /\ status' \in [Requests -> Statuses]
    BY <1>4 DEF Abort, Statuses
  <2>2. \A s \in Requests : status'[s] = "idle" <=> s > n
    BY <1>4 DEF Abort, Waiting
  <2>3. prev' \in [Requests -> 0..n]
    BY <1>4 DEF Abort
  <2>4. next' \in [Requests -> 0..n]
    BY <1>4 DEF Abort
  <2>5. notify' \in [Requests -> 0..n]
    BY <1>4 DEF Abort
  <2>6. LastAfterAbort(r) \in 0..n
    BY <1>4 DEF LastAfterAbort
  <2>7. last' \in 0..n /\ current' \in 0..n /\ closed' \in SUBSET (0..n)
    BY <1>4, <2>6 DEF Abort
  <2> QED BY <2>1, <2>2, <2>3, <2>4, <2>5, <2>7
<1>5. ASSUME NEW r \in Requests, RequestComplete(r) PROVE TypeOK'
  <2>1. n' = n /\ status' \in [Requests -> Statuses]
    BY <1>5 DEF RequestComplete, ReleaseWithoutLock, Statuses
  <2>2. \A s \in Requests : status'[s] = "idle" <=> s > n
    BY <1>5 DEF RequestComplete, ReleaseWithoutLock, Waiting, Holding
  <2>3a. prev' \in [Requests -> 0..n]
    BY <1>5 DEF RequestComplete, ReleaseWithoutLock
  <2>3b. next' \in [Requests -> 0..n]
    BY <1>5 DEF RequestComplete, ReleaseWithoutLock
  <2>3c. notify' \in [Requests -> 0..n]
    BY <1>5 DEF RequestComplete, ReleaseWithoutLock
  <2>4. last' \in 0..n /\ current' \in 0..n
    BY <1>5 DEF RequestComplete, ReleaseWithoutLock
  <2>5. closed' = closed \/ closed' = closed \cup {notify[current]}
    BY <1>5 DEF RequestComplete, ReleaseWithoutLock
  <2>6. notify[current] \in 0..n
    BY <1>5 DEF RequestComplete
  <2>7. closed' \in SUBSET (0..n)
    BY <2>5, <2>6
  <2> QED BY <2>1, <2>2, <2>3a, <2>3b, <2>3c, <2>4, <2>7
<1>6. CASE UNCHANGED vars
  BY <1>6 DEF vars
<1> QED BY <1>1, <1>2, <1>3, <1>4, <1>5, <1>6 DEF Next
-----------------------------------------------------------------------------
\* A queue without requests satisfies the invariant.
LEMMA InitInv == Init => IInv
  BY MaxRequestsAssumption
  DEF Init, IInv, TypeOK, ClosedInv, NotifyInv, HolderInv, CurrentInv, PrevInv,
      NextInv, LastInv, Requests, Nil, Statuses, Waiting, Holding, Live

\* What the types say of the single elements.
LEMMA Elements ==
    ASSUME TypeOK
    PROVE  /\ n \in Nat /\ last \in Nat /\ current \in Nat
           /\ last <= n /\ current <= n
           /\ \A r \in Requests : r \in Nat /\ r # 0
           /\ \A r \in Requests : Live(r) => r <= n
           /\ \A r \in Requests : notify[r] \in Nat /\ notify[r] <= n
           /\ \A r \in Requests : prev[r] \in Nat /\ prev[r] <= n
           /\ \A r \in Requests : next[r] \in Nat /\ next[r] <= n
           /\ \A c \in closed : c \in Nat /\ c <= n
           /\ \A r, s \in Requests : r < s \/ r = s \/ s < r
           /\ \A m \in Nat : m # 0 /\ m <= n => m \in Requests
  BY MaxRequestsAssumption DEF TypeOK, Requests, Live, Waiting, Holding

\* An arrival links itself behind the youngest waiting request.
LEMMA EnqueueInv == ASSUME IInv, Enqueue PROVE IInv'
<1> USE DEF Nil, Live, Waiting, Holding
<1>1. TypeOK'
  BY TypeCorrect DEF IInv, Next
<1>2. n + 1 \in Requests
  BY MaxRequestsAssumption DEF Enqueue, IInv, TypeOK, Requests
<1>3. /\ status'[n + 1] = "waiting" /\ notify'[n + 1] = n + 1 /\ prev'[n + 1] = last
      /\ \A s \in Requests : s # n + 1 =>
            status'[s] = status[s] /\ notify'[s] = notify[s] /\ prev'[s] = prev[s]
      /\ \A s \in Requests : next'[s] = IF s = last THEN n + 1 ELSE next[s]
      /\ n' = n + 1 /\ last' = n + 1 /\ current' = current /\ closed' = closed
  BY <1>2 DEF Enqueue, IInv, TypeOK
<1>4. ClosedInv'
  BY <1>2, <1>3, Elements DEF IInv, ClosedInv
<1>5. NotifyInv'
  BY <1>2, <1>3, Elements DEF IInv, NotifyInv
<1>6. HolderInv'
  BY <1>2, <1>3, Elements DEF IInv, HolderInv, GreenLight
<1>7. CurrentInv'
  BY <1>2, <1>3, Elements DEF IInv, CurrentInv
<1>8. PrevInv'
  BY <1>2, <1>3, Elements DEF IInv, PrevInv, LastInv
<1>9. NextInv'
  BY <1>2, <1>3, Elements DEF IInv, NextInv, LastInv
<1>10. LastInv'
  BY <1>2, <1>3, Elements DEF IInv, LastInv
<1> QED BY <1>1, <1>4, <1>5, <1>6, <1>7, <1>8, <1>9, <1>10 DEF IInv

\* When a request has the green light, no older request is live and none is
\* being processed; its successor in the queue is the only one behind it.
LEMMA AtGreenLight ==
    ASSUME IInv, NEW r \in Requests, Waiting(r), GreenLight(r)
    PROVE  /\ \A h \in Requests : ~Holding(h)
           /\ \A k \in Requests : k < r => ~Waiting(k)
           /\ current = Nil
           /\ prev[r] \in Requests => ~Waiting(prev[r])
           /\ prev[r] # r
<1> USE DEF Nil, Live, Waiting, Holding
<1>1. \A k \in Requests : k < r => ~Live(k)
  BY Elements DEF IInv, ClosedInv, GreenLight
<1>2. \A h \in Requests : r < h => ~Holding(h)
  BY Elements DEF IInv, ClosedInv, HolderInv, GreenLight
<1>3. \A h \in Requests : ~Holding(h)
  BY <1>1, <1>2, Elements DEF IInv
<1>4. current = Nil
  BY <1>3, Elements DEF IInv, CurrentInv
<1>5. (prev[r] \in Requests => ~Waiting(prev[r])) /\ prev[r] # r
  BY <1>1, Elements DEF IInv, PrevInv
<1> QED BY <1>1, <1>3, <1>4, <1>5

\* Two waiting requests do not share their predecessor.
LEMMA OneSuccessor ==
    ASSUME IInv, NEW r \in Requests, Waiting(r),
           NEW q \in Requests, Waiting(q), prev[q] = r
    PROVE  q = next[r]
<1> USE DEF Nil, Waiting
<1>1. r < q
  BY Elements DEF IInv, PrevInv
<1>2. next[r] \in Requests /\ Waiting(next[r]) /\ prev[next[r]] = r
  BY <1>1, Elements DEF IInv, NextInv
<1>3. r < next[r]
  BY <1>2, Elements DEF IInv, PrevInv
<1> QED BY <1>1, <1>2, <1>3, Elements DEF IInv, PrevInv

\* The request that proceeds leaves the front of the queue.
LEMMA AcquireInv == ASSUME IInv, NEW r \in Requests, Acquire(r) PROVE IInv'
<1> USE DEF Nil, Live, Waiting, Holding
<1>1. TypeOK'
  BY TypeCorrect DEF IInv, Next
<1>2. /\ Waiting(r)
      /\ GreenLight(r)
      /\ \A h \in Requests : ~Holding(h)
      /\ \A k \in Requests : k < r => ~Waiting(k)
      /\ prev[r] \in Requests => ~Waiting(prev[r])
      /\ prev[r] # r
  BY AtGreenLight DEF Acquire
<1>3. /\ status'[r] = "holding"
      /\ \A s \in Requests : s # r => status'[s] = status[s]
      /\ \A s \in Requests : prev'[s] = IF s = r THEN Nil ELSE IF s = next[r] THEN prev[r] ELSE prev[s]
      /\ \A s \in Requests : next'[s] = IF s = r THEN Nil ELSE IF s = prev[r] THEN next[r] ELSE next[s]
      /\ last' = IF last = r THEN prev[r] ELSE last
      /\ n' = n /\ current' = r /\ notify' = notify /\ closed' = closed
  BY DEF Acquire, IInv, TypeOK
<1>4. \A q \in Requests : Waiting(q) /\ prev[q] = r => q = next[r]
  BY <1>2, OneSuccessor
<1>5. ClosedInv'
  BY <1>2, <1>3, Elements DEF IInv, ClosedInv
<1>6. NotifyInv'
  BY <1>2, <1>3, Elements DEF IInv, NotifyInv
<1>7. HolderInv'
  BY <1>2, <1>3, <1>4, Elements DEF IInv, HolderInv, GreenLight
<1>8. CurrentInv'
  BY <1>3, Elements DEF CurrentInv
<1>9. PrevInv'
  BY <1>2, <1>3, <1>4, Elements DEF IInv, PrevInv, NextInv
<1>10. NextInv'
  BY <1>2, <1>3, <1>4, Elements DEF IInv, PrevInv, NextInv
<1>11. LastInv'
  BY <1>2, <1>3, Elements DEF IInv, LastInv
<1> QED BY <1>1, <1>5, <1>6, <1>7, <1>8, <1>9, <1>10, <1>11 DEF IInv

\* The request that is cancelled after its green light stays linked, as a dead
\* element at the front of the queue.
LEMMA DropInv == ASSUME IInv, NEW r \in Requests, Drop(r) PROVE IInv'
<1> USE DEF Nil, Live, Waiting, Holding
<1>1. TypeOK'
  BY TypeCorrect DEF IInv, Next
<1>2. /\ Waiting(r)
      /\ \A h \in Requests : ~Holding(h)
      /\ \A k \in Requests : k < r => ~Waiting(k)
      /\ prev[r] \in Requests => ~Waiting(prev[r])
  BY AtGreenLight DEF Drop
<1>3. /\ status'[r] = "dropped"
      /\ \A s \in Requests : s # r => status'[s] = status[s] /\ notify'[s] = notify[s]
      /\ \A s \in Requests : prev'[s] = IF s = next[r] THEN Nil ELSE prev[s]
      /\ closed' = closed \cup {notify[r]} /\ current' = Nil
      /\ n' = n /\ next' = next /\ last' = last
  BY <1>2, Elements DEF Drop, ReleaseWithoutLock, IInv, TypeOK, NotifyInv
<1>4. \A q \in Requests : Waiting(q) /\ prev[q] = r => q = next[r]
  BY <1>2, OneSuccessor
<1>5. \A k \in Requests : Live(k) /\ k # r => notify[r] < k
  BY <1>2, Elements DEF IInv, NotifyInv
<1>6. ClosedInv'
  BY <1>3, <1>5, Elements DEF IInv, ClosedInv
<1>7. NotifyInv'
  BY <1>3, <1>5, Elements DEF IInv, NotifyInv
<1>8. HolderInv'
  BY <1>2, <1>3 DEF HolderInv
<1>9. CurrentInv'
  BY <1>3 DEF CurrentInv
<1>10. PrevInv'
  BY <1>2, <1>3, <1>4, Elements DEF IInv, PrevInv, NextInv
<1>11. NextInv'
  BY <1>2, <1>3, <1>4, Elements DEF IInv, PrevInv, NextInv
<1>12. LastInv'
  BY <1>2, <1>3, Elements DEF IInv, LastInv
<1> QED BY <1>1, <1>6, <1>7, <1>8, <1>9, <1>10, <1>11, <1>12 DEF IInv

\* The request that was processed gives the green light to the oldest waiting
\* request.
LEMMA RequestCompleteInv ==
    ASSUME IInv, NEW r \in Requests, RequestComplete(r) PROVE IInv'
<1> USE DEF Nil, Live, Waiting, Holding
<1>1. TypeOK'
  BY TypeCorrect DEF IInv, Next
<1>2. Holding(r) /\ current = r
  BY DEF RequestComplete, IInv, HolderInv
<1>3. /\ status'[r] = "done"
      /\ \A s \in Requests : s # r => status'[s] = status[s] /\ notify'[s] = notify[s]
      /\ \A s \in Requests : prev'[s] = IF s = next[r] THEN Nil ELSE prev[s]
      /\ closed' = closed \cup {notify[r]} /\ current' = Nil
      /\ n' = n /\ next' = next /\ last' = last
  BY <1>2, Elements DEF RequestComplete, ReleaseWithoutLock, IInv, TypeOK, NotifyInv
<1>4. \A k \in Requests : k < r => ~Live(k)
  BY <1>2, Elements DEF IInv, HolderInv, ClosedInv, GreenLight
<1>5. \A k \in Requests : Live(k) /\ k # r => notify[r] < k
  BY <1>2, <1>4, Elements DEF IInv, NotifyInv
<1>6. ClosedInv'
  BY <1>3, <1>5, Elements DEF IInv, ClosedInv
<1>7. NotifyInv'
  BY <1>3, <1>5, Elements DEF IInv, NotifyInv
<1>8. HolderInv'
  BY <1>2, <1>3 DEF IInv, HolderInv
<1>9. CurrentInv'
  BY <1>3 DEF CurrentInv
<1>10. PrevInv'
  BY <1>2, <1>3, Elements DEF IInv, PrevInv, HolderInv
<1>11. NextInv'
  BY <1>2, <1>3, Elements DEF IInv, NextInv, HolderInv
<1>12. LastInv'
  BY <1>2, <1>3, Elements DEF IInv, LastInv
<1> QED BY <1>1, <1>6, <1>7, <1>8, <1>9, <1>10, <1>11, <1>12 DEF IInv

\* A holder is older than every waiting request, and there is only one.
LEMMA HolderFirst ==
    ASSUME IInv, NEW h \in Requests, Holding(h), NEW k \in Requests, Live(k), k # h
    PROVE  h < k /\ ~Holding(k)
  BY Elements DEF IInv, HolderInv, ClosedInv, GreenLight, Live, Waiting, Holding

\* A request that gives up hands its channel to the live request just before
\* it, and its neighbours are linked to each other.
LEMMA AbortInv == ASSUME IInv, NEW r \in Requests, Abort(r) PROVE IInv'
<1> USE DEF Nil, Live, Waiting, Holding
<1>1. TypeOK'
  BY TypeCorrect DEF IInv, Next
<1>2. Waiting(r) /\ r \in Nat /\ Heir(r) # r
  BY Elements DEF Abort, Heir, IInv, PrevInv, CurrentInv
<1>3. /\ status'[r] = "aborted"
      /\ \A s \in Requests : s # r => status'[s] = status[s]
      /\ \A s \in Requests : notify'[s] = IF s = Heir(r) THEN notify[r] ELSE notify[s]
      /\ \A s \in Requests : prev'[s] = IF s = r THEN Nil ELSE IF s = next[r] THEN prev[r] ELSE prev[s]
      /\ \A s \in Requests : next'[s] = IF s = r THEN Nil ELSE IF s = prev[r] THEN next[r] ELSE next[s]
      /\ last' = IF next[r] # Nil THEN last ELSE prev[r]
      /\ n' = n /\ current' = current /\ closed' = closed
  BY DEF Abort, LastAfterAbort, IInv, TypeOK
<1>4. \A q \in Requests : Waiting(q) /\ prev[q] = r => q = next[r]
  BY <1>2, OneSuccessor
<1>5. Heir(r) \in Requests /\ Live(Heir(r)) =>
          Heir(r) < r /\ \A k \in Requests : Heir(r) < k /\ k < r => ~Live(k)
  <2>1. CASE prev[r] # Nil
    BY <1>2, <2>1, HolderFirst, Elements DEF IInv, PrevInv, Heir
  <2>2. CASE prev[r] = Nil
    BY <1>2, <2>2, HolderFirst, Elements DEF IInv, PrevInv, CurrentInv, Heir
  <2> QED BY <2>1, <2>2
<1>6. ClosedInv'
  BY <1>3, Elements DEF IInv, ClosedInv
<1>7. NotifyInv'
  BY <1>2, <1>3, <1>5, Elements DEF IInv, NotifyInv
<1>8. HolderInv'
  BY <1>2, <1>3, <1>4, Elements DEF IInv, HolderInv, GreenLight
<1>9. CurrentInv'
  BY <1>2, <1>3, Elements DEF IInv, CurrentInv
<1>10. PrevInv'
  BY <1>2, <1>3, <1>4, Elements DEF IInv, PrevInv, NextInv
<1>11. NextInv'
  BY <1>2, <1>3, <1>4, Elements DEF IInv, PrevInv, NextInv
<1>12. LastInv'
  BY <1>2, <1>3, Elements DEF IInv, PrevInv, NextInv, LastInv
<1> QED BY <1>1, <1>6, <1>7, <1>8, <1>9, <1>10, <1>11, <1>12 DEF IInv

\* IInv is inductive.
LEMMA IInvStep == IInv /\ [Next]_vars => IInv'
<1> SUFFICES ASSUME IInv, [Next]_vars PROVE IInv'
  OBVIOUS
<1>1. CASE UNCHANGED vars
  BY <1>1 DEF vars, IInv, TypeOK, ClosedInv, NotifyInv, HolderInv, CurrentInv, PrevInv,
              NextInv, LastInv, Waiting, Holding, Live, GreenLight
<1> QED
  BY <1>1, EnqueueInv, AcquireInv, DropInv, AbortInv, RequestCompleteInv DEF Next

\* The queue's variables keep their types, whatever the interleaving of
\* arrivals, cancellations and completions.
THEOREM TypeInvariance == Spec => []TypeOK
<1>1. IInv => TypeOK
  BY DEF IInv
<1> QED BY <1>1, InitInv, IInvStep, PTL DEF Spec

\* RequestQueue processes one request at a time, for any number of requests.
THEOREM MutualExclusionHolds == Spec => []MutualExclusion
<1>1. IInv => MutualExclusion
  BY HolderFirst DEF MutualExclusion, Live
<1> QED BY <1>1, InitInv, IInvStep, PTL DEF Spec

\* The green light follows the order of arrival, whatever is cancelled.
THEOREM NoOvertakingHolds == Spec => []NoOvertaking
<1>1. IInv => NoOvertaking
  BY HolderFirst DEF NoOvertaking, Live, Waiting, Holding
<1> QED BY <1>1, InitInv, IInvStep, PTL DEF Spec

\* RequestComplete never finds rq.current nil and never closes a closed channel.
THEOREM ReleasesOwnLockHolds == Spec => []ReleasesOwnLock
<1>1. IInv => ReleasesOwnLock
  BY Elements DEF IInv, CurrentInv, HolderInv, NotifyInv, ReleasesOwnLock, Live, Nil
<1> QED BY <1>1, InitInv, IInvStep, PTL DEF Spec
-----------------------------------------------------------------------------
\* The oldest waiting request is the only one without a waiting predecessor.
LEMMA OldestOnly ==
    ASSUME IInv, NEW r \in Requests, NEW q \in Requests, Waiting(r), Waiting(q),
           prev[r] = Nil, prev[q] = Nil
    PROVE  r = q
  BY Elements DEF IInv, PrevInv, Nil, Waiting

\* Every step keeps track of who closes the channels somebody waits on.
LEMMA WakeStep == ASSUME IInv, WakeInv, [Next]_vars PROVE WakeInv'
<1> USE DEF Nil, Live, Waiting, Holding
<1> SUFFICES ASSUME NothingDropped' PROVE WakeInv'
  BY DEF WakeInv
<1>1. CASE Enqueue
  <2>1. n + 1 \in Requests
    BY <1>1, MaxRequestsAssumption DEF Enqueue, IInv, TypeOK, Requests
  <2>2. /\ status'[n + 1] = "waiting" /\ notify'[n + 1] = n + 1 /\ prev'[n + 1] = last
        /\ \A s \in Requests : s # n + 1 =>
              status'[s] = status[s] /\ notify'[s] = notify[s] /\ prev'[s] = prev[s]
        /\ n' = n + 1 /\ last' = n + 1 /\ current' = current /\ closed' = closed
    BY <1>1, <2>1 DEF Enqueue, IInv, TypeOK
  <2>3. NothingDropped
    BY <2>1, <2>2, Elements DEF NothingDropped, IInv, TypeOK
  <2> QED BY <2>1, <2>2, <2>3, Elements DEF WakeInv, IInv
<1>2. ASSUME NEW r \in Requests, Acquire(r) PROVE WakeInv'
  <2>1. /\ status'[r] = "holding"
        /\ \A s \in Requests : s # r => status'[s] = status[s]
        /\ \A s \in Requests : prev'[s] = IF s = r THEN Nil ELSE IF s = next[r] THEN prev[r] ELSE prev[s]
        /\ last' = IF last = r THEN prev[r] ELSE last
        /\ n' = n /\ current' = r /\ notify' = notify /\ closed' = closed
    BY <1>2 DEF Acquire, IInv, TypeOK
  <2>2. NothingDropped
    BY <1>2, <2>1 DEF NothingDropped, Acquire
  <2>3. Waiting(r) /\ current = Nil /\ prev[r] = Nil /\ last # Nil
    BY <1>2, <2>2, AtGreenLight, Elements DEF Acquire, WakeInv, IInv, PrevInv, LastInv
  <2>4. \A q \in Requests : Waiting(q) /\ q # r => prev[q] # Nil /\ (prev[q] = r => q = next[r])
    BY <2>3, OldestOnly, OneSuccessor
  <2>5. next[r] \in Requests => Waiting(next[r]) /\ prev[next[r]] = r
    BY <2>3, Elements DEF IInv, NextInv
  <2> QED BY <2>1, <2>2, <2>3, <2>4, <2>5, Elements DEF WakeInv, IInv
<1>3. ASSUME NEW r \in Requests, Drop(r) PROVE WakeInv'
  BY <1>3 DEF Drop, NothingDropped, IInv, TypeOK
<1>4. ASSUME NEW r \in Requests, Abort(r) PROVE WakeInv'
  <2>1. /\ status'[r] = "aborted"
        /\ \A s \in Requests : s # r => status'[s] = status[s]
        /\ \A s \in Requests : notify'[s] = IF s = Heir(r) THEN notify[r] ELSE notify[s]
        /\ \A s \in Requests : prev'[s] = IF s = r THEN Nil ELSE IF s = next[r] THEN prev[r] ELSE prev[s]
        /\ last' = IF next[r] # Nil THEN last ELSE prev[r]
        /\ n' = n /\ current' = current /\ closed' = closed
    BY <1>4 DEF Abort, LastAfterAbort, IInv, TypeOK
  <2>2. NothingDropped
    BY <1>4, <2>1 DEF NothingDropped, Abort
  <2>3. Waiting(r) /\ r - 1 \notin closed /\ (current # Nil => Holding(current) /\ current \in Requests)
    BY <1>4, Elements DEF Abort, GreenLight, IInv, CurrentInv
  <2>4. \A q \in Requests : Waiting(q) /\ prev[q] = r => q = next[r]
    BY <2>3, OneSuccessor
  <2>5. next[r] \in Requests => Waiting(next[r]) /\ prev[next[r]] = r
    BY <2>3, Elements DEF IInv, NextInv
  <2>6. next[r] = Nil <=> last = r
    BY <2>3, Elements DEF IInv, NextInv, PrevInv, LastInv
  <2>7. CASE prev[r] = Nil
    <3>1. \A q \in Requests : Waiting(q) /\ q # r => prev[q] # Nil
      BY <2>3, <2>7, OldestOnly
    <3>2. Heir(r) = current /\ current # Nil /\ last # Nil
      BY <2>2, <2>3, <2>7, Elements DEF Heir, WakeInv, IInv, LastInv
    <3> QED BY <2>1, <2>2, <2>3, <2>4, <2>5, <2>6, <2>7, <3>1, <3>2, Elements DEF WakeInv, IInv
  <2>8. CASE prev[r] # Nil
    <3>1. Heir(r) = prev[r] /\ prev[r] \in Requests /\ Waiting(prev[r]) /\ prev[r] < r
      BY <2>2, <2>3, <2>8, Elements DEF Heir, WakeInv, IInv, PrevInv
    <3>2. \A q \in Requests : Waiting(q) /\ prev[q] = prev[r] => q = r
      BY <2>3, <3>1, OneSuccessor
    <3>3. last # Nil /\ Waiting(last) /\ last # prev[r]
      BY <2>2, <2>3, <3>1, Elements DEF WakeInv, IInv, LastInv
    <3> QED BY <2>1, <2>2, <2>3, <2>4, <2>5, <2>6, <2>8, <3>1, <3>2, <3>3, Elements DEF WakeInv, IInv
  <2> QED BY <2>7, <2>8
<1>5. ASSUME NEW r \in Requests, RequestComplete(r) PROVE WakeInv'
  <2>1. Holding(r) /\ current = r /\ next[r] = Nil
    BY <1>5 DEF RequestComplete, IInv, HolderInv
  <2>2. /\ status'[r] = "done"
        /\ \A s \in Requests : s # r => status'[s] = status[s] /\ notify'[s] = notify[s]
        /\ \A s \in Requests : prev'[s] = prev[s]
        /\ closed' = closed \cup {notify[r]} /\ current' = Nil
        /\ n' = n /\ last' = last
    BY <1>5, <2>1, Elements DEF RequestComplete, ReleaseWithoutLock, IInv, TypeOK, NotifyInv
  <2>3. NothingDropped
    BY <2>1, <2>2 DEF NothingDropped
  <2> QED BY <2>1, <2>2, <2>3, Elements DEF WakeInv, IInv
<1>6. CASE UNCHANGED vars
  BY <1>6 DEF vars, WakeInv, NothingDropped
<1> QED BY <1>1, <1>2, <1>3, <1>4, <1>5, <1>6 DEF Next

\* As long as no context expires between the green light and the mutex, no
\* sequence of aborts loses the wake-up of a request in the queue.
THEOREM WakeupKeptHolds == Spec => []WakeupKept
<1>1. Init => WakeInv
  BY DEF Init, WakeInv, Nil, Waiting
<1>2. IInv /\ WakeInv => WakeupKept
  <2> SUFFICES ASSUME IInv, WakeInv, NothingDropped,
                      NEW c \in 0..n, c = n \/ Waiting(c + 1), c \notin closed
               PROVE  \E s \in Requests : Live(s) /\ notify[s] = c
    BY DEF WakeupKept, NoLostWakeup
  <2>1. current # Nil => current \in Requests /\ Holding(current)
    BY Elements DEF IInv, CurrentInv, Nil
  <2>2. CASE c = n
    BY <2>1, <2>2, Elements DEF IInv, WakeInv, Live, Nil
  <2>3. CASE c # n /\ Waiting(c + 1)
    <3>1. c + 1 \in Requests /\ (c + 1) - 1 = c
      BY <2>3, Elements DEF IInv
    <3> QED BY <2>1, <2>3, <3>1, Elements DEF IInv, WakeInv, Live, Nil
  <2> QED BY <2>2, <2>3
<1> QED BY <1>1, <1>2, InitInv, IInvStep, WakeStep, PTL DEF Spec
-----------------------------------------------------------------------------
\* WaitForGreenLight and RequestComplete behave as a first-come lock: each
\* section under rq.mutex is one step of FifoLock or changes nothing there.
THEOREM Refinement == Spec => ImplementsFifoLock
<1> USE DEF Nil, Waiting, Holding
<1>1. Init => Lock!Init
  BY DEF Init, Lock!Init
<1>2. IInv /\ [Next]_vars => [Lock!Next]_(Lock!vars)
  <2> SUFFICES ASSUME IInv, [Next]_vars PROVE [Lock!Next]_(Lock!vars)
    OBVIOUS
  <2> DEFINE W == {r \in Requests : Waiting(r)}
  <2>1. CASE Enqueue
    <3>1. n + 1 \in Requests /\ n < MaxRequests /\ n' = n + 1 /\ current' = current
      BY <2>1, MaxRequestsAssumption DEF Enqueue, IInv, TypeOK, Requests
    <3>2. W' = W \cup {n + 1}
      BY <2>1, <3>1 DEF Enqueue, IInv, TypeOK
    <3> QED BY <3>1, <3>2 DEF Lock!Next, Lock!Arrive
  <2>2. ASSUME NEW r \in Requests, Acquire(r) PROVE Lock!Next
    <3>1. r \in W /\ current = 0 /\ \A q \in W : r <= q
      BY <2>2, AtGreenLight, Elements DEF Acquire, IInv
    <3>2. W' = W \ {r} /\ current' = r /\ n' = n
      BY <2>2 DEF Acquire, IInv, TypeOK
    <3> QED BY <3>1, <3>2 DEF Lock!Next, Lock!Grant, Requests
  <2>3. ASSUME NEW r \in Requests, Drop(r) PROVE Lock!Next
    <3>1. r \in W /\ current = 0
      BY <2>3, AtGreenLight DEF Drop
    <3>2. W' = W \ {r} /\ current' = 0 /\ n' = n
      BY <2>3 DEF Drop, ReleaseWithoutLock, IInv, TypeOK
    <3> QED BY <3>1, <3>2 DEF Lock!Next, Lock!GiveUp, Requests
  <2>4. ASSUME NEW r \in Requests, Abort(r) PROVE Lock!Next
    <3>1. r \in W /\ W' = W \ {r} /\ current' = current /\ n' = n
      BY <2>4 DEF Abort, IInv, TypeOK
    <3> QED BY <3>1 DEF Lock!Next, Lock!GiveUp, Requests
  <2>5. ASSUME NEW r \in Requests, RequestComplete(r) PROVE Lock!Next
    <3>1. W' = W /\ current # 0 /\ current' = 0 /\ n' = n
      BY <2>5 DEF RequestComplete, ReleaseWithoutLock, IInv, TypeOK
    <3> QED BY <3>1 DEF Lock!Next, Lock!Release
  <2>6. CASE UNCHANGED vars
    BY <2>6 DEF vars, Lock!vars
  <2> QED BY <2>1, <2>2, <2>3, <2>4, <2>5, <2>6 DEF Next
<1> QED BY <1>1, <1>2, InitInv, IInvStep, PTL DEF Spec, ImplementsFifoLock, Lock!Spec
=============================================================================
