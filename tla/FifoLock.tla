------------------------------ MODULE FifoLock ------------------------------
(***************************************************************************)
(* What a RequestQueue promises its callers, without channels or pointers: *)
(* a lock granted in order of arrival, in which a caller may give up at    *)
(* any moment before it starts processing.                                 *)
(***************************************************************************)
EXTENDS Naturals

CONSTANT MaxRequests      \* bound on the number of arrivals

VARIABLES arrived,        \* number of requests that have entered the queue
          waiting,        \* the requests that wait for the green light
          holder          \* the request being processed, 0 when there is none

vars == <<arrived, waiting, holder>>

Init == arrived = 0 /\ waiting = {} /\ holder = 0

Arrive ==
    /\ arrived < MaxRequests
    /\ arrived' = arrived + 1
    /\ waiting' = waiting \cup {arrived + 1}
    /\ UNCHANGED holder

GiveUp(r) ==
    /\ r \in waiting
    /\ waiting' = waiting \ {r}
    /\ UNCHANGED <<arrived, holder>>

\* Only the oldest waiting request gets the lock, and only when it is free.
Grant(r) ==
    /\ r \in waiting
    /\ holder = 0
    /\ \A q \in waiting : r <= q
    /\ holder' = r
    /\ waiting' = waiting \ {r}
    /\ UNCHANGED arrived

Release ==
    /\ holder # 0
    /\ holder' = 0
    /\ UNCHANGED <<arrived, waiting>>

Next ==
    \/ Arrive
    \/ \E r \in 1..MaxRequests : GiveUp(r) \/ Grant(r)
    \/ Release

Spec == Init /\ [][Next]_vars
=============================================================================
