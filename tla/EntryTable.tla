----------------------------- MODULE EntryTable -----------------------------
(***************************************************************************)
(* What a cache or loader of flows, groups, meters, ports or logical ports *)
(* promises the agents that use it: a table in which every key has at most *)
(* one entry, every entry at most one user at a time, and in which a       *)
(* creation, an update or a removal takes place at one instant, in memory  *)
(* and in the store, or not at all.                                        *)
(***************************************************************************)
CONSTANTS Procs, Keys, Values,
          StoredKeys,     \* keys whose entries survive a restart
          None

VARIABLES table,          \* the value of each key, None when it is absent
          user,           \* the goroutine that holds a handle on it
          saved           \* what a restart finds

vars == <<table, user, saved>>

Init ==
    /\ table = [k \in Keys |-> None]
    /\ user = [k \in Keys |-> None]
    /\ saved = [k \in Keys |-> None]

Put(k, v) ==
    /\ table' = [table EXCEPT ![k] = v]
    /\ saved' = IF k \in StoredKeys THEN [saved EXCEPT ![k] = v] ELSE saved

Lock(p, k) ==
    /\ table[k] # None /\ user[k] = None
    /\ user' = [user EXCEPT ![k] = p]
    /\ UNCHANGED <<table, saved>>

Create(p, k, v) ==
    /\ table[k] = None /\ user[k] = None
    /\ user' = [user EXCEPT ![k] = p]
    /\ Put(k, v)

Update(p, k, v) ==
    /\ user[k] = p
    /\ UNCHANGED user
    /\ Put(k, v)

Delete(p, k) ==
    /\ user[k] = p
    /\ user' = [user EXCEPT ![k] = None]
    /\ Put(k, None)

Unlock(p, k) ==
    /\ user[k] = p
    /\ user' = [user EXCEPT ![k] = None]
    /\ UNCHANGED <<table, saved>>

\* The core restarts: the stored entries come back, or, when they cannot be
\* read, none does.
Restart ==
    /\ table' = saved \/ table' = [k \in Keys |-> None]
    /\ user' = [k \in Keys |-> None]
    /\ UNCHANGED saved

Next ==
    \/ \E p \in Procs, k \in Keys :
          \/ Lock(p, k) \/ Delete(p, k) \/ Unlock(p, k)
          \/ \E v \in Values : Create(p, k, v) \/ Update(p, k, v)
    \/ Restart

Spec == Init /\ [][Next]_vars
=============================================================================
