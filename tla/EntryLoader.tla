---------------------------- MODULE EntryLoader ----------------------------
(***************************************************************************)
(* The tables the agents keep their entries in: flow/cache.go and          *)
(* group/cache.go (memory only), logical_port/loader.go (memory only, with *)
(* an index by device), meter/loader.go and port/loader.go (also in the KV *)
(* store).  The five share one locking scheme: a lock for the map, a lock  *)
(* in every chunk, and a "deleted" flag by which whoever waited for the    *)
(* lock of a chunk learns that it is no longer the entry of its key.       *)
(*                                                                         *)
(* One action is one section under the map lock, one acquisition of a      *)
(* chunk's lock, or one call to the store.  What a goroutine does to its   *)
(* own chunk between two of those is part of the step before.  Chunks are  *)
(* garbage-collected: a new one is any that nobody can reach.              *)
(***************************************************************************)
EXTENDS Naturals

CONSTANTS Procs,        \* goroutines
          Keys,         \* flow, group, meter or port numbers
          StoredKeys,   \* those of a loader that also writes the KV store
          IndexedKeys,  \* those of the logical-port loader
          Chunks, Values, Devices,
          DeviceOf,     \* the DeviceId of each value
          None

ASSUME ConstantsAssumption ==
    /\ StoredKeys \subseteq Keys
    /\ IndexedKeys \subseteq Keys \ StoredKeys
    /\ DeviceOf \in [Values -> Devices]
    /\ None \notin Procs \cup Chunks \cup Values \cup Keys

VARIABLES chunkOf,      \* the map: the chunk of each key
          value,        \* chunk.flow, chunk.meter, ...
          deleted,      \* chunk.deleted
          holder,       \* the goroutine that holds chunk.lock
          deviceLookup, \* the index of the logical-port loader
          store,        \* the KV store
          loaded,       \* Load read the store when the core started
          pc, key, arg, entry   \* each goroutine: its step, key, new value, chunk

procVars == <<pc, key, arg, entry>>
chunkVars == <<value, deleted, holder>>
vars == <<chunkOf, value, deleted, holder, deviceLookup, store, loaded,
          pc, key, arg, entry>>

\* "lookup": in Lock, or the Lock that LockOrCreate starts with.  "create": in
\* LockOrCreate, the first look found nothing.  "acquire": waits for a chunk's
\* lock.  "saving": a new entry is in the map, not yet in the store; "failed":
\* nor will it be; "reverted": it is out of the map again.  "using": has a
\* handle.  "unlinking": Delete has set the flag; "unlinked": and left the map.
Steps == {"idle", "lookup", "create", "acquire", "saving", "failed", "reverted",
          "using", "unlinking", "unlinked"}

HasLock(p) == pc[p] \in {"saving", "failed", "reverted", "using", "unlinking", "unlinked"}
Reaches(p, c) == pc[p] \notin {"idle", "lookup", "create"} /\ entry[p] = c
Garbage(c) == /\ \A k \in Keys : chunkOf[k] # c
              /\ \A p \in Procs : ~Reaches(p, c)

Goto(p, step) ==
    /\ pc' = [pc EXCEPT ![p] = step]
    /\ UNCHANGED <<key, arg>>

\* The call is over, and its variables with it.
Return(p) ==
    /\ pc' = [pc EXCEPT ![p] = "idle"]
    /\ key' = [key EXCEPT ![p] = None]
    /\ arg' = [arg EXCEPT ![p] = None]
    /\ entry' = [entry EXCEPT ![p] = None]

Init ==
    /\ chunkOf = [k \in Keys |-> None]
    /\ value = [c \in Chunks |-> None]
    /\ deleted = [c \in Chunks |-> FALSE]
    /\ holder = [c \in Chunks |-> None]
    /\ deviceLookup = [d \in Devices |-> {}]
    /\ store = [k \in Keys |-> None]
    /\ loaded = TRUE
    /\ pc = [p \in Procs |-> "idle"]
    /\ key = [p \in Procs |-> None]
    /\ arg = [p \in Procs |-> None]
    /\ entry = [p \in Procs |-> None]
-----------------------------------------------------------------------------
\* Lock(id) is called with v = None, LockOrCreate(flow) with the new entry v.
Call(p, k, v) ==
    /\ pc[p] = "idle"
    /\ pc' = [pc EXCEPT ![p] = "lookup"]
    /\ key' = [key EXCEPT ![p] = k]
    /\ arg' = [arg EXCEPT ![p] = v]
    /\ UNCHANGED <<chunkOf, chunkVars, deviceLookup, store, loaded, entry>>

\* Lock, under the read lock of the map.
Lookup(p) ==
    /\ pc[p] = "lookup"
    /\ IF chunkOf[key[p]] # None
       THEN /\ entry' = [entry EXCEPT ![p] = chunkOf[key[p]]]
            /\ Goto(p, "acquire")
       ELSE IF arg[p] = None
       THEN Return(p)
       ELSE Goto(p, "create") /\ UNCHANGED entry
    /\ UNCHANGED <<chunkOf, chunkVars, deviceLookup, store, loaded>>

\* Mutant: Lock does not look at the "deleted" flag.
AcquireAnyway(p) ==
    /\ pc[p] = "acquire" /\ holder[entry[p]] = None
    /\ holder' = [holder EXCEPT ![entry[p]] = p]
    /\ Goto(p, "using")
    /\ UNCHANGED <<chunkOf, value, deleted, deviceLookup, store, loaded, entry>>

\* Lock, once chunk.lock is free: a deleted chunk sends it back to the map.
Acquire(p) ==
    /\ pc[p] = "acquire" /\ holder[entry[p]] = None
    /\ IF deleted[entry[p]]
       THEN /\ UNCHANGED holder
            /\ Goto(p, "lookup")
       ELSE /\ holder' = [holder EXCEPT ![entry[p]] = p]
            /\ Goto(p, "using")
    /\ UNCHANGED <<chunkOf, value, deleted, deviceLookup, store, loaded, entry>>

\* addLookup
AddLookup(d, k) == [deviceLookup EXCEPT ![d] = @ \cup {k}]

\* removeLookup: the device's set goes with its last port, which is the same set.
RemoveLookup(d, k) == [deviceLookup EXCEPT ![d] = @ \ {k}]

\* LockOrCreate, under the write lock of the map: another goroutine has created
\* the entry since the first look.
FindAgain(p) ==
    /\ pc[p] = "create" /\ chunkOf[key[p]] # None
    /\ entry' = [entry EXCEPT ![p] = chunkOf[key[p]]]
    /\ Goto(p, "acquire")
    /\ UNCHANGED <<chunkOf, chunkVars, deviceLookup, store, loaded>>

\* LockOrCreate, under the write lock of the map: a new chunk, locked.
Create(p, c) ==
    /\ pc[p] = "create" /\ chunkOf[key[p]] = None
    /\ Garbage(c)
    /\ chunkOf' = [chunkOf EXCEPT ![key[p]] = c]
    /\ value' = [value EXCEPT ![c] = arg[p]]
    /\ deleted' = [deleted EXCEPT ![c] = FALSE]
    /\ holder' = [holder EXCEPT ![c] = p]
    /\ entry' = [entry EXCEPT ![p] = c]
    /\ deviceLookup' = IF key[p] \in IndexedKeys
                       THEN AddLookup(DeviceOf[arg[p]], key[p]) ELSE deviceLookup
    /\ Goto(p, IF key[p] \in StoredKeys THEN "saving" ELSE "using")
    /\ UNCHANGED <<store, loaded>>

\* Mutant: the chunk is written instead of the entry in it.
SaveChunk(p) ==
    /\ pc[p] = "saving"
    /\ \/ store' = [store EXCEPT ![key[p]] = entry[p]] /\ Goto(p, "using")
       \/ UNCHANGED store /\ Goto(p, "failed")
    /\ UNCHANGED <<chunkOf, chunkVars, deviceLookup, loaded, entry>>

\* Mutant: the error of the store is ignored.
SaveUnchecked(p) ==
    /\ pc[p] = "saving"
    /\ Goto(p, "using")
    /\ \/ store' = [store EXCEPT ![key[p]] = arg[p]]
       \/ UNCHANGED store
    /\ UNCHANGED <<chunkOf, chunkVars, deviceLookup, loaded, entry>>

\* LockOrCreate of a stored entry: dbProxy.Set.
SaveNew(p) ==
    /\ pc[p] = "saving"
    /\ \/ store' = [store EXCEPT ![key[p]] = arg[p]] /\ Goto(p, "using")
       \/ UNCHANGED store /\ Goto(p, "failed")
    /\ UNCHANGED <<chunkOf, chunkVars, deviceLookup, loaded, entry>>

\* LockOrCreate of a stored entry, "revert the map".
RevertMap(p) ==
    /\ pc[p] = "failed"
    /\ chunkOf' = [chunkOf EXCEPT ![key[p]] = None]
    /\ Goto(p, "reverted")
    /\ UNCHANGED <<chunkVars, deviceLookup, store, loaded, entry>>

\* Mutant: the error path returns without unlocking the chunk.
RevertKeepsLock(p) ==
    /\ pc[p] = "reverted"
    /\ deleted' = [deleted EXCEPT ![entry[p]] = TRUE]
    /\ Return(p)
    /\ UNCHANGED <<chunkOf, value, holder, deviceLookup, store, loaded>>

\* LockOrCreate of a stored entry: the flag is set and the lock released.
RevertDone(p) ==
    /\ pc[p] = "reverted"
    /\ deleted' = [deleted EXCEPT ![entry[p]] = TRUE]
    /\ holder' = [holder EXCEPT ![entry[p]] = None]
    /\ Return(p)
    /\ UNCHANGED <<chunkOf, value, deviceLookup, store, loaded>>

\* Update of a stored entry: the store first; its failure changes nothing.
UpdateStored(p, v) ==
    /\ pc[p] = "using" /\ key[p] \in StoredKeys
    /\ store' = [store EXCEPT ![key[p]] = v]
    /\ value' = [value EXCEPT ![entry[p]] = v]
    /\ UNCHANGED <<chunkOf, deleted, holder, deviceLookup, loaded, procVars>>

\* Update of an entry in memory.  The callers change a copy of the entry they
\* read, which stays with the device that it was created for.
Update(p, v) ==
    /\ pc[p] = "using" /\ key[p] \notin StoredKeys
    /\ key[p] \in IndexedKeys => DeviceOf[v] = DeviceOf[value[entry[p]]]
    /\ value' = [value EXCEPT ![entry[p]] = v]
    /\ UNCHANGED <<chunkOf, deleted, holder, deviceLookup, store, loaded, procVars>>

\* Delete of a stored entry: it leaves the store first; when that fails the
\* handle stays valid.
DeleteStored(p) ==
    /\ pc[p] = "using" /\ key[p] \in StoredKeys
    /\ store' = [store EXCEPT ![key[p]] = None]
    /\ deleted' = [deleted EXCEPT ![entry[p]] = TRUE]
    /\ Goto(p, "unlinking")
    /\ UNCHANGED <<chunkOf, value, holder, deviceLookup, loaded, entry>>

\* Mutant: Delete does not set the flag.
DeleteUnflagged(p) ==
    /\ pc[p] = "using" /\ key[p] \notin StoredKeys
    /\ Goto(p, "unlinking")
    /\ UNCHANGED <<chunkOf, chunkVars, deviceLookup, store, loaded, entry>>

\* Delete of an entry in memory, up to the lock of the map.
Delete(p) ==
    /\ pc[p] = "using" /\ key[p] \notin StoredKeys
    /\ deleted' = [deleted EXCEPT ![entry[p]] = TRUE]
    /\ Goto(p, "unlinking")
    /\ UNCHANGED <<chunkOf, value, holder, deviceLookup, store, loaded, entry>>

\* Mutant: the port stays in the index of its device.
UnlinkKeepsLookup(p) ==
    /\ pc[p] = "unlinking"
    /\ chunkOf' = [chunkOf EXCEPT ![key[p]] = None]
    /\ Goto(p, "unlinked")
    /\ UNCHANGED <<chunkVars, deviceLookup, store, loaded, entry>>

\* Delete, under the lock of the map.
Unlink(p) ==
    /\ pc[p] = "unlinking"
    /\ chunkOf' = [chunkOf EXCEPT ![key[p]] = None]
    /\ deviceLookup' = IF key[p] \in IndexedKeys
                       THEN RemoveLookup(DeviceOf[value[entry[p]]], key[p]) ELSE deviceLookup
    /\ Goto(p, "unlinked")
    /\ UNCHANGED <<chunkVars, store, loaded, entry>>

\* Unlock, called by the user of a handle or at the end of Delete.
Unlock(p) ==
    /\ pc[p] \in {"using", "unlinked"}
    /\ holder' = [holder EXCEPT ![entry[p]] = None]
    /\ Return(p)
    /\ UNCHANGED <<chunkOf, value, deleted, deviceLookup, store, loaded>>

\* ListIDs, ListIDsForDevice: snapshots made under the lock of the map.
ListIDs == {k \in Keys : chunkOf[k] # None}
ListIDsForDevice(d) == deviceLookup[d]

\* The core stops and another one starts.  Load fills the map of a stored
\* loader, or logs that the store could not be read and leaves it empty.
Restart ==
    /\ loaded' \in BOOLEAN
    /\ \E m \in [Keys -> Chunks \cup {None}] :
          /\ \A k \in Keys : (m[k] # None) <=> (loaded' /\ store[k] # None)
          /\ \A j, k \in Keys : m[j] = m[k] /\ m[k] # None => j = k
          /\ chunkOf' = m
          /\ value' = [c \in Chunks |-> IF \E k \in Keys : m[k] = c
                                        THEN store[CHOOSE k \in Keys : m[k] = c] ELSE None]
    /\ deleted' = [c \in Chunks |-> FALSE]
    /\ holder' = [c \in Chunks |-> None]
    /\ deviceLookup' = [d \in Devices |-> {}]
    /\ pc' = [p \in Procs |-> "idle"]
    /\ key' = [p \in Procs |-> None]
    /\ arg' = [p \in Procs |-> None]
    /\ entry' = [p \in Procs |-> None]
    /\ UNCHANGED store

Step(p) ==
    \/ \E k \in Keys, v \in Values \cup {None} : Call(p, k, v)
    \/ Lookup(p) \/ Acquire(p) \/ FindAgain(p) \/ (\E c \in Chunks : Create(p, c))
    \/ SaveNew(p) \/ RevertMap(p) \/ RevertDone(p)
    \/ \E v \in Values : UpdateStored(p, v) \/ Update(p, v)
    \/ DeleteStored(p) \/ Delete(p) \/ Unlink(p) \/ Unlock(p)

Next == (\E p \in Procs : Step(p)) \/ Restart

Spec == Init /\ [][Next]_vars
-----------------------------------------------------------------------------
TypeOK ==
    /\ chunkOf \in [Keys -> Chunks \cup {None}]
    /\ value \in [Chunks -> Values \cup {None}]
    /\ deleted \in [Chunks -> BOOLEAN]
    /\ holder \in [Chunks -> Procs \cup {None}]
    /\ deviceLookup \in [Devices -> SUBSET Keys]
    /\ store \in [Keys -> Values \cup {None}]
    /\ loaded \in BOOLEAN
    /\ pc \in [Procs -> Steps]
    /\ key \in [Procs -> Keys \cup {None}]
    /\ arg \in [Procs -> Values \cup {None}]
    /\ entry \in [Procs -> Chunks \cup {None}]

\* What a user of the table can see of key k: an entry that is being created
\* or deleted is not there.
Visible(k) ==
    /\ chunkOf[k] # None
    /\ ~deleted[chunkOf[k]]
    /\ \A p \in Procs : entry[p] = chunkOf[k] => pc[p] \notin {"saving", "failed"}

Content == [k \in Keys |-> IF Visible(k) THEN value[chunkOf[k]] ELSE None]

User == [k \in Keys |-> IF \E p \in Procs : pc[p] = "using" /\ key[p] = k
                        THEN CHOOSE p \in Procs : pc[p] = "using" /\ key[p] = k
                        ELSE None]

\* Two goroutines never have a handle on the same key at once, and a handle is
\* always on the chunk that the map has for its key: nobody updates an entry
\* that has been replaced (the "deleted" check of Lock and LockOrCreate).
HandleExclusive ==
    \A p \in Procs : pc[p] = "using" =>
        /\ chunkOf[key[p]] = entry[p]
        /\ \A q \in Procs : pc[q] = "using" /\ key[q] = key[p] => q = p

\* A stored table and the KV store agree at every instant, entries that are
\* being created, updated or removed included, once Load could read the store.
StoreMatchesTable ==
    loaded => \A k \in StoredKeys : Content[k] = store[k]

\* The index by device lists exactly the logical ports of the map
\* (ListIDsForDevice and ListIDs agree), under any interleaving of creation and
\* deletion of the same port number for different devices.
LookupMatchesPorts ==
    \A d \in Devices : ListIDsForDevice(d) =
        {k \in ListIDs \cap IndexedKeys : DeviceOf[value[chunkOf[k]]] = d}

\* No path leaves a chunk locked behind it: whoever holds the lock of a chunk
\* is still in the call that will release it, or has a handle on it.  (Lock
\* takes no context, so a leaked lock would block its callers for ever.)
LocksHaveOwners ==
    \A c \in Chunks : holder[c] # None => HasLock(holder[c]) /\ entry[holder[c]] = c

Abstract == INSTANCE EntryTable WITH table <- Content, user <- User, saved <- store

\* The table looks like one with atomic operations: every creation, update and
\* removal happens at one instant or, when the store refuses it, not at all.
ImplementsEntryTable == Abstract!Spec
=============================================================================
