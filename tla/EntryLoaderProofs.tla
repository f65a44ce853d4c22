-------------------------- MODULE EntryLoaderProofs --------------------------
(***************************************************************************)
(* Proofs about EntryLoader for any number of goroutines, keys and chunks: *)
(* the inductive invariant behind the locking scheme and what follows from *)
(* it.  EntryTableProofs goes on to the refinement.                        *)
(***************************************************************************)
EXTENDS EntryLoader, TLAPS

\* A goroutine past the map lock has a key, and past the first look of
\* LockOrCreate a value to create.
LocalsOK ==
    \A p \in Procs :
        /\ pc[p] # "idle" => key[p] \in Keys
        /\ pc[p] \in {"create", "saving"} => arg[p] \in Values
        /\ pc[p] \in {"saving", "failed", "reverted"} => key[p] \in StoredKeys

\* Whoever is in a step that has the lock of a chunk does hold it.
OwnersHaveLocks ==
    \A p \in Procs : HasLock(p) => entry[p] \in Chunks /\ holder[entry[p]] = p

\* The chunk of a goroutine is in the map until the step that takes it out.
Linked ==
    \A p \in Procs :
        /\ pc[p] \in {"saving", "failed", "using", "unlinking"} => chunkOf[key[p]] = entry[p]
        /\ pc[p] \in {"reverted", "unlinked"} => \A k \in Keys : chunkOf[k] # entry[p]

Injective ==
    \A j, k \in Keys : chunkOf[j] = chunkOf[k] /\ chunkOf[k] # None => j = k

\* The flag: set in Delete before the chunk leaves the map, never on an entry
\* that can still be used.
Flags ==
    /\ \A p \in Procs : pc[p] \in {"saving", "failed", "using"} => ~deleted[entry[p]]
    /\ \A p \in Procs : pc[p] = "unlinking" => deleted[entry[p]]
    /\ \A k \in Keys : chunkOf[k] # None /\ deleted[chunkOf[k]] =>
          holder[chunkOf[k]] # None /\ pc[holder[chunkOf[k]]] = "unlinking"

\* Who waits for a chunk waits for the entry of its key, or will find the flag
\* set when it gets the lock.
WaitersWarned ==
    \A p \in Procs : pc[p] = "acquire" =>
        /\ entry[p] \in Chunks
        /\ \/ chunkOf[key[p]] = entry[p]
           \/ deleted[entry[p]]
           \/ holder[entry[p]] # None /\ pc[holder[entry[p]]] = "reverted"

ValuesOK ==
    /\ \A k \in Keys : chunkOf[k] # None => value[chunkOf[k]] \in Values
    /\ \A k \in Keys \ StoredKeys : store[k] = None
    /\ \A p \in Procs : pc[p] = "saving" => value[entry[p]] = arg[p]

LockInv ==
    /\ TypeOK /\ LocalsOK /\ OwnersHaveLocks /\ LocksHaveOwners
    /\ Linked /\ Injective /\ Flags /\ WaitersWarned /\ ValuesOK

USE ConstantsAssumption

\* The invariant holds when the core starts.
LEMMA InitLockInv == Init => LockInv
  BY DEF Init, LockInv, TypeOK, Steps, LocalsOK, OwnersHaveLocks, LocksHaveOwners,
         HasLock, Linked, Injective, Flags, WaitersWarned, ValuesOK

\* Every operation keeps the types.
LEMMA TypeStep ==
    TypeOK /\ LocalsOK /\ OwnersHaveLocks /\ WaitersWarned /\ [Next]_vars => TypeOK'
  <1> SUFFICES ASSUME TypeOK, LocalsOK, OwnersHaveLocks, WaitersWarned, [Next]_vars
               PROVE  TypeOK'
    OBVIOUS
  <1> USE DEF TypeOK, Steps, Goto, Return, chunkVars, procVars
  <1>1. ASSUME NEW p \in Procs, NEW k \in Keys, NEW v \in Values \cup {None}, Call(p, k, v)
        PROVE TypeOK'
    BY <1>1 DEF Call
  <1>2. ASSUME NEW p \in Procs, Lookup(p) PROVE TypeOK'
    BY <1>2 DEF Lookup, LocalsOK
  <1>3. ASSUME NEW p \in Procs, Acquire(p) PROVE TypeOK'
    BY <1>3 DEF Acquire, WaitersWarned
  <1>4. ASSUME NEW p \in Procs, FindAgain(p) PROVE TypeOK'
    BY <1>4 DEF FindAgain, LocalsOK
  <1>5. ASSUME NEW p \in Procs, NEW c \in Chunks, Create(p, c) PROVE TypeOK'
    BY <1>5 DEF Create, LocalsOK, AddLookup
  <1>6. ASSUME NEW p \in Procs, SaveNew(p) PROVE TypeOK'
    BY <1>6 DEF SaveNew, LocalsOK
  <1>7. ASSUME NEW p \in Procs, RevertMap(p) PROVE TypeOK'
    BY <1>7 DEF RevertMap, LocalsOK
  <1>8. ASSUME NEW p \in Procs, RevertDone(p) PROVE TypeOK'
    BY <1>8 DEF RevertDone, OwnersHaveLocks, HasLock
  <1>9. ASSUME NEW p \in Procs, NEW v \in Values, UpdateStored(p, v) PROVE TypeOK'
    BY <1>9 DEF UpdateStored
  <1>10. ASSUME NEW p \in Procs, NEW v \in Values, Update(p, v) PROVE TypeOK'
    BY <1>10 DEF Update
  <1>11. ASSUME NEW p \in Procs, DeleteStored(p) PROVE TypeOK'
    BY <1>11 DEF DeleteStored
  <1>12. ASSUME NEW p \in Procs, Delete(p) PROVE TypeOK'
    BY <1>12 DEF Delete
  <1>13. ASSUME NEW p \in Procs, Unlink(p) PROVE TypeOK'
    BY <1>13 DEF Unlink, RemoveLookup
  <1>14. ASSUME NEW p \in Procs, Unlock(p) PROVE TypeOK'
    BY <1>14 DEF Unlock
  <1>15. CASE Restart
    BY <1>15 DEF Restart
  <1>16. CASE UNCHANGED vars
    BY <1>16 DEF vars
  <1> HIDE DEF TypeOK, Steps, Goto, Return, chunkVars, procVars
  <1> QED
    BY <1>1, <1>2, <1>3, <1>4, <1>5, <1>6, <1>7, <1>8,
       <1>9, <1>10, <1>11, <1>12, <1>13, <1>14, <1>15, <1>16
    DEF Next, Step

\* A call keeps its key and its value until it returns.
LEMMA LocalsStep == TypeOK /\ LocalsOK /\ [Next]_vars => LocalsOK'
  <1> SUFFICES ASSUME TypeOK, LocalsOK, [Next]_vars PROVE LocalsOK'
    OBVIOUS
  <1> USE DEF TypeOK, Steps, Goto, Return, chunkVars, procVars, LocalsOK
  <1>1. ASSUME NEW p \in Procs, NEW k \in Keys, NEW v \in Values \cup {None}, Call(p, k, v)
        PROVE LocalsOK'
    BY <1>1 DEF Call
  <1>2. ASSUME NEW p \in Procs, Lookup(p) PROVE LocalsOK'
    BY <1>2 DEF Lookup
  <1>3. ASSUME NEW p \in Procs, Acquire(p) PROVE LocalsOK'
    BY <1>3 DEF Acquire
  <1>4. ASSUME NEW p \in Procs, FindAgain(p) PROVE LocalsOK'
    BY <1>4 DEF FindAgain
  <1>5. ASSUME NEW p \in Procs, NEW c \in Chunks, Create(p, c) PROVE LocalsOK'
    BY <1>5 DEF Create
  <1>6. ASSUME NEW p \in Procs, SaveNew(p) PROVE LocalsOK'
    BY <1>6 DEF SaveNew
  <1>7. ASSUME NEW p \in Procs, RevertMap(p) PROVE LocalsOK'
    BY <1>7 DEF RevertMap
  <1>8. ASSUME NEW p \in Procs, RevertDone(p) PROVE LocalsOK'
    BY <1>8 DEF RevertDone
  <1>9. ASSUME NEW p \in Procs, NEW v \in Values, UpdateStored(p, v) PROVE LocalsOK'
    BY <1>9 DEF UpdateStored
  <1>10. ASSUME NEW p \in Procs, NEW v \in Values, Update(p, v) PROVE LocalsOK'
    BY <1>10 DEF Update
  <1>11. ASSUME NEW p \in Procs, DeleteStored(p) PROVE LocalsOK'
    BY <1>11 DEF DeleteStored
  <1>12. ASSUME NEW p \in Procs, Delete(p) PROVE LocalsOK'
    BY <1>12 DEF Delete
  <1>13. ASSUME NEW p \in Procs, Unlink(p) PROVE LocalsOK'
    BY <1>13 DEF Unlink
  <1>14. ASSUME NEW p \in Procs, Unlock(p) PROVE LocalsOK'
    BY <1>14 DEF Unlock
  <1>15. CASE Restart
    BY <1>15 DEF Restart
  <1>16. CASE UNCHANGED vars
    BY <1>16 DEF vars
  <1> HIDE DEF TypeOK, Steps, Goto, Return, chunkVars, procVars, LocalsOK
  <1> QED
    BY <1>1, <1>2, <1>3, <1>4, <1>5, <1>6, <1>7, <1>8,
       <1>9, <1>10, <1>11, <1>12, <1>13, <1>14, <1>15, <1>16
    DEF Next, Step

\* Locks and the goroutines that hold them stay in step.
LEMMA OwnersStep == LockInv /\ [Next]_vars => (OwnersHaveLocks /\ LocksHaveOwners)'
  <1> SUFFICES ASSUME LockInv, [Next]_vars PROVE (OwnersHaveLocks /\ LocksHaveOwners)'
    OBVIOUS
  <1> USE DEF LockInv, TypeOK, Steps, Goto, Return, chunkVars, procVars,
             OwnersHaveLocks, LocksHaveOwners, HasLock
  <1>1. ASSUME NEW p \in Procs, NEW k \in Keys, NEW v \in Values \cup {None}, Call(p, k, v)
        PROVE (OwnersHaveLocks /\ LocksHaveOwners)'
    BY <1>1 DEF Call
  <1>2. ASSUME NEW p \in Procs, Lookup(p) PROVE (OwnersHaveLocks /\ LocksHaveOwners)'
    BY <1>2 DEF Lookup, LocalsOK
  <1>3. ASSUME NEW p \in Procs, Acquire(p) PROVE (OwnersHaveLocks /\ LocksHaveOwners)'
    BY <1>3 DEF Acquire, WaitersWarned
  <1>4. ASSUME NEW p \in Procs, FindAgain(p) PROVE (OwnersHaveLocks /\ LocksHaveOwners)'
    BY <1>4 DEF FindAgain, LocalsOK
  <1>5. ASSUME NEW p \in Procs, NEW c \in Chunks, Create(p, c)
        PROVE (OwnersHaveLocks /\ LocksHaveOwners)'
    BY <1>5 DEF Create, Garbage, Reaches
  <1>6. ASSUME NEW p \in Procs, SaveNew(p) PROVE (OwnersHaveLocks /\ LocksHaveOwners)'
    BY <1>6 DEF SaveNew
  <1>7. ASSUME NEW p \in Procs, RevertMap(p) PROVE (OwnersHaveLocks /\ LocksHaveOwners)'
    BY <1>7 DEF RevertMap
  <1>8. ASSUME NEW p \in Procs, RevertDone(p) PROVE (OwnersHaveLocks /\ LocksHaveOwners)'
    BY <1>8 DEF RevertDone
  <1>9. ASSUME NEW p \in Procs, NEW v \in Values, UpdateStored(p, v)
        PROVE (OwnersHaveLocks /\ LocksHaveOwners)'
    BY <1>9 DEF UpdateStored
  <1>10. ASSUME NEW p \in Procs, NEW v \in Values, Update(p, v)
         PROVE (OwnersHaveLocks /\ LocksHaveOwners)'
    BY <1>10 DEF Update
  <1>11. ASSUME NEW p \in Procs, DeleteStored(p) PROVE (OwnersHaveLocks /\ LocksHaveOwners)'
    BY <1>11 DEF DeleteStored
  <1>12. ASSUME NEW p \in Procs, Delete(p) PROVE (OwnersHaveLocks /\ LocksHaveOwners)'
    BY <1>12 DEF Delete
  <1>13. ASSUME NEW p \in Procs, Unlink(p) PROVE (OwnersHaveLocks /\ LocksHaveOwners)'
    BY <1>13 DEF Unlink
  <1>14. ASSUME NEW p \in Procs, Unlock(p) PROVE (OwnersHaveLocks /\ LocksHaveOwners)'
    BY <1>14 DEF Unlock
  <1>15. CASE Restart
    BY <1>15 DEF Restart
  <1>16. CASE UNCHANGED vars
    BY <1>16 DEF vars
  <1> HIDE DEF LockInv, TypeOK, Steps, Goto, Return, chunkVars, procVars,
              OwnersHaveLocks, LocksHaveOwners, HasLock
  <1> QED
    BY <1>1, <1>2, <1>3, <1>4, <1>5, <1>6, <1>7, <1>8,
       <1>9, <1>10, <1>11, <1>12, <1>13, <1>14, <1>15, <1>16
    DEF Next, Step

\* A chunk leaves the map only by Unlink or RevertMap of the goroutine that holds it.
LEMMA LinkedStep == LockInv /\ [Next]_vars => (Linked /\ Injective)'
  <1> SUFFICES ASSUME LockInv, [Next]_vars PROVE (Linked /\ Injective)'
    OBVIOUS
  <1> USE DEF LockInv, TypeOK, Steps, Goto, Return, chunkVars, procVars,
             LocalsOK, OwnersHaveLocks, LocksHaveOwners, HasLock, Linked, Injective
  <1>1. ASSUME NEW p \in Procs, NEW k \in Keys, NEW v \in Values \cup {None}, Call(p, k, v)
        PROVE (Linked /\ Injective)'
    BY <1>1 DEF Call
  <1>2. ASSUME NEW p \in Procs, Lookup(p) PROVE (Linked /\ Injective)'
    BY <1>2 DEF Lookup
  <1>3. ASSUME NEW p \in Procs, Acquire(p) PROVE (Linked /\ Injective)'
    BY <1>3 DEF Acquire, WaitersWarned
  <1>4. ASSUME NEW p \in Procs, FindAgain(p) PROVE (Linked /\ Injective)'
    BY <1>4 DEF FindAgain
  <1>5. ASSUME NEW p \in Procs, NEW c \in Chunks, Create(p, c) PROVE (Linked /\ Injective)'
    BY <1>5 DEF Create, Garbage, Reaches
  <1>6. ASSUME NEW p \in Procs, SaveNew(p) PROVE (Linked /\ Injective)'
    BY <1>6 DEF SaveNew
  <1>7. ASSUME NEW p \in Procs, RevertMap(p) PROVE (Linked /\ Injective)'
    BY <1>7 DEF RevertMap
  <1>8. ASSUME NEW p \in Procs, RevertDone(p) PROVE (Linked /\ Injective)'
    BY <1>8 DEF RevertDone
  <1>9. ASSUME NEW p \in Procs, NEW v \in Values, UpdateStored(p, v)
        PROVE (Linked /\ Injective)'
    BY <1>9 DEF UpdateStored
  <1>10. ASSUME NEW p \in Procs, NEW v \in Values, Update(p, v) PROVE (Linked /\ Injective)'
    BY <1>10 DEF Update
  <1>11. ASSUME NEW p \in Procs, DeleteStored(p) PROVE (Linked /\ Injective)'
    BY <1>11 DEF DeleteStored
  <1>12. ASSUME NEW p \in Procs, Delete(p) PROVE (Linked /\ Injective)'
    BY <1>12 DEF Delete
  <1>13. ASSUME NEW p \in Procs, Unlink(p) PROVE (Linked /\ Injective)'
    BY <1>13 DEF Unlink
  <1>14. ASSUME NEW p \in Procs, Unlock(p) PROVE (Linked /\ Injective)'
    BY <1>14 DEF Unlock
  <1>15. CASE Restart
    BY <1>15 DEF Restart
  <1>16. CASE UNCHANGED vars
    BY <1>16 DEF vars
  <1> HIDE DEF LockInv, TypeOK, Steps, Goto, Return, chunkVars, procVars,
              LocalsOK, OwnersHaveLocks, LocksHaveOwners, HasLock, Linked, Injective
  <1> QED
    BY <1>1, <1>2, <1>3, <1>4, <1>5, <1>6, <1>7, <1>8,
       <1>9, <1>10, <1>11, <1>12, <1>13, <1>14, <1>15, <1>16
    DEF Next, Step

\* An entry of the map is flagged only while its deletion is under way.
LEMMA FlagsStep == LockInv /\ [Next]_vars => Flags'
  <1> SUFFICES ASSUME LockInv, [Next]_vars PROVE Flags'
    OBVIOUS
  <1> USE DEF LockInv, TypeOK, Steps, Goto, Return, chunkVars, procVars,
             LocalsOK, OwnersHaveLocks, LocksHaveOwners, HasLock, Linked, Injective, Flags
  <1>1. ASSUME NEW p \in Procs, NEW k \in Keys, NEW v \in Values \cup {None}, Call(p, k, v)
        PROVE Flags'
    BY <1>1 DEF Call
  <1>2. ASSUME NEW p \in Procs, Lookup(p) PROVE Flags'
    BY <1>2 DEF Lookup
  <1>3. ASSUME NEW p \in Procs, Acquire(p) PROVE Flags'
    BY <1>3 DEF Acquire, WaitersWarned
  <1>4. ASSUME NEW p \in Procs, FindAgain(p) PROVE Flags'
    BY <1>4 DEF FindAgain
  <1>5. ASSUME NEW p \in Procs, NEW c \in Chunks, Create(p, c) PROVE Flags'
    BY <1>5 DEF Create, Garbage, Reaches
  <1>6. ASSUME NEW p \in Procs, SaveNew(p) PROVE Flags'
    BY <1>6 DEF SaveNew
  <1>7. ASSUME NEW p \in Procs, RevertMap(p) PROVE Flags'
    BY <1>7 DEF RevertMap
  <1>8. ASSUME NEW p \in Procs, RevertDone(p) PROVE Flags'
    BY <1>8 DEF RevertDone
  <1>9. ASSUME NEW p \in Procs, NEW v \in Values, UpdateStored(p, v) PROVE Flags'
    BY <1>9 DEF UpdateStored
  <1>10. ASSUME NEW p \in Procs, NEW v \in Values, Update(p, v) PROVE Flags'
    BY <1>10 DEF Update
  <1>11. ASSUME NEW p \in Procs, DeleteStored(p) PROVE Flags'
    BY <1>11 DEF DeleteStored
  <1>12. ASSUME NEW p \in Procs, Delete(p) PROVE Flags'
    BY <1>12 DEF Delete
  <1>13. ASSUME NEW p \in Procs, Unlink(p) PROVE Flags'
    BY <1>13 DEF Unlink
  <1>14. ASSUME NEW p \in Procs, Unlock(p) PROVE Flags'
    BY <1>14 DEF Unlock
  <1>15. CASE Restart
    BY <1>15 DEF Restart
  <1>16. CASE UNCHANGED vars
    BY <1>16 DEF vars
  <1> HIDE DEF LockInv, TypeOK, Steps, Goto, Return, chunkVars, procVars,
              LocalsOK, OwnersHaveLocks, LocksHaveOwners, HasLock, Linked, Injective, Flags
  <1> QED
    BY <1>1, <1>2, <1>3, <1>4, <1>5, <1>6, <1>7, <1>8,
       <1>9, <1>10, <1>11, <1>12, <1>13, <1>14, <1>15, <1>16
    DEF Next, Step

\* A chunk that leaves the map is flagged before its lock is free again.
LEMMA WaitersStep == LockInv /\ [Next]_vars => WaitersWarned'
  <1> SUFFICES ASSUME LockInv, [Next]_vars PROVE WaitersWarned'
    OBVIOUS
  <1> USE DEF LockInv, TypeOK, Steps, Goto, Return, chunkVars, procVars,
             LocalsOK, OwnersHaveLocks, LocksHaveOwners, HasLock, WaitersWarned
  <1>1. ASSUME NEW p \in Procs, NEW k \in Keys, NEW v \in Values \cup {None}, Call(p, k, v)
        PROVE WaitersWarned'
    BY <1>1 DEF Call
  <1>2. ASSUME NEW p \in Procs, Lookup(p) PROVE WaitersWarned'
    BY <1>2 DEF Lookup
  <1>3. ASSUME NEW p \in Procs, Acquire(p) PROVE WaitersWarned'
    BY <1>3 DEF Acquire
  <1>4. ASSUME NEW p \in Procs, FindAgain(p) PROVE WaitersWarned'
    BY <1>4 DEF FindAgain
  <1>5. ASSUME NEW p \in Procs, NEW c \in Chunks, Create(p, c) PROVE WaitersWarned'
    BY <1>5 DEF Create, Garbage, Reaches
  <1>6. ASSUME NEW p \in Procs, SaveNew(p) PROVE WaitersWarned'
    BY <1>6 DEF SaveNew
  <1>7. ASSUME NEW p \in Procs, RevertMap(p) PROVE WaitersWarned'
    BY <1>7 DEF RevertMap, Linked
  <1>8. ASSUME NEW p \in Procs, RevertDone(p) PROVE WaitersWarned'
    BY <1>8 DEF RevertDone
  <1>9. ASSUME NEW p \in Procs, NEW v \in Values, UpdateStored(p, v) PROVE WaitersWarned'
    BY <1>9 DEF UpdateStored
  <1>10. ASSUME NEW p \in Procs, NEW v \in Values, Update(p, v) PROVE WaitersWarned'
    BY <1>10 DEF Update
  <1>11. ASSUME NEW p \in Procs, DeleteStored(p) PROVE WaitersWarned'
    BY <1>11 DEF DeleteStored
  <1>12. ASSUME NEW p \in Procs, Delete(p) PROVE WaitersWarned'
    BY <1>12 DEF Delete
  <1>13. ASSUME NEW p \in Procs, Unlink(p) PROVE WaitersWarned'
    BY <1>13 DEF Unlink, Flags, Linked
  <1>14. ASSUME NEW p \in Procs, Unlock(p) PROVE WaitersWarned'
    BY <1>14 DEF Unlock
  <1>15. CASE Restart
    BY <1>15 DEF Restart
  <1>16. CASE UNCHANGED vars
    BY <1>16 DEF vars
  <1> HIDE DEF LockInv, TypeOK, Steps, Goto, Return, chunkVars, procVars,
              LocalsOK, OwnersHaveLocks, LocksHaveOwners, HasLock, WaitersWarned
  <1> QED
    BY <1>1, <1>2, <1>3, <1>4, <1>5, <1>6, <1>7, <1>8,
       <1>9, <1>10, <1>11, <1>12, <1>13, <1>14, <1>15, <1>16
    DEF Next, Step

\* Entries have values, and only stored loaders write the store.
LEMMA ValuesStep == LockInv /\ [Next]_vars => ValuesOK'
  <1> SUFFICES ASSUME LockInv, [Next]_vars PROVE ValuesOK'
    OBVIOUS
  <1> USE DEF LockInv, TypeOK, Steps, Goto, Return, chunkVars, procVars,
             LocalsOK, OwnersHaveLocks, LocksHaveOwners, HasLock, ValuesOK
  <1>1. ASSUME NEW p \in Procs, NEW k \in Keys, NEW v \in Values \cup {None}, Call(p, k, v)
        PROVE ValuesOK'
    BY <1>1 DEF Call
  <1>2. ASSUME NEW p \in Procs, Lookup(p) PROVE ValuesOK'
    BY <1>2 DEF Lookup
  <1>3. ASSUME NEW p \in Procs, Acquire(p) PROVE ValuesOK'
    BY <1>3 DEF Acquire
  <1>4. ASSUME NEW p \in Procs, FindAgain(p) PROVE ValuesOK'
    BY <1>4 DEF FindAgain
  <1>5. ASSUME NEW p \in Procs, NEW c \in Chunks, Create(p, c) PROVE ValuesOK'
    BY <1>5 DEF Create, Garbage, Reaches
  <1>6. ASSUME NEW p \in Procs, SaveNew(p) PROVE ValuesOK'
    BY <1>6 DEF SaveNew
  <1>7. ASSUME NEW p \in Procs, RevertMap(p) PROVE ValuesOK'
    BY <1>7 DEF RevertMap
  <1>8. ASSUME NEW p \in Procs, RevertDone(p) PROVE ValuesOK'
    BY <1>8 DEF RevertDone
  <1>9. ASSUME NEW p \in Procs, NEW v \in Values, UpdateStored(p, v) PROVE ValuesOK'
    BY <1>9 DEF UpdateStored, Linked
  <1>10. ASSUME NEW p \in Procs, NEW v \in Values, Update(p, v) PROVE ValuesOK'
    BY <1>10 DEF Update, Linked
  <1>11. ASSUME NEW p \in Procs, DeleteStored(p) PROVE ValuesOK'
    BY <1>11 DEF DeleteStored
  <1>12. ASSUME NEW p \in Procs, Delete(p) PROVE ValuesOK'
    BY <1>12 DEF Delete
  <1>13. ASSUME NEW p \in Procs, Unlink(p) PROVE ValuesOK'
    BY <1>13 DEF Unlink
  <1>14. ASSUME NEW p \in Procs, Unlock(p) PROVE ValuesOK'
    BY <1>14 DEF Unlock
  <1>15. CASE Restart
    BY <1>15 DEF Restart
  <1>16. CASE UNCHANGED vars
    BY <1>16 DEF vars
  <1> HIDE DEF LockInv, TypeOK, Steps, Goto, Return, chunkVars, procVars,
              LocalsOK, OwnersHaveLocks, LocksHaveOwners, HasLock, ValuesOK
  <1> QED
    BY <1>1, <1>2, <1>3, <1>4, <1>5, <1>6, <1>7, <1>8,
       <1>9, <1>10, <1>11, <1>12, <1>13, <1>14, <1>15, <1>16
    DEF Next, Step

\* The conjuncts above together are inductive.
LEMMA LockInvStep == LockInv /\ [Next]_vars => LockInv'
  <1> SUFFICES ASSUME LockInv, [Next]_vars PROVE LockInv'
    OBVIOUS
  <1>1. TypeOK' /\ LocalsOK'
    BY TypeStep, LocalsStep DEF LockInv
  <1>2. (OwnersHaveLocks /\ LocksHaveOwners)' /\ (Linked /\ Injective)'
    BY OwnersStep, LinkedStep
  <1>3. Flags' /\ WaitersWarned' /\ ValuesOK'
    BY FlagsStep, WaitersStep, ValuesStep
  <1> QED
    BY <1>1, <1>2, <1>3 DEF LockInv

\* Every reachable state satisfies the locking invariant.
THEOREM LocksCorrect == Spec => []LockInv
  <1>1. LockInv /\ [Next]_vars => LockInv'
    BY LockInvStep
  <1> QED
    BY InitLockInv, <1>1, PTL DEF Spec

\* At most one goroutine has a handle on a key, and only on its current chunk.
THEOREM HandlesExclusive == Spec => []HandleExclusive
  <1>1. LockInv => HandleExclusive
    BY DEF LockInv, TypeOK, LocalsOK, OwnersHaveLocks, HasLock, Linked, HandleExclusive
  <1> QED
    BY LocksCorrect, <1>1, PTL

\* No chunk stays locked by a goroutine that has moved on.
THEOREM NoLeakedLocks == Spec => []LocksHaveOwners
  <1>1. LockInv => LocksHaveOwners
    BY DEF LockInv
  <1> QED
    BY LocksCorrect, <1>1, PTL
=============================================================================
