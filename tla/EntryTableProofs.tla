-------------------------- MODULE EntryTableProofs --------------------------
(***************************************************************************)
(* EntryLoader implements EntryTable, and a stored table agrees with the   *)
(* store, for any number of goroutines, keys and chunks.  The steps that   *)
(* EntryTableSteps does not treat come first.                              *)
(***************************************************************************)
EXTENDS EntryTableSteps

USE ConstantsAssumption

\* A stored creation takes effect when the store accepts it.
LEMMA SaveMaps ==
    ASSUME LockInv, UserDef, UserDef', NEW p \in Procs, SaveNew(p)
    PROVE  Unseen \/ Abstract!Create(p, key[p], arg[p])
  <1> USE DEF LockInv, TypeOK, LocalsOK, Goto, Return, chunkVars
  <1>k. PICK k \in Keys : k = key[p]
    BY DEF SaveNew
  <1>1. /\ k \in StoredKeys /\ k \in Keys /\ arg[p] \in Values
        /\ chunkOf[k] = entry[p] /\ entry[p] \in Chunks /\ holder[entry[p]] = p
        /\ value[entry[p]] = arg[p] /\ ~deleted[entry[p]]
    BY <1>k DEF SaveNew, Linked, OwnersHaveLocks, HasLock, ValuesOK, Flags
  <1>2. ~Visible(k)
    BY <1>k, <1>1 DEF SaveNew, Visible
  <1>3. \A q \in Procs : ~Uses(q, k)
    BY <1>k, <1>1 DEF SaveNew, Uses, Linked, OwnersHaveLocks, HasLock
  <1>4. \A j \in Keys \ {k} : Visible(j)' <=> Visible(j)
    BY <1>k, <1>1 DEF SaveNew, Visible, Injective
  <1>5. \A q \in Procs, j \in Keys \ {k} : Uses(q, j)' <=> Uses(q, j)
    BY <1>k DEF SaveNew, Uses
  <1>6. CASE store' = store /\ pc' = [pc EXCEPT ![p] = "failed"]
    <2>1. ~Visible(k)'
      BY <1>k, <1>1, <1>6 DEF SaveNew, Visible
    <2>2. Content' = Content
      BY <1>k, <1>2, <1>4, <2>1, ContentSame DEF SaveNew
    <2>3. User' = User
      BY <1>k, <1>6, UserSame DEF SaveNew, Uses
    <2> QED
      BY <1>k, <1>6, <2>2, <2>3 DEF Unseen
  <1>7. CASE store' = [store EXCEPT ![k] = arg[p]] /\ pc' = [pc EXCEPT ![p] = "using"]
    <2>1. Visible(k)'
      BY <1>k, <1>1, <1>7 DEF SaveNew, Visible, OwnersHaveLocks, HasLock
    <2>2. Content'[k] = arg[p]
      BY <1>k, <1>1, <2>1 DEF Content, SaveNew
    <2>3. Content' = [Content EXCEPT ![k] = arg[p]]
      BY <1>k, <1>1, <1>4, <2>2, ContentChanges DEF SaveNew
    <2>4. \A q \in Procs : Uses(q, k)' <=> q = p
      BY <1>k, <1>1, <1>3, <1>7 DEF SaveNew, Uses
    <2>5. User' = [User EXCEPT ![k] = p]
      BY <1>k, <1>1, <1>5, <2>4, UserChanges
    <2>6. User[k] = None /\ Content[k] = None
      BY <1>k, <1>1, <1>2, <1>3 DEF UserDef, Uses, Content
    <2> QED
      BY <1>k, <1>1, <1>7, <2>3, <2>5, <2>6 DEF Abstract!Create, Abstract!Put
  <1> QED
    BY <1>k, <1>6, <1>7 DEF SaveNew

\* What a goroutine with a handle knows.
LEMMA UsingFacts ==
    ASSUME LockInv, UserDef, NEW p \in Procs, pc[p] = "using"
    PROVE  /\ key[p] \in Keys /\ chunkOf[key[p]] = entry[p] /\ entry[p] \in Chunks
           /\ Visible(key[p]) /\ User[key[p]] = p
           /\ \A q \in Procs : Uses(q, key[p]) <=> q = p
           /\ \A j \in Keys \ {key[p]} : chunkOf[j] # entry[p]
  <1> USE DEF LockInv, TypeOK, LocalsOK
  <1>1. key[p] \in Keys /\ chunkOf[key[p]] = entry[p] /\ entry[p] \in Chunks /\ holder[entry[p]] = p
    BY DEF Linked, OwnersHaveLocks, HasLock
  <1>2. Visible(key[p])
    BY <1>1 DEF Visible, Flags, OwnersHaveLocks, HasLock
  <1>3. User[key[p]] = p
    BY <1>1 DEF UserDef
  <1>4. \A q \in Procs : Uses(q, key[p]) <=> q = p
    BY <1>1, <1>3 DEF UserDef, Uses
  <1>5. \A j \in Keys \ {key[p]} : chunkOf[j] # entry[p]
    BY <1>1 DEF Injective
  <1> QED
    BY <1>1, <1>2, <1>3, <1>4, <1>5

\* An update is one step of the table.
LEMMA UpdateMaps ==
    ASSUME LockInv, UserDef, UserDef', NEW p \in Procs, NEW v \in Values, UpdateStored(p, v) \/ Update(p, v)
    PROVE  Abstract!Update(p, key[p], v)
  <1> USE DEF LockInv, TypeOK, LocalsOK, procVars
  <1>k. PICK k \in Keys : k = key[p]
    BY DEF UpdateStored, Update
  <1>1. /\ pc[p] = "using" /\ value' = [value EXCEPT ![entry[p]] = v]
        /\ UNCHANGED <<chunkOf, deleted, holder, pc, key, arg, entry>>
    BY <1>k DEF UpdateStored, Update
  <1>2. /\ k \in Keys /\ chunkOf[k] = entry[p] /\ entry[p] \in Chunks
        /\ Visible(k) /\ User[k] = p /\ \A j \in Keys \ {k} : chunkOf[j] # entry[p]
    BY <1>k, <1>1, UsingFacts
  <1>3. User' = User
    BY <1>k, <1>1, UserSame DEF Uses
  <1>4. \A j \in Keys : Visible(j)' <=> Visible(j)
    BY <1>k, <1>1 DEF Visible
  <1>5. Content'[k] = v
    BY <1>k, <1>1, <1>2, <1>4 DEF Content
  <1>6. \A j \in Keys \ {k} : Visible(j) => value'[chunkOf'[j]] = value[chunkOf[j]]
    BY <1>k, <1>1, <1>2
  <1>7. Content' = [Content EXCEPT ![k] = v]
    BY <1>k, <1>2, <1>4, <1>5, <1>6, ContentChanges
  <1> QED
    BY <1>k, <1>2, <1>3, <1>7 DEF Abstract!Update, Abstract!Put, UpdateStored, Update

\* A removal takes effect when the flag is set.
LEMMA DeleteMaps ==
    ASSUME LockInv, UserDef, UserDef', NEW p \in Procs, DeleteStored(p) \/ Delete(p)
    PROVE  Abstract!Delete(p, key[p])
  <1> USE DEF LockInv, TypeOK, LocalsOK, Goto
  <1>k. PICK k \in Keys : k = key[p]
    BY DEF DeleteStored, Delete
  <1>1. /\ pc[p] = "using" /\ pc' = [pc EXCEPT ![p] = "unlinking"]
        /\ deleted' = [deleted EXCEPT ![entry[p]] = TRUE]
        /\ UNCHANGED <<chunkOf, value, holder, key, entry>>
    BY <1>k DEF DeleteStored, Delete
  <1>2. /\ k \in Keys /\ chunkOf[k] = entry[p] /\ entry[p] \in Chunks
        /\ Visible(k) /\ User[k] = p /\ \A j \in Keys \ {k} : chunkOf[j] # entry[p]
        /\ \A q \in Procs : Uses(q, k) <=> q = p
    BY <1>k, <1>1, UsingFacts
  <1>3. \A j \in Keys \ {k} : Visible(j)' <=> Visible(j)
    BY <1>k, <1>1, <1>2 DEF Visible
  <1>4. Content'[k] = None
    BY <1>k, <1>1, <1>2 DEF Content, Visible
  <1>5. Content' = [Content EXCEPT ![k] = None]
    BY <1>k, <1>1, <1>2, <1>3, <1>4, ContentChanges
  <1>6. User' = [User EXCEPT ![k] = None]
    BY <1>k, <1>1, <1>2, UserChanges DEF Uses
  <1> QED
    BY <1>k, <1>2, <1>5, <1>6 DEF Abstract!Delete, Abstract!Put, DeleteStored, Delete

\* Unlock frees the key; at the end of Delete it is invisible.
LEMMA UnlockMaps ==
    ASSUME LockInv, UserDef, UserDef', NEW p \in Procs, Unlock(p)
    PROVE  Unseen \/ Abstract!Unlock(p, key[p])
  <1> USE DEF LockInv, TypeOK, LocalsOK, Return
  <1>1. Content' = Content
    BY ContentSame DEF Unlock, Visible
  <1>2. CASE pc[p] = "unlinked"
    <2>1. User' = User
      BY <1>2, UserSame DEF Unlock, Uses
    <2> QED
      BY <1>1, <2>1 DEF Unseen, Unlock
  <1>3. CASE pc[p] = "using"
    <2>1. /\ key[p] \in Keys /\ User[key[p]] = p
          /\ \A q \in Procs : Uses(q, key[p]) <=> q = p
      BY <1>3, UsingFacts
    <2>2. User' = [User EXCEPT ![key[p]] = None]
      BY <1>3, <2>1, UserChanges DEF Unlock, Uses
    <2> QED
      BY <1>1, <2>1, <2>2 DEF Abstract!Unlock, Unlock
  <1> QED
    BY <1>2, <1>3 DEF Unlock

\* What Load leaves in the table: the stored entries, or none.
LEMMA LoadedContent ==
    ASSUME LockInv, Restart, NEW k \in Keys
    PROVE  Content'[k] = IF loaded' THEN store[k] ELSE None
  <1>1. PICK m \in [Keys -> Chunks \cup {None}] :
          /\ (m[k] # None) <=> (loaded' /\ store[k] # None)
          /\ \A j \in Keys : m[j] = m[k] /\ m[k] # None => j = k
          /\ chunkOf' = m
          /\ value' = [c \in Chunks |-> IF \E j \in Keys : m[j] = c
                                        THEN store[CHOOSE j \in Keys : m[j] = c] ELSE None]
    BY DEF Restart
  <1>2. Visible(k)' <=> m[k] # None
    BY <1>1 DEF Restart, Visible
  <1>3. ASSUME m[k] # None PROVE value'[m[k]] = store[k]
    <2>1. (CHOOSE j \in Keys : m[j] = m[k]) = k
      BY <1>1, <1>3
    <2>2. value'[m[k]] = store[CHOOSE j \in Keys : m[j] = m[k]]
      BY <1>1, <1>3
    <2> QED
      BY <2>1, <2>2, Zenon
  <1> QED
    BY <1>1, <1>2, <1>3 DEF Content

\* A restart brings back the stored entries, or none.
LEMMA RestartMaps ==
    ASSUME LockInv, Restart PROVE Abstract!Restart
  <1>1. User' = [k \in Keys |-> None]
    BY DEF Restart, User
  <1>2. \A k \in Keys : Content'[k] = IF loaded' THEN store[k] ELSE None
    BY LoadedContent
  <1>3. store = [k \in Keys |-> store[k]] /\ Content' = [k \in Keys |-> Content'[k]]
    BY DEF LockInv, TypeOK, Content
  <1>4. Content' = store \/ Content' = [k \in Keys |-> None]
    BY <1>2, <1>3
  <1> QED
    BY <1>1, <1>4 DEF Abstract!Restart, Restart

\* A step of EntryTable other than its Restart.
TableStep ==
    \E p \in Procs, k \in Keys :
        \/ Abstract!Lock(p, k) \/ Abstract!Delete(p, k) \/ Abstract!Unlock(p, k)
        \/ \E v \in Values : Abstract!Create(p, k, v) \/ Abstract!Update(p, k, v)

\* Every step of a goroutine is a step of the table or invisible.
LEMMA ProcMaps ==
    ASSUME LockInv, UserDef, UserDef', NEW p \in Procs, Step(p) PROVE TableStep \/ Unseen
  <1>1. ASSUME NEW k \in Keys, NEW v \in Values \cup {None}, Call(p, k, v) PROVE Unseen
    BY <1>1, CallUnseen
  <1>2. CASE Lookup(p) \/ FindAgain(p) \/ RevertMap(p) \/ RevertDone(p) \/ Unlink(p)
    BY <1>2, LookupUnseen, RevertUnseen, UnlinkUnseen
  <1>3. CASE Acquire(p)
    <2>1. key[p] \in Keys
      BY <1>3 DEF Acquire, LockInv, LocalsOK
    <2> QED
      BY <1>3, <2>1, AcquireMaps DEF TableStep
  <1>4. ASSUME NEW c \in Chunks, Create(p, c) PROVE TableStep \/ Unseen
    <2>1. key[p] \in Keys /\ arg[p] \in Values
      BY <1>4 DEF Create, LockInv, LocalsOK
    <2> QED
      BY <1>4, <2>1, CreateMaps DEF TableStep
  <1>5. CASE SaveNew(p)
    <2>1. key[p] \in Keys /\ arg[p] \in Values
      BY <1>5 DEF SaveNew, LockInv, LocalsOK
    <2> QED
      BY <1>5, <2>1, SaveMaps DEF TableStep
  <1>6. ASSUME NEW v \in Values, UpdateStored(p, v) \/ Update(p, v)
        PROVE TableStep \/ Unseen
    <2>1. key[p] \in Keys
      BY <1>6 DEF UpdateStored, Update, LockInv, LocalsOK
    <2> QED
      BY <1>6, <2>1, UpdateMaps DEF TableStep
  <1>7. CASE DeleteStored(p) \/ Delete(p)
    <2>1. key[p] \in Keys
      BY <1>7 DEF DeleteStored, Delete, LockInv, LocalsOK
    <2> QED
      BY <1>7, <2>1, DeleteMaps DEF TableStep
  <1>8. CASE Unlock(p)
    <2>1. key[p] \in Keys
      BY <1>8 DEF Unlock, LockInv, LocalsOK
    <2> QED
      BY <1>8, <2>1, UnlockMaps DEF TableStep
  <1> QED
    BY <1>1, <1>2, <1>3, <1>4, <1>5, <1>6, <1>7, <1>8 DEF Step

\* A step that changes nothing is invisible.
LEMMA StutterMaps == ASSUME UNCHANGED vars PROVE Unseen
  BY DEF vars, Content, Visible, User, Unseen

\* Every step is one of EntryTable or a stutter.
LEMMA StepMaps == LockInv /\ LockInv' /\ [Next]_vars => [Abstract!Next]_Abstract!vars
  <1> SUFFICES ASSUME LockInv, LockInv', [Next]_vars PROVE [Abstract!Next]_Abstract!vars
    OBVIOUS
  <1>1. Unseen => Abstract!vars' = Abstract!vars
    BY DEF Unseen, Abstract!vars
  <1>2. TableStep => Abstract!Next
    BY DEF TableStep, Abstract!Next
  <1>3. CASE Restart
    BY <1>3, RestartMaps DEF Abstract!Next
  <1> QED
    BY <1>1, <1>2, <1>3, ProcMaps, StutterMaps, UserIsHolder, UserIsHolderNext DEF Next

\* Every behaviour of the table is one of EntryTable: creation, update, removal
\* and locking look atomic to the agents.
THEOREM Refinement == Spec => ImplementsEntryTable
  <1>1. Init => Abstract!Init
    BY DEF Init, Abstract!Init, Content, User, Visible
  <1>2. LockInv /\ LockInv' /\ [Next]_vars => [Abstract!Next]_Abstract!vars
    BY StepMaps
  <1> QED
    BY LocksCorrect, <1>1, <1>2, PTL DEF Spec, ImplementsEntryTable, Abstract!Spec

\* In a core that could read the store, table and store agree at every instant.
THEOREM StoreAgrees == Spec => []StoreMatchesTable
  <1>1. Init => StoreMatchesTable
    BY DEF Init, StoreMatchesTable, Content, Visible
  <1>2. LockInv /\ LockInv' /\ StoreMatchesTable /\ [Next]_vars => StoreMatchesTable'
    <2> SUFFICES ASSUME LockInv, LockInv', StoreMatchesTable, [Next]_vars PROVE StoreMatchesTable'
      OBVIOUS
    <2>1. CASE Restart
      <3>1. \A k \in StoredKeys : Content'[k] = IF loaded' THEN store'[k] ELSE None
        BY <2>1, LoadedContent DEF Restart
      <3> QED
        BY <3>1 DEF StoreMatchesTable
    <2>2. CASE ~Restart
      <3>1. loaded' = loaded
        BY <2>2 DEF Next, Step, vars, Call, Lookup, Acquire, FindAgain, Create, SaveNew,
           RevertMap, RevertDone, UpdateStored, Update, DeleteStored, Delete, Unlink, Unlock
      <3>2. TableStep \/ Unseen
        BY <2>2, ProcMaps, StutterMaps, UserIsHolder, UserIsHolderNext DEF Next
      <3>3. ASSUME NEW k \in StoredKeys, Content[k] = store[k] PROVE Content'[k] = store'[k]
        <4>0. DOMAIN Content = Keys /\ DOMAIN store = Keys
          BY DEF Content, LockInv, TypeOK
        <4>1. ASSUME NEW j \in Keys, NEW v, Abstract!Put(j, v) PROVE Content'[k] = store'[k]
          BY <3>3, <4>0, <4>1 DEF Abstract!Put
        <4>2. CASE Content' = Content /\ store' = store
          BY <3>3, <4>2
        <4> QED
          BY <3>2, <4>1, <4>2
          DEF TableStep, Unseen, Abstract!Lock, Abstract!Create, Abstract!Update,
              Abstract!Delete, Abstract!Unlock
      <3> QED
        BY <3>1, <3>3 DEF StoreMatchesTable
    <2> QED
      BY <2>1, <2>2
  <1> QED
    BY LocksCorrect, <1>1, <1>2, PTL DEF Spec

\* The index changes with the map, in the same critical section.
LEMMA LookupStep == LockInv /\ LookupMatchesPorts /\ [Next]_vars => LookupMatchesPorts'
  <1> SUFFICES ASSUME LockInv, LookupMatchesPorts, [Next]_vars PROVE LookupMatchesPorts'
    OBVIOUS
  <1> USE DEF LockInv, TypeOK, Steps, Goto, Return, chunkVars, procVars,
             LocalsOK, LookupMatchesPorts, ListIDs, ListIDsForDevice
  <1>1. ASSUME NEW p \in Procs, NEW k \in Keys, NEW v \in Values \cup {None}, Call(p, k, v)
        PROVE LookupMatchesPorts'
    BY <1>1 DEF Call
  <1>2. ASSUME NEW p \in Procs, Lookup(p) PROVE LookupMatchesPorts'
    BY <1>2 DEF Lookup
  <1>3. ASSUME NEW p \in Procs, Acquire(p) PROVE LookupMatchesPorts'
    BY <1>3 DEF Acquire
  <1>4. ASSUME NEW p \in Procs, FindAgain(p) PROVE LookupMatchesPorts'
    BY <1>4 DEF FindAgain
  <1>5. ASSUME NEW p \in Procs, NEW c \in Chunks, Create(p, c) PROVE LookupMatchesPorts'
    BY <1>5 DEF Create, Garbage, Reaches, AddLookup
  <1>6. ASSUME NEW p \in Procs, SaveNew(p) PROVE LookupMatchesPorts'
    BY <1>6 DEF SaveNew
  <1>7. ASSUME NEW p \in Procs, RevertMap(p) PROVE LookupMatchesPorts'
    BY <1>7 DEF RevertMap
  <1>8. ASSUME NEW p \in Procs, RevertDone(p) PROVE LookupMatchesPorts'
    BY <1>8 DEF RevertDone
  <1>9. ASSUME NEW p \in Procs, NEW v \in Values, UpdateStored(p, v)
        PROVE LookupMatchesPorts'
    BY <1>9 DEF UpdateStored, Linked, Injective
  <1>10. ASSUME NEW p \in Procs, NEW v \in Values, Update(p, v) PROVE LookupMatchesPorts'
    BY <1>10 DEF Update, Linked, Injective
  <1>11. ASSUME NEW p \in Procs, DeleteStored(p) PROVE LookupMatchesPorts'
    BY <1>11 DEF DeleteStored
  <1>12. ASSUME NEW p \in Procs, Delete(p) PROVE LookupMatchesPorts'
    BY <1>12 DEF Delete
  <1>13. ASSUME NEW p \in Procs, Unlink(p) PROVE LookupMatchesPorts'
    BY <1>13 DEF Unlink, RemoveLookup, Linked, Injective, ValuesOK
  <1>14. ASSUME NEW p \in Procs, Unlock(p) PROVE LookupMatchesPorts'
    BY <1>14 DEF Unlock
  <1>15. CASE Restart
    BY <1>15 DEF Restart, ValuesOK
  <1>16. CASE UNCHANGED vars
    BY <1>16 DEF vars
  <1> HIDE DEF LockInv, TypeOK, Steps, Goto, Return, chunkVars, procVars,
              LocalsOK, LookupMatchesPorts, ListIDs, ListIDsForDevice
  <1> QED
    BY <1>1, <1>2, <1>3, <1>4, <1>5, <1>6, <1>7, <1>8,
       <1>9, <1>10, <1>11, <1>12, <1>13, <1>14, <1>15, <1>16
    DEF Next, Step

\* The index of the logical-port loader always lists what the map holds.
THEOREM IndexCorrect == Spec => []LookupMatchesPorts
  <1>1. Init => LookupMatchesPorts
    BY DEF Init, LookupMatchesPorts, ListIDs, ListIDsForDevice
  <1>2. LockInv /\ LookupMatchesPorts /\ [Next]_vars => LookupMatchesPorts'
    BY LookupStep
  <1> QED
    BY LocksCorrect, <1>1, <1>2, PTL DEF Spec
=============================================================================
