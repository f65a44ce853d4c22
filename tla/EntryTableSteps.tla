-------------------------- MODULE EntryTableSteps --------------------------
(***************************************************************************)
(* How the user and the content of a key, as EntryTable sees them, change  *)
(* in the steps of EntryLoader up to the creation of an entry.             *)
(***************************************************************************)
EXTENDS EntryLoaderProofs

USE ConstantsAssumption

(* The refinement.  The user of a key is the goroutine that has a handle   *)
(* on it; HandleExclusive makes it unique.                                 *)

UserDef ==
    \A k \in Keys :
        /\ \A p \in Procs : User[k] = p <=> (pc[p] = "using" /\ key[p] = k)
        /\ User[k] # None => User[k] \in Procs

\* The user of a key is the one goroutine that has a handle on it.
LEMMA UserIsHolder == LockInv => UserDef
  <1> SUFFICES ASSUME LockInv, NEW k \in Keys
               PROVE /\ \A p \in Procs : User[k] = p <=> (pc[p] = "using" /\ key[p] = k)
                     /\ User[k] # None => User[k] \in Procs
    BY DEF UserDef
  <1> DEFINE Uses(p) == pc[p] = "using" /\ key[p] = k
  <1>1. \A p, q \in Procs : Uses(p) /\ Uses(q) => p = q
    BY DEF LockInv, LocalsOK, OwnersHaveLocks, HasLock, Linked
  <1>2. CASE \E p \in Procs : Uses(p)
    <2>1. PICK p \in Procs : Uses(p)
      BY <1>2
    <2>2. User[k] = CHOOSE q \in Procs : Uses(q)
      BY <1>2 DEF User
    <2>3. User[k] \in Procs /\ Uses(User[k])
      BY <1>2, <2>2
    <2> QED
      BY <1>1, <2>1, <2>3
  <1>3. CASE ~\E p \in Procs : Uses(p)
    BY <1>3 DEF User
  <1> QED
    BY <1>2, <1>3

\* The same, after the step.
LEMMA UserIsHolderNext == LockInv' => UserDef'
  BY UserIsHolder, PTL

Uses(p, k) == pc[p] = "using" /\ key[p] = k

\* A step that gives or takes no handle changes no user.
LEMMA UserSame ==
    ASSUME UserDef, UserDef', \A p \in Procs, k \in Keys : Uses(p, k)' <=> Uses(p, k)
    PROVE  User' = User
  <1>1. ASSUME NEW k \in Keys PROVE User'[k] = User[k]
    BY DEF UserDef, Uses
  <1> QED
    BY <1>1 DEF User

\* A step that gives or takes a handle on k changes the user of k only.
LEMMA UserChanges ==
    ASSUME UserDef, UserDef', NEW k \in Keys, NEW u \in Procs \cup {None},
           \A p \in Procs, j \in Keys \ {k} : Uses(p, j)' <=> Uses(p, j),
           \A p \in Procs : Uses(p, k)' <=> p = u
    PROVE  User' = [User EXCEPT ![k] = u]
  <1>1. ASSUME NEW j \in Keys PROVE User'[j] = IF j = k THEN u ELSE User[j]
    BY DEF UserDef, Uses
  <1> QED
    BY <1>1, Zenon DEF User

\* The content is the same when the same entries are visible with the same values.
LEMMA ContentSame ==
    ASSUME \A k \in Keys : Visible(k)' <=> Visible(k),
           \A k \in Keys : Visible(k) => value'[chunkOf'[k]] = value[chunkOf[k]]
    PROVE  Content' = Content
  BY DEF Content

\* The content changes at k only when nothing else becomes visible or invisible.
LEMMA ContentChanges ==
    ASSUME NEW k \in Keys, NEW v,
           \A j \in Keys \ {k} : Visible(j)' <=> Visible(j),
           \A j \in Keys \ {k} : Visible(j) => value'[chunkOf'[j]] = value[chunkOf[j]],
           Content'[k] = v
    PROVE  Content' = [Content EXCEPT ![k] = v]
  BY Zenon DEF Content

Unseen == Content' = Content /\ User' = User /\ store' = store

\* A call that begins is invisible.
LEMMA CallUnseen ==
    ASSUME LockInv, UserDef, UserDef', NEW p \in Procs, NEW k \in Keys, NEW v \in Values \cup {None},
           Call(p, k, v)
    PROVE  Unseen
  <1> USE DEF LockInv, TypeOK, LocalsOK, Goto, Return, chunkVars
  <1>1. User' = User
    BY UserSame DEF Call, Uses
  <1>2. Content' = Content
    BY ContentSame DEF Call, Visible
  <1> QED
    BY <1>1, <1>2 DEF Unseen, Call

\* Reading the map is invisible.
LEMMA LookupUnseen ==
    ASSUME LockInv, UserDef, UserDef', NEW p \in Procs, Lookup(p) \/ FindAgain(p) PROVE Unseen
  <1> USE DEF LockInv, TypeOK, LocalsOK, Goto, Return, chunkVars
  <1>1. User' = User
    BY UserSame DEF Lookup, FindAgain, Uses
  <1>2. Content' = Content
    BY ContentSame DEF Lookup, FindAgain, Visible
  <1> QED
    BY <1>1, <1>2 DEF Unseen, Lookup, FindAgain

\* Reverting a creation that the store refused is invisible.
LEMMA RevertUnseen ==
    ASSUME LockInv, UserDef, UserDef', NEW p \in Procs, RevertMap(p) \/ RevertDone(p) PROVE Unseen
  <1> USE DEF LockInv, TypeOK, LocalsOK, Goto, Return, chunkVars
  <1>1. User' = User
    BY UserSame DEF RevertMap, RevertDone, Uses
  <1>2. CASE RevertMap(p)
    <2>1. Content' = Content
      BY <1>2, ContentSame DEF RevertMap, Visible, Linked, Injective, OwnersHaveLocks, HasLock
    <2> QED
      BY <1>1, <1>2, <2>1 DEF Unseen, RevertMap
  <1>3. CASE RevertDone(p)
    <2>1. Content' = Content
      BY <1>3, ContentSame DEF RevertDone, Visible, Linked, OwnersHaveLocks, HasLock
    <2> QED
      BY <1>1, <1>3, <2>1 DEF Unseen, RevertDone
  <1> QED
    BY <1>2, <1>3

\* A deletion has taken effect before the chunk leaves the map.
LEMMA UnlinkUnseen ==
    ASSUME LockInv, UserDef, UserDef', NEW p \in Procs, Unlink(p) PROVE Unseen
  <1> USE DEF LockInv, TypeOK, LocalsOK, Goto, Return, chunkVars
  <1>1. User' = User
    BY UserSame DEF Unlink, Uses
  <1>2. Content' = Content
    BY ContentSame DEF Unlink, Visible, Linked, Injective, Flags, OwnersHaveLocks, HasLock
  <1> QED
    BY <1>1, <1>2 DEF Unseen, Unlink

\* The lock of a live chunk is the lock of its key; a deleted one gives nothing.
LEMMA AcquireMaps ==
    ASSUME LockInv, UserDef, UserDef', NEW p \in Procs, Acquire(p)
    PROVE  Unseen \/ Abstract!Lock(p, key[p])
  <1> USE DEF LockInv, TypeOK, LocalsOK, Goto, Return, chunkVars
  <1>1. Content' = Content
    BY ContentSame DEF Acquire, Visible
  <1>2. CASE deleted[entry[p]]
    <2>1. User' = User
      BY <1>2, UserSame DEF Acquire, Uses
    <2> QED
      BY <1>1, <2>1 DEF Unseen, Acquire
  <1>3. CASE ~deleted[entry[p]]
    <2>k. PICK k \in Keys : k = key[p]
      BY DEF Acquire
    <2>1. chunkOf[k] = entry[p] /\ entry[p] \in Chunks /\ holder[entry[p]] = None
      BY <1>3, <2>k DEF Acquire, WaitersWarned, OwnersHaveLocks, HasLock
    <2>2. \A q \in Procs : ~Uses(q, k)
      BY <2>1 DEF Uses, Linked, OwnersHaveLocks, HasLock
    <2>3. \A q \in Procs : Uses(q, k)' <=> q = p
      BY <1>3, <2>k, <2>2 DEF Acquire, Uses
    <2>4. \A q \in Procs, j \in Keys \ {k} : Uses(q, j)' <=> Uses(q, j)
      BY <1>3, <2>k DEF Acquire, Uses
    <2>5. User[k] = None
      BY <2>2 DEF UserDef, Uses
    <2>6. Visible(k)
      BY <1>3, <2>1 DEF Visible, OwnersHaveLocks, HasLock
    <2>7. Content[k] # None
      BY <2>1, <2>6 DEF Content, ValuesOK
    <2>8. store' = store
      BY DEF Acquire
    <2> HIDE DEF LockInv, TypeOK, LocalsOK, Goto, Return, chunkVars
    <2>9. User' = [User EXCEPT ![k] = p]
      BY <2>3, <2>4, UserChanges
    <2> QED
      BY <1>1, <2>k, <2>5, <2>7, <2>8, <2>9 DEF Abstract!Lock
  <1> QED
    BY <1>2, <1>3

\* A creation in memory takes effect at once, a stored one not yet.
LEMMA CreateMaps ==
    ASSUME LockInv, UserDef, UserDef', NEW p \in Procs, NEW c \in Chunks, Create(p, c)
    PROVE  Unseen \/ Abstract!Create(p, key[p], arg[p])
  <1> USE DEF LockInv, TypeOK, LocalsOK, Goto, Return, chunkVars
  <1>k. PICK k \in Keys : k = key[p]
    BY DEF Create
  <1>1. k \in Keys /\ arg[p] \in Values /\ chunkOf[k] = None /\ ~Visible(k)
    BY <1>k DEF Create, Visible
  <1>2. \A q \in Procs : ~Uses(q, k)
    BY <1>k, <1>1 DEF Uses, Linked, OwnersHaveLocks, HasLock
  <1>3. \A j \in Keys \ {k} : chunkOf[j] # c /\ chunkOf'[j] = chunkOf[j]
    BY <1>k, <1>1 DEF Create, Garbage
  <1>4. ASSUME NEW j \in Keys \ {k}
        PROVE  /\ Visible(j)' <=> Visible(j)
               /\ Visible(j) => value'[chunkOf'[j]] = value[chunkOf[j]]
    <2>1. chunkOf[j] # None => /\ deleted'[chunkOf[j]] <=> deleted[chunkOf[j]]
                              /\ value'[chunkOf[j]] = value[chunkOf[j]]
      <3>1. chunkOf[j] # None => chunkOf[j] \in Chunks \ {c}
        BY <1>3
      <3>2. \A d \in Chunks \ {c} : deleted'[d] = deleted[d] /\ value'[d] = value[d]
        BY DEF Create
      <3> QED
        BY <3>1, <3>2
    <2>2. \A q \in Procs \ {p} : entry'[q] = entry[q] /\ pc'[q] = pc[q]
      BY DEF Create
    <2>3. entry'[p] = c /\ pc[p] = "create"
      BY DEF Create
    <2> HIDE DEF LockInv, TypeOK, LocalsOK, Goto, Return, chunkVars
    <2>4. /\ chunkOf'[j] = chunkOf[j]
          /\ \A q \in Procs : entry'[q] = chunkOf[j] /\ pc'[q] \in {"saving", "failed"}
                          <=> entry[q] = chunkOf[j] /\ pc[q] \in {"saving", "failed"}
      BY <1>3, <2>2, <2>3
    <2> QED
      BY <2>1, <2>4 DEF Visible
  <1>5. \A q \in Procs, j \in Keys \ {k} : Uses(q, j)' <=> Uses(q, j)
    BY <1>k DEF Create, Uses
  <1>6. User[k] = None /\ Content[k] = None /\ store' = store
    <2>1. store' = store
      BY DEF Create
    <2> HIDE DEF LockInv, TypeOK, LocalsOK, Goto, Return, chunkVars
    <2>2. User[k] = None
      BY <1>1, <1>2 DEF UserDef, Uses
    <2>3. Content[k] = None
      BY <1>1 DEF Content
    <2> QED
      BY <2>1, <2>2, <2>3
  <1>7. CASE k \in StoredKeys
    <2>1. ~Visible(k)'
      BY <1>k, <1>1, <1>7 DEF Create, Visible
    <2>2. \A q \in Procs : ~Uses(q, k)'
      BY <1>k, <1>2, <1>7 DEF Create, Uses
    <2> HIDE DEF LockInv, TypeOK, LocalsOK, Goto, Return, chunkVars
    <2>3. Content' = Content
      BY <1>1, <1>4, <2>1, ContentSame
    <2>4. User' = User
      BY <1>2, <1>5, <2>2, UserSame
    <2> QED
      BY <1>6, <2>3, <2>4 DEF Unseen
  <1>8. CASE k \notin StoredKeys
    <2>1. Visible(k)'
      BY <1>k, <1>1, <1>8 DEF Create, Visible, Garbage, Reaches
    <2>2. Content'[k] = arg[p]
      BY <1>k, <1>1, <2>1 DEF Content, Create
    <2>3. \A q \in Procs : Uses(q, k)' <=> q = p
      BY <1>k, <1>1, <1>2, <1>8 DEF Create, Uses
    <2> HIDE DEF LockInv, TypeOK, LocalsOK, Goto, Return, chunkVars
    <2>4. Content' = [Content EXCEPT ![k] = arg[p]]
      BY <1>4, <2>2, ContentChanges
    <2>5. User' = [User EXCEPT ![k] = p]
      BY <1>5, <2>3, UserChanges
    <2> QED
      BY <1>k, <1>6, <1>8, <2>4, <2>5 DEF Abstract!Create, Abstract!Put
  <1> QED
    BY <1>7, <1>8
=============================================================================
