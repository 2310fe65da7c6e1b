--------------------------- MODULE SnapshotProofs ---------------------------
(***************************************************************************)
(* Proofs about SnapshotReads, for every set of sessions, readers and rows *)
(* and every bound.  IndInv of SnapshotInvariant is inductive.  A step of  *)
(* a session enters the readers' part of it by two facts only: a committed *)
(* load stays committed, and gains no row.                                 *)
(***************************************************************************)
EXTENDS SnapshotInvariant, FiniteSetTheorems, WellFoundedInduction, TLAPS

-----------------------------------------------------------------------------
(***************************************************************************)
(* The rows of a page.                                                     *)
(***************************************************************************)

LEMMA LeastNumber ==
  ASSUME NEW S \in SUBSET Nat, S # {}
  PROVE  \E n \in S : \A k \in S : n <= k
<1>1. PICK n \in S : \A k \in S : <<k, n>> \notin OpToRel(<, Nat)
  BY NatLessThanWellFounded, WFMin
<1>2. ASSUME NEW k \in S PROVE n <= k
  <2>1. <<k, n>> \in Nat \X Nat /\ ~(k < n)
    BY <1>1 DEF OpToRel
  <2> QED BY <2>1
<1> QED BY <1>2

Below(S, e) == {d \in S : d < e}
FirstRows(S, k) == {e \in S : Cardinality(Below(S, e)) < k}

LEMMA BelowFinite ==
  ASSUME NEW S, IsFiniteSet(S), NEW e
  PROVE  /\ IsFiniteSet(Below(S, e))
         /\ Cardinality(Below(S, e)) \in Nat
<1>1. Below(S, e) \in SUBSET S
  BY DEF Below
<1> QED BY <1>1, FS_Subset, FS_CardinalityType

LEMMA UpTo ==
  ASSUME NEW S \in SUBSET Nat, IsFiniteSet(S), NEW e \in S
  PROVE  /\ IsFiniteSet(Below(S, e) \cup {e})
         /\ Cardinality(Below(S, e) \cup {e}) = Cardinality(Below(S, e)) + 1
<1>1. e \notin Below(S, e)
  BY DEF Below
<1> QED BY <1>1, BelowFinite, FS_AddElement

LEMMA BelowGrows ==
  ASSUME NEW S \in SUBSET Nat, IsFiniteSet(S), NEW d \in S, NEW e \in S, d < e
  PROVE  Cardinality(Below(S, d)) < Cardinality(Below(S, e))
<1>1. \A x \in Below(S, d) \cup {d} : x \in Below(S, e)
  BY DEF Below
<1>2. Cardinality(Below(S, d) \cup {d}) <= Cardinality(Below(S, e))
  <2>1. Below(S, d) \cup {d} \in SUBSET Below(S, e)
    BY <1>1
  <2> QED BY <2>1, BelowFinite, FS_Subset
<1>3. Cardinality(Below(S, d)) \in Nat /\ Cardinality(Below(S, e)) \in Nat
  BY BelowFinite
<1> QED BY <1>2, <1>3, UpTo

LEMMA FirstRowsFinite ==
  ASSUME NEW S, IsFiniteSet(S), NEW k
  PROVE  /\ FirstRows(S, k) \in SUBSET S
         /\ IsFiniteSet(FirstRows(S, k))
         /\ Cardinality(FirstRows(S, k)) \in Nat
<1>1. FirstRows(S, k) \in SUBSET S
  BY DEF FirstRows
<1> QED BY <1>1, FS_Subset, FS_CardinalityType

(***************************************************************************)
(* A page holds every row up to its last, and is not full only if it holds *)
(* all the rows there are.                                                 *)
(***************************************************************************)
LEMMA FirstRowsDownward ==
  ASSUME NEW S \in SUBSET Nat, IsFiniteSet(S), NEW k \in Nat,
         NEW e \in FirstRows(S, k), NEW d \in S, d <= e
  PROVE  d \in FirstRows(S, k)
<1>1. e \in S /\ Cardinality(Below(S, e)) < k
  BY DEF FirstRows
<1>2. CASE d = e
  BY <1>2
<1>3. CASE d # e
  <2>1. Cardinality(Below(S, d)) < Cardinality(Below(S, e))
    BY <1>1, <1>3, BelowGrows
  <2>2. Cardinality(Below(S, d)) \in Nat /\ Cardinality(Below(S, e)) \in Nat
    BY BelowFinite
  <2>3. Cardinality(Below(S, d)) < k
    BY <1>1, <2>1, <2>2
  <2> QED BY <2>3 DEF FirstRows
<1> QED BY <1>2, <1>3

LEMMA FirstRowsLast ==
  ASSUME NEW S \in SUBSET Nat, IsFiniteSet(S), NEW k \in Nat,
         FirstRows(S, k) # {}
  PROVE  \E e \in FirstRows(S, k) : \A d \in FirstRows(S, k) : d <= e
<1> DEFINE room(e) == k - Cardinality(Below(S, e))
<1>1. \A e \in FirstRows(S, k) : e \in S /\ room(e) \in Nat
  BY BelowFinite DEF FirstRows
<1>2. PICK n \in {room(e) : e \in FirstRows(S, k)} :
        \A m \in {room(e) : e \in FirstRows(S, k)} : n <= m
  <2>1. {room(e) : e \in FirstRows(S, k)} \in SUBSET Nat
    BY <1>1
  <2>2. {room(e) : e \in FirstRows(S, k)} # {}
    OBVIOUS
  <2> HIDE DEF room
  <2> QED BY <2>1, <2>2, LeastNumber
<1>3. PICK e \in FirstRows(S, k) : n = room(e)
  BY <1>2
<1>4. ASSUME NEW d \in FirstRows(S, k), ~(d <= e) PROVE FALSE
  <2>1. Cardinality(Below(S, e)) < Cardinality(Below(S, d))
    <3>1. d \in S /\ e \in S
      BY <1>1
    <3>2. e < d
      BY <1>4, <3>1
    <3> QED BY <3>1, <3>2, BelowGrows
  <2>2. room(e) <= room(d)
    BY <1>2, <1>3
  <2>3. /\ Cardinality(Below(S, e)) \in Nat
        /\ Cardinality(Below(S, d)) \in Nat
    BY BelowFinite
  <2> QED BY <2>1, <2>2, <2>3
<1> QED BY <1>4

LEMMA FirstRowsBound ==
  ASSUME NEW S \in SUBSET Nat, IsFiniteSet(S), NEW k \in Nat
  PROVE  Cardinality(FirstRows(S, k)) <= k
<1>1. CASE FirstRows(S, k) = {}
  BY <1>1, FS_EmptySet
<1>2. CASE FirstRows(S, k) # {}
  <2>1. PICK e \in FirstRows(S, k) : \A d \in FirstRows(S, k) : d <= e
    BY <1>2, FirstRowsLast
  <2>2. e \in S /\ Cardinality(Below(S, e)) < k
    BY DEF FirstRows
  <2>3. FirstRows(S, k) \in SUBSET (Below(S, e) \cup {e})
    <3>1. ASSUME NEW d \in FirstRows(S, k) PROVE d \in Below(S, e) \cup {e}
      <4>1. d \in S /\ d <= e
        BY <2>1, FirstRowsFinite
      <4> QED BY <2>2, <4>1 DEF Below
    <3> QED BY <3>1
  <2>4. Cardinality(FirstRows(S, k)) <= Cardinality(Below(S, e)) + 1
    <3>1. /\ IsFiniteSet(Below(S, e) \cup {e})
          /\ Cardinality(Below(S, e) \cup {e}) = Cardinality(Below(S, e)) + 1
      BY <2>2, UpTo
    <3>2. Cardinality(FirstRows(S, k)) <= Cardinality(Below(S, e) \cup {e})
      BY <2>3, <3>1, FS_Subset
    <3> QED BY <3>1, <3>2
  <2> QED BY <2>2, <2>4, BelowFinite, FirstRowsFinite
<1> QED BY <1>1, <1>2

LEMMA FirstRowsAll ==
  ASSUME NEW S \in SUBSET Nat, IsFiniteSet(S), NEW k \in Nat,
         Cardinality(FirstRows(S, k)) # k
  PROVE  FirstRows(S, k) = S
<1>1. ASSUME S \ FirstRows(S, k) # {} PROVE FALSE
  <2>1. PICK e \in S \ FirstRows(S, k) : \A d \in S \ FirstRows(S, k) : e <= d
    BY <1>1, LeastNumber
  <2>2. Below(S, e) \in SUBSET FirstRows(S, k)
    <3>1. ASSUME NEW d \in Below(S, e) PROVE d \in FirstRows(S, k)
      <4>1. d \in S /\ e \in S /\ ~(e <= d)
        BY DEF Below
      <4> QED BY <2>1, <4>1
    <3> QED BY <3>1
  <2>3. Cardinality(Below(S, e)) <= Cardinality(FirstRows(S, k))
    BY <2>2, FirstRowsFinite, FS_Subset
  <2>4. ~(Cardinality(Below(S, e)) < k)
    BY DEF FirstRows
  <2>5. Cardinality(FirstRows(S, k)) <= k
    BY FirstRowsBound
  <2>6. Cardinality(FirstRows(S, k)) \in Nat /\ Cardinality(Below(S, e)) \in Nat
    BY BelowFinite, FirstRowsFinite
  <2> QED BY <2>3, <2>4, <2>5, <2>6
<1> QED BY <1>1, FirstRowsFinite

-----------------------------------------------------------------------------
(***************************************************************************)
(* What a page of SelectPage holds.                                        *)
(***************************************************************************)
After(r) == {e \in Masters : e > afterRow[r] /\ rowLoad[e] = pageLoad[r]}

LEMMA PageHolds ==
  ASSUME NEW r \in Readers
  PROVE  /\ PageRows(r) \in SUBSET After(r)
         /\ ~FullPage(r) => PageRows(r) = After(r)
         /\ PageRows(r) # {} => \E e \in PageRows(r) : \A d \in PageRows(r) : d <= e
         /\ FullPage(r) => PageRows(r) # {}
         /\ \A e \in PageRows(r), d \in After(r) : d <= e => d \in PageRows(r)
<1>1. PageRows(r) = FirstRows(After(r), PageSize)
  BY DEF PageRows, FirstRows, After, Below
<1>2. After(r) \in SUBSET Nat /\ IsFiniteSet(After(r)) /\ PageSize \in Nat
  <2>1. After(r) \in SUBSET Masters
    BY DEF After
  <2> QED BY <2>1, LoadsAssumption, ReadsAssumption, FS_Subset
<1>3. FullPage(r) <=> Cardinality(PageRows(r)) = PageSize
  BY DEF FullPage
<1>4. ~FullPage(r) => PageRows(r) = After(r)
  BY <1>1, <1>2, <1>3, FirstRowsAll
<1>5. PageRows(r) # {} => \E e \in PageRows(r) : \A d \in PageRows(r) : d <= e
  BY <1>1, <1>2, FirstRowsLast
<1>6. FullPage(r) => PageRows(r) # {}
  BY <1>3, ReadsAssumption, FS_EmptySet
<1>7. \A e \in PageRows(r), d \in After(r) : d <= e => d \in PageRows(r)
  BY <1>1, <1>2, FirstRowsDownward
<1>8. PageRows(r) \in SUBSET After(r)
  BY <1>1 DEF FirstRows
<1> QED BY <1>4, <1>5, <1>6, <1>7, <1>8

-----------------------------------------------------------------------------
(***************************************************************************)
(* The steps of a session, action by action.                               *)
(***************************************************************************)

LEMMA TickTyping ==
  ASSUME LoadsTypeOK, LoadsNumbered, LoadersOwn, NEW t \in Ticks, TickStep(t)
  PROVE  LoadsTypeOK'
<1> USE LoadsAssumption DEF LoadsTypeOK, LoadsNumbered, LoadersOwn, LoadIds, LoadStatuses, loadTables, tickVars
<1>1. ASSUME StartTick(t) PROVE LoadsTypeOK'
  BY <1>1 DEF StartTick
<1>2. ASSUME ReapStale(t) PROVE LoadsTypeOK'
  BY <1>2 DEF ReapStale, Stale, Fault
<1>3. ASSUME InsertRunning(t) PROVE LoadsTypeOK'
  BY <1>3 DEF InsertRunning
<1>4. ASSUME NEW e \in Source, CopyRow(t, e) PROVE LoadsTypeOK'
  BY <1>4 DEF CopyRow, NextRow
<1>5. ASSUME NEW e \in Source, RejectRow(t, e) PROVE LoadsTypeOK'
  BY <1>5 DEF RejectRow, NextRow
<1>6. ASSUME PassThreshold(t) PROVE LoadsTypeOK'
  BY <1>6 DEF PassThreshold
<1>7. ASSUME Publish(t) PROVE LoadsTypeOK'
  BY <1>7 DEF Publish, Flip, IsRunning, EndTick
<1>8. ASSUME PublishTooLate(t) PROVE LoadsTypeOK'
  BY <1>8 DEF PublishTooLate
<1>9. ASSUME MarkFailed(t) PROVE LoadsTypeOK'
  BY <1>9 DEF MarkFailed, IsRunning, EndTick, Fault
<1>10. ASSUME FailTick(t) PROVE LoadsTypeOK'
  BY <1>10 DEF FailTick, EndTick, Fault
<1>11. ASSUME FailLoad(t) PROVE LoadsTypeOK'
  BY <1>11 DEF FailLoad, Fault
<1>12. ASSUME PublishUnanswered(t) PROVE LoadsTypeOK'
  BY <1>12 DEF PublishUnanswered, Flip, IsRunning, Fault
<1>13. ASSUME CrashTick(t) PROVE LoadsTypeOK'
  BY <1>13 DEF CrashTick, EndTick, Fault
<1>14. ASSUME LoseLock(t) PROVE LoadsTypeOK'
  BY <1>14 DEF LoseLock, Fault
<1> QED
  BY <1>1, <1>2, <1>3, <1>4, <1>5, <1>6, <1>7,
     <1>8, <1>9, <1>10, <1>11, <1>12, <1>13, <1>14 DEF TickStep, TickGoesOn

LEMMA TickNumbered ==
  ASSUME LoadsTypeOK, LoadsNumbered, LoadersOwn, NEW t \in Ticks, TickStep(t)
  PROVE  LoadsNumbered'
<1> USE LoadsAssumption DEF LoadsTypeOK, LoadsNumbered, LoadersOwn, LoadIds, LoadStatuses, loadTables, tickVars
<1>1. ASSUME StartTick(t) PROVE LoadsNumbered'
  BY <1>1 DEF StartTick
<1>2. ASSUME ReapStale(t) PROVE LoadsNumbered'
  BY <1>2 DEF ReapStale, Stale, Fault
<1>3. ASSUME InsertRunning(t) PROVE LoadsNumbered'
  BY <1>3 DEF InsertRunning
<1>4. ASSUME NEW e \in Source, CopyRow(t, e) PROVE LoadsNumbered'
  BY <1>4 DEF CopyRow, NextRow
<1>5. ASSUME NEW e \in Source, RejectRow(t, e) PROVE LoadsNumbered'
  BY <1>5 DEF RejectRow, NextRow
<1>6. ASSUME PassThreshold(t) PROVE LoadsNumbered'
  BY <1>6 DEF PassThreshold
<1>7. ASSUME Publish(t) PROVE LoadsNumbered'
  BY <1>7 DEF Publish, Flip, IsRunning, EndTick
<1>8. ASSUME PublishTooLate(t) PROVE LoadsNumbered'
  BY <1>8 DEF PublishTooLate
<1>9. ASSUME MarkFailed(t) PROVE LoadsNumbered'
  BY <1>9 DEF MarkFailed, IsRunning, EndTick, Fault
<1>10. ASSUME FailTick(t) PROVE LoadsNumbered'
  BY <1>10 DEF FailTick, EndTick, Fault
<1>11. ASSUME FailLoad(t) PROVE LoadsNumbered'
  BY <1>11 DEF FailLoad, Fault
<1>12. ASSUME PublishUnanswered(t) PROVE LoadsNumbered'
  BY <1>12 DEF PublishUnanswered, Flip, IsRunning, Fault
<1>13. ASSUME CrashTick(t) PROVE LoadsNumbered'
  BY <1>13 DEF CrashTick, EndTick, Fault
<1>14. ASSUME LoseLock(t) PROVE LoadsNumbered'
  BY <1>14 DEF LoseLock, Fault
<1> QED
  BY <1>1, <1>2, <1>3, <1>4, <1>5, <1>6, <1>7,
     <1>8, <1>9, <1>10, <1>11, <1>12, <1>13, <1>14 DEF TickStep, TickGoesOn

LEMMA TickOwns ==
  ASSUME LoadsTypeOK, LoadsNumbered, LoadersOwn, NEW t \in Ticks, TickStep(t)
  PROVE  LoadersOwn'
<1> USE LoadsAssumption DEF LoadsTypeOK, LoadsNumbered, LoadersOwn, LoadIds, LoadStatuses, loadTables, tickVars
<1>1. ASSUME StartTick(t) PROVE LoadersOwn'
  BY <1>1 DEF StartTick
<1>2. ASSUME ReapStale(t) PROVE LoadersOwn'
  BY <1>2 DEF ReapStale, Stale, Fault
<1>3. ASSUME InsertRunning(t) PROVE LoadersOwn'
  BY <1>3 DEF InsertRunning
<1>4. ASSUME NEW e \in Source, CopyRow(t, e) PROVE LoadersOwn'
  BY <1>4 DEF CopyRow, NextRow
<1>5. ASSUME NEW e \in Source, RejectRow(t, e) PROVE LoadersOwn'
  BY <1>5 DEF RejectRow, NextRow
<1>6. ASSUME PassThreshold(t) PROVE LoadersOwn'
  BY <1>6 DEF PassThreshold
<1>7. ASSUME Publish(t) PROVE LoadersOwn'
  BY <1>7 DEF Publish, Flip, IsRunning, EndTick
<1>8. ASSUME PublishTooLate(t) PROVE LoadersOwn'
  BY <1>8 DEF PublishTooLate
<1>9. ASSUME MarkFailed(t) PROVE LoadersOwn'
  BY <1>9 DEF MarkFailed, IsRunning, EndTick, Fault
<1>10. ASSUME FailTick(t) PROVE LoadersOwn'
  BY <1>10 DEF FailTick, EndTick, Fault
<1>11. ASSUME FailLoad(t) PROVE LoadersOwn'
  BY <1>11 DEF FailLoad, Fault
<1>12. ASSUME PublishUnanswered(t) PROVE LoadersOwn'
  BY <1>12 DEF PublishUnanswered, Flip, IsRunning, Fault
<1>13. ASSUME CrashTick(t) PROVE LoadersOwn'
  BY <1>13 DEF CrashTick, EndTick, Fault
<1>14. ASSUME LoseLock(t) PROVE LoadersOwn'
  BY <1>14 DEF LoseLock, Fault
<1> QED
  BY <1>1, <1>2, <1>3, <1>4, <1>5, <1>6, <1>7,
     <1>8, <1>9, <1>10, <1>11, <1>12, <1>13, <1>14 DEF TickStep, TickGoesOn

LEMMA TickLocks ==
  ASSUME LoadsTypeOK, LoadsNumbered, LoadersOwn, SnapshotCommitted, LockExclusive, NEW t \in Ticks, TickStep(t)
  PROVE  LockExclusive'
<1> USE LoadsAssumption DEF LoadsTypeOK, LoadsNumbered, LoadersOwn, LockExclusive, SnapshotCommitted, LoadIds, LoadStatuses, loadTables, tickVars
<1>1. ASSUME StartTick(t) PROVE LockExclusive'
  BY <1>1 DEF StartTick
<1>2. ASSUME ReapStale(t) PROVE LockExclusive'
  BY <1>2 DEF ReapStale, Stale, Fault
<1>3. ASSUME InsertRunning(t) PROVE LockExclusive'
  BY <1>3 DEF InsertRunning
<1>4. ASSUME NEW e \in Source, CopyRow(t, e) PROVE LockExclusive'
  BY <1>4 DEF CopyRow, NextRow
<1>5. ASSUME NEW e \in Source, RejectRow(t, e) PROVE LockExclusive'
  BY <1>5 DEF RejectRow, NextRow
<1>6. ASSUME PassThreshold(t) PROVE LockExclusive'
  BY <1>6 DEF PassThreshold
<1>7. ASSUME Publish(t) PROVE LockExclusive'
  <2>1. /\ \A u \in Ticks : u # t => /\ tickPc'[u] = tickPc[u]
                                    /\ tickLoad'[u] = tickLoad[u]
        /\ tickPc'[t] = "idle" /\ tickLoad'[t] = 0
        /\ loadLock' = IF loadLock = t THEN NoTick ELSE loadLock
        /\ lockLost' = lockLost
    BY <1>7 DEF Publish, EndTick
  <2>2. tickPc[t] = "publish"
    BY <1>7 DEF Publish, Flip
  <2>3. ASSUME ~lockLost, NEW u \in Ticks, u # t PROVE tickPc[u] = "idle" /\ tickLoad[u] = 0
    BY <2>2, <2>3
  <2>4. ASSUME ~lockLost', NEW u \in Ticks PROVE tickPc'[u] = "idle" /\ tickLoad'[u] = 0
    BY <2>1, <2>3, <2>4
  <2> QED BY ONLY <2>4 DEF LockExclusive
<1>8. ASSUME PublishTooLate(t) PROVE LockExclusive'
  BY <1>8 DEF PublishTooLate
<1>9. ASSUME MarkFailed(t) PROVE LockExclusive'
  BY <1>9 DEF MarkFailed, IsRunning, EndTick, Fault
<1>10. ASSUME FailTick(t) PROVE LockExclusive'
  BY <1>10 DEF FailTick, EndTick, Fault
<1>11. ASSUME FailLoad(t) PROVE LockExclusive'
  BY <1>11 DEF FailLoad, Fault
<1>12. ASSUME PublishUnanswered(t) PROVE LockExclusive'
  <2>1. SUFFICES ASSUME ~lockLost', NEW u \in Ticks
                 PROVE  /\ tickPc'[u] # "idle" => loadLock' = u
                        /\ tickLoad'[u] # 0 => current' <= tickLoad'[u]
    OBVIOUS
  <2>2. loadLock = t /\ loadLock' = t /\ tickLoad' = tickLoad /\ current' = tickLoad[t]
    BY <1>12, <2>1 DEF PublishUnanswered, Flip, Fault
  <2>3. CASE u = t
    BY <2>2, <2>3
  <2>4. CASE u # t
    <3>1. tickPc[u] = "idle" /\ tickPc'[u] = "idle"
      BY <1>12, <2>1, <2>2, <2>4 DEF PublishUnanswered, Flip, Fault
    <3> QED BY <2>2, <3>1
  <2> QED BY <2>3, <2>4
<1>13. ASSUME CrashTick(t) PROVE LockExclusive'
  BY <1>13 DEF CrashTick, EndTick, Fault
<1>14. ASSUME LoseLock(t) PROVE LockExclusive'
  BY <1>14 DEF LoseLock, Fault
<1> QED
  BY <1>1, <1>2, <1>3, <1>4, <1>5, <1>6, <1>7,
     <1>8, <1>9, <1>10, <1>11, <1>12, <1>13, <1>14 DEF TickStep, TickGoesOn

LEMMA TickCommitted ==
  ASSUME LoadsTypeOK, LoadsNumbered, LoadersOwn, SnapshotCommitted, NEW t \in Ticks, TickStep(t)
  PROVE  SnapshotCommitted'
<1> USE LoadsAssumption DEF LoadsTypeOK, LoadsNumbered, LoadersOwn, SnapshotCommitted, LoadIds, LoadStatuses, loadTables, tickVars
<1>1. ASSUME StartTick(t) PROVE SnapshotCommitted'
  BY <1>1 DEF StartTick
<1>2. ASSUME ReapStale(t) PROVE SnapshotCommitted'
  BY <1>2 DEF ReapStale, Stale, Fault
<1>3. ASSUME InsertRunning(t) PROVE SnapshotCommitted'
  BY <1>3 DEF InsertRunning
<1>4. ASSUME NEW e \in Source, CopyRow(t, e) PROVE SnapshotCommitted'
  BY <1>4 DEF CopyRow, NextRow
<1>5. ASSUME NEW e \in Source, RejectRow(t, e) PROVE SnapshotCommitted'
  BY <1>5 DEF RejectRow, NextRow
<1>6. ASSUME PassThreshold(t) PROVE SnapshotCommitted'
  BY <1>6 DEF PassThreshold
<1>7. ASSUME Publish(t) PROVE SnapshotCommitted'
  BY <1>7 DEF Publish, Flip, IsRunning, EndTick
<1>8. ASSUME PublishTooLate(t) PROVE SnapshotCommitted'
  BY <1>8 DEF PublishTooLate
<1>9. ASSUME MarkFailed(t) PROVE SnapshotCommitted'
  BY <1>9 DEF MarkFailed, IsRunning, EndTick, Fault
<1>10. ASSUME FailTick(t) PROVE SnapshotCommitted'
  BY <1>10 DEF FailTick, EndTick, Fault
<1>11. ASSUME FailLoad(t) PROVE SnapshotCommitted'
  BY <1>11 DEF FailLoad, Fault
<1>12. ASSUME PublishUnanswered(t) PROVE SnapshotCommitted'
  BY <1>12 DEF PublishUnanswered, Flip, IsRunning, Fault
<1>13. ASSUME CrashTick(t) PROVE SnapshotCommitted'
  BY <1>13 DEF CrashTick, EndTick, Fault
<1>14. ASSUME LoseLock(t) PROVE SnapshotCommitted'
  BY <1>14 DEF LoseLock, Fault
<1> QED
  BY <1>1, <1>2, <1>3, <1>4, <1>5, <1>6, <1>7,
     <1>8, <1>9, <1>10, <1>11, <1>12, <1>13, <1>14 DEF TickStep, TickGoesOn

(***************************************************************************)
(* A load that has ended stays as it ended, and a committed one gains no   *)
(* row.                                                                    *)
(***************************************************************************)
EndedStays ==
  \A n \in LoadIds :
    loadStatus[n] \in {"committed", "failed", "aborted"} => loadStatus'[n] = loadStatus[n]

NoRowGained ==
  \A n \in LoadIds, e \in Source :
    loadStatus[n] = "committed" /\ rowLoad'[e] = n => rowLoad[e] = n

LEMMA TickEndedStays ==
  ASSUME LoadsTypeOK, LoadsNumbered, LoadersOwn, NEW t \in Ticks, TickStep(t)
  PROVE  EndedStays
<1> USE LoadsAssumption DEF LoadsTypeOK, LoadsNumbered, LoadersOwn, EndedStays, LoadIds, LoadStatuses, loadTables, tickVars
<1>1. ASSUME StartTick(t) PROVE EndedStays
  BY <1>1 DEF StartTick
<1>2. ASSUME ReapStale(t) PROVE EndedStays
  BY <1>2 DEF ReapStale, Stale, Fault
<1>3. ASSUME InsertRunning(t) PROVE EndedStays
  BY <1>3 DEF InsertRunning
<1>4. ASSUME NEW e \in Source, CopyRow(t, e) PROVE EndedStays
  BY <1>4 DEF CopyRow, NextRow
<1>5. ASSUME NEW e \in Source, RejectRow(t, e) PROVE EndedStays
  BY <1>5 DEF RejectRow, NextRow
<1>6. ASSUME PassThreshold(t) PROVE EndedStays
  BY <1>6 DEF PassThreshold
<1>7. ASSUME Publish(t) PROVE EndedStays
  BY <1>7 DEF Publish, Flip, IsRunning, EndTick
<1>8. ASSUME PublishTooLate(t) PROVE EndedStays
  BY <1>8 DEF PublishTooLate
<1>9. ASSUME MarkFailed(t) PROVE EndedStays
  BY <1>9 DEF MarkFailed, IsRunning, EndTick, Fault
<1>10. ASSUME FailTick(t) PROVE EndedStays
  BY <1>10 DEF FailTick, EndTick, Fault
<1>11. ASSUME FailLoad(t) PROVE EndedStays
  BY <1>11 DEF FailLoad, Fault
<1>12. ASSUME PublishUnanswered(t) PROVE EndedStays
  BY <1>12 DEF PublishUnanswered, Flip, IsRunning, Fault
<1>13. ASSUME CrashTick(t) PROVE EndedStays
  BY <1>13 DEF CrashTick, EndTick, Fault
<1>14. ASSUME LoseLock(t) PROVE EndedStays
  BY <1>14 DEF LoseLock, Fault
<1> QED
  BY <1>1, <1>2, <1>3, <1>4, <1>5, <1>6, <1>7,
     <1>8, <1>9, <1>10, <1>11, <1>12, <1>13, <1>14 DEF TickStep, TickGoesOn

LEMMA TickNoRowGained ==
  ASSUME LoadsTypeOK, LoadsNumbered, LoadersOwn, NEW t \in Ticks, TickStep(t)
  PROVE  NoRowGained
<1> USE LoadsAssumption DEF LoadsTypeOK, LoadsNumbered, LoadersOwn, NoRowGained, LoadIds, LoadStatuses, loadTables, tickVars
<1>1. ASSUME StartTick(t) PROVE NoRowGained
  BY <1>1 DEF StartTick
<1>2. ASSUME ReapStale(t) PROVE NoRowGained
  BY <1>2 DEF ReapStale, Stale, Fault
<1>3. ASSUME InsertRunning(t) PROVE NoRowGained
  BY <1>3 DEF InsertRunning
<1>4. ASSUME NEW e \in Source, CopyRow(t, e) PROVE NoRowGained
  BY <1>4 DEF CopyRow, NextRow
<1>5. ASSUME NEW e \in Source, RejectRow(t, e) PROVE NoRowGained
  BY <1>5 DEF RejectRow, NextRow
<1>6. ASSUME PassThreshold(t) PROVE NoRowGained
  BY <1>6 DEF PassThreshold
<1>7. ASSUME Publish(t) PROVE NoRowGained
  BY <1>7 DEF Publish, Flip, IsRunning, EndTick
<1>8. ASSUME PublishTooLate(t) PROVE NoRowGained
  BY <1>8 DEF PublishTooLate
<1>9. ASSUME MarkFailed(t) PROVE NoRowGained
  BY <1>9 DEF MarkFailed, IsRunning, EndTick, Fault
<1>10. ASSUME FailTick(t) PROVE NoRowGained
  BY <1>10 DEF FailTick, EndTick, Fault
<1>11. ASSUME FailLoad(t) PROVE NoRowGained
  BY <1>11 DEF FailLoad, Fault
<1>12. ASSUME PublishUnanswered(t) PROVE NoRowGained
  BY <1>12 DEF PublishUnanswered, Flip, IsRunning, Fault
<1>13. ASSUME CrashTick(t) PROVE NoRowGained
  BY <1>13 DEF CrashTick, EndTick, Fault
<1>14. ASSUME LoseLock(t) PROVE NoRowGained
  BY <1>14 DEF LoseLock, Fault
<1> QED
  BY <1>1, <1>2, <1>3, <1>4, <1>5, <1>6, <1>7,
     <1>8, <1>9, <1>10, <1>11, <1>12, <1>13, <1>14 DEF TickStep, TickGoesOn

-----------------------------------------------------------------------------
(***************************************************************************)
(* The loads under every step of the system.                               *)
(***************************************************************************)
LoadsInv ==
  LoadsTypeOK /\ LoadsNumbered /\ LoadersOwn /\ LockExclusive /\ SnapshotCommitted

LEMMA LoadsStep ==
  ASSUME LoadsInv, [Next]_vars
  PROVE  LoadsInv' /\ EndedStays /\ NoRowGained
<1>1. ASSUME NEW t \in Ticks, TickStep(t) PROVE LoadsInv' /\ EndedStays /\ NoRowGained
  BY <1>1, TickTyping, TickNumbered, TickOwns, TickLocks, TickCommitted,
     TickEndedStays, TickNoRowGained DEF LoadsInv
<1>2. ASSUME TimePasses PROVE LoadsInv' /\ EndedStays /\ NoRowGained
  <2>1. LoadsTypeOK'
    BY <1>2, LoadsAssumption DEF TimePasses, loadTables, tickVars, LoadsInv, LoadsTypeOK
  <2> QED
    BY <1>2, <2>1 DEF TimePasses, loadTables, tickVars, LoadsInv, LoadsNumbered,
       LoadersOwn, LockExclusive, SnapshotCommitted, EndedStays, NoRowGained
<1>3. ASSUME UNCHANGED loadVars PROVE LoadsInv' /\ EndedStays /\ NoRowGained
  BY <1>3 DEF loadVars, loadTables, tickVars, LoadsInv, LoadsTypeOK, LoadsNumbered,
     LoadersOwn, LockExclusive, SnapshotCommitted, EndedStays, NoRowGained
<1> QED
  BY <1>1, <1>2, <1>3 DEF Next, vars

-----------------------------------------------------------------------------
(***************************************************************************)
(* The readers: a step of a session, which leaves their variables alone.   *)
(***************************************************************************)
ReadsTyping ==
  /\ readPc \in [Readers -> {"idle", "ask", "select", "done"}]
  /\ pageLoad \in [Readers -> 0..MaxLoads]
  /\ \A r \in Readers : readPc[r] \in {"select", "done"} => pageLoad[r] # 0
  /\ afterRow \in [Readers -> Masters \cup {0}]
  /\ pages \in [Readers -> SUBSET (Masters \X LoadIds)]

ReadsInv ==
  ReadsTyping /\ ReadersPublished /\ PagesCommitted /\ PagesSoFar /\ PagesComplete

LEMMA CommittedStays ==
  ASSUME EndedStays, NEW n \in LoadIds, loadStatus[n] = "committed"
  PROVE  loadStatus'[n] = "committed"
  BY DEF EndedStays

LEMMA ReadsKept ==
  ASSUME ReadsInv, UNCHANGED readVars, EndedStays, NoRowGained
  PROVE  ReadsInv'
<1>1. UNCHANGED <<readPc, pageLoad, afterRow, pages>>
  BY DEF readVars
<1>2. ReadsTyping'
  BY <1>1 DEF ReadsInv, ReadsTyping
<1>3. ReadersPublished'
  <2>1. ASSUME NEW r \in Readers, pageLoad[r] # 0
        PROVE  loadStatus'[pageLoad[r]] = "committed"
    <3>1. pageLoad[r] \in LoadIds
      BY <2>1, LoadsAssumption DEF ReadsInv, ReadsTyping, LoadIds
    <3> QED BY <2>1, <3>1, CommittedStays DEF ReadsInv, ReadersPublished
  <2> QED BY <1>1, <2>1 DEF ReadersPublished
<1>4. ASSUME NEW r \in Readers, NEW p \in pages[r]
      PROVE  /\ p[2] \in LoadIds
             /\ loadStatus[p[2]] = "committed"
             /\ loadStatus'[p[2]] = "committed"
  <2>1. p[2] \in LoadIds /\ loadStatus[p[2]] = "committed"
    BY DEF ReadsInv, ReadsTyping, PagesCommitted
  <2> QED BY <2>1, CommittedStays
<1>5. PagesCommitted'
  BY <1>1, <1>4 DEF PagesCommitted
<1>6. PagesSoFar'
  <2>1. SUFFICES ASSUME NEW r \in Readers
                 PROVE  /\ pages[r] = {} => afterRow[r] = 0
                        /\ \A n \in LoadIds : AllOf(r, n) =>
                             \A e \in Masters :
                               e <= afterRow[r] /\ rowLoad'[e] = n => <<e, n>> \in pages[r]
    BY <1>1 DEF PagesSoFar, AllOf
  <2>2. pages[r] = {} => afterRow[r] = 0
    BY DEF ReadsInv, PagesSoFar
  <2>3. ASSUME NEW n \in LoadIds, AllOf(r, n), NEW e \in Masters,
               e <= afterRow[r], rowLoad'[e] = n
        PROVE  <<e, n>> \in pages[r]
    <3>1. CASE pages[r] = {}
      <4>1. e \in Nat \ {0} /\ e <= 0
        BY <2>2, <2>3, <3>1, LoadsAssumption
      <4> QED BY <4>1
    <3>2. CASE pages[r] # {}
      <4>1. loadStatus[n] = "committed"
        BY <1>4, <2>3, <3>2 DEF AllOf
      <4>2. rowLoad[e] = n
        BY <2>3, <4>1 DEF NoRowGained, Source
      <4> QED BY <2>3, <4>2 DEF ReadsInv, PagesSoFar
    <3> QED BY <3>1, <3>2
  <2> QED BY <2>2, <2>3
<1>7. PagesComplete'
  <2>1. SUFFICES ASSUME NEW r \in Readers, readPc[r] = "done",
                        \A p \in pages[r] : p[2] = pageLoad[r],
                        NEW e \in Masters, rowLoad'[e] = pageLoad[r]
                 PROVE  <<e, pageLoad[r]>> \in pages[r]
    BY <1>1 DEF PagesComplete
  <2>2. pageLoad[r] \in LoadIds /\ loadStatus[pageLoad[r]] = "committed"
    BY <2>1, LoadsAssumption DEF ReadsInv, ReadsTyping, ReadersPublished, LoadIds
  <2>3. rowLoad[e] = pageLoad[r]
    BY <2>1, <2>2 DEF NoRowGained, Source
  <2> QED BY <2>1, <2>3 DEF ReadsInv, PagesComplete
<1> QED BY <1>2, <1>3, <1>5, <1>6, <1>7 DEF ReadsInv

-----------------------------------------------------------------------------
(***************************************************************************)
(* The readers: their own steps.                                           *)
(***************************************************************************)

LEMMA LoadsSame ==
  ASSUME UNCHANGED loadVars
  PROVE  UNCHANGED <<loadStatus, rowLoad, current>>
  BY DEF loadVars, loadTables

LEMMA ReadMoves ==
  ASSUME LoadsInv, ReadsInv, NEW r \in Readers, UNCHANGED loadVars,
         StartRead(r) \/ ReadPointer(r) \/ EndRead(r)
  PROVE  ReadsInv'
<1> USE LoadsSame DEF ReadsInv
<1>1. ASSUME StartRead(r) PROVE ReadsInv'
  BY <1>1 DEF StartRead, ReadsTyping, ReadersPublished, PagesCommitted, PagesSoFar,
     AllOf, PagesComplete
<1>2. ASSUME ReadPointer(r) PROVE ReadsInv'
  <2>1. ReadsTyping'
    BY <1>2 DEF ReadPointer, CurrentLoad, ReadsTyping, LoadsInv, LoadsTypeOK
  <2>2. ReadersPublished'
    BY <1>2 DEF ReadPointer, CurrentLoad, ReadsTyping, ReadersPublished, LoadsInv,
       SnapshotCommitted
  <2>3. PagesCommitted' /\ PagesSoFar'
    BY <1>2 DEF ReadPointer, PagesCommitted, PagesSoFar, AllOf
  <2>4. PagesComplete'
    BY <1>2 DEF ReadPointer, ReadsTyping, PagesComplete
  <2> QED BY <2>1, <2>2, <2>3, <2>4
<1>3. ASSUME EndRead(r) PROVE ReadsInv'
  <2>1. ReadsTyping'
    BY <1>3, LoadsAssumption DEF EndRead, ReadsTyping, LoadIds
  <2>2. ReadersPublished' /\ PagesCommitted'
    BY <1>3 DEF EndRead, ReadsTyping, ReadersPublished, PagesCommitted
  <2>3. PagesSoFar'
    <3>1. SUFFICES ASSUME NEW q \in Readers
                   PROVE  /\ pages'[q] = {} => afterRow'[q] = 0
                          /\ \A n \in LoadIds : AllOf(q, n)' =>
                               \A e \in Masters : e <= afterRow'[q] /\ rowLoad'[e] = n
                                 => <<e, n>> \in pages'[q]
      BY DEF PagesSoFar
    <3>2. CASE q = r
      <4>1. afterRow'[q] = 0
        BY <1>3, <3>2 DEF EndRead, ReadsTyping
      <4>2. \A e \in Masters : ~(e <= 0)
        BY LoadsAssumption
      <4> QED BY <4>1, <4>2
    <3>3. CASE q # r
      BY <1>3, <3>3 DEF EndRead, ReadsTyping, PagesSoFar, AllOf
    <3> QED BY <3>2, <3>3
  <2>4. PagesComplete'
    BY <1>3 DEF EndRead, ReadsTyping, PagesComplete
  <2> QED BY <2>1, <2>2, <2>3, <2>4
<1> QED BY <1>1, <1>2, <1>3

(***************************************************************************)
(* A page: its rows are of a published load, end with the new cursor, and  *)
(* leave out no row of that load that lies between the two cursors.        *)
(***************************************************************************)
LEMMA PageStep ==
  ASSUME LoadsInv, ReadsInv, NEW r \in Readers, UNCHANGED loadVars, SelectPage(r)
  PROVE  ReadsInv'
<1> USE DEF ReadsInv
<1> DEFINE n == pageLoad[r]
           new == {<<e, n>> : e \in PageRows(r)}
<1>1. /\ UNCHANGED <<loadStatus, rowLoad, current, pageLoad>>
      /\ readPc[r] = "select"
      /\ pages' = [pages EXCEPT ![r] = @ \cup new]
      /\ pages'[r] = pages[r] \cup new
      /\ \A q \in Readers : q # r =>
           /\ pages'[q] = pages[q]
           /\ afterRow'[q] = afterRow[q]
           /\ readPc'[q] = readPc[q]
  BY LoadsSame DEF SelectPage, ReadsTyping
<1>2. n \in LoadIds /\ loadStatus[n] = "committed"
  BY <1>1, LoadsAssumption DEF ReadsTyping, ReadersPublished, LoadIds
<1>3. /\ PageRows(r) \in SUBSET Masters
      /\ \A e \in Masters :
           e > afterRow[r] /\ rowLoad[e] = n <=> e \in After(r)
  BY PageHolds DEF After
<1>4. /\ FullPage(r) => /\ readPc'[r] = "ask"
                        /\ afterRow'[r] \in PageRows(r)
                        /\ \A d \in PageRows(r) : d <= afterRow'[r]
      /\ ~FullPage(r) => /\ readPc'[r] = "done"
                         /\ afterRow'[r] = afterRow[r]
                         /\ PageRows(r) = After(r)
  <2>1. CASE FullPage(r)
    <3>1. \E e \in PageRows(r) : \A d \in PageRows(r) : d <= e
      BY <2>1, PageHolds
    <3>2. afterRow'[r] = CHOOSE e \in PageRows(r) : \A d \in PageRows(r) : d <= e
      BY <2>1 DEF SelectPage, ReadsTyping
    <3>3. readPc'[r] = "ask"
      BY <2>1 DEF SelectPage, ReadsTyping
    <3> QED BY <2>1, <3>1, <3>2, <3>3
  <2>2. CASE ~FullPage(r)
    BY <2>2, PageHolds DEF SelectPage, ReadsTyping
  <2> QED BY <2>1, <2>2
<1>5. ReadsTyping'
  <2>1. new \in SUBSET (Masters \X LoadIds)
    BY <1>2, <1>3
  <2>2. readPc' \in [Readers -> {"idle", "ask", "select", "done"}]
    BY DEF SelectPage, ReadsTyping
  <2>3. afterRow' \in [Readers -> Masters \cup {0}]
    <3>1. afterRow'[r] \in Masters \cup {0}
      BY <1>3, <1>4 DEF ReadsTyping
    <3>2. afterRow' = [afterRow EXCEPT ![r] = afterRow'[r]]
      BY DEF SelectPage, ReadsTyping
    <3> QED BY <3>1, <3>2 DEF ReadsTyping
  <2>4. pages' \in [Readers -> SUBSET (Masters \X LoadIds)]
    BY <1>1, <2>1 DEF ReadsTyping
  <2>5. \A q \in Readers : readPc'[q] \in {"select", "done"} => pageLoad'[q] # 0
    BY <1>1, <1>2, LoadsAssumption DEF ReadsTyping, LoadIds
  <2> HIDE DEF new, n
  <2> QED BY <1>1, <2>2, <2>3, <2>4, <2>5 DEF ReadsTyping
<1>6. ReadersPublished'
  BY <1>1 DEF ReadersPublished
<1>7. PagesCommitted'
  <2>1. \A p \in new : p[2] = n
    OBVIOUS
  <2>2. SUFFICES ASSUME NEW q \in Readers, NEW p \in pages'[q]
                 PROVE  loadStatus[p[2]] = "committed"
    BY <1>1 DEF PagesCommitted
  <2> HIDE DEF new, n
  <2> QED BY <1>1, <1>2, <2>1, <2>2 DEF PagesCommitted
<1>8. ASSUME NEW e \in Masters, rowLoad[e] = n, AllOf(r, n),
             FullPage(r) => e <= afterRow'[r]
      PROVE  <<e, n>> \in pages'[r]
  <2>1. e \in Nat /\ afterRow[r] \in Nat
    BY LoadsAssumption DEF ReadsTyping
  <2>2. CASE e <= afterRow[r]
    <3>1. <<e, n>> \in pages[r]
      BY <1>2, <1>8, <2>2 DEF PagesSoFar
    <3> QED BY <1>1, <3>1
  <2>3. CASE ~(e <= afterRow[r])
    <3>1. e \in After(r)
      BY <1>3, <1>8, <2>1, <2>3
    <3>2. e \in PageRows(r)
      <4>1. CASE FullPage(r)
        BY <1>4, <1>8, <3>1, <4>1, PageHolds
      <4>2. CASE ~FullPage(r)
        BY <1>4, <3>1, <4>2
      <4> QED BY <4>1, <4>2
    <3> QED BY <1>1, <3>2
  <2> QED BY <2>2, <2>3
<1>9. \A k \in LoadIds : AllOf(r, k)' => AllOf(r, k) /\ (new # {} => k = n)
  BY <1>1 DEF AllOf
<1>10. PagesSoFar'
  <2>1. SUFFICES ASSUME NEW q \in Readers
                 PROVE  /\ pages'[q] = {} => afterRow'[q] = 0
                        /\ \A k \in LoadIds : AllOf(q, k)' =>
                             \A e \in Masters : e <= afterRow'[q] /\ rowLoad[e] = k
                               => <<e, k>> \in pages'[q]
    BY <1>1 DEF PagesSoFar
  <2>2. CASE q # r
    BY <1>1, <2>2 DEF PagesSoFar, AllOf
  <2>3. CASE q = r
    <3>1. pages'[r] = {} => afterRow'[r] = 0
      <4>1. ASSUME pages'[r] = {} PROVE PageRows(r) = {} /\ pages[r] = {}
        BY <1>1, <4>1
      <4>2. FullPage(r) => PageRows(r) # {}
        BY PageHolds
      <4> QED BY <1>4, <4>1, <4>2 DEF PagesSoFar
    <3>2. ASSUME NEW k \in LoadIds, AllOf(r, k)', NEW e \in Masters,
                 e <= afterRow'[r], rowLoad[e] = k
          PROVE  <<e, k>> \in pages'[r]
      <4>1. CASE k = n
        BY <1>8, <1>9, <3>2, <4>1
      <4>2. CASE k # n
        <5>1. new = {} /\ AllOf(r, k)
          BY <1>9, <3>2, <4>2
        <5>2. ~FullPage(r)
          BY <5>1, PageHolds
        <5>3. <<e, k>> \in pages[r]
          BY <1>4, <3>2, <5>1, <5>2 DEF PagesSoFar
        <5> QED BY <1>1, <5>3
      <4> QED BY <4>1, <4>2
    <3> QED BY <2>3, <3>1, <3>2
  <2> QED BY <2>2, <2>3
<1>11. PagesComplete'
  <2>1. SUFFICES ASSUME NEW q \in Readers, readPc'[q] = "done",
                        \A p \in pages'[q] : p[2] = pageLoad[q],
                        NEW e \in Masters, rowLoad[e] = pageLoad[q]
                 PROVE  <<e, pageLoad[q]>> \in pages'[q]
    BY <1>1 DEF PagesComplete
  <2>2. CASE q # r
    BY <1>1, <2>1, <2>2 DEF PagesComplete
  <2>3. CASE q = r
    <3>1. ~FullPage(r)
      BY <1>4, <2>1, <2>3
    <3>2. AllOf(r, n)
      BY <1>1, <2>1, <2>3 DEF AllOf
    <3> QED BY <1>8, <2>1, <2>3, <3>1, <3>2
  <2> QED BY <2>2, <2>3
<1> QED BY <1>5, <1>6, <1>7, <1>10, <1>11

LEMMA ReadsStep ==
  ASSUME LoadsInv, ReadsInv, [Next]_vars
  PROVE  ReadsInv'
<1>1. EndedStays /\ NoRowGained
  BY LoadsStep
<1>2. CASE UNCHANGED readVars
  BY <1>1, <1>2, ReadsKept
<1>3. ASSUME NEW r \in Readers, ReadStep(r), UNCHANGED loadVars PROVE ReadsInv'
  BY <1>3, ReadMoves, PageStep DEF ReadStep
<1> QED
  BY <1>2, <1>3 DEF Next, vars

-----------------------------------------------------------------------------
(***************************************************************************)
(* The theorems.                                                           *)
(***************************************************************************)

LEMMA IndInvParts == IndInv <=> LoadsInv /\ ReadsInv
  BY DEF IndInv, TypeOK, LoadsInv, ReadsInv, ReadsTyping

LEMMA InitIndInv == Init => IndInv
<1> SUFFICES ASSUME Init PROVE IndInv
  OBVIOUS
<1>1. LoadsInv
  <2> USE LoadsAssumption DEF Init, LoadsInit
  <2>1. LoadsTypeOK
    <3>1. loadStatus \in [LoadIds -> LoadStatuses]
      BY DEF LoadStatuses
    <3>2. rowLoad \in [Source -> 0..MaxLoads]
      OBVIOUS
    <3>3. /\ tickPc \in [Ticks -> {"idle", "reap", "insert", "copy", "publish", "fail"}]
          /\ tickLoad \in [Ticks -> 0..MaxLoads]
          /\ todo \in [Ticks -> SUBSET Source]
          /\ rejected \in [Ticks -> BOOLEAN]
      OBVIOUS
    <3>4. /\ lastLoad \in 0..MaxLoads
          /\ aged \in 0..lastLoad
          /\ current \in 0..MaxLoads
          /\ previous \in 0..MaxLoads
          /\ faults \in 0..MaxFaults
      OBVIOUS
    <3>5. loadLock \in Ticks \cup {NoTick} /\ lockLost \in BOOLEAN
      OBVIOUS
    <3> QED BY <3>1, <3>2, <3>3, <3>4, <3>5 DEF LoadsTypeOK
  <2>2. LoadsNumbered
    BY DEF LoadsNumbered, LoadIds
  <2>3. LoadersOwn /\ LockExclusive /\ SnapshotCommitted
    BY DEF LoadersOwn, LockExclusive, SnapshotCommitted
  <2> QED BY <2>1, <2>2, <2>3 DEF LoadsInv
<1>2. ReadsTyping /\ ReadersPublished /\ PagesCommitted /\ PagesComplete
  BY LoadsAssumption DEF Init, ReadsInit, ReadsTyping, ReadersPublished,
     PagesCommitted, PagesComplete
<1>3. PagesSoFar
  <2>1. \A e \in Masters : ~(e <= 0)
    BY LoadsAssumption
  <2> QED BY <2>1 DEF Init, ReadsInit, PagesSoFar
<1> QED BY <1>1, <1>2, <1>3, IndInvParts DEF ReadsInv

(***************************************************************************)
(* IndInv is an invariant of the source adapter's loads and readers.       *)
(***************************************************************************)
THEOREM LoadsInvariant == Spec => []IndInv
<1>1. IndInv /\ [Next]_vars => IndInv'
  <2> SUFFICES ASSUME IndInv, [Next]_vars PROVE IndInv'
    OBVIOUS
  <2>1. LoadsInv' /\ ReadsInv'
    BY IndInvParts, LoadsStep, ReadsStep
  <2> QED BY <2>1 DEF IndInv, TypeOK, LoadsInv, ReadsInv, ReadsTyping
<1> QED BY <1>1, InitIndInv, PTL DEF Spec

(***************************************************************************)
(* Every variable keeps its type, and a page is only selected after the    *)
(* handler has read a snapshot.                                            *)
(***************************************************************************)
THEOREM LoadsTypeCorrect == Spec => []TypeOK
<1>1. IndInv => TypeOK
  BY DEF IndInv
<1> QED BY <1>1, LoadsInvariant, PTL

(***************************************************************************)
(* Flip and MarkCommitted: the snapshot pointer names committed loads.     *)
(***************************************************************************)
THEOREM PointerCommitted == Spec => []SnapshotCommitted
<1>1. IndInv => SnapshotCommitted
  BY DEF IndInv
<1> QED BY <1>1, LoadsInvariant, PTL

(***************************************************************************)
(* The paging handlers return rows of committed loads only.                *)
(***************************************************************************)
THEOREM ReadsCommitted == Spec => []PagesCommitted
<1>1. IndInv => PagesCommitted
  BY DEF IndInv
<1> QED BY <1>1, LoadsInvariant, PTL

(***************************************************************************)
(* The paging handlers leave out no row of the one snapshot that a whole   *)
(* read has seen, for every page size.                                     *)
(***************************************************************************)
THEOREM ReadsComplete == Spec => []PagesComplete
<1>1. IndInv => PagesComplete
  BY DEF IndInv
<1> QED BY <1>1, LoadsInvariant, PTL

(***************************************************************************)
(* MarkCommitted, MarkFailed and MarkAborted: a load ends once.            *)
(***************************************************************************)
THEOREM LoadsEndOnce == Spec => LoadFinal
<1>1. IndInv /\ [Next]_vars =>
        [\A n \in LoadIds : loadStatus[n] \in {"committed", "failed", "aborted"}
           => loadStatus'[n] = loadStatus[n]]_vars
  BY IndInvParts, LoadsStep DEF EndedStays
<1> QED BY <1>1, LoadsInvariant, PTL DEF Spec, LoadFinal

(***************************************************************************)
(* Tick and the advisory lock: the snapshot never goes back, unless a      *)
(* session lost the lock.                                                  *)
(***************************************************************************)
THEOREM PointerForward == Spec => SnapshotForward
<1>1. ASSUME LoadsInv, NEW t \in Ticks, Flip(t)
      PROVE  current' >= current \/ lockLost
  BY <1>1, LoadsAssumption
     DEF Flip, LoadsInv, LoadsTypeOK, LoadersOwn, LockExclusive, LoadIds
<1>2. ASSUME LoadsInv, NEW t \in Ticks, TickStep(t)
      PROVE  current' >= current \/ lockLost
  <2>1. ASSUME UNCHANGED current PROVE current' >= current
    BY <1>2, <2>1, LoadsAssumption DEF LoadsInv, LoadsTypeOK
  <2>2. Flip(t) \/ UNCHANGED current
    BY <1>2 DEF TickStep, TickGoesOn, StartTick, ReapStale, InsertRunning, CopyRow,
       RejectRow, PassThreshold, Publish, PublishTooLate, MarkFailed, FailTick,
       FailLoad, PublishUnanswered, CrashTick, LoseLock, loadTables
  <2> QED BY <1>1, <1>2, <2>1, <2>2
<1>3. ASSUME LoadsInv, [Next]_vars PROVE current' >= current \/ lockLost
  <2>1. CASE UNCHANGED current
    BY <1>3, <2>1, LoadsAssumption DEF LoadsInv, LoadsTypeOK
  <2>2. ASSUME NEW t \in Ticks, TickStep(t) PROVE current' >= current \/ lockLost
    BY <1>2, <1>3, <2>2
  <2>3. TimePasses \/ UNCHANGED loadVars => UNCHANGED current
    BY DEF TimePasses, loadVars, loadTables
  <2> QED BY <1>3, <2>1, <2>2, <2>3 DEF Next, vars
<1>4. IndInv /\ [Next]_vars => [current' >= current \/ lockLost]_vars
  BY <1>3, IndInvParts
<1> QED BY <1>4, LoadsInvariant, PTL DEF Spec, SnapshotForward

=============================================================================
