---- MODULE EtlProofs ----
(* Proofs about EtlRuns, for any number of runs, loads and faults and any window:
   the marts flip together, the version readers are told is that of the rows,
   and the runs implement MartVersions. EtlInv of EtlInvariant is inductive. *)
EXTENDS EtlInvariant, FiniteSetTheorems, WellFoundedInduction, TLAPS

---------------------------------------------------------------------------
(* Stamps. *)
LEMMA StampsCounted ==
  /\ IsFiniteSet(Stamped)
  /\ Cardinality(Stamped) \in Nat
<1>1. IsFiniteSet(Runs)
  BY ConstantsAssumption, FS_Interval DEF Runs
<1>2. Stamped \in SUBSET Runs
  BY DEF Stamped
<1> QED
  BY <1>1, <1>2, FS_Subset, FS_CardinalityType

LEMMA NewStamp ==
  ASSUME EtlTypeOK, StampsInOrder, NEW r \in Runs, stamp[r] = 0,
         stamp' = [stamp EXCEPT ![r] = Now]
  PROVE  /\ Now \in Nat \ {0}
         /\ \A s \in Runs : stamp[s] < Now
         /\ r \in Stamped'
         /\ Stamped' = Stamped \cup {r}
         /\ Cardinality(Stamped') = Now
<1>1. Now = Cardinality(Stamped) + 1
  BY DEF Now, Stamped
<1>2. Now \in Nat \ {0} /\ \A s \in Runs : stamp[s] < Now
  BY <1>1, StampsCounted DEF StampsInOrder, EtlTypeOK
<1>3. stamp' \in [Runs -> Nat] /\ stamp'[r] # 0 /\ \A s \in Runs \ {r} : stamp'[s] = stamp[s]
  BY <1>2 DEF EtlTypeOK
<1>4. Stamped' = Stamped \cup {r}
  BY <1>3 DEF Stamped
<1>5. r \notin Stamped
  BY DEF Stamped
<1> QED
  BY <1>1, <1>2, <1>4, <1>5, StampsCounted, FS_AddElement

---------------------------------------------------------------------------
(* The invariant, action by action. *)
LEMMA RunsPositive == \A r \in Runs : r \in Nat /\ r # 0
BY ConstantsAssumption DEF Runs

LEMMA EtlInitially ==
  ASSUME EtlInit
  PROVE  EtlInv
<1>1. EtlTypeOK
  BY ConstantsAssumption DEF EtlInit, EtlTypeOK, Runs, Cells, Days, Rebuilt, Statuses, Stages
<1>2. Stamped = {} /\ Visible = {}
  BY DEF EtlInit, Stamped, Visible
<1>3. RowsFollowStages /\ LockOrders /\ RowsOfTheLast
  BY <1>2, ConstantsAssumption
     DEF EtlInit, RowsFollowStages, LockOrders, RowsOfTheLast, Live, Cells, Rebuilt, Runs
<1>4. StampsInOrder
  BY <1>2, StampsCounted DEF EtlInit, StampsInOrder
<1> QED
  BY <1>1, <1>3, <1>4 DEF EtlInv

(* A step that moves no rows, and rewrites nothing of a visible run. *)
LEMMA RowsStay ==
  ASSUME EtlTypeOK, RowsOfTheLast, UNCHANGED <<martRun, committedAt>>,
         \A v \in Visible : staged'[v] = staged[v] /\ kind'[v] = kind[v]
  PROVE  RowsOfTheLast'
<1>1. Visible' = Visible /\ Visible \in SUBSET Runs /\ Rebuilt \in Cells
  BY DEF Visible, Cells
<1>2. \A c \in Cells : martRun[c] # 0 => martRun[c] \in Visible
  BY DEF RowsOfTheLast
<1>3. ASSUME NEW c \in Cells, martRun[c] # 0
      PROVE  c \in Written(martRun[c])'
  <2>1. c \in Written(martRun[c])
    BY <1>3 DEF RowsOfTheLast
  <2> QED
    BY <1>2, <1>3, <2>1 DEF Written, Window
<1>4. ASSUME martRun[Rebuilt] # 0, NEW c \in Written(martRun[Rebuilt])'
      PROVE  martRun[c] = martRun[Rebuilt]
  <2>1. c \in Written(martRun[Rebuilt])
    BY <1>1, <1>2, <1>4 DEF Written, Window
  <2> QED
    BY <1>4, <2>1 DEF RowsOfTheLast
<1> QED
  BY <1>1, <1>2, <1>3, <1>4 DEF RowsOfTheLast

LEMMA PublishKeeps ==
  ASSUME EtlInv, PublishLoad
  PROVE  EtlInv'
<1> USE DEF PublishLoad, runVars, EtlInv
<1>1. EtlTypeOK'
  BY ConstantsAssumption DEF EtlTypeOK
<1>2. Visible' = Visible /\ Stamped' = Stamped
  BY DEF Visible, Stamped
<1>3. RowsFollowStages' /\ StampsInOrder' /\ LockOrders'
  BY <1>2 DEF RowsFollowStages, StampsInOrder, LockOrders
<1> QED
  BY <1>1, <1>3, RowsStay

LEMMA FaultsAlone ==
  ASSUME EtlInv, faults' \in 0..MaxFaults,
         UNCHANGED <<sourceLoad, runVars, martLock, martRun>>
  PROVE  EtlInv'
<1> USE DEF runVars, EtlInv
<1>1. EtlTypeOK'
  BY DEF EtlTypeOK
<1>2. Visible' = Visible /\ Stamped' = Stamped
  BY DEF Visible, Stamped
<1>3. RowsFollowStages' /\ StampsInOrder' /\ LockOrders'
  BY <1>2 DEF RowsFollowStages, StampsInOrder, LockOrders
<1> QED
  BY <1>1, <1>3, RowsStay

LEMMA InsertKeeps ==
  ASSUME EtlInv, NEW r \in Runs, NEW k \in {"full", "mart_refresh"},
         NEW load \in 0..MaxLoads, NEW to \in {"inserted", "lost"},
         Insert(r, k, load, to), faults' \in 0..MaxFaults
  PROVE  EtlInv'
<1> USE DEF Insert, FirstFree, EtlInv
<1>1. EtlTypeOK'
  BY DEF EtlTypeOK, Stages, Statuses
<1>2. Visible' = Visible /\ Stamped' = Stamped
  BY DEF Visible, Stamped
<1>3. RowsFollowStages'
  BY <1>2 DEF EtlTypeOK, RowsFollowStages, Live
<1>4. StampsInOrder'
  BY <1>2 DEF EtlTypeOK, RowsFollowStages, StampsInOrder
<1>5. LockOrders'
  BY <1>2 DEF EtlTypeOK, RowsFollowStages, LockOrders
<1>6. \A v \in Visible : kind'[v] = kind[v]
  BY DEF EtlTypeOK, RowsFollowStages, Visible
<1> QED
  BY <1>1, <1>3, <1>4, <1>5, <1>6, RowsStay

LEMMA SnapshotKeeps ==
  ASSUME EtlInv, NEW r \in Runs, ReadSnapshot(r)
  PROVE  EtlInv'
<1> USE DEF ReadSnapshot, Advance, EtlInv
<1>1. EtlTypeOK'
  BY DEF EtlTypeOK, Stages
<1>2. Visible' = Visible /\ Stamped' = Stamped
  BY DEF Visible, Stamped
<1>3. RowsFollowStages'
  BY <1>2 DEF EtlTypeOK, RowsFollowStages, Live
<1>4. StampsInOrder'
  BY <1>2 DEF EtlTypeOK, StampsInOrder
<1>5. LockOrders'
  BY <1>2 DEF EtlTypeOK, LockOrders
<1> QED
  BY <1>1, <1>3, <1>4, <1>5, RowsStay

LEMMA ExtractKeeps ==
  ASSUME EtlInv, NEW r \in Runs, ExtractMasters(r) \/ ExtractFacts(r)
  PROVE  EtlInv'
<1> USE DEF ExtractMasters, ExtractFacts, Extract, Advance, EtlInv
<1>1. EtlTypeOK'
  <2>1. staged' \in [Runs -> [masters : 0..MaxLoads, facts : 0..MaxLoads]]
    <3>1. CASE ExtractMasters(r)
      BY <3>1 DEF EtlTypeOK
    <3>2. CASE ExtractFacts(r)
      BY <3>2 DEF EtlTypeOK
    <3> QED
      BY <3>1, <3>2
  <2>2. stage' \in [Runs -> Stages]
    BY DEF EtlTypeOK, Stages
  <2> QED
    BY <2>1, <2>2 DEF EtlTypeOK
<1>2. Visible' = Visible /\ Stamped' = Stamped
  BY DEF Visible, Stamped
<1>3. RowsFollowStages'
  BY <1>2 DEF EtlTypeOK, RowsFollowStages, Live
<1>4. StampsInOrder'
  BY <1>2 DEF EtlTypeOK, StampsInOrder
<1>7. LockOrders'
  BY <1>2 DEF EtlTypeOK, LockOrders
<1>5. \A v \in Visible : v # r /\ v \in Runs
  BY DEF RowsFollowStages, Live, Visible
<1>6. \A v \in Visible : staged'[v] = staged[v]
  BY <1>5 DEF EtlTypeOK
<1> QED
  BY <1>1, <1>3, <1>4, <1>6, <1>7, RowsStay

LEMMA BuildKeeps ==
  ASSUME EtlInv, NEW r \in Runs, BuildMarts(r) \/ BuildRefresh(r)
  PROVE  EtlInv'
<1> USE DEF BuildMarts, BuildRefresh, Advance, EtlInv
<1>0. stamp[r] = 0 /\ stamp' = [stamp EXCEPT ![r] = Now] /\ r \notin Visible
  BY DEF StampsInOrder, Stamped, RowsFollowStages, Live
<1>1. /\ Now \in Nat \ {0}
      /\ \A s \in Runs : stamp[s] < Now
      /\ r \in Stamped'
      /\ Stamped' = Stamped \cup {r}
      /\ Cardinality(Stamped') = Now
  BY <1>0, NewStamp
<1>2. EtlTypeOK'
  BY <1>0, <1>1 DEF EtlTypeOK, Stages, Runs
<1>3. Visible' = Visible
  BY DEF Visible
<1>4. RowsFollowStages'
  BY <1>3 DEF EtlTypeOK, RowsFollowStages, Live
<1>5. StampsInOrder'
  <2>1. \A s \in Runs : stamp'[s] <= Now /\ (s # r => stamp'[s] < Now)
    BY <1>0, <1>1 DEF EtlTypeOK
  <2>2. stamp'[r] = Now
    BY <1>0 DEF EtlTypeOK
  <2>3. \A s \in Runs \ {r} : stamp'[s] = stamp[s] /\ stage'[s] = stage[s]
    BY <1>0 DEF EtlTypeOK
  <2>4. stage'[r] = "built"
    BY DEF EtlTypeOK
  <2>5. ASSUME NEW q \in Runs, NEW s \in Stamped', stamp'[q] = stamp'[s]
        PROVE  q = s
    <3>1. s \in Runs /\ q \in Runs
      BY <2>5 DEF Stamped
    <3>2. CASE q = r \/ s = r
      BY <2>1, <2>2, <2>5, <3>1, <3>2, <1>1
    <3>3. CASE q # r /\ s # r
      BY <2>3, <2>5, <3>1, <3>3, <1>1 DEF StampsInOrder
    <3> QED
      BY <3>2, <3>3
  <2>6. ASSUME NEW q \in Runs
        PROVE  /\ stage'[q] = "built" => q \in Stamped'
               /\ q \in Stamped' => stage'[q] \in {"built", "failing", "done", "lost"}
    BY <1>1, <2>3, <2>4 DEF StampsInOrder
  <2>7. ASSUME NEW q \in Runs
        PROVE  committedAt'[q] \in {0, stamp'[q]}
    BY <1>0, <2>3 DEF StampsInOrder, EtlTypeOK
  <2> QED
    BY <1>1, <2>1, <2>5, <2>6, <2>7 DEF StampsInOrder
<1>6. LockOrders'
  <2>1. \A s \in Visible : committedAt[s] < Now
    BY <1>1 DEF StampsInOrder, Visible, EtlTypeOK
  <2>2. stamp'[r] = Now /\ stage'[r] = "built" /\ r # 0
    BY <1>0, RunsPositive DEF EtlTypeOK
  <2>3. \A q \in Runs \ {r} : stamp'[q] = stamp[q] /\ stage'[q] = stage[q]
    BY <1>0 DEF EtlTypeOK
  <2>4. CASE BuildMarts(r)
    <3>1. \A q \in Runs \ {r} : ~(kind[q] = "full" /\ stage[q] = "built")
      BY <2>4 DEF LockOrders, Runs
    <3> QED
      BY <1>3, <2>1, <2>2, <2>3, <2>4, <3>1 DEF LockOrders
  <2>5. CASE BuildRefresh(r)
    BY <1>3, <2>2, <2>3, <2>5 DEF LockOrders
  <2> QED
    BY <2>4, <2>5
<1> QED
  BY <1>2, <1>4, <1>5, <1>6, RowsStay

(* A run that fails or is lost gives the lock back and touches nothing else. *)
LEMMA DropKeeps ==
  ASSUME EtlInv, NEW r \in Runs, FailRun(r) \/ LoseRun(r)
  PROVE  EtlInv'
<1> USE DEF FailRun, LoseRun, ReleaseMarts, Fault, EtlInv
<1>1. EtlTypeOK'
  BY ConstantsAssumption DEF EtlTypeOK, Stages, Live
<1>2. Visible' = Visible /\ Stamped' = Stamped
  BY DEF Visible, Stamped
<1>3. RowsFollowStages'
  BY <1>2 DEF EtlTypeOK, RowsFollowStages, Live
<1>4. StampsInOrder'
  BY <1>2 DEF EtlTypeOK, StampsInOrder
<1>5. LockOrders'
  <2>1. \A q \in Runs \ {r} : stage'[q] = stage[q]
    BY DEF EtlTypeOK
  <2>2. stage'[r] # "built" /\ martLock' # r
    BY RunsPositive DEF EtlTypeOK
  <2>3. \A q \in Runs \ {r} : martLock' = q <=> martLock = q
    BY RunsPositive
  <2> QED
    BY <1>2, <2>1, <2>2, <2>3 DEF LockOrders
<1> QED
  BY <1>1, <1>3, <1>4, <1>5, RowsStay

LEMMA MarkFailedKeeps ==
  ASSUME EtlInv, NEW r \in Runs, MarkFailed(r)
  PROVE  EtlInv'
<1> USE DEF MarkFailed, EtlInv
<1>1. EtlTypeOK'
  BY DEF EtlTypeOK, Stages, Statuses
<1>2. Visible' = Visible /\ Stamped' = Stamped
  BY DEF Visible, Stamped
<1>3. RowsFollowStages'
  BY <1>2 DEF EtlTypeOK, RowsFollowStages, Live
<1>4. StampsInOrder' /\ LockOrders'
  BY <1>2 DEF EtlTypeOK, StampsInOrder, LockOrders
<1> QED
  BY <1>1, <1>3, <1>4, RowsStay

LEMMA CommitKeeps ==
  ASSUME EtlInv, NEW r \in Runs, Apply(r) \/ ApplyUnanswered(r)
  PROVE  EtlInv'
<1> USE DEF Apply, ApplyUnanswered, CommitRows, ReleaseMarts, Fault, EtlInv
<1>0. /\ stamp[r] \in Nat \ {0}
      /\ kind[r] # "none"
      /\ committedAt[r] = 0
      /\ r \in Nat \ {0}
  <2>1. r \in Stamped /\ r \notin Visible
    BY DEF StampsInOrder, RowsFollowStages, Live
  <2> QED
    BY <2>1, RunsPositive DEF EtlTypeOK, Stamped, Visible, RowsFollowStages
<1>1. EtlTypeOK'
  <2>1. martRun' \in [Cells -> 0..MaxRuns]
    BY DEF EtlTypeOK, Runs
  <2>2. stage' \in [Runs -> Stages] /\ runStatus' \in [Runs -> Statuses]
    BY DEF EtlTypeOK, Stages, Statuses
  <2>3. committedAt' \in [Runs -> Nat]
    BY <1>0 DEF EtlTypeOK
  <2>4. martLock' \in 0..MaxRuns /\ faults' \in 0..MaxFaults
    BY ConstantsAssumption DEF EtlTypeOK
  <2> QED
    BY <2>1, <2>2, <2>3, <2>4 DEF EtlTypeOK
<1>2. Visible' = Visible \cup {r} /\ Stamped' = Stamped
  <2>1. \A q \in Runs : committedAt'[q] = IF q = r THEN stamp[r] ELSE committedAt[q]
    BY DEF EtlTypeOK
  <2> QED
    BY <1>0, <2>1 DEF Visible, Stamped
<1>3. RowsFollowStages'
  BY <1>0, <1>2 DEF EtlTypeOK, RowsFollowStages, Live
<1>4. StampsInOrder'
  BY <1>0, <1>2 DEF EtlTypeOK, StampsInOrder
<1>5. \A q \in Runs \ {r} : stage'[q] = stage[q] /\ committedAt'[q] = committedAt[q]
  BY DEF EtlTypeOK
<1>6. stage'[r] # "built" /\ martLock' # r /\ committedAt'[r] = stamp[r]
  BY <1>0 DEF EtlTypeOK
<1>7. LockOrders'
  <2>1. ASSUME NEW q \in Runs
        PROVE  martLock' = q <=> kind[q] = "full" /\ stage'[q] = "built"
    BY <1>0, <1>5, <1>6 DEF LockOrders, Runs
  <2>2. ASSUME NEW q \in Runs, martLock' = q, NEW s \in Visible', kind[s] = "full"
        PROVE  committedAt'[s] < stamp[q]
    <3>1. martLock = q /\ q # r
      BY <1>6, <2>2 DEF Runs
    <3>2. s # r
      BY <2>2, <3>1 DEF LockOrders
    <3> QED
      BY <1>2, <1>5, <2>2, <3>1, <3>2 DEF LockOrders, Visible
  <2> QED
    BY <2>1, <2>2 DEF LockOrders
<1>8. RowsOfTheLast'
  <2> DEFINE Old == martRun[Rebuilt]
  <2>0. Written(r) \in SUBSET Cells /\ Rebuilt \in Cells /\ Visible \in SUBSET Runs
    BY DEF Written, Window, Cells, Visible
  <2>1. \A c \in Cells : martRun'[c] = IF c \in Written(r) THEN r ELSE martRun[c]
    OBVIOUS
  <2>2. ASSUME NEW c \in Cells, martRun'[c] # 0
        PROVE  martRun'[c] \in Visible' /\ c \in Written(martRun'[c])
    BY <1>2, <2>1, <2>2 DEF RowsOfTheLast
  <2>3. \A v : Written(v)' = Written(v)
    BY DEF Written, Window
  <2>4. CASE kind[r] = "full"
    <3>1. Rebuilt \in Written(r) /\ martRun'[Rebuilt] = r
      BY <2>0, <2>1, <2>4 DEF Written
    <3>2. martLock = r
      BY <2>4 DEF LockOrders
    <3>3. ASSUME NEW v \in Visible', kind[v] = "full"
          PROVE  committedAt'[v] <= committedAt'[r]
      BY <1>0, <1>2, <1>5, <1>6, <2>0, <3>2, <3>3 DEF LockOrders, EtlTypeOK
    <3>4. \A c \in Written(r) : martRun'[c] = r
      BY <2>0, <2>1
    <3> QED
      BY <1>0, <2>2, <2>3, <3>1, <3>3, <3>4 DEF RowsOfTheLast
  <2>5. CASE kind[r] # "full"
    <3>1. \A c \in Cells : martRun'[c] = martRun[c]
      BY <2>1, <2>5 DEF Written
    <3>2. Old # 0 => Old # r
      BY <1>0, <2>0 DEF RowsOfTheLast, Visible
    <3>3. ASSUME NEW v \in Visible', kind[v] = "full"
          PROVE  Old # 0 /\ committedAt'[v] <= committedAt'[Old]
      BY <1>2, <1>5, <2>0, <2>5, <3>2, <3>3 DEF RowsOfTheLast
    <3>4. ASSUME Old # 0 PROVE \A c \in Written(Old) : martRun[c] = Old
      BY <3>4 DEF RowsOfTheLast
    <3>5. martRun'[Rebuilt] = Old /\ \A c \in Written(Old) : c \in Cells
      BY <2>0, <3>1 DEF Written, Window, Cells
    <3>6. Old # 0 => \A c \in Written(Old) : martRun'[c] = Old
      BY <3>1, <3>4, <3>5
    <3> HIDE DEF Old
    <3> QED
      BY <2>2, <2>3, <3>3, <3>5, <3>6 DEF RowsOfTheLast
  <2> QED
    BY <2>4, <2>5
<1> QED
  BY <1>1, <1>3, <1>4, <1>7, <1>8

LEMMA RunKeeps ==
  ASSUME EtlInv, NEW r \in Runs, RunStep(r)
  PROVE  EtlInv'
<1>1. CASE StartRun(r) \/ RetryRun(r) \/ StartRefresh(r)
  <2>1. faults' \in 0..MaxFaults /\ sourceLoad \in 0..MaxLoads /\ 0 \in 0..MaxLoads
    BY <1>1, ConstantsAssumption DEF StartRun, RetryRun, StartRefresh, EtlInv, EtlTypeOK
  <2> QED
    BY <1>1, <2>1, InsertKeeps DEF StartRun, RetryRun, StartRefresh
<1>2. CASE StartLost(r)
  <2>1. faults' \in 0..MaxFaults /\ 0 \in 0..MaxLoads
    BY <1>2, ConstantsAssumption DEF StartLost, Fault, EtlInv, EtlTypeOK
  <2> QED
    BY <1>2, <2>1, InsertKeeps DEF StartLost
<1>3. CASE RunGoesOn(r)
  BY <1>3, SnapshotKeeps, ExtractKeeps, BuildKeeps, CommitKeeps, DropKeeps, MarkFailedKeeps
     DEF RunGoesOn
<1>4. CASE ApplyUnanswered(r) \/ LoseRun(r)
  BY <1>4, CommitKeeps, DropKeeps
<1> QED
  BY <1>1, <1>2, <1>3, <1>4 DEF RunStep

LEMMA EtlStepKeeps ==
  ASSUME EtlInv, [EtlStep]_etlVars
  PROVE  EtlInv'
<1>1. CASE UNCHANGED etlVars
  BY <1>1, FaultsAlone DEF etlVars, runVars, EtlInv, EtlTypeOK
<1> QED
  BY <1>1, PublishKeeps, RunKeeps DEF EtlStep

---------------------------------------------------------------------------
(* The version readers are told. *)
LEMMA LeastNumber ==
  ASSUME NEW S \in SUBSET Nat, S # {}
  PROVE  \E n \in S : \A k \in S : n <= k
<1>1. PICK n \in S : \A k \in S : <<k, n>> \notin OpToRel(<, Nat)
  BY NatLessThanWellFounded, WFMin
<1>2. ASSUME NEW k \in S
      PROVE  n <= k
  <2>1. <<k, n>> \in Nat \X Nat /\ ~(k < n)
    BY <1>1 DEF OpToRel
  <2> QED
    BY <2>1
<1> QED
  BY <1>2

LEMMA CommittedVisible ==
  ASSUME EtlInv
  PROVE  /\ Committed \in SUBSET Visible
         /\ \A r \in Visible : /\ r \in Nat \ {0}
                               /\ committedAt[r] \in Nat
                               /\ committedAt[r] <= Cardinality(Stamped)
         /\ \A r, s \in Visible : committedAt[r] = committedAt[s] => r = s
<1>1. \A r \in Visible : r \in Runs /\ r \in Stamped /\ committedAt[r] = stamp[r]
  BY DEF EtlInv, StampsInOrder, Visible, Stamped
<1> QED
  BY <1>1, RunsPositive
     DEF EtlInv, EtlTypeOK, RowsFollowStages, StampsInOrder, Committed, Visible

LEMMA CurrentIsLatest ==
  ASSUME EtlInv
  PROVE  /\ Committed = {} => Current = 0
         /\ Committed # {} => /\ Current \in Committed
                              /\ \A s \in Committed : committedAt[s] <= committedAt[Current]
<1>1. ASSUME Committed # {}
      PROVE  \E r \in Committed : \A s \in Committed : committedAt[s] <= committedAt[r]
  <2> DEFINE Bound == Cardinality(Stamped)
             Ages == {Bound - committedAt[r] : r \in Committed}
  <2>1. \A r \in Committed : committedAt[r] \in Nat /\ committedAt[r] <= Bound
    BY CommittedVisible
  <2>2. Bound \in Nat
    BY StampsCounted
  <2> HIDE DEF Bound
  <2>3. Ages \in SUBSET Nat /\ Ages # {}
    BY <1>1, <2>1, <2>2
  <2>4. PICK n \in Ages : \A k \in Ages : n <= k
    <3> HIDE DEF Ages
    <3> QED BY <2>3, LeastNumber
  <2>5. PICK r \in Committed : n = Bound - committedAt[r]
    OBVIOUS
  <2>6. ASSUME NEW s \in Committed
        PROVE  committedAt[s] <= committedAt[r]
    <3>1. Bound - committedAt[r] <= Bound - committedAt[s]
      BY <2>4, <2>5
    <3> QED
      BY <2>1, <2>2, <3>1
  <2> QED
    BY <2>6
<1> QED
  BY <1>1 DEF Current

LEMMA CurrentVisible == EtlInv => Current \in Visible \cup {0}
BY CurrentIsLatest, CommittedVisible

(* A commit makes the new run the version of the readers, or changes nothing
   for them: the stamps decide, and they are all different. *)
LEMMA CommitMovesCurrent ==
  ASSUME EtlInv, EtlInv', NEW r \in Runs, CommitRows(r)
  PROVE  Current' \in {Current, r}
<1>1. r \notin Visible
  BY DEF CommitRows, EtlInv, RowsFollowStages, Live
<1>2. Committed' = Committed \cup {r}
  BY DEF CommitRows, EtlInv, EtlTypeOK, Committed
<1>3. \A s \in Committed : s # r /\ committedAt'[s] = committedAt[s]
  BY <1>1, CommittedVisible DEF CommitRows, EtlInv, EtlTypeOK, Committed
<1>4. /\ Current' \in Committed'
      /\ \A s \in Committed' : committedAt'[s] <= committedAt'[Current']
  <2>1. /\ (Committed = {} => Current = 0)'
        /\ (Committed # {} => /\ Current \in Committed
                              /\ \A s \in Committed : committedAt[s] <= committedAt[Current])'
    BY CurrentIsLatest, PTL
  <2> QED
    BY <1>2, <2>1
<1>5. ASSUME Current' # r
      PROVE  Current' = Current
  <2>1. Current' \in Committed /\ \A s \in Committed : committedAt[s] <= committedAt[Current']
    BY <1>2, <1>3, <1>4, <1>5
  <2>2. Current \in Committed /\ \A s \in Committed : committedAt[s] <= committedAt[Current]
    BY <2>1, CurrentIsLatest
  <2>3. committedAt[Current] = committedAt[Current']
    BY <2>1, <2>2, CommittedVisible
  <2> QED
    BY <2>1, <2>2, <2>3, CommittedVisible
<1> QED
  BY <1>5

---------------------------------------------------------------------------
(* The invariant itself: whatever the runs do, crashes, lost answers and
   concurrent full runs included, rows, stages, stamps and the lock of
   TRUNCATE stay in step (etl_validation/loader: Apply). *)
THEOREM EtlInvariantHolds == EtlSpec => []EtlInv
<1>1. EtlInit => EtlInv
  BY EtlInitially
<1>2. EtlInv /\ [EtlStep]_etlVars => EtlInv'
  BY EtlStepKeeps
<1> QED
  BY <1>1, <1>2, PTL DEF EtlSpec

(* The marts flip together: the run of the rebuilt marts has every day it saw,
   and no day holds rows of a run that committed after it. *)
THEOREM MartsAlwaysFlipTogether == EtlSpec => []MartsFlipTogether
<1>1. EtlInv => MartsFlipTogether
  <2> SUFFICES ASSUME EtlInv, NEW d \in Days
               PROVE  LET last == martRun[Rebuilt]
                      IN  /\ last # 0 /\ d \in Window(staged[last].facts) => martRun[d] = last
                          /\ martRun[d] # 0 =>
                               last # 0 /\ committedAt[martRun[d]] <= committedAt[last]
    BY DEF MartsFlipTogether
  <2>1. d \in Cells /\ Rebuilt \in Cells
    BY DEF Cells
  <2>2. \A c \in Cells : martRun[c] # 0 =>
           martRun[c] \in Visible /\ kind[martRun[c]] = "full" /\ c \in Written(martRun[c])
    BY DEF EtlInv, RowsOfTheLast, Written
  <2> QED
    BY <2>1, <2>2 DEF EtlInv, RowsOfTheLast, Written
<1> QED
  BY <1>1, EtlInvariantHolds, PTL

(* Readers are told the run whose rows the marts hold, but for the two
   exceptions the property names. *)
THEOREM ReadersToldTheRows == EtlSpec => []VersionOfTheRows
<1>1. EtlInv => VersionOfTheRows
  <2> SUFFICES ASSUME EtlInv PROVE VersionOfTheRows
    OBVIOUS
  <2> DEFINE last == martRun[Rebuilt]
  <2>1. Rebuilt \in Cells
    BY DEF Cells
  <2>2. \A r \in Committed : kind[r] \in {"full", "mart_refresh"} /\ r \in Visible
    BY CommittedVisible DEF EtlInv, EtlTypeOK, RowsFollowStages, Committed
  <2>3. \A r \in Visible : kind[r] = "full" => last # 0 /\ committedAt[r] <= committedAt[last]
    BY DEF EtlInv, RowsOfTheLast
  <2>4. CASE last = 0
    BY <2>2, <2>3, <2>4, CurrentIsLatest, CommittedVisible DEF VersionOfTheRows
  <2>5. CASE last # 0 /\ runStatus[last] # "failed"
    <3>1. last \in Committed
      BY <2>1, <2>5 DEF EtlInv, RowsOfTheLast, RowsFollowStages, Visible, Committed
    <3>2. Current \in Committed /\ committedAt[last] <= committedAt[Current]
      BY <3>1, CurrentIsLatest
    <3>3. CASE kind[Current] = "full"
      BY <2>2, <2>3, <3>1, <3>2, <3>3, CommittedVisible DEF VersionOfTheRows
    <3> QED
      BY <2>2, <3>2, <3>3, CommittedVisible DEF VersionOfTheRows
  <2> QED
    BY <2>4, <2>5 DEF VersionOfTheRows
<1> QED
  BY <1>1, EtlInvariantHolds, PTL

---------------------------------------------------------------------------
(* MartVersions: a commit is a Flip, every other step a Disown or a stutter. *)
LEMMA CommitFlips ==
  ASSUME EtlInv, EtlInv', NEW r \in Runs, CommitRows(r)
  PROVE  Versions!Flip(r)
<1>1. r \notin Visible /\ r \in Stamped
  BY DEF CommitRows, EtlInv, RowsFollowStages, StampsInOrder, Live
<1>2. Visible' = Visible \cup {r}
  BY <1>1 DEF CommitRows, EtlInv, EtlTypeOK, Visible, Stamped
<1>3. \E cells \in {{}} \cup {days \cup {Rebuilt} : days \in SUBSET Days} :
         martRun' = [c \in Cells |-> IF c \in cells THEN r ELSE martRun[c]]
  <2>1. Written(r) \in {{}} \cup {days \cup {Rebuilt} : days \in SUBSET Days}
    BY DEF Written, Window
  <2> QED
    BY <2>1 DEF CommitRows
<1>4. Current' \in {Current, r}
  BY CommitMovesCurrent
<1> QED
  BY <1>1, <1>2, <1>3, <1>4
     DEF Versions!Flip, Versions!Cells, Versions!Days, Versions!Rebuilt, Visible, Cells, Days, Rebuilt

LEMMA OthersDisown ==
  ASSUME EtlInv', UNCHANGED <<martRun, committedAt>>
  PROVE  Versions!Disown
<1>1. Current' \in Visible' \cup {0}
  <2>1. (Current \in Visible \cup {0})'
    BY CurrentVisible, PTL
  <2> QED
    BY <2>1
<1> QED
  BY <1>1 DEF Versions!Disown, Visible

(* The runs implement MartVersions: the tables change in the step in which a run
   becomes visible and in no other, and readers are told visible runs only. *)
THEOREM RunsImplementVersions == EtlSpec => ImplementsVersions
<1>1. EtlInit => Versions!Init
  BY ConstantsAssumption
     DEF EtlInit, Versions!Init, Versions!Cells, Versions!Days, Versions!Rebuilt, Cells, Days,
         Rebuilt, Current, Committed
<1>2. EtlInv /\ EtlInv' /\ [EtlStep]_etlVars
        => [Versions!Next]_<<martRun, Current, {r \in Runs : committedAt[r] # 0}>>
  <2> SUFFICES ASSUME EtlInv, EtlInv', [EtlStep]_etlVars
               PROVE  Versions!Next \/ UNCHANGED <<martRun, Current, {r \in Runs : committedAt[r] # 0}>>
    OBVIOUS
  <2>1. CASE UNCHANGED <<martRun, committedAt>>
    BY <2>1, OthersDisown DEF Versions!Next
  <2>2. CASE \E r \in Runs : CommitRows(r)
    BY <2>2, CommitFlips DEF Versions!Next, Versions!Runs, Runs
  <2>3. UNCHANGED <<martRun, committedAt>> \/ \E r \in Runs : CommitRows(r)
    BY DEF EtlStep, etlVars, RunStep, RunGoesOn, PublishLoad, StartRun, RetryRun, StartLost,
           StartRefresh, Insert, ReadSnapshot, ExtractMasters, ExtractFacts, Extract, BuildMarts,
           BuildRefresh, Apply, ApplyUnanswered, FailRun, MarkFailed, LoseRun, runVars
  <2> QED
    BY <2>1, <2>2, <2>3
<1> QED
  BY <1>1, <1>2, EtlInvariantHolds, PTL DEF EtlSpec, ImplementsVersions, Versions!Spec
====
