-------------------------- MODULE BridgeEngine_proofs --------------------------
(***************************************************************************)
(* Proofs about BridgeEngine, for any files, contents, processes and       *)
(* bounds.                                                                 *)
(***************************************************************************)
EXTENDS BridgeEngine, FiniteSetTheorems, WellFoundedInduction, TLAPS

(* A nonempty set of revision ids has a greatest element: the ids above a   *)
(* given one form smaller and smaller finite sets.  Newest rests on it.     *)
LEMMA MaxExists ==
  ASSUME NEW n \in Nat, NEW S \in SUBSET (1..n), S # {}
  PROVE  \E r \in S : \A q \in S : q <= r
<1> DEFINE Above(r) == {q \in S : q > r}
           T == {Above(r) : r \in S}
<1>1. S \subseteq Nat /\ IsFiniteSet(S)
  <2>1. IsFiniteSet(1..n)
    BY FS_Interval
  <2>2. IsFiniteSet(S)
    BY <2>1, FS_Subset
  <2>3. S \subseteq Nat
    OBVIOUS
  <2> QED BY <2>2, <2>3
<1>2. T \subseteq FiniteSubsetsOf(S) /\ T # {}
  <2>1. FiniteSubsetsOf(S) = SUBSET S
    BY <1>1, FS_FiniteSubsetsOfFinite
  <2>2. \A r \in S : Above(r) \in SUBSET S
    OBVIOUS
  <2> HIDE DEF Above
  <2>3. T \subseteq SUBSET S
    BY <2>2
  <2>4. T # {}
    OBVIOUS
  <2> QED BY <2>1, <2>3, <2>4
<1>3. PICK U \in T : \A V \in T : <<V, U>> \notin StrictSubsetOrdering(S)
  <2> HIDE DEF T
  <2>1. IsWellFoundedOn(StrictSubsetOrdering(S), FiniteSubsetsOf(S))
    BY FS_StrictSubsetOrderingWellFounded
  <2> QED BY <1>2, <2>1, WFMin
<1>4. PICK r \in S : U = Above(r)
  OBVIOUS
<1>5. ASSUME NEW q \in S, q > r
      PROVE  FALSE
  <2>1. Above(q) \subseteq Above(r) /\ q \in Above(r) /\ q \notin Above(q)
    <3>1. \A p \in S : p > q => p > r
      BY <1>1, <1>5
    <3>2. ~ (q > q)
      BY <1>1
    <3> QED BY <3>1, <3>2, <1>5
  <2>2. Above(q) \in T /\ Above(r) \in T
    OBVIOUS
  <2>3. Above(q) \in SUBSET S /\ Above(r) \in SUBSET S
    OBVIOUS
  <2> HIDE DEF Above, T
  <2>4. <<Above(q), Above(r)>> \in StrictSubsetOrdering(S)
    BY <2>1, <2>3 DEF StrictSubsetOrdering
  <2> QED BY <1>3, <1>4, <2>2, <2>4
<1> QED BY <1>1, <1>5

(* What Newest returns: 0, or a member of the set that bounds it.           *)
LEMMA NewestType ==
  ASSUME NEW n \in Nat, NEW S \in SUBSET (1..n)
  PROVE  /\ Newest(S) \in 0..n
         /\ S # {} => Newest(S) \in S /\ \A q \in S : q <= Newest(S)
<1>1. CASE S = {}
  BY <1>1 DEF Newest
<1>2. CASE S # {}
  <2>1. \E r \in S : \A q \in S : q <= r
    BY <1>2, MaxExists
  <2>2. Newest(S) \in S /\ \A q \in S : q <= Newest(S)
    BY <1>2, <2>1 DEF Newest
  <2> HIDE DEF Newest
  <2>3. \A r \in S : r \in 0..n
    OBVIOUS
  <2>4. Newest(S) \in 0..n
    BY <2>2, <2>3
  <2> QED BY <2>2, <2>4
<1> QED BY <1>1, <1>2

(* The current revision is 0 (none) or an id that was handed out.           *)
LEMMA CurrentType == Current \in 0..MaxRev
  <1>1. {r \in Listed : status[r] # "rolled_back"} \in SUBSET (1..MaxRev)
    BY DEF Listed, Rev
  <1> QED BY <1>1, NewestType, EngineAssumption DEF Current

(* TypeOK is inductive together with CurTyped: a step that writes the       *)
(* record, snapshot or file of cur[w] needs cur[w] to be an id.  One lemma  *)
(* per group of actions.                                                    *)
LEMMA InitType == Init => TypeOK /\ CurTyped
<1> SUFFICES ASSUME Init PROVE TypeOK /\ CurTyped
  OBVIOUS
<1> USE EngineAssumption DEF Init, Tree, Rev
<1>1. rec \in [Rev -> Record] /\ status \in [Rev -> Status] /\ disk \in Tree
  BY DEF Record, Status
<1>2. budget \in Budget
  BY DEF Budget
<1>3. pc \in [Worker -> Phase] /\ cur \in [Worker -> 0..MaxRev]
  BY DEF Phase
<1>4. todo \in [Worker -> SUBSET File] /\ scan \in [Worker -> SUBSET Rev]
  OBVIOUS
<1>5. last \in 0..MaxRev
  OBVIOUS
<1>6. plans \subseteq Plan /\ snapped \subseteq Rev /\ torn \in BOOLEAN
  OBVIOUS
<1>7. marked \subseteq Rev /\ lock \in Worker \cup {NoWorker} /\ edited \subseteq File
  OBVIOUS
<1>8. CurTyped
  BY DEF CurTyped, Resting
<1> QED BY <1>1, <1>2, <1>3, <1>4, <1>5, <1>6, <1>7, <1>8 DEF TypeOK

LEMMA RequestType ==
  ASSUME TypeOK, CurTyped, NEW w \in Worker, Request(w)
  PROVE  TypeOK' /\ CurTyped'
<1> USE EngineAssumption DEF TypeOK, store, local, Rev, Tree, Phase
<1>1. ASSUME NEW after \in Tree, NEW q \in 0..MaxRev, Begin(w, after, q)
      PROVE  /\ last' \in 0..MaxRev /\ rec' \in [Rev -> Record]
             /\ lock' \in Worker \cup {NoWorker}
             /\ pc' \in [Worker -> Phase] /\ cur' \in [Worker -> 0..MaxRev]
             /\ CurTyped'
             /\ UNCHANGED <<disk, snapped, status, torn, marked, todo, scan,
                            budget, edited>>
  <2>1. last + 1 \in Rev /\ Current \in 0..MaxRev
    BY <1>1, CurrentType DEF Begin
  <2>2. rec' \in [Rev -> Record]
    BY <1>1, <2>1 DEF Begin, Record
  <2>3. pc' \in [Worker -> Phase] /\ cur' \in [Worker -> 0..MaxRev]
    BY <1>1, <2>1 DEF Begin, Go
  <2>4. CurTyped'
    BY <1>1, <2>1 DEF Begin, Go, CurTyped, Resting
  <2> QED BY <1>1, <2>1, <2>2, <2>3, <2>4 DEF Begin
<1>2. ASSUME NEW p \in plans, Apply(w, p) PROVE TypeOK' /\ CurTyped'
  <2> DEFINE after == [f \in File |-> IF f \in Changed(p.before, p.after)
                                      THEN p.after[f] ELSE disk[f]]
  <2>1. p \in Plan /\ disk \in Tree
    OBVIOUS
  <2>2. after \in Tree
    BY <2>1 DEF Plan
  <2>3. Begin(w, after, 0) /\ plans' \subseteq plans
    BY <1>2 DEF Apply
  <2> HIDE DEF after
  <2>4. 0 \in 0..MaxRev
    OBVIOUS
  <2> QED BY <1>1, <2>2, <2>3, <2>4
<1>3. ASSUME NEW p \in plans, RefuseApply(w, p) PROVE TypeOK' /\ CurTyped'
  BY <1>3 DEF RefuseApply, CurTyped
<1>4. ASSUME NEW r \in Rev, NEW force \in BOOLEAN, Rollback(w, r, force)
      PROVE  TypeOK' /\ CurTyped'
  <2> DEFINE after == [f \in File |-> IF f \in Touched(r)
                                      THEN rec[r].before[f] ELSE disk[f]]
  <2>1. rec[r] \in Record /\ disk \in Tree
    OBVIOUS
  <2>2. after \in Tree
    BY <2>1 DEF Record
  <2>3. Begin(w, after, r) /\ plans' = plans
    BY <1>4 DEF Rollback
  <2> HIDE DEF after
  <2>4. r \in 0..MaxRev
    OBVIOUS
  <2> QED BY <1>1, <2>2, <2>3, <2>4
<1> QED BY <1>2, <1>3, <1>4 DEF Request

LEMMA ExecuteType ==
  ASSUME TypeOK, CurTyped, NEW w \in Worker, Execute(w)
  PROVE  TypeOK' /\ CurTyped'
<1> USE EngineAssumption
    DEF TypeOK, store, local, Phase, Go, Leave, StartRestore, AppendEvent,
        ClearMarker, Status, CurTyped, Resting
<1>3. CASE Recheck(w)
  BY <1>3 DEF Recheck
<1>4. CASE WriteSnapshot(w)
  BY <1>4 DEF WriteSnapshot
<1>5. CASE WriteRecord(w)
  BY <1>5 DEF WriteRecord
<1>6. CASE WriteMarker(w)
  BY <1>6 DEF WriteMarker, Touched, Changed
<1>7. CASE \E f \in File : WriteFile(w, f)
  <2>1. PICK f \in File : WriteFile(w, f)
    BY <1>7
  <2>2. rec[cur[w]].after \in Tree /\ cur[w] \in Rev
    BY <2>1 DEF WriteFile, Record
  <2>3. disk' \in Tree
    BY <2>1, <2>2 DEF WriteFile, Tree
  <2>4. todo' \in [Worker -> SUBSET File]
    BY <2>1 DEF WriteFile
  <2> QED BY <2>1, <2>3, <2>4 DEF WriteFile
<1>8. CASE WriteFails(w)
  BY <1>8 DEF WriteFails, Touched, Changed
<1>9. CASE Verify(w)
  BY <1>9 DEF Verify, Touched, Changed
<1>10. CASE Check(w)
  BY <1>10 DEF Check, Touched, Changed
<1>11. CASE Finish(w)
  BY <1>11 DEF Finish
<1>12. CASE MarkReverted(w)
  BY <1>12 DEF MarkReverted, SetStatus
<1>13. CASE Answer(w)
  BY <1>13 DEF Answer
<1> QED BY <1>3, <1>4, <1>5, <1>6, <1>7, <1>8, <1>9, <1>10, <1>11, <1>12,
           <1>13 DEF Execute
LEMMA UndoType ==
  ASSUME TypeOK, CurTyped, NEW w \in Worker, Undo(w)
  PROVE  TypeOK' /\ CurTyped'
<1> USE EngineAssumption
    DEF TypeOK, store, local, Phase, Go, Leave, AppendEvent, ClearMarker,
        Status, CurTyped, Resting
<1>1. CASE \E f \in File : RestoreFile(w, f)
  <2>1. PICK f \in File : RestoreFile(w, f)
    BY <1>1
  <2>2. rec[cur[w]].before \in Tree /\ cur[w] \in Rev
    BY <2>1 DEF RestoreFile, Record
  <2>3. disk' \in Tree
    BY <2>1, <2>2 DEF RestoreFile, Tree
  <2>4. todo' \in [Worker -> SUBSET File]
    BY <2>1 DEF RestoreFile
  <2> QED BY <2>1, <2>3, <2>4 DEF RestoreFile
<1>2. CASE Throws(w)
  BY <1>2 DEF Throws, Budget
<1>3. CASE MarkRolledBack(w)
  BY <1>3 DEF MarkRolledBack, SetStatus
<1>4. CASE Settle(w)
  BY <1>4 DEF Settle
<1> QED BY <1>1, <1>2, <1>3, <1>4 DEF Undo

LEMMA RestartType ==
  ASSUME TypeOK, CurTyped, NEW w \in Worker, Restart(w)
  PROVE  TypeOK' /\ CurTyped'
<1> USE EngineAssumption DEF TypeOK, store, local, Phase, Go, CurTyped, Resting
<1>1. CASE Boot(w)
  BY <1>1 DEF Boot, Listed
<1>2. CASE \E r \in Rev : Recover(w, r)
  <2> HIDE DEF Phase
  <2>1. PICK r \in Rev : Recover(w, r)
    BY <1>2
  <2>2. r \in 0..MaxRev /\ Touched(r) \subseteq File
    BY DEF Rev, Touched, Changed
  <2>3. pc' \in [Worker -> Phase] /\ scan' \in [Worker -> SUBSET Rev]
    BY <2>1 DEF Recover, Phase
  <2>4. cur' \in [Worker -> 0..MaxRev] /\ todo' \in [Worker -> SUBSET File]
    BY <2>1, <2>2 DEF Recover
  <2>5. CurTyped'
    BY <2>1 DEF Recover
  <2> QED BY <2>1, <2>3, <2>4, <2>5 DEF Recover
<1>3. CASE Ready(w)
  BY <1>3 DEF Ready
<1> QED BY <1>1, <1>2, <1>3 DEF Restart

LEMMA EnvironmentType ==
  ASSUME TypeOK, CurTyped, Environment
  PROVE  TypeOK' /\ CurTyped'
<1> USE EngineAssumption
    DEF TypeOK, store, local, Phase, Go, CurTyped, Resting, Tree
<1>1. ASSUME NEW t \in Tree, MakePlan(t) PROVE TypeOK' /\ CurTyped'
  BY <1>1, CurrentType DEF MakePlan, Plan
<1>2. ASSUME NEW p \in plans, DropPlan(p) PROVE TypeOK' /\ CurTyped'
  BY <1>2 DEF DropPlan
<1>3. ASSUME NEW f \in File, NEW c \in Content, Edit(f, c) PROVE TypeOK' /\ CurTyped'
  BY <1>3 DEF Edit, Budget
<1>4. ASSUME NEW w \in Worker, Crash(w) PROVE TypeOK' /\ CurTyped'
  BY <1>4 DEF Crash, Die, Budget
<1>5. ASSUME NEW w \in Worker, CrashInAppend(w) PROVE TypeOK' /\ CurTyped'
  BY <1>5 DEF CrashInAppend, Die, Budget
<1>6. ASSUME NEW w \in Worker, NEW r \in Rev, Prune(w, r) PROVE TypeOK' /\ CurTyped'
  BY <1>6 DEF Prune
<1> QED BY <1>1, <1>2, <1>3, <1>4, <1>5, <1>6 DEF Environment

LEMMA TypeStep ==
  ASSUME TypeOK, CurTyped, [Next]_vars
  PROVE  TypeOK' /\ CurTyped'
<1>1. CASE UNCHANGED vars
  BY <1>1 DEF TypeOK, CurTyped, vars, store, local
<1> QED BY <1>1, RequestType, ExecuteType, UndoType, RestartType,
           EnvironmentType DEF Next

(* Every variable has its type in every reachable state: the steps, ids and *)
(* statuses a process can meet are the ones the code distinguishes.         *)
THEOREM TypeCorrect == Spec => []TypeOK
<1>1. TypeOK /\ CurTyped /\ [Next]_vars => TypeOK' /\ CurTyped'
  BY TypeStep
<1> QED BY InitType, <1>1, PTL DEF Spec
=============================================================================
