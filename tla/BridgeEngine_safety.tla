------------------------- MODULE BridgeEngine_safety -------------------------
(***************************************************************************)
(* What BridgeEngine guarantees for any files, contents, number of         *)
(* processes and bounds on revisions, crashes and edits.                   *)
(*                                                                         *)
(* IInv is inductive while one process at a time works and no request      *)
(* begins over an interrupted revision (Serial), if no append to the index *)
(* is torn (Whole).  Both are needed: AnswerIsTrue is violated when a      *)
(* process restarts while another executes, AllOrNothing when MaxTear = 1  *)
(* and when a request begins after a restore that failed.  Serial itself   *)
(* holds when nothing throws that is not undone and either one process     *)
(* uses the state directory or none crashes (Regular).  Write-ahead needs  *)
(* neither.                                                                *)
(***************************************************************************)
EXTENDS BridgeEngine_proofs

\* No crash tears index.jsonl.
Whole == MaxTear = 0

\* Whoever works is alone, and has the lock if it is held.
LEMMA Alone ==
  ASSUME IInv, NEW w \in Worker, pc[w] \notin Idle
  PROVE  (\A v \in Worker \ {w} : pc[v] \in Idle) /\ lock \in {w, NoWorker}
<1>1. \A v \in Worker \ {w} : pc[v] \in Idle
  BY DEF IInv, Serial
<1> QED BY <1>1 DEF IInv, TypeOK, LockInv, Idle, Resting

(* One lemma per action.  Each first collects what the action and the       *)
(* invariant say of the process, and then proves the parts of IInv.         *)

\* The files are as planned, or the request leaves.
LEMMA RecheckStep ==
  ASSUME Whole, IInv, TypeOK', CurTyped', Serial', NEW w \in Worker, Recheck(w)
  PROVE  IInv'
<1> USE DEF IInv, TypeOK, Idle, Resting, Preparing, Applying, Undoing, Writing
<1>1. (\A v \in Worker \ {w} : pc[v] \in Idle) /\ lock \in {w, NoWorker}
  BY Alone DEF Idle, Recheck
<1>2. lock = w
  BY DEF LockInv, Recheck
<1>3. /\ pc[w] = "recheck" /\ pc' = [pc EXCEPT ![w] = pc'[w]]
      /\ \/ pc'[w] = "snapshot" /\ lock' = lock /\ Holds(cur[w], rec[cur[w]].before)
         \/ pc'[w] = "ready" /\ lock' = NoWorker
  BY <1>2 DEF Recheck, Go, Leave, Holds
<1>4. UNCHANGED <<disk, last, rec, snapped, status, torn, marked, cur, todo,
                  scan, budget, edited>>
  BY DEF Recheck, store
<1>5. IdsInv' /\ LockInv' /\ CurInv' /\ MarkInv' /\ LeftInv'
  <2>1. IdsInv'
    BY <1>1, <1>2, <1>3, <1>4, EngineAssumption
      DEF IdsInv, Listed, Rev, LockInv, CurInv, NewestListed, MarkInv
  <2>2. LockInv'
    BY <1>1, <1>2, <1>3, <1>4, EngineAssumption
      DEF LockInv
  <2>3. CurInv'
    BY <1>1, <1>2, <1>3, <1>4, EngineAssumption
      DEF IdsInv, Listed, Rev, LockInv, CurInv, NewestListed, MarkInv
  <2>4. MarkInv'
    BY <1>1, <1>2, <1>3, <1>4, EngineAssumption
      DEF IdsInv, Listed, Rev, LockInv, CurInv, NewestListed, MarkInv
  <2>5. LeftInv'
    BY <1>1, <1>2, <1>3, <1>4, EngineAssumption DEF LeftInv, Serial
  <2> QED BY <2>1, <2>2, <2>3, <2>4, <2>5
<1>6. DiskInv'
  BY <1>1, <1>2, <1>3, <1>4 DEF DiskInv, Holds, Touched, Changed
<1>7. AllOrNothing' /\ RolledBackIsUndone'
  BY <1>1, <1>2, <1>3, <1>4
    DEF AllOrNothing, NewestListed, Listed, AtRest, Holds, Touched,
        Changed, CurInv, RolledBackIsUndone
<1> QED
  BY <1>1, <1>2, <1>3, <1>4, <1>5, <1>6, <1>7

\* The snapshot is there before the record.
LEMMA WriteSnapshotStep ==
  ASSUME Whole, IInv, TypeOK', CurTyped', Serial', NEW w \in Worker, WriteSnapshot(w)
  PROVE  IInv'
<1> USE DEF IInv, TypeOK, Idle, Resting, Preparing, Applying, Undoing, Writing
<1>1. (\A v \in Worker \ {w} : pc[v] \in Idle) /\ lock \in {w, NoWorker}
  BY Alone DEF Idle, WriteSnapshot
<1>2. /\ pc[w] = "snapshot" /\ pc' = [pc EXCEPT ![w] = "record"]
      /\ snapped' = snapped \cup {cur[w]}
  BY DEF WriteSnapshot, Go
<1>3. UNCHANGED <<disk, last, rec, status, torn, marked, lock, cur, todo,
                  scan, budget, edited>>
  BY DEF WriteSnapshot
<1>4. IdsInv' /\ LockInv' /\ CurInv' /\ MarkInv' /\ LeftInv'
  <2>1. IdsInv'
    <3>1. snapped' \subseteq snapped \cup {last}
      BY <1>2 DEF CurInv
    <3> QED BY <1>3, <3>1, EngineAssumption DEF IdsInv, Listed, Rev
  <2>2. LockInv'
    BY <1>1, <1>2, <1>3, EngineAssumption
      DEF LockInv
  <2>3. CurInv'
    BY <1>1, <1>2, <1>3, EngineAssumption
      DEF IdsInv, Listed, Rev, LockInv, CurInv, NewestListed, MarkInv
  <2>4. MarkInv'
    BY <1>1, <1>2, <1>3, EngineAssumption
      DEF IdsInv, Listed, Rev, LockInv, CurInv, NewestListed, MarkInv
  <2>5. LeftInv'
    BY <1>1, <1>2, <1>3, EngineAssumption DEF LeftInv, MarkInv
  <2> QED BY <2>1, <2>2, <2>3, <2>4, <2>5
<1>5. DiskInv'
  BY <1>1, <1>2, <1>3 DEF DiskInv, Holds, Touched, Changed
<1>6. AllOrNothing' /\ RolledBackIsUndone'
  BY <1>1, <1>2, <1>3
    DEF AllOrNothing, NewestListed, Listed, AtRest, Holds, Touched,
        Changed, RolledBackIsUndone
<1> QED
  BY <1>1, <1>2, <1>3, <1>4, <1>5, <1>6

\* The revision becomes the newest listed one.
LEMMA WriteRecordStep ==
  ASSUME Whole, IInv, TypeOK', CurTyped', Serial', NEW w \in Worker, WriteRecord(w)
  PROVE  IInv'
<1> USE DEF IInv, TypeOK, Idle, Resting, Preparing, Applying, Undoing, Writing
<1>1. (\A v \in Worker \ {w} : pc[v] \in Idle) /\ lock \in {w, NoWorker}
  BY Alone DEF Idle, WriteRecord
<1>2. /\ pc[w] = "record" /\ pc' = [pc EXCEPT ![w] = "mark"]
      /\ status' = [status EXCEPT ![cur[w]] = "applied"] /\ torn' = FALSE
  BY DEF WriteRecord, Go, AppendEvent
<1>3. UNCHANGED <<disk, last, rec, snapped, marked, lock, cur, todo, scan,
                  budget, edited>>
  BY DEF WriteRecord
<1>4. cur[w] = last /\ cur[w] \in Rev /\ cur[w] \notin Listed /\ marked = {}
  BY <1>2 DEF CurInv, Serial, CurTyped
<1>5. Listed' = Listed \cup {cur[w]} /\ NewestListed(cur[w])'
  <2>1. Listed' = Listed \cup {cur[w]}
    BY <1>2, <1>4 DEF Listed
  <2>2. \A r \in Listed : r <= cur[w]
    BY <1>4 DEF IdsInv
  <2> QED BY <1>3, <1>4, <2>1, <2>2 DEF NewestListed, Rev
<1>6. IdsInv' /\ LockInv' /\ CurInv' /\ MarkInv' /\ LeftInv'
  <2>1. IdsInv'
    BY <1>1, <1>2, <1>3, <1>4, <1>5, EngineAssumption
      DEF IdsInv, Listed, Rev, LockInv, CurInv, NewestListed, MarkInv
  <2>2. LockInv'
    BY <1>1, <1>2, <1>3, <1>4, <1>5, EngineAssumption
      DEF LockInv
  <2>3. CurInv'
    BY <1>1, <1>2, <1>3, <1>4, <1>5, EngineAssumption
      DEF IdsInv, Listed, Rev, LockInv, CurInv, NewestListed, MarkInv
  <2>4. MarkInv'
    BY <1>1, <1>2, <1>3, <1>4, <1>5, EngineAssumption
      DEF IdsInv, Listed, Rev, LockInv, CurInv, NewestListed, MarkInv
  <2>5. LeftInv'
    BY <1>1, <1>2, <1>3, <1>4, <1>5, EngineAssumption DEF LeftInv, MarkInv
  <2> QED BY <2>1, <2>2, <2>3, <2>4, <2>5
<1>7. DiskInv'
  BY <1>1, <1>2, <1>3, <1>4, <1>5 DEF DiskInv, Holds, Touched, Changed
<1>8. AllOrNothing' /\ RolledBackIsUndone'
  BY <1>1, <1>2, <1>3, <1>4, <1>5
    DEF AllOrNothing, NewestListed, Listed, AtRest, Holds, Touched,
        Changed, RolledBackIsUndone
<1> QED
  BY <1>1, <1>2, <1>3, <1>4, <1>5, <1>6, <1>7, <1>8

\* The newest revision is the marked one, and nothing of it is written.
LEMMA WriteMarkerStep ==
  ASSUME Whole, IInv, TypeOK', CurTyped', Serial', NEW w \in Worker, WriteMarker(w)
  PROVE  IInv'
<1> USE DEF IInv, TypeOK, Idle, Resting, Preparing, Applying, Undoing, Writing
<1>1. (\A v \in Worker \ {w} : pc[v] \in Idle) /\ lock \in {w, NoWorker}
  BY Alone DEF Idle, WriteMarker
<1>2. /\ pc[w] = "mark" /\ pc' = [pc EXCEPT ![w] = "write"]
      /\ marked' = marked \cup {cur[w]}
      /\ todo' = [todo EXCEPT ![w] = Touched(cur[w])]
  BY DEF WriteMarker, Go
<1>3. UNCHANGED <<disk, last, rec, snapped, status, torn, lock, cur, scan,
                  budget, edited>>
  BY DEF WriteMarker
<1>4. marked = {} /\ cur[w] \in snapped /\ NewestListed(cur[w]) /\ cur[w] \in Rev
  BY <1>2 DEF LockInv, CurInv, MarkInv, DiskInv, CurTyped
<1>5. IdsInv' /\ LockInv' /\ CurInv' /\ MarkInv' /\ LeftInv'
  <2>1. IdsInv'
    BY <1>1, <1>2, <1>3, <1>4, EngineAssumption
      DEF IdsInv, Listed, Rev, LockInv, CurInv, NewestListed, MarkInv
  <2>2. LockInv'
    BY <1>1, <1>2, <1>3, <1>4, EngineAssumption
      DEF LockInv
  <2>3. CurInv'
    BY <1>1, <1>2, <1>3, <1>4, EngineAssumption
      DEF IdsInv, Listed, Rev, LockInv, CurInv, NewestListed, MarkInv
  <2>4. MarkInv'
    <3>1. marked' = {cur[w]} /\ NewestListed(cur[w])'
      BY <1>2, <1>3, <1>4 DEF NewestListed, Listed
    <3> QED BY <1>1, <1>2, <1>3, <3>1 DEF MarkInv
  <2>5. LeftInv'
    BY <1>1, <1>2, <1>3, <1>4, EngineAssumption DEF LeftInv, MarkInv
  <2> QED BY <2>1, <2>2, <2>3, <2>4, <2>5
<1>6. DiskInv'
  BY <1>1, <1>2, <1>3, <1>4 DEF DiskInv, Holds, Touched, Changed
<1>7. AllOrNothing' /\ RolledBackIsUndone'
  BY <1>1, <1>2, <1>3, <1>4
    DEF AllOrNothing, NewestListed, Listed, AtRest, Holds, Touched,
        Changed, RolledBackIsUndone
<1> QED
  BY <1>1, <1>2, <1>3, <1>4, <1>5, <1>6, <1>7

\* While the marker is there, the files are free.
LEMMA WriteFileStep ==
  ASSUME Whole, IInv, TypeOK', CurTyped', Serial',
         NEW w \in Worker, NEW f \in File, WriteFile(w, f)
  PROVE  IInv'
<1> USE DEF IInv, TypeOK, Idle, Resting, Preparing, Applying, Undoing, Writing
<1>1. (\A v \in Worker \ {w} : pc[v] \in Idle) /\ lock \in {w, NoWorker}
  BY Alone DEF Idle, WriteFile
<1>2. /\ pc[w] = "write" /\ f \in todo[w]
      /\ disk' = [disk EXCEPT ![f] = rec[cur[w]].after[f]]
      /\ todo' = [todo EXCEPT ![w] = @ \ {f}]
  BY DEF WriteFile
<1>3. UNCHANGED <<last, rec, snapped, status, torn, marked, lock, cur, scan,
                  budget, edited, pc>>
  BY DEF WriteFile, store
<1>4. marked = {cur[w]} /\ NewestListed(cur[w]) /\ cur[w] \in Rev
  BY <1>2 DEF LockInv, CurInv, MarkInv, DiskInv, CurTyped
<1>5. \A r \in Rev : NewestListed(r)' => r \in marked'
  BY <1>2, <1>3, <1>4 DEF NewestListed, Listed, Rev
<1>6. IdsInv' /\ LockInv' /\ CurInv' /\ MarkInv' /\ LeftInv'
  <2>1. IdsInv'
    BY <1>1, <1>2, <1>3, <1>4, EngineAssumption
      DEF IdsInv, Listed, Rev, LockInv, CurInv, NewestListed, MarkInv
  <2>2. LockInv'
    BY <1>1, <1>2, <1>3, <1>4, EngineAssumption
      DEF LockInv
  <2>3. CurInv'
    BY <1>1, <1>2, <1>3, <1>4, EngineAssumption
      DEF IdsInv, Listed, Rev, LockInv, CurInv, NewestListed, MarkInv
  <2>4. MarkInv'
    BY <1>1, <1>2, <1>3, <1>4, EngineAssumption
      DEF IdsInv, Listed, Rev, LockInv, CurInv, NewestListed, MarkInv
  <2>5. LeftInv'
    BY <1>1, <1>2, <1>3, <1>4, EngineAssumption DEF LeftInv, MarkInv
  <2> QED BY <2>1, <2>2, <2>3, <2>4, <2>5
<1>7. DiskInv'
  BY <1>1, <1>2, <1>3, <1>4 DEF DiskInv, Holds, Touched, Changed
<1>8. AllOrNothing' /\ RolledBackIsUndone'
  BY <1>5 DEF AllOrNothing, RolledBackIsUndone
<1> QED
  BY <1>1, <1>2, <1>3, <1>4, <1>6, <1>7, <1>8

\* One file more is as it was before.
LEMMA RestoreFileStep ==
  ASSUME Whole, IInv, TypeOK', CurTyped', Serial',
         NEW w \in Worker, NEW f \in File, RestoreFile(w, f)
  PROVE  IInv'
<1> USE DEF IInv, TypeOK, Idle, Resting, Preparing, Applying, Undoing, Writing
<1>1. (\A v \in Worker \ {w} : pc[v] \in Idle) /\ lock \in {w, NoWorker}
  BY Alone DEF Idle, RestoreFile
<1>2. /\ pc[w] = "restore" /\ f \in todo[w]
      /\ disk' = [disk EXCEPT ![f] = rec[cur[w]].before[f]]
      /\ todo' = [todo EXCEPT ![w] = @ \ {f}]
  BY DEF RestoreFile
<1>3. UNCHANGED <<last, rec, snapped, status, torn, marked, lock, cur, scan,
                  budget, edited, pc>>
  BY DEF RestoreFile, store
<1>4. marked = {cur[w]} /\ NewestListed(cur[w]) /\ cur[w] \in Rev
  BY <1>2 DEF LockInv, CurInv, MarkInv, DiskInv, CurTyped
<1>5. \A r \in Rev : NewestListed(r)' => r \in marked'
  BY <1>2, <1>3, <1>4 DEF NewestListed, Listed, Rev
<1>6. IdsInv' /\ LockInv' /\ CurInv' /\ MarkInv' /\ LeftInv'
  <2>1. IdsInv'
    BY <1>1, <1>2, <1>3, <1>4, EngineAssumption
      DEF IdsInv, Listed, Rev, LockInv, CurInv, NewestListed, MarkInv
  <2>2. LockInv'
    BY <1>1, <1>2, <1>3, <1>4, EngineAssumption
      DEF LockInv
  <2>3. CurInv'
    BY <1>1, <1>2, <1>3, <1>4, EngineAssumption
      DEF IdsInv, Listed, Rev, LockInv, CurInv, NewestListed, MarkInv
  <2>4. MarkInv'
    BY <1>1, <1>2, <1>3, <1>4, EngineAssumption
      DEF IdsInv, Listed, Rev, LockInv, CurInv, NewestListed, MarkInv
  <2>5. LeftInv'
    BY <1>1, <1>2, <1>3, <1>4, EngineAssumption DEF LeftInv, MarkInv
  <2> QED BY <2>1, <2>2, <2>3, <2>4, <2>5
<1>7. DiskInv'
  <2>1. \A x \in Touched(cur[w]) \ (todo'[w] \cup edited) :
          disk'[x] = rec[cur[w]].before[x]
    <3>1. \A x \in File : x # f => disk'[x] = disk[x]
      BY <1>2 DEF Tree
    <3>2. disk'[f] = rec[cur[w]].before[f]
      BY <1>2 DEF Tree
    <3>3. todo'[w] = todo[w] \ {f}
      BY <1>2
    <3>4. \A x \in Touched(cur[w]) \ (todo[w] \cup edited) :
            disk[x] = rec[cur[w]].before[x]
      BY <1>2 DEF DiskInv
    <3>5. Touched(cur[w]) \subseteq File
      BY DEF Touched, Changed
    <3> QED BY <3>1, <3>2, <3>3, <3>4, <3>5
  <2>2. todo'[w] \subseteq Touched(cur[w])
    BY <1>2 DEF DiskInv
  <2> QED BY <1>1, <1>2, <1>3, <2>1, <2>2 DEF DiskInv, Touched, Changed
<1>8. AllOrNothing' /\ RolledBackIsUndone'
  BY <1>5 DEF AllOrNothing, RolledBackIsUndone
<1> QED
  BY <1>1, <1>2, <1>3, <1>4, <1>6, <1>7, <1>8

\* A failed write starts the restore.
LEMMA WriteFailsStep ==
  ASSUME Whole, IInv, TypeOK', CurTyped', Serial', NEW w \in Worker, WriteFails(w)
  PROVE  IInv'
<1> USE DEF IInv, TypeOK, Idle, Resting, Preparing, Applying, Undoing, Writing
<1>1. (\A v \in Worker \ {w} : pc[v] \in Idle) /\ lock \in {w, NoWorker}
  BY Alone DEF Idle, WriteFails
<1>2. /\ pc[w] = "write" /\ pc' = [pc EXCEPT ![w] = "restore"]
      /\ todo' = [todo EXCEPT ![w] = Touched(cur[w])]
  BY DEF WriteFails, Go, StartRestore
<1>3. UNCHANGED <<disk, last, rec, snapped, status, torn, marked, lock, cur,
                  scan, budget, edited>>
  BY DEF WriteFails, store
<1>4. marked = {cur[w]} /\ NewestListed(cur[w]) /\ cur[w] \in Rev
  BY <1>2 DEF LockInv, CurInv, MarkInv, DiskInv, CurTyped
<1>5. IdsInv' /\ LockInv' /\ CurInv' /\ MarkInv' /\ LeftInv'
  <2>1. IdsInv'
    BY <1>1, <1>2, <1>3, <1>4, EngineAssumption
      DEF IdsInv, Listed, Rev, LockInv, CurInv, NewestListed, MarkInv
  <2>2. LockInv'
    BY <1>1, <1>2, <1>3, <1>4, EngineAssumption
      DEF LockInv
  <2>3. CurInv'
    BY <1>1, <1>2, <1>3, <1>4, EngineAssumption
      DEF IdsInv, Listed, Rev, LockInv, CurInv, NewestListed, MarkInv
  <2>4. MarkInv'
    BY <1>1, <1>2, <1>3, <1>4, EngineAssumption
      DEF IdsInv, Listed, Rev, LockInv, CurInv, NewestListed, MarkInv
  <2>5. LeftInv'
    BY <1>1, <1>2, <1>3, <1>4, EngineAssumption DEF LeftInv, MarkInv
  <2> QED BY <2>1, <2>2, <2>3, <2>4, <2>5
<1>6. DiskInv'
  BY <1>1, <1>2, <1>3, <1>4 DEF DiskInv, Holds, Touched, Changed
<1>7. AllOrNothing' /\ RolledBackIsUndone'
  BY <1>1, <1>2, <1>3, <1>4
    DEF AllOrNothing, NewestListed, Listed, AtRest, Holds, Touched,
        Changed, RolledBackIsUndone
<1> QED
  BY <1>1, <1>2, <1>3, <1>4, <1>5, <1>6, <1>7

\* What is verified is on the site.
LEMMA VerifyStep ==
  ASSUME Whole, IInv, TypeOK', CurTyped', Serial', NEW w \in Worker, Verify(w)
  PROVE  IInv'
<1> USE DEF IInv, TypeOK, Idle, Resting, Preparing, Applying, Undoing, Writing
<1>1. (\A v \in Worker \ {w} : pc[v] \in Idle) /\ lock \in {w, NoWorker}
  BY Alone DEF Idle, Verify
<1>2. /\ pc[w] \in {"write", "check"}
      /\ \/ /\ pc' = [pc EXCEPT ![w] = "restore"]
            /\ todo' = [todo EXCEPT ![w] = Touched(cur[w])]
         \/ /\ pc' = [pc EXCEPT ![w] = "check"] /\ todo' = todo
            /\ Holds(cur[w], rec[cur[w]].after)
         \/ /\ pc[w] = "check" /\ todo' = todo
            /\ pc' = [pc EXCEPT ![w] = "unmark"]
  BY DEF Verify, Go, StartRestore, Holds
<1>3. UNCHANGED <<disk, last, rec, snapped, status, torn, marked, lock, cur,
                  scan, budget, edited>>
  BY DEF Verify, store
<1>4. marked = {cur[w]} /\ NewestListed(cur[w]) /\ cur[w] \in Rev
  BY <1>2 DEF LockInv, CurInv, MarkInv, DiskInv, CurTyped
<1>5. IdsInv' /\ LockInv' /\ CurInv' /\ MarkInv' /\ LeftInv'
  <2>1. IdsInv'
    BY <1>1, <1>2, <1>3, <1>4, EngineAssumption
      DEF IdsInv, Listed, Rev, LockInv, CurInv, NewestListed, MarkInv
  <2>2. LockInv'
    BY <1>1, <1>2, <1>3, <1>4, EngineAssumption
      DEF LockInv
  <2>3. CurInv'
    BY <1>1, <1>2, <1>3, <1>4, EngineAssumption
      DEF IdsInv, Listed, Rev, LockInv, CurInv, NewestListed, MarkInv
  <2>4. MarkInv'
    BY <1>1, <1>2, <1>3, <1>4, EngineAssumption
      DEF IdsInv, Listed, Rev, LockInv, CurInv, NewestListed, MarkInv
  <2>5. LeftInv'
    BY <1>1, <1>2, <1>3, <1>4, EngineAssumption DEF LeftInv, MarkInv
  <2> QED BY <2>1, <2>2, <2>3, <2>4, <2>5
<1>6. DiskInv'
  BY <1>1, <1>2, <1>3, <1>4 DEF DiskInv, Holds, Touched, Changed
<1>7. AllOrNothing' /\ RolledBackIsUndone'
  BY <1>1, <1>2, <1>3, <1>4
    DEF AllOrNothing, NewestListed, Listed, AtRest, Holds, Touched,
        Changed, RolledBackIsUndone
<1> QED
  BY <1>1, <1>2, <1>3, <1>4, <1>5, <1>6, <1>7

\* A failed check starts the restore.
LEMMA CheckStep ==
  ASSUME Whole, IInv, TypeOK', CurTyped', Serial', NEW w \in Worker, Check(w)
  PROVE  IInv'
<1> USE DEF IInv, TypeOK, Idle, Resting, Preparing, Applying, Undoing, Writing
<1>1. (\A v \in Worker \ {w} : pc[v] \in Idle) /\ lock \in {w, NoWorker}
  BY Alone DEF Idle, Check
<1>2. /\ pc[w] \in {"write", "check"}
      /\ \/ /\ pc' = [pc EXCEPT ![w] = "restore"]
            /\ todo' = [todo EXCEPT ![w] = Touched(cur[w])]
         \/ /\ pc' = [pc EXCEPT ![w] = "check"] /\ todo' = todo
            /\ Holds(cur[w], rec[cur[w]].after)
         \/ /\ pc[w] = "check" /\ todo' = todo
            /\ pc' = [pc EXCEPT ![w] = "unmark"]
  BY DEF Check, Go, StartRestore, Holds
<1>3. UNCHANGED <<disk, last, rec, snapped, status, torn, marked, lock, cur,
                  scan, budget, edited>>
  BY DEF Check, store
<1>4. marked = {cur[w]} /\ NewestListed(cur[w]) /\ cur[w] \in Rev
  BY <1>2 DEF LockInv, CurInv, MarkInv, DiskInv, CurTyped
<1>5. IdsInv' /\ LockInv' /\ CurInv' /\ MarkInv' /\ LeftInv'
  <2>1. IdsInv'
    BY <1>1, <1>2, <1>3, <1>4, EngineAssumption
      DEF IdsInv, Listed, Rev, LockInv, CurInv, NewestListed, MarkInv
  <2>2. LockInv'
    BY <1>1, <1>2, <1>3, <1>4, EngineAssumption
      DEF LockInv
  <2>3. CurInv'
    BY <1>1, <1>2, <1>3, <1>4, EngineAssumption
      DEF IdsInv, Listed, Rev, LockInv, CurInv, NewestListed, MarkInv
  <2>4. MarkInv'
    BY <1>1, <1>2, <1>3, <1>4, EngineAssumption
      DEF IdsInv, Listed, Rev, LockInv, CurInv, NewestListed, MarkInv
  <2>5. LeftInv'
    BY <1>1, <1>2, <1>3, <1>4, EngineAssumption DEF LeftInv, MarkInv
  <2> QED BY <2>1, <2>2, <2>3, <2>4, <2>5
<1>6. DiskInv'
  BY <1>1, <1>2, <1>3, <1>4 DEF DiskInv, Holds, Touched, Changed
<1>7. AllOrNothing' /\ RolledBackIsUndone'
  BY <1>1, <1>2, <1>3, <1>4
    DEF AllOrNothing, NewestListed, Listed, AtRest, Holds, Touched,
        Changed, RolledBackIsUndone
<1> QED
  BY <1>1, <1>2, <1>3, <1>4, <1>5, <1>6, <1>7

\* The marker goes when everything is written.
LEMMA FinishStep ==
  ASSUME Whole, IInv, TypeOK', CurTyped', Serial', NEW w \in Worker, Finish(w)
  PROVE  IInv'
<1> USE DEF IInv, TypeOK, Idle, Resting, Preparing, Applying, Undoing, Writing
<1>1. (\A v \in Worker \ {w} : pc[v] \in Idle) /\ lock \in {w, NoWorker}
  BY Alone DEF Idle, Finish
<1>2. /\ pc[w] = "unmark" /\ marked' = marked \ {cur[w]}
      /\ \/ pc' = [pc EXCEPT ![w] = "answer"]
         \/ pc' = [pc EXCEPT ![w] = "revert"] /\ rec[cur[w]].reverts # 0
  BY DEF Finish, Go, ClearMarker
<1>3. UNCHANGED <<disk, last, rec, snapped, status, torn, lock, cur, todo,
                  scan, budget, edited>>
  BY DEF Finish, ClearMarker
<1>4. /\ marked = {cur[w]} /\ NewestListed(cur[w]) /\ cur[w] \in Rev
      /\ status[cur[w]] = "applied" /\ Holds(cur[w], rec[cur[w]].after)
  BY <1>2 DEF LockInv, CurInv, MarkInv, DiskInv, CurTyped
<1>5. IdsInv' /\ LockInv' /\ CurInv' /\ MarkInv' /\ LeftInv'
  <2>1. IdsInv'
    BY <1>1, <1>2, <1>3, <1>4, EngineAssumption
      DEF IdsInv, Listed, Rev, LockInv, CurInv, NewestListed, MarkInv
  <2>2. LockInv'
    BY <1>1, <1>2, <1>3, <1>4, EngineAssumption
      DEF LockInv
  <2>3. CurInv'
    BY <1>1, <1>2, <1>3, <1>4, EngineAssumption
      DEF IdsInv, Listed, Rev, LockInv, CurInv, NewestListed, MarkInv
  <2>4. MarkInv'
    BY <1>1, <1>2, <1>3, <1>4, EngineAssumption
      DEF IdsInv, Listed, Rev, LockInv, CurInv, NewestListed, MarkInv
  <2>5. LeftInv'
    BY <1>1, <1>2, <1>3, <1>4, EngineAssumption DEF LeftInv, MarkInv
  <2> QED BY <2>1, <2>2, <2>3, <2>4, <2>5
<1>6. DiskInv'
  BY <1>1, <1>2, <1>3, <1>4 DEF DiskInv, Holds, Touched, Changed
<1>7. AllOrNothing' /\ RolledBackIsUndone'
  BY <1>1, <1>2, <1>3, <1>4
    DEF AllOrNothing, NewestListed, Listed, AtRest, Holds, Touched,
        Changed, RolledBackIsUndone
<1> QED
  BY <1>1, <1>2, <1>3, <1>4, <1>5, <1>6, <1>7

\* The reverted revision is an earlier one.
LEMMA MarkRevertedStep ==
  ASSUME Whole, IInv, TypeOK', CurTyped', Serial', NEW w \in Worker, MarkReverted(w)
  PROVE  IInv'
<1> USE DEF IInv, TypeOK, Idle, Resting, Preparing, Applying, Undoing, Writing
<1>1. (\A v \in Worker \ {w} : pc[v] \in Idle) /\ lock \in {w, NoWorker}
  BY Alone DEF Idle, MarkReverted
<1>2. /\ pc[w] = "revert" /\ pc' = [pc EXCEPT ![w] = "answer"] /\ torn' = FALSE
      /\ \/ status' = status
         \/ /\ status' = [status EXCEPT ![rec[cur[w]].reverts] = "reverted"]
            /\ rec[cur[w]].reverts \in Listed
  BY DEF MarkReverted, Go, SetStatus, AppendEvent
<1>3. UNCHANGED <<disk, last, rec, snapped, marked, lock, cur, todo, scan,
                  budget, edited>>
  BY DEF MarkReverted
<1>4. /\ marked = {} /\ NewestListed(cur[w]) /\ cur[w] \in Rev /\ cur[w] <= last
      /\ rec[cur[w]].reverts < cur[w]
  BY <1>2 DEF NewestListed, IdsInv, LockInv, CurInv, MarkInv, DiskInv, CurTyped
<1>5. Listed' = Listed /\ status'[cur[w]] = status[cur[w]]
  BY <1>2, <1>3, <1>4 DEF Listed, Rev, Record
<1>6. IdsInv' /\ LockInv' /\ CurInv' /\ MarkInv' /\ LeftInv'
  <2>1. IdsInv'
    BY <1>1, <1>2, <1>3, <1>4, <1>5, EngineAssumption
      DEF IdsInv, Listed, Rev, LockInv, CurInv, NewestListed, MarkInv
  <2>2. LockInv'
    BY <1>1, <1>2, <1>3, <1>4, <1>5, EngineAssumption
      DEF LockInv
  <2>3. CurInv'
    BY <1>1, <1>2, <1>3, <1>4, <1>5, EngineAssumption
      DEF IdsInv, Listed, Rev, LockInv, CurInv, NewestListed, MarkInv
  <2>4. MarkInv'
    BY <1>1, <1>2, <1>3, <1>4, <1>5, EngineAssumption
      DEF IdsInv, Listed, Rev, LockInv, CurInv, NewestListed, MarkInv
  <2>5. LeftInv'
    BY <1>1, <1>2, <1>3, <1>4, <1>5, EngineAssumption DEF LeftInv, MarkInv
  <2> QED BY <2>1, <2>2, <2>3, <2>4, <2>5
<1>7. DiskInv'
  BY <1>1, <1>2, <1>3, <1>4, <1>5 DEF DiskInv, Holds, Touched, Changed
<1>8. AllOrNothing' /\ RolledBackIsUndone'
  BY <1>1, <1>2, <1>3, <1>4, <1>5
    DEF AllOrNothing, NewestListed, Listed, AtRest, Holds, Touched,
        Changed, RolledBackIsUndone
<1> QED
  BY <1>1, <1>2, <1>3, <1>4, <1>5, <1>6, <1>7, <1>8

\* The answer leaves a finished revision.
LEMMA AnswerStep ==
  ASSUME Whole, IInv, TypeOK', CurTyped', Serial', NEW w \in Worker, Answer(w)
  PROVE  IInv'
<1> USE DEF IInv, TypeOK, Idle, Resting, Preparing, Applying, Undoing, Writing
<1>1. (\A v \in Worker \ {w} : pc[v] \in Idle) /\ lock \in {w, NoWorker}
  BY Alone DEF Idle, Answer
<1>2. lock = w
  BY DEF LockInv, Answer
<1>3. pc[w] = "answer" /\ pc' = [pc EXCEPT ![w] = "ready"] /\ lock' = NoWorker
  BY <1>2 DEF Answer, Go, Leave
<1>4. UNCHANGED <<disk, last, rec, snapped, status, torn, marked, cur, todo,
                  scan, budget, edited>>
  BY DEF Answer, store
<1>5. /\ NewestListed(cur[w]) /\ status[cur[w]] = "applied"
      /\ marked = {} /\ Holds(cur[w], rec[cur[w]].after)
  BY <1>3 DEF LockInv, CurInv, MarkInv, DiskInv, CurTyped
<1>6. IdsInv' /\ LockInv' /\ CurInv' /\ MarkInv' /\ LeftInv'
  <2>1. IdsInv'
    BY <1>1, <1>2, <1>3, <1>4, <1>5, EngineAssumption
      DEF IdsInv, Listed, Rev, LockInv, CurInv, NewestListed, MarkInv
  <2>2. LockInv'
    BY <1>1, <1>2, <1>3, <1>4, <1>5, EngineAssumption
      DEF LockInv
  <2>3. CurInv'
    BY <1>1, <1>2, <1>3, <1>4, <1>5, EngineAssumption
      DEF IdsInv, Listed, Rev, LockInv, CurInv, NewestListed, MarkInv
  <2>4. MarkInv'
    BY <1>1, <1>2, <1>3, <1>4, <1>5, EngineAssumption
      DEF IdsInv, Listed, Rev, LockInv, CurInv, NewestListed, MarkInv
  <2>5. LeftInv'
    BY <1>1, <1>2, <1>3, <1>4, <1>5, EngineAssumption DEF LeftInv, MarkInv
  <2> QED BY <2>1, <2>2, <2>3, <2>4, <2>5
<1>7. DiskInv'
  BY <1>1, <1>2, <1>3, <1>4, <1>5 DEF DiskInv, Holds, Touched, Changed
<1>8. AllOrNothing' /\ RolledBackIsUndone'
  BY <1>1, <1>2, <1>3, <1>4, <1>5
    DEF AllOrNothing, NewestListed, Listed, AtRest, Holds, Touched,
        Changed, RolledBackIsUndone
<1> QED
  BY <1>1, <1>2, <1>3, <1>4, <1>5, <1>6, <1>7, <1>8

\* Nothing changes but who works: a marker stays, and where there is none the
\* files are those of before or after.
LEMMA ThrowsStep ==
  ASSUME Whole, IInv, TypeOK', CurTyped', Serial', NEW w \in Worker, Throws(w)
  PROVE  IInv'
<1> USE DEF IInv, TypeOK, Idle, Resting, Preparing, Applying, Undoing, Writing
<1>1. (\A v \in Worker \ {w} : pc[v] \in Idle) /\ lock \in {w, NoWorker}
  BY Alone DEF Idle, Throws, Unguarded
<1>2. /\ pc[w] \in Unguarded
      /\ \/ pc' = [pc EXCEPT ![w] = "ready"] /\ lock = w /\ lock' = NoWorker
         \/ pc' = [pc EXCEPT ![w] = "scan"] /\ lock # w /\ lock' = lock
  BY DEF Throws, Go, Leave, Unguarded
<1>3. UNCHANGED <<disk, last, rec, snapped, status, torn, marked, cur, todo,
                  scan, edited>>
  BY DEF Throws, store
<1>4. /\ cur[w] \in Rev
      /\ \/ marked = {cur[w]}
         \/ marked = {} /\ cur[w] \notin Listed
         \/ /\ marked = {} /\ status[cur[w]] = "applied"
            /\ Holds(cur[w], rec[cur[w]].before) \/ Holds(cur[w], rec[cur[w]].after)
  <2>1. CASE pc[w] \in {"unmark", "restore", "settle"}
    BY <2>1 DEF CurInv, MarkInv, CurTyped
  <2>2. CASE pc[w] \in {"snapshot", "record"}
    BY <2>2 DEF CurInv, Serial, CurTyped
  <2>3. CASE pc[w] \in {"mark", "revert"}
    BY <2>3 DEF CurInv, MarkInv, CurTyped, DiskInv
  <2> QED BY <1>2, <2>1, <2>2, <2>3 DEF Unguarded
<1>5. budget'.fault # MaxFault
  <2>1. pc[w] = "restore" => cur[w] \in snapped
    BY DEF Serial, MarkInv
  <2>2. budget.fault \in 0..MaxFault /\ budget'.fault = budget.fault - 1
    BY <2>1 DEF Throws, Budget
  <2> QED BY <2>2, EngineAssumption
<1>6. IdsInv' /\ LockInv' /\ CurInv' /\ MarkInv' /\ LeftInv'
  <2>1. IdsInv'
    BY <1>3 DEF IdsInv, Listed, Rev
  <2>2. LockInv'
    BY <1>1, <1>2, EngineAssumption DEF LockInv, Unguarded
  <2>3. CurInv'
    BY <1>1, <1>2, <1>3 DEF Listed, CurInv, NewestListed
  <2>4. MarkInv'
    BY <1>1, <1>2, <1>3 DEF Listed, NewestListed, MarkInv
  <2>5. LeftInv'
    BY <1>5 DEF LeftInv
  <2> QED BY <2>1, <2>2, <2>3, <2>4, <2>5
<1>7. DiskInv'
  BY <1>1, <1>2, <1>3 DEF DiskInv, Holds, Touched, Changed
<1>8. AllOrNothing' /\ RolledBackIsUndone'
  <2>1. ASSUME NEW r \in Rev, NewestListed(r)', r \notin marked', r # cur[w], AtRest(r)'
        PROVE  NewestListed(r) /\ AtRest(r) /\ r \notin marked
    BY <1>1, <1>2, <1>3, <2>1 DEF NewestListed, Listed, AtRest
  <2>2. ASSUME NewestListed(cur[w])', cur[w] \notin marked'
        PROVE  /\ Holds(cur[w], rec[cur[w]].before)' \/ Holds(cur[w], rec[cur[w]].after)'
               /\ status'[cur[w]] = "applied"
    BY <1>3, <1>4, <2>2 DEF NewestListed, Listed, Holds, Touched, Changed
  <2>3. AllOrNothing'
    BY <1>3, <2>1, <2>2 DEF AllOrNothing, Holds, Touched, Changed
  <2>4. RolledBackIsUndone'
    BY <1>3, <2>1, <2>2 DEF RolledBackIsUndone, Holds, Touched, Changed
  <2> QED BY <2>3, <2>4
<1> QED
  BY <1>1, <1>2, <1>3, <1>6, <1>7, <1>8

\* The status follows the last restored file.
LEMMA MarkRolledBackStep ==
  ASSUME Whole, IInv, TypeOK', CurTyped', Serial', NEW w \in Worker, MarkRolledBack(w)
  PROVE  IInv'
<1> USE DEF IInv, TypeOK, Idle, Resting, Preparing, Applying, Undoing, Writing
<1>1. (\A v \in Worker \ {w} : pc[v] \in Idle) /\ lock \in {w, NoWorker}
  BY Alone DEF Idle, MarkRolledBack
<1>2. /\ pc[w] = "restore" /\ todo[w] = {}
      /\ pc' = [pc EXCEPT ![w] = "settle"] /\ torn' = FALSE
      /\ \/ status' = status
         \/ /\ status' = [status EXCEPT ![cur[w]] = "rolled_back"]
            /\ cur[w] \in Listed
  BY DEF MarkRolledBack, Go, SetStatus, AppendEvent
<1>3. UNCHANGED <<disk, last, rec, snapped, marked, lock, cur, todo, scan,
                  budget, edited>>
  BY DEF MarkRolledBack
<1>4. marked = {cur[w]} /\ NewestListed(cur[w]) /\ cur[w] \in Rev
  BY <1>2 DEF LockInv, CurInv, MarkInv, DiskInv, CurTyped
<1>5. Listed' = Listed /\ Holds(cur[w], rec[cur[w]].before)
  <2>1. Listed' = Listed
    BY <1>2, <1>4 DEF Listed
  <2> QED BY <1>2, <2>1 DEF DiskInv, Holds
<1>6. \A r \in Rev : NewestListed(r)' => r \in marked'
  BY <1>2, <1>3, <1>4 DEF NewestListed, Listed, Rev
<1>7. IdsInv' /\ LockInv' /\ CurInv' /\ MarkInv' /\ LeftInv'
  <2>1. IdsInv'
    BY <1>1, <1>2, <1>3, <1>4, <1>5, EngineAssumption
      DEF IdsInv, Listed, Rev, LockInv, CurInv, NewestListed, MarkInv
  <2>2. LockInv'
    BY <1>1, <1>2, <1>3, <1>4, <1>5, EngineAssumption
      DEF LockInv
  <2>3. CurInv'
    BY <1>1, <1>2, <1>3, <1>4, <1>5, EngineAssumption
      DEF IdsInv, Listed, Rev, LockInv, CurInv, NewestListed, MarkInv
  <2>4. MarkInv'
    BY <1>1, <1>2, <1>3, <1>4, <1>5, EngineAssumption
      DEF IdsInv, Listed, Rev, LockInv, CurInv, NewestListed, MarkInv
  <2>5. LeftInv'
    BY <1>1, <1>2, <1>3, <1>4, <1>5, EngineAssumption DEF LeftInv, MarkInv
  <2> QED BY <2>1, <2>2, <2>3, <2>4, <2>5
<1>8. DiskInv'
  BY <1>1, <1>2, <1>3, <1>4, <1>5 DEF DiskInv, Holds, Touched, Changed
<1>9. AllOrNothing' /\ RolledBackIsUndone'
  BY <1>6 DEF AllOrNothing, RolledBackIsUndone
<1> QED
  BY <1>1, <1>2, <1>3, <1>4, <1>5, <1>7, <1>8, <1>9

\* The marker goes when everything is restored.
LEMMA SettleStep ==
  ASSUME Whole, IInv, TypeOK', CurTyped', Serial', NEW w \in Worker, Settle(w)
  PROVE  IInv'
<1> USE DEF IInv, TypeOK, Idle, Resting, Preparing, Applying, Undoing, Writing
<1>1. (\A v \in Worker \ {w} : pc[v] \in Idle) /\ lock \in {w, NoWorker}
  BY Alone DEF Idle, Settle
<1>2. /\ pc[w] = "settle" /\ marked' = marked \ {cur[w]}
      /\ \/ pc' = [pc EXCEPT ![w] = "ready"] /\ lock = w /\ lock' = NoWorker
         \/ pc' = [pc EXCEPT ![w] = "scan"] /\ lock # w /\ lock' = lock
  BY DEF Settle, Go, ClearMarker, Leave
<1>3. UNCHANGED <<disk, last, rec, snapped, status, torn, cur, todo, scan,
                  budget, edited>>
  BY DEF Settle, ClearMarker
<1>4. /\ marked = {cur[w]} /\ NewestListed(cur[w]) /\ cur[w] \in Rev
      /\ Holds(cur[w], rec[cur[w]].before)
  BY <1>2 DEF LockInv, CurInv, MarkInv, DiskInv, CurTyped
<1>5. IdsInv' /\ LockInv' /\ CurInv' /\ MarkInv' /\ LeftInv'
  <2>1. IdsInv'
    BY <1>1, <1>2, <1>3, <1>4, EngineAssumption
      DEF IdsInv, Listed, Rev, LockInv, CurInv, NewestListed, MarkInv
  <2>2. LockInv'
    BY <1>1, <1>2, <1>3, <1>4, EngineAssumption
      DEF LockInv
  <2>3. CurInv'
    BY <1>1, <1>2, <1>3, <1>4, EngineAssumption
      DEF IdsInv, Listed, Rev, LockInv, CurInv, NewestListed, MarkInv
  <2>4. MarkInv'
    BY <1>1, <1>2, <1>3, <1>4, EngineAssumption
      DEF IdsInv, Listed, Rev, LockInv, CurInv, NewestListed, MarkInv
  <2>5. LeftInv'
    BY <1>1, <1>2, <1>3, <1>4, EngineAssumption DEF LeftInv, MarkInv
  <2> QED BY <2>1, <2>2, <2>3, <2>4, <2>5
<1>6. DiskInv'
  BY <1>1, <1>2, <1>3, <1>4 DEF DiskInv, Holds, Touched, Changed
<1>7. AllOrNothing' /\ RolledBackIsUndone'
  BY <1>1, <1>2, <1>3, <1>4
    DEF AllOrNothing, NewestListed, Listed, AtRest, Holds, Touched,
        Changed, RolledBackIsUndone
<1> QED
  BY <1>1, <1>2, <1>3, <1>4, <1>5, <1>6, <1>7

\* The scan covers every listed revision.
LEMMA BootStep ==
  ASSUME Whole, IInv, TypeOK', CurTyped', Serial', NEW w \in Worker, Boot(w)
  PROVE  IInv'
<1> USE DEF IInv, TypeOK, Idle, Resting, Preparing, Applying, Undoing, Writing
<1>1. \A v \in Worker \ {w} : pc[v] \in Idle
  BY DEF Serial, Idle, Boot, Go
<1>2. /\ pc[w] = "down" /\ pc' = [pc EXCEPT ![w] = "scan"]
      /\ scan' = [scan EXCEPT ![w] = Listed]
  BY DEF Boot, Go
<1>3. UNCHANGED <<disk, last, rec, snapped, status, torn, marked, lock, cur,
                  todo, budget, edited>>
  BY DEF Boot, store
<1>4. IdsInv' /\ LockInv' /\ CurInv' /\ MarkInv' /\ LeftInv'
  <2>1. IdsInv'
    BY <1>1, <1>2, <1>3, EngineAssumption
      DEF IdsInv, Listed, Rev, LockInv, CurInv, NewestListed, MarkInv
  <2>2. LockInv'
    BY <1>1, <1>2, <1>3, EngineAssumption
      DEF LockInv
  <2>3. CurInv'
    BY <1>1, <1>2, <1>3, EngineAssumption
      DEF IdsInv, Listed, Rev, LockInv, CurInv, NewestListed, MarkInv
  <2>4. MarkInv'
    BY <1>1, <1>2, <1>3, EngineAssumption
      DEF IdsInv, Listed, Rev, LockInv, CurInv, NewestListed, MarkInv
  <2>5. LeftInv'
    <3>1. marked \subseteq Listed
      BY DEF MarkInv, NewestListed
    <3>2. pc'[w] = "scan" /\ scan'[w] = Listed
      BY <1>2
    <3>3. \A v \in Worker : pc'[v] = "scan" => v = w
      BY <1>1, <1>2
    <3> QED BY <1>3, <3>1, <3>2, <3>3 DEF LeftInv
  <2> QED BY <2>1, <2>2, <2>3, <2>4, <2>5
<1>5. DiskInv'
  BY <1>1, <1>2, <1>3 DEF DiskInv, Holds, Touched, Changed
<1>6. AllOrNothing' /\ RolledBackIsUndone'
  BY <1>1, <1>2, <1>3
    DEF AllOrNothing, NewestListed, Listed, AtRest, Holds, Touched,
        Changed, RolledBackIsUndone
<1> QED
  BY <1>1, <1>2, <1>3, <1>4, <1>5, <1>6

\* At most one revision is marked, and the scan restores it.
LEMMA RecoverStep ==
  ASSUME Whole, IInv, TypeOK', CurTyped', Serial',
         NEW w \in Worker, NEW r \in Rev, Recover(w, r)
  PROVE  IInv'
<1> USE DEF IInv, TypeOK, Idle, Resting, Preparing, Applying, Undoing, Writing
<1>1. (\A v \in Worker \ {w} : pc[v] \in Idle) /\ lock \in {w, NoWorker}
  BY Alone DEF Idle, Recover
<1>2. /\ pc[w] = "scan" /\ scan' = [scan EXCEPT ![w] = @ \ {r}]
      /\ \/ /\ r \in marked /\ cur' = [cur EXCEPT ![w] = r]
            /\ todo' = [todo EXCEPT ![w] = Touched(r)]
            /\ pc' = [pc EXCEPT ![w] = "restore"]
         \/ r \notin marked /\ UNCHANGED <<pc, cur, todo>>
  BY DEF Recover, Go
<1>3. UNCHANGED <<disk, last, rec, snapped, status, torn, marked, lock,
                  budget, edited>>
  BY DEF Recover, store
<1>4. \A q \in marked : NewestListed(q)
  BY DEF LockInv, CurInv, MarkInv, DiskInv, CurTyped
<1>5. r \in marked => marked = {r} /\ NewestListed(r)
  <2>1. \A p, q \in marked : p <= q /\ q <= p /\ p \in Nat /\ q \in Nat
    BY <1>4 DEF NewestListed, Listed, Rev
  <2>2. \A p, q \in marked : p = q
    BY <2>1
  <2> QED BY <1>4, <2>2
<1>6. IdsInv' /\ LockInv' /\ CurInv' /\ MarkInv' /\ LeftInv'
  <2>1. IdsInv'
    BY <1>1, <1>2, <1>3, <1>4, <1>5, EngineAssumption
      DEF IdsInv, Listed, Rev, LockInv, CurInv, NewestListed, MarkInv
  <2>2. LockInv'
    BY <1>1, <1>2, <1>3, <1>4, <1>5, EngineAssumption
      DEF LockInv
  <2>3. CurInv'
    BY <1>1, <1>2, <1>3, <1>4, <1>5, EngineAssumption
      DEF IdsInv, Listed, Rev, LockInv, CurInv, NewestListed, MarkInv
  <2>4. MarkInv'
    BY <1>1, <1>2, <1>3, <1>4, <1>5, EngineAssumption
      DEF IdsInv, Listed, Rev, LockInv, CurInv, NewestListed, MarkInv
  <2>5. LeftInv'
    BY <1>1, <1>2, <1>3, <1>4, <1>5, EngineAssumption DEF LeftInv, MarkInv
  <2> QED BY <2>1, <2>2, <2>3, <2>4, <2>5
<1>7. DiskInv'
  BY <1>1, <1>2, <1>3, <1>4, <1>5 DEF DiskInv, Holds, Touched, Changed
<1>8. AllOrNothing' /\ RolledBackIsUndone'
  BY <1>1, <1>2, <1>3, <1>4, <1>5
    DEF AllOrNothing, NewestListed, Listed, AtRest, Holds, Touched,
        Changed, RolledBackIsUndone
<1> QED
  BY <1>1, <1>2, <1>3, <1>4, <1>5, <1>6, <1>7, <1>8

\* After the scan no marker is left.
LEMMA ReadyStep ==
  ASSUME Whole, IInv, TypeOK', CurTyped', Serial', NEW w \in Worker, Ready(w)
  PROVE  IInv'
<1> USE DEF IInv, TypeOK, Idle, Resting, Preparing, Applying, Undoing, Writing
<1>1. (\A v \in Worker \ {w} : pc[v] \in Idle) /\ lock \in {w, NoWorker}
  BY Alone DEF Idle, Ready
<1>2. /\ pc[w] = "scan" /\ pc' = [pc EXCEPT ![w] = "ready"]
      /\ scan[w] = {}
  BY DEF Ready, Go
<1>3. UNCHANGED <<disk, last, rec, snapped, status, torn, marked, lock, cur,
                  todo, scan, budget, edited>>
  BY DEF Ready, store
<1>4. IdsInv' /\ LockInv' /\ CurInv' /\ MarkInv' /\ LeftInv'
  <2>1. IdsInv'
    BY <1>1, <1>2, <1>3, EngineAssumption
      DEF IdsInv, Listed, Rev, LockInv, CurInv, NewestListed, MarkInv
  <2>2. LockInv'
    BY <1>1, <1>2, <1>3, EngineAssumption
      DEF LockInv
  <2>3. CurInv'
    BY <1>1, <1>2, <1>3, EngineAssumption
      DEF IdsInv, Listed, Rev, LockInv, CurInv, NewestListed, MarkInv
  <2>4. MarkInv'
    BY <1>1, <1>2, <1>3, EngineAssumption
      DEF IdsInv, Listed, Rev, LockInv, CurInv, NewestListed, MarkInv
  <2>5. LeftInv'
    BY <1>1, <1>2, <1>3, EngineAssumption DEF LeftInv, MarkInv
  <2> QED BY <2>1, <2>2, <2>3, <2>4, <2>5
<1>5. DiskInv'
  BY <1>1, <1>2, <1>3 DEF DiskInv, Holds, Touched, Changed
<1>6. AllOrNothing' /\ RolledBackIsUndone'
  BY <1>1, <1>2, <1>3
    DEF AllOrNothing, NewestListed, Listed, AtRest, Holds, Touched,
        Changed, RolledBackIsUndone
<1> QED
  BY <1>1, <1>2, <1>3, <1>4, <1>5, <1>6

\* The snapshot of an unfinished revision stays.
LEMMA PruneStep ==
  ASSUME Whole, IInv, TypeOK', CurTyped', Serial',
         NEW w \in Worker, NEW r \in Rev, Prune(w, r)
  PROVE  IInv'
<1> USE DEF IInv, TypeOK, Idle, Resting, Preparing, Applying, Undoing, Writing
<1>1. Serial'
  OBVIOUS
<1>2. /\ snapped' = snapped \ {r}
      /\ \A v \in Worker : pc[v] \notin Resting => cur[v] # r
  BY DEF Prune
<1>3. UNCHANGED <<disk, last, rec, status, torn, marked, lock, cur, todo,
                  scan, budget, edited, pc>>
  BY DEF Prune, local
<1>4. IdsInv' /\ LockInv' /\ CurInv' /\ MarkInv' /\ LeftInv'
  <2>1. IdsInv'
    BY <1>1, <1>2, <1>3, EngineAssumption
      DEF IdsInv, Listed, Rev, LockInv, CurInv, NewestListed, MarkInv
  <2>2. LockInv'
    BY <1>1, <1>2, <1>3, EngineAssumption
      DEF LockInv
  <2>3. CurInv'
    BY <1>1, <1>2, <1>3, EngineAssumption
      DEF IdsInv, Listed, Rev, LockInv, CurInv, NewestListed, MarkInv
  <2>4. MarkInv'
    BY <1>1, <1>2, <1>3, EngineAssumption
      DEF IdsInv, Listed, Rev, LockInv, CurInv, NewestListed, MarkInv
  <2>5. LeftInv'
    BY <1>1, <1>2, <1>3, EngineAssumption DEF LeftInv, MarkInv
  <2> QED BY <2>1, <2>2, <2>3, <2>4, <2>5
<1>5. DiskInv'
  BY <1>1, <1>2, <1>3 DEF DiskInv, Holds, Touched, Changed
<1>6. AllOrNothing' /\ RolledBackIsUndone'
  BY <1>1, <1>2, <1>3
    DEF AllOrNothing, NewestListed, Listed, AtRest, Holds, Touched,
        Changed, RolledBackIsUndone
<1> QED
  BY <1>1, <1>2, <1>3, <1>4, <1>5, <1>6

\* An edited file is nobody's claim any more.
LEMMA EditStep ==
  ASSUME Whole, IInv, TypeOK', CurTyped', Serial',
         NEW f \in File, NEW c \in Content, Edit(f, c)
  PROVE  IInv'
<1> USE DEF IInv, TypeOK, Idle, Resting, Preparing, Applying, Undoing, Writing
<1>1. Serial'
  OBVIOUS
<1>2. /\ disk' = [disk EXCEPT ![f] = c] /\ edited' = edited \cup {f}
      /\ budget'.fault = budget.fault
  BY DEF Edit, Budget
<1>3. UNCHANGED <<last, rec, snapped, status, torn, marked, lock, cur, todo,
                  scan, pc>>
  BY DEF Edit, store, local
<1>4. IdsInv' /\ LockInv' /\ CurInv' /\ MarkInv' /\ LeftInv'
  <2>1. IdsInv'
    BY <1>1, <1>2, <1>3, EngineAssumption
      DEF IdsInv, Listed, Rev, LockInv, CurInv, NewestListed, MarkInv
  <2>2. LockInv'
    BY <1>1, <1>2, <1>3, EngineAssumption
      DEF LockInv
  <2>3. CurInv'
    BY <1>1, <1>2, <1>3, EngineAssumption
      DEF IdsInv, Listed, Rev, LockInv, CurInv, NewestListed, MarkInv
  <2>4. MarkInv'
    BY <1>1, <1>2, <1>3, EngineAssumption
      DEF IdsInv, Listed, Rev, LockInv, CurInv, NewestListed, MarkInv
  <2>5. LeftInv'
    BY <1>1, <1>2, <1>3, EngineAssumption DEF LeftInv, MarkInv
  <2> QED BY <2>1, <2>2, <2>3, <2>4, <2>5
<1>5. DiskInv'
  BY <1>1, <1>2, <1>3 DEF DiskInv, Holds, Touched, Changed
<1>6. AllOrNothing' /\ RolledBackIsUndone'
  BY <1>1, <1>2, <1>3
    DEF AllOrNothing, NewestListed, Listed, AtRest, Holds, Touched,
        Changed, RolledBackIsUndone
<1> QED
  BY <1>1, <1>2, <1>3, <1>4, <1>5, <1>6

\* A crash finds the newest revision marked, all written or not begun.
LEMMA CrashStep ==
  ASSUME Whole, IInv, TypeOK', CurTyped', Serial', NEW w \in Worker, Crash(w)
  PROVE  IInv'
<1> USE DEF IInv, TypeOK, Idle, Resting, Preparing, Applying, Undoing, Writing
<1>1. Serial'
  OBVIOUS
<1>2. /\ pc[w] # "down" /\ pc' = [pc EXCEPT ![w] = "down"]
      /\ lock' = IF lock = w THEN NoWorker ELSE lock
      /\ budget'.fault = budget.fault
  BY DEF Crash, Die, Go, Budget
<1>3. UNCHANGED <<disk, last, rec, snapped, status, torn, marked, cur, todo,
                  scan, edited>>
  BY DEF Crash, Die
<1>4. \A r \in Rev : NewestListed(r)' = NewestListed(r)
  BY <1>3 DEF NewestListed, Listed
<1>5. \A r \in Rev :
        /\ Holds(r, rec[r].before)' = Holds(r, rec[r].before)
        /\ Holds(r, rec[r].after)' = Holds(r, rec[r].after)
  BY <1>3 DEF Holds, Touched, Changed
<1>6. ASSUME NEW r \in Rev, NewestListed(r), r \notin marked, ~ AtRest(r), AtRest(r)'
      PROVE  /\ status[r] # "rolled_back"
             /\ Holds(r, rec[r].before) \/ Holds(r, rec[r].after)
  <2>1. cur[w] = r /\ pc[w] \notin Resting
    BY <1>2, <1>3, <1>6 DEF AtRest
  <2>2. pc[w] \notin Preparing \cup Writing \cup Undoing
    BY <1>6, <2>1 DEF CurInv, MarkInv, NewestListed
  <2>3. pc[w] \in {"mark", "revert", "answer"}
    BY <2>1, <2>2 DEF Phase
  <2> QED BY <2>1, <2>3 DEF DiskInv, CurInv
<1>7. IdsInv' /\ LockInv' /\ CurInv' /\ MarkInv' /\ LeftInv'
  <2>1. IdsInv'
    BY <1>1, <1>2, <1>3, EngineAssumption
      DEF IdsInv, Listed, Rev, LockInv, CurInv, NewestListed, MarkInv
  <2>2. LockInv'
    BY <1>1, <1>2, <1>3, EngineAssumption
      DEF LockInv
  <2>3. CurInv'
    BY <1>1, <1>2, <1>3, EngineAssumption
      DEF IdsInv, Listed, Rev, LockInv, CurInv, NewestListed, MarkInv
  <2>4. MarkInv'
    BY <1>1, <1>2, <1>3, EngineAssumption
      DEF IdsInv, Listed, Rev, LockInv, CurInv, NewestListed, MarkInv
  <2>5. LeftInv'
    BY <1>1, <1>2, <1>3, EngineAssumption DEF LeftInv, MarkInv
  <2> QED BY <2>1, <2>2, <2>3, <2>4, <2>5
<1>8. DiskInv'
  BY <1>1, <1>2, <1>3 DEF DiskInv, Holds, Touched, Changed
<1>9. AllOrNothing' /\ RolledBackIsUndone'
  BY <1>3, <1>4, <1>5, <1>6 DEF AllOrNothing, RolledBackIsUndone
<1> QED
  BY <1>1, <1>2, <1>3, <1>7, <1>8, <1>9

\* A revision begins when no marker is left.
LEMMA BeginStep ==
  ASSUME Whole, IInv, TypeOK', CurTyped', Serial',
         NEW w \in Worker, NEW after, NEW q, Begin(w, after, q),
         q < last + 1
  PROVE  IInv'
<1> USE DEF IInv, TypeOK, Idle, Resting, Preparing, Applying, Undoing, Writing
<1>1. \A v \in Worker \ {w} : pc[v] \in Idle
  BY DEF Serial, Idle, Begin, Go
<1>2. /\ pc[w] = "ready" /\ lock' = w /\ last' = last + 1 /\ last < MaxRev
      /\ pc' = [pc EXCEPT ![w] = "recheck"] /\ cur' = [cur EXCEPT ![w] = last + 1]
  BY DEF Begin, Go
<1>3. UNCHANGED <<disk, snapped, status, torn, marked, todo, scan, budget,
                  edited>>
  BY DEF Begin
<1>4. /\ \A r \in Rev : r # last + 1 => rec'[r] = rec[r]
      /\ rec'[last + 1].reverts = q /\ last + 1 \in Rev
  BY <1>2, EngineAssumption DEF Begin, Rev
<1>5. marked = {} /\ \A r \in Listed : r <= last /\ r # last + 1
  <2>1. marked = {}
    BY <1>2, <1>3 DEF Serial
  <2>2. \A r \in Listed : r <= last /\ r # last + 1
    BY DEF IdsInv, Rev, Listed
  <2> QED BY <2>1, <2>2
<1>6. IdsInv' /\ LockInv' /\ CurInv' /\ MarkInv' /\ LeftInv'
  <2>1. IdsInv'
    BY <1>1, <1>2, <1>3, <1>4, <1>5, EngineAssumption
      DEF IdsInv, Listed, Rev, LockInv, CurInv, NewestListed, MarkInv
  <2>2. LockInv'
    BY <1>1, <1>2, <1>3, <1>4, <1>5, EngineAssumption
      DEF LockInv
  <2>3. CurInv'
    BY <1>1, <1>2, <1>3, <1>4, <1>5, EngineAssumption
      DEF IdsInv, Listed, Rev, LockInv, CurInv, NewestListed, MarkInv
  <2>4. MarkInv'
    BY <1>1, <1>2, <1>3, <1>4, <1>5, EngineAssumption
      DEF IdsInv, Listed, Rev, LockInv, CurInv, NewestListed, MarkInv
  <2>5. LeftInv'
    BY <1>1, <1>2, <1>3, <1>4, <1>5, EngineAssumption DEF LeftInv, MarkInv
  <2> QED BY <2>1, <2>2, <2>3, <2>4, <2>5
<1>7. DiskInv'
  BY <1>1, <1>2, <1>3, <1>4, <1>5 DEF DiskInv, Holds, Touched, Changed
<1>8. AllOrNothing' /\ RolledBackIsUndone'
  BY <1>1, <1>2, <1>3, <1>4, <1>5
    DEF AllOrNothing, NewestListed, Listed, AtRest, Holds, Touched,
        Changed, RolledBackIsUndone
<1> QED
  BY <1>1, <1>2, <1>3, <1>4, <1>5, <1>6, <1>7, <1>8

-----------------------------------------------------------------------------
LEMMA IInvInit == Init => IInv
<1> SUFFICES ASSUME Init PROVE IInv
  OBVIOUS
<1> USE EngineAssumption DEF Init
<1>1. TypeOK /\ CurTyped /\ torn = FALSE
  BY InitType
<1>2. Listed = {}
  BY DEF Listed
<1>3. \A w \in Worker : pc[w] = "ready" /\ lock # w
  OBVIOUS
<1>4. IdsInv
  BY <1>2 DEF IdsInv, Rev
<1>5. LockInv /\ CurInv
  BY <1>3 DEF LockInv, CurInv, Resting, Preparing, Applying, Writing, Undoing
<1>6. Serial /\ MarkInv /\ LeftInv /\ DiskInv
  BY <1>3 DEF Serial, MarkInv, LeftInv, DiskInv, Idle, Preparing, Writing, Undoing
<1>7. AllOrNothing /\ RolledBackIsUndone
  BY <1>2 DEF AllOrNothing, RolledBackIsUndone, NewestListed
<1> QED BY <1>1, <1>4, <1>5, <1>6, <1>7 DEF IInv

\* A step that changes none of the variables IInv speaks of.
LEMMA IdleStep ==
  ASSUME IInv, TypeOK', CurTyped',
         UNCHANGED <<disk, last, rec, snapped, status, torn, marked, lock, pc,
                     cur, todo, scan, budget, edited>>
  PROVE  IInv'
BY DEF IInv, Serial, IdsInv, LockInv, CurInv, MarkInv, LeftInv, DiskInv,
       AllOrNothing, RolledBackIsUndone, Listed, NewestListed, AtRest, Holds, Touched, Changed

LEMMA IInvStep ==
  ASSUME Whole, IInv, Serial', [Next]_vars
  PROVE  IInv'
<1>1. TypeOK' /\ CurTyped'
  BY TypeStep DEF IInv
<1>2. ASSUME NEW w \in Worker, Request(w) PROVE IInv'
  <2>1. ASSUME NEW p \in plans, Apply(w, p) PROVE IInv'
    <3>1. last \in Nat
      BY DEF IInv, TypeOK
    <3> DEFINE after == [f \in File |-> IF f \in Changed(p.before, p.after)
                                        THEN p.after[f] ELSE disk[f]]
    <3>2. Begin(w, after, 0)
      BY <2>1 DEF Apply
    <3> HIDE DEF after
    <3>3. 0 < last + 1
      BY <3>1
    <3> QED BY <1>1, <3>2, <3>3, BeginStep
  <2>2. ASSUME NEW p \in plans, RefuseApply(w, p) PROVE IInv'
    BY <1>1, <2>2, IdleStep DEF RefuseApply, store, local
  <2>3. ASSUME NEW r \in Rev, NEW force \in BOOLEAN, Rollback(w, r, force)
        PROVE  IInv'
    <3>1. last \in Nat /\ r \in Nat /\ r <= last
      BY <2>3 DEF Rollback, IInv, IdsInv, TypeOK, Rev
    <3> DEFINE after == [f \in File |-> IF f \in Touched(r)
                                        THEN rec[r].before[f] ELSE disk[f]]
    <3>2. Begin(w, after, r)
      BY <2>3 DEF Rollback
    <3> HIDE DEF after
    <3>3. r < last + 1
      BY <3>1
    <3> QED BY <1>1, <3>2, <3>3, BeginStep
  <2> QED BY <1>2, <2>1, <2>2, <2>3 DEF Request
<1>3. ASSUME NEW w \in Worker, Execute(w) PROVE IInv'
  BY <1>1, <1>3, RecheckStep, WriteSnapshotStep, WriteRecordStep,
     WriteMarkerStep, WriteFileStep, WriteFailsStep, VerifyStep, CheckStep,
     FinishStep, MarkRevertedStep, AnswerStep DEF Execute
<1>4. ASSUME NEW w \in Worker, Undo(w) PROVE IInv'
  BY <1>1, <1>4, RestoreFileStep, ThrowsStep, MarkRolledBackStep,
     SettleStep DEF Undo
<1>5. ASSUME NEW w \in Worker, Restart(w) PROVE IInv'
  BY <1>1, <1>5, BootStep, RecoverStep, ReadyStep DEF Restart
<1>6. CASE Environment
  <2>1. ASSUME NEW t \in Tree, MakePlan(t) PROVE IInv'
    BY <1>1, <2>1, IdleStep DEF MakePlan, store, local
  <2>2. ASSUME NEW p \in plans, DropPlan(p) PROVE IInv'
    BY <1>1, <2>2, IdleStep DEF DropPlan, store, local
  <2>3. ASSUME NEW f \in File, NEW c \in Content, Edit(f, c) PROVE IInv'
    BY <1>1, <2>3, EditStep
  <2>4. ASSUME NEW w \in Worker, Crash(w) PROVE IInv'
    BY <1>1, <2>4, CrashStep
  <2>5. ASSUME NEW w \in Worker, CrashInAppend(w) PROVE IInv'
    <3>1. budget.tear = 0
      BY DEF IInv, TypeOK, Budget, Whole
    <3> QED BY <2>5, <3>1 DEF CrashInAppend
  <2>6. ASSUME NEW w \in Worker, NEW r \in Rev, Prune(w, r) PROVE IInv'
    BY <1>1, <2>6, PruneStep
  <2> QED BY <1>6, <2>1, <2>2, <2>3, <2>4, <2>5, <2>6 DEF Environment
<1>7. CASE UNCHANGED vars
  BY <1>1, <1>7, IdleStep DEF vars, store, local
<1> QED BY <1>2, <1>3, <1>4, <1>5, <1>6, <1>7 DEF Next

-----------------------------------------------------------------------------
(* The theorems.                                                           *)

(* The invariant holds as long as processes neither recover nor serve into   *)
(* each other's work.                                                        *)
THEOREM InvariantIfSerial ==
  ASSUME Whole
  PROVE  Spec /\ []Serial => []IInv
<1>1. IInv /\ Serial' /\ [Next]_vars => IInv'
  BY IInvStep
<1> QED BY IInvInit, <1>1, PTL DEF Spec

(* Crash atomicity: however often processes crash and restart, once nobody  *)
(* works on the newest revision and its marker is gone, the site holds all  *)
(* of it or none of it.                                                     *)
THEOREM CrashAtomicity ==
  ASSUME Whole
  PROVE  Spec /\ []Serial => []AllOrNothing
<1>1. IInv => AllOrNothing
  BY DEF IInv
<1> QED BY <1>1, InvariantIfSerial, PTL

(* A revision recorded as rolled back has left nothing behind, whether its  *)
(* own request or a restart undid it.                                       *)
THEOREM UndoneIsUndone ==
  ASSUME Whole
  PROVE  Spec /\ []Serial => []RolledBackIsUndone
<1>1. IInv => RolledBackIsUndone
  BY DEF IInv
<1> QED BY <1>1, InvariantIfSerial, PTL

(* What a client is answered is so: the revision is recorded as applied, no *)
(* restart will undo it, and the site has its content.                      *)
THEOREM TrueAnswers ==
  ASSUME Whole
  PROVE  Spec /\ []Serial => []AnswerIsTrue
<1>1. IInv => AnswerIsTrue
  BY DEF IInv, AnswerIsTrue, CurInv, MarkInv, DiskInv, Applying, Writing, Undoing
<1> QED BY <1>1, InvariantIfSerial, PTL

\* Two actions of the engine change files; an edit is recorded as one.
LEMMA EngineWrites ==
  ASSUME TypeOK, [Next]_vars, NEW f \in File, disk'[f] # disk[f], f \notin edited'
  PROVE  \E w \in Worker, g \in File : WriteFile(w, g) \/ RestoreFile(w, g)
<1>1. disk' # disk
  OBVIOUS
<1>2. ~ UNCHANGED vars
  BY <1>1 DEF vars
<1>3. ASSUME NEW w \in Worker PROVE ~ Request(w)
  BY <1>1 DEF Request, Apply, RefuseApply, Rollback, Begin
<1>4. ASSUME NEW w \in Worker, Execute(w) PROVE \E g \in File : WriteFile(w, g)
  BY <1>1, <1>4 DEF Execute, Recheck, WriteSnapshot, WriteRecord, WriteMarker,
     WriteFails, Verify, Check, Finish, ClearMarker, MarkReverted, Answer
<1>5. ASSUME NEW w \in Worker, Undo(w) PROVE \E g \in File : RestoreFile(w, g)
  BY <1>1, <1>5 DEF Undo, Throws, MarkRolledBack, Settle, ClearMarker
<1>6. ASSUME NEW w \in Worker PROVE ~ Restart(w)
  BY <1>1 DEF Restart, Boot, Recover, Ready
<1>7. ~ Environment
  <2>1. ASSUME NEW g \in File, NEW c \in Content, Edit(g, c) PROVE FALSE
    BY <2>1 DEF Edit, TypeOK, Tree
  <2> QED BY <1>1, <2>1 DEF Environment, MakePlan, DropPlan, Crash,
             CrashInAppend, Die, Prune
<1> QED BY <1>2, <1>3, <1>4, <1>5, <1>6, <1>7 DEF Next

(* Write-ahead: the engine changes a file only under a marker and with the  *)
(* file's old content in a snapshot.  The rest of IInv, and what it assumes *)
(* of appends, restores and requests, has no part in this.                  *)

\* No two processes work on the same revision.
Separate ==
  \A v, w \in Worker :
    v # w => pc[v] \in Resting \/ pc[w] \in Resting \/ cur[v] # cur[w]

\* The revisions a process deals with were handed out; the one it works on has
\* its snapshot before its record and its marker before its files.
OwnWork(w) ==
  /\ \A r \in scan[w] : r <= last
  /\ pc[w] \notin Resting => cur[w] <= last
  /\ pc[w] \in {"record", "mark"} \cup Writing => cur[w] \in snapped
  /\ pc[w] \in Writing \cup Undoing => cur[w] \in marked
  /\ pc[w] \in {"write", "restore"} => todo[w] \subseteq Touched(cur[w])

HandedOut ==
  /\ \A r \in Listed \cup marked : r <= last
  /\ \A r \in Rev : r <= last => rec[r].reverts <= last

AheadInv == TypeOK /\ CurTyped /\ HandedOut /\ \A w \in Worker : OwnWork(w)

\* A step of w leaves the others as they are: it takes no marker or snapshot of
\* a revision they work on.
LEMMA WorkKept ==
  ASSUME AheadInv, last <= last', last' \in Nat, \A r \in Rev : r <= last => rec'[r] = rec[r],
         NEW v \in Worker,
         pc'[v] = pc[v], cur'[v] = cur[v], todo'[v] = todo[v], scan'[v] = scan[v],
         pc[v] \notin Resting =>
           /\ cur[v] \in marked  => cur[v] \in marked'
           /\ cur[v] \in snapped => cur[v] \in snapped'
  PROVE  OwnWork(v)'
<1>1. OwnWork(v) /\ last \in Nat /\ scan[v] \subseteq Rev
  BY EngineAssumption DEF AheadInv, TypeOK
<1>2. \A r \in scan'[v] : r <= last'
  BY <1>1, EngineAssumption DEF OwnWork, Rev
<1>3. pc[v] \notin Resting => cur[v] \in Rev /\ cur[v] <= last
  BY <1>1 DEF OwnWork, AheadInv, CurTyped
<1>4. pc'[v] \notin Resting => cur'[v] <= last'
  BY <1>1, <1>3, EngineAssumption DEF Rev
<1>5. pc'[v] \notin Resting => Touched(cur[v])' = Touched(cur[v])
  BY <1>3 DEF Touched, Changed
<1> QED
  BY <1>1, <1>2, <1>4, <1>5 DEF OwnWork, Writing, Undoing, Resting

\* The same for a step of w that hands out no id.
LEMMA WorkOfOthers ==
  ASSUME AheadInv, NEW w \in Worker, NEW s,
         pc' = [pc EXCEPT ![w] = s], UNCHANGED <<last, rec>>,
         \A v \in Worker \ {w} : /\ cur'[v] = cur[v] /\ todo'[v] = todo[v]
                                  /\ scan'[v] = scan[v],
         \A v \in Worker \ {w} : pc[v] \notin Resting =>
           /\ cur[v] \in marked  => cur[v] \in marked'
           /\ cur[v] \in snapped => cur[v] \in snapped'
  PROVE  \A v \in Worker \ {w} : OwnWork(v)'
<1> SUFFICES ASSUME NEW v \in Worker \ {w} PROVE OwnWork(v)'
  OBVIOUS
<1>1. last \in Nat /\ last <= last' /\ last' \in Nat
  BY EngineAssumption DEF AheadInv, TypeOK
<1>2. pc'[v] = pc[v] /\ cur'[v] = cur[v] /\ todo'[v] = todo[v] /\ scan'[v] = scan[v]
  BY DEF AheadInv, TypeOK
<1>3. \A r \in Rev : r <= last => rec'[r] = rec[r]
  OBVIOUS
<1> QED BY <1>1, <1>2, <1>3, WorkKept

\* Steps of w that hand out no id, and touch no record, snapshot or marker.
LEMMA WorkOfOne ==
  ASSUME AheadInv, TypeOK', CurTyped', NEW w \in Worker, NEW s \in Phase,
         pc' = [pc EXCEPT ![w] = s], UNCHANGED <<last, rec, marked, snapped, scan>>,
         \A r \in Listed' : r \in Listed \/ r <= last,
         \A v \in Worker \ {w} : cur'[v] = cur[v] /\ todo'[v] = todo[v],
         s \notin Resting => cur'[w] <= last,
         s \in {"record", "mark"} \cup Writing => cur'[w] \in snapped,
         s \in Writing \cup Undoing => cur'[w] \in marked,
         s \in {"write", "restore"} => todo'[w] \subseteq Touched(cur'[w])
  PROVE  AheadInv'
<1> USE DEF AheadInv
<1>1. pc'[w] = s /\ \A v \in Worker \ {w} : pc'[v] = pc[v]
  BY DEF TypeOK
<1>2. \A v \in Worker \ {w} : OwnWork(v)'
  BY WorkOfOthers
<1>3. OwnWork(w)'
  <2>1. (s \in {"write", "restore"} => todo'[w] \subseteq Touched(cur[w])')
    BY DEF Touched, Changed
  <2>2. \A r \in scan'[w] : r <= last'
    BY DEF OwnWork
  <2> QED BY <1>1, <2>1, <2>2 DEF OwnWork
<1>4. HandedOut'
  BY DEF HandedOut
<1> QED BY <1>2, <1>3, <1>4

\* A process that goes on with its revision, or is done with it.
LEMMA WorkGoesOn ==
  ASSUME AheadInv, TypeOK', CurTyped', NEW w \in Worker, NEW s \in Phase,
         pc[w] \notin Resting, pc' = [pc EXCEPT ![w] = s],
         UNCHANGED <<last, rec, marked, snapped, cur, scan>>, Listed' \subseteq Listed,
         \A v \in Worker \ {w} : todo'[v] = todo[v], todo'[w] \subseteq todo[w],
         \/ s = pc[w]
         \/ s \in {"ready", "scan", "snapshot", "answer"}
         \/ s = "settle" /\ pc[w] = "restore"
  PROVE  AheadInv'
<1>1. OwnWork(w)
  BY DEF AheadInv
<1>2. s \notin Resting => cur'[w] <= last
  BY <1>1 DEF OwnWork
<1>3. s \in {"record", "mark"} \cup Writing => cur'[w] \in snapped
  BY <1>1 DEF OwnWork, Writing
<1>4. s \in Writing \cup Undoing => cur'[w] \in marked
  BY <1>1 DEF OwnWork, Writing, Undoing
<1>5. s \in {"write", "restore"} => todo'[w] \subseteq Touched(cur'[w])
  BY <1>1 DEF OwnWork
<1>6. /\ \A r \in Listed' : r \in Listed \/ r <= last
      /\ \A v \in Worker \ {w} : cur'[v] = cur[v] /\ todo'[v] = todo[v]
  OBVIOUS
<1> QED BY <1>2, <1>3, <1>4, <1>5, <1>6, WorkOfOne

\* Steps of w that change no process.
LEMMA WorkOfNone ==
  ASSUME AheadInv, TypeOK', CurTyped', UNCHANGED <<last, rec, status, marked, local>>,
         \A v \in Worker : pc[v] \notin Resting /\ cur[v] \in snapped => cur[v] \in snapped'
  PROVE  AheadInv'
<1> USE DEF AheadInv
<1>1. ASSUME NEW v \in Worker PROVE OwnWork(v)'
  <2>1. OwnWork(v)
    OBVIOUS
  <2>2. Touched(cur[v])' = Touched(cur[v])
    BY DEF Touched, Changed, local
  <2> QED BY <2>1, <2>2 DEF OwnWork, local, Resting, Writing
<1>2. HandedOut'
  BY DEF HandedOut, Listed
<1> QED BY <1>1, <1>2

\* A step of an execution.
LEMMA AheadExecute ==
  ASSUME AheadInv, Separate, TypeOK', CurTyped', NEW w \in Worker, Execute(w)
  PROVE  AheadInv'
<1> USE DEF AheadInv, Writing, Undoing, Resting, Phase, TypeOK
<1>0. OwnWork(w)
  OBVIOUS
<1>1. CASE Recheck(w)
  <2>1. PICK s \in {"snapshot", "ready", "scan"} : pc' = [pc EXCEPT ![w] = s]
    BY <1>1 DEF Recheck, Go, Leave
  <2>2. /\ pc[w] = "recheck" /\ Listed' = Listed
        /\ UNCHANGED <<last, rec, marked, snapped, cur, todo, scan>>
    BY <1>1 DEF Recheck, store, Listed
  <2> QED BY <2>1, <2>2, WorkGoesOn
<1>2. CASE WriteSnapshot(w)
  <2>1. /\ pc' = [pc EXCEPT ![w] = "record"] /\ pc[w] = "snapshot"
        /\ snapped' = snapped \cup {cur[w]}
        /\ UNCHANGED <<last, rec, status, marked, cur, todo, scan>>
    BY <1>2 DEF WriteSnapshot, Go
  <2>2. \A v \in Worker \ {w} : OwnWork(v)'
    BY <2>1, WorkOfOthers
  <2>3. OwnWork(w)'
    BY <1>0, <2>1 DEF OwnWork
  <2>4. HandedOut'
    BY <2>1 DEF HandedOut, Listed
  <2> QED BY <2>2, <2>3, <2>4
<1>3. CASE WriteRecord(w)
  <2>1. \A r \in Listed' : r \in Listed \/ r = cur[w]
    BY <1>3 DEF WriteRecord, AppendEvent, Listed
  <2>2. /\ pc' = [pc EXCEPT ![w] = "mark"] /\ pc[w] = "record"
        /\ UNCHANGED <<last, rec, marked, snapped, cur, todo, scan>>
    BY <1>3 DEF WriteRecord, Go
  <2>3. cur[w] <= last /\ cur[w] \in snapped
    BY <1>0, <2>2 DEF OwnWork
  <2>4. /\ \A r \in Listed' : r \in Listed \/ r <= last
        /\ \A v \in Worker \ {w} : cur'[v] = cur[v] /\ todo'[v] = todo[v]
        /\ cur'[w] <= last /\ cur'[w] \in snapped
    BY <2>1, <2>2, <2>3
  <2>5. /\ "mark" \in Phase
        /\ "mark" \notin {"write", "restore"} \cup Writing \cup Undoing
    OBVIOUS
  <2> HIDE DEF Writing, Undoing, Resting, Phase, TypeOK
  <2> QED BY <2>2, <2>4, <2>5, WorkOfOne
<1>4. CASE WriteMarker(w)
  <2>1. /\ pc' = [pc EXCEPT ![w] = "write"] /\ pc[w] = "mark"
        /\ marked' = marked \cup {cur[w]}
        /\ todo' = [todo EXCEPT ![w] = Touched(cur[w])]
        /\ UNCHANGED <<last, rec, status, snapped, cur, scan>>
    BY <1>4 DEF WriteMarker, Go
  <2>2. \A v \in Worker \ {w} : OwnWork(v)'
    BY <2>1, WorkOfOthers
  <2>3. OwnWork(w)'
    <3>1. Touched(cur[w])' = Touched(cur[w])
      BY <2>1 DEF Touched, Changed
    <3> QED BY <1>0, <2>1, <3>1 DEF OwnWork
  <2>4. HandedOut'
    <3>1. cur[w] <= last
      BY <1>0, <2>1 DEF OwnWork
    <3> QED BY <2>1, <3>1 DEF HandedOut, Listed
  <2> QED BY <2>2, <2>3, <2>4
<1>5. ASSUME NEW f \in File, WriteFile(w, f) PROVE AheadInv'
  <2>1. pc' = [pc EXCEPT ![w] = "write"] /\ pc[w] = "write"
    BY <1>5 DEF WriteFile
  <2>2. todo'[w] \subseteq todo[w]
    BY <1>5 DEF WriteFile
  <2>3. /\ Listed' = Listed /\ \A v \in Worker \ {w} : todo'[v] = todo[v]
        /\ UNCHANGED <<last, rec, marked, snapped, cur, scan>>
    BY <1>5 DEF WriteFile, store, Listed
  <2> QED BY <2>1, <2>2, <2>3, WorkGoesOn
<1>6. CASE WriteFails(w) \/ Verify(w) \/ Check(w)
  <2>1. PICK s \in {"check", "unmark", "restore"} :
          /\ pc' = [pc EXCEPT ![w] = s] /\ pc[w] \in {"write", "check"}
          /\ s = "restore" => todo'[w] = Touched(cur[w])
    BY <1>6 DEF WriteFails, Verify, Check, StartRestore, Go
  <2>2. /\ UNCHANGED <<last, rec, status, marked, snapped, cur, scan>>
        /\ \A v \in Worker \ {w} : todo'[v] = todo[v]
    BY <1>6 DEF WriteFails, Verify, Check, StartRestore, store
  <2>3. cur[w] <= last /\ cur[w] \in snapped /\ cur[w] \in marked
    BY <1>0, <2>1 DEF OwnWork
  <2>4. /\ \A r \in Listed' : r \in Listed \/ r <= last
        /\ \A v \in Worker \ {w} : cur'[v] = cur[v] /\ todo'[v] = todo[v]
        /\ cur'[w] <= last /\ cur'[w] \in snapped /\ cur'[w] \in marked
        /\ s \in {"write", "restore"} => todo'[w] \subseteq Touched(cur'[w])
    BY <2>1, <2>2, <2>3 DEF Listed
  <2>5. s \in Phase
    OBVIOUS
  <2> HIDE DEF Writing, Undoing, Resting, Phase, TypeOK
  <2> QED BY <2>1, <2>2, <2>4, <2>5, WorkOfOne
<1>7. CASE Finish(w)
  <2>1. /\ pc[w] = "unmark" /\ marked' = marked \ {cur[w]}
        /\ UNCHANGED <<last, rec, status, snapped, cur, todo, scan>>
        /\ \E s \in {"answer", "revert"} : pc' = [pc EXCEPT ![w] = s]
    BY <1>7 DEF Finish, ClearMarker, Go
  <2>2. \A v \in Worker \ {w} : OwnWork(v)'
    BY <2>1, WorkOfOthers DEF Separate
  <2>3. OwnWork(w)'
    BY <1>0, <2>1 DEF OwnWork
  <2>4. HandedOut'
    BY <2>1 DEF HandedOut, Listed
  <2> QED BY <2>2, <2>3, <2>4
<1>8. CASE MarkReverted(w)
  <2>1. \A r \in Listed' : r \in Listed
    BY <1>8 DEF MarkReverted, SetStatus, AppendEvent, Listed
  <2>2. /\ pc[w] = "revert" /\ pc' = [pc EXCEPT ![w] = "answer"]
        /\ UNCHANGED <<last, rec, marked, snapped, cur, todo, scan>>
    BY <1>8 DEF MarkReverted, Go
  <2> QED BY <2>1, <2>2, WorkGoesOn
<1>9. CASE Answer(w)
  <2>1. PICK s \in {"ready", "scan"} : pc' = [pc EXCEPT ![w] = s]
    BY <1>9 DEF Answer, Leave, Go
  <2>2. /\ pc[w] = "answer" /\ Listed' = Listed
        /\ UNCHANGED <<last, rec, marked, snapped, cur, todo, scan>>
    BY <1>9 DEF Answer, store, Listed
  <2> QED BY <2>1, <2>2, WorkGoesOn
<1> QED BY <1>1, <1>2, <1>3, <1>4, <1>5, <1>6, <1>7, <1>8, <1>9 DEF Execute

\* A step of an undo, of a restart or of a request.
LEMMA AheadOther ==
  ASSUME AheadInv, Separate, TypeOK', CurTyped', NEW w \in Worker,
         Undo(w) \/ Restart(w) \/ Request(w)
  PROVE  AheadInv'
<1> USE DEF AheadInv, Writing, Undoing, Resting, Phase, TypeOK
<1>0. OwnWork(w)
  OBVIOUS
<1>1. ASSUME NEW f \in File, RestoreFile(w, f) PROVE AheadInv'
  <2>1. pc' = [pc EXCEPT ![w] = "restore"] /\ pc[w] = "restore"
    BY <1>1 DEF RestoreFile
  <2>2. todo'[w] \subseteq todo[w]
    BY <1>1 DEF RestoreFile
  <2>3. /\ Listed' = Listed /\ \A v \in Worker \ {w} : todo'[v] = todo[v]
        /\ UNCHANGED <<last, rec, marked, snapped, cur, scan>>
    BY <1>1 DEF RestoreFile, store, Listed
  <2> QED BY <2>1, <2>2, <2>3, WorkGoesOn
<1>2. CASE Throws(w)
  <2>1. PICK s \in {"ready", "scan"} : pc' = [pc EXCEPT ![w] = s]
    BY <1>2 DEF Throws, Leave, Go
  <2>2. /\ pc[w] \notin Resting /\ Listed' = Listed
        /\ UNCHANGED <<last, rec, marked, snapped, cur, todo, scan>>
    BY <1>2 DEF Throws, Unguarded, store, Listed
  <2> QED BY <2>1, <2>2, WorkGoesOn
<1>3. CASE MarkRolledBack(w)
  <2>1. \A r \in Listed' : r \in Listed
    BY <1>3 DEF MarkRolledBack, SetStatus, AppendEvent, Listed
  <2>2. /\ pc[w] = "restore" /\ pc' = [pc EXCEPT ![w] = "settle"]
        /\ UNCHANGED <<last, rec, marked, snapped, cur, todo, scan>>
    BY <1>3 DEF MarkRolledBack, Go
  <2> QED BY <2>1, <2>2, WorkGoesOn
<1>4. CASE Settle(w)
  <2>1. /\ pc[w] = "settle" /\ marked' = marked \ {cur[w]}
        /\ UNCHANGED <<last, rec, status, snapped, cur, todo, scan>>
        /\ \E s \in {"ready", "scan"} : pc' = [pc EXCEPT ![w] = s]
    BY <1>4 DEF Settle, ClearMarker, Leave, Go
  <2>2. \A v \in Worker \ {w} : OwnWork(v)'
    BY <2>1, WorkOfOthers DEF Separate
  <2>3. OwnWork(w)'
    BY <1>0, <2>1 DEF OwnWork
  <2>4. HandedOut'
    BY <2>1 DEF HandedOut, Listed
  <2> QED BY <2>2, <2>3, <2>4
<1>5. CASE Boot(w) \/ \E r \in Rev : Recover(w, r)
  <2>1. /\ UNCHANGED <<last, rec, status, snapped, marked>>
        /\ \A v \in Worker \ {w} : /\ cur'[v] = cur[v] /\ todo'[v] = todo[v]
                                   /\ scan'[v] = scan[v]
        /\ pc' = [pc EXCEPT ![w] = pc'[w]]
    BY <1>5 DEF Boot, Recover, Go, store
  <2>2. \A v \in Worker \ {w} : OwnWork(v)'
    BY <2>1, WorkOfOthers
  <2>3. OwnWork(w)'
    <3>1. CASE Boot(w)
      BY <3>1 DEF Boot, Go, OwnWork, HandedOut, store
    <3>2. ASSUME NEW r \in Rev, Recover(w, r) PROVE OwnWork(w)'
      <4>1. scan'[w] \subseteq scan[w] /\ r <= last
        BY <1>0, <3>2 DEF Recover, OwnWork
      <4>2. CASE r \in marked
        <5>1. Touched(cur[w])' = Touched(r) /\ todo'[w] = Touched(r)
              /\ cur'[w] = r /\ pc'[w] = "restore"
          BY <2>1, <3>2, <4>2 DEF Recover, Go, Touched, Changed
        <5> QED BY <1>0, <2>1, <4>1, <4>2, <5>1 DEF OwnWork
      <4>3. CASE r \notin marked
        <5>1. pc'[w] = "scan"
          BY <3>2, <4>3 DEF Recover
        <5> QED BY <1>0, <2>1, <4>1, <5>1 DEF OwnWork
      <4> QED BY <4>2, <4>3
    <3> QED BY <1>5, <3>1, <3>2
  <2>4. HandedOut'
    BY <2>1 DEF HandedOut, Listed
  <2> QED BY <2>2, <2>3, <2>4
<1>6. CASE Ready(w)
  BY <1>6, WorkOfOne DEF Ready, Go, store, Listed
<1>7. ASSUME NEW after, NEW q \in 0..last, Begin(w, after, q) PROVE AheadInv'
  <2>1. /\ last' = last + 1 /\ last < MaxRev /\ \A r \in Rev : r <= last => rec'[r] = rec[r]
        /\ rec'[last + 1].reverts = q
        /\ UNCHANGED <<status, snapped, marked, todo, scan>>
        /\ cur' = [cur EXCEPT ![w] = last + 1] /\ pc' = [pc EXCEPT ![w] = "recheck"]
    BY <1>7, EngineAssumption DEF Begin, Go, Rev
  <2>2. last \in Nat /\ last' \in Nat /\ last <= last'
    BY <2>1, EngineAssumption
  <2>3. ASSUME NEW v \in Worker, v # w PROVE OwnWork(v)'
    BY <2>1, <2>2, <2>3, WorkKept
  <2>4. OwnWork(w)'
    <3>1. \A r \in scan'[w] : r <= last'
      BY <1>0, <2>1, <2>2, EngineAssumption DEF OwnWork, Rev
    <3>2. cur'[w] <= last' /\ pc'[w] = "recheck"
      BY <2>1, <2>2
    <3> QED BY <3>1, <3>2 DEF OwnWork
  <2>5. HandedOut'
    <3>1. ASSUME NEW r \in Listed' \cup marked' PROVE r <= last'
      BY <2>1, <2>2, EngineAssumption DEF HandedOut, Listed, Rev
    <3>2. ASSUME NEW r \in Rev, r <= last' PROVE rec'[r].reverts <= last'
      <4>1. CASE r <= last
        <5>1. rec'[r].reverts = rec[r].reverts /\ rec[r].reverts <= last /\ rec[r].reverts \in Nat
          BY <2>1, <4>1, EngineAssumption DEF HandedOut, Record
        <5> QED BY <2>1, <2>2, <5>1
      <4>2. CASE r = last + 1
        BY <2>1, <2>2, <4>2
      <4> QED BY <2>1, <2>2, <3>2, <4>1, <4>2, EngineAssumption DEF Rev
    <3> QED BY <3>1, <3>2 DEF HandedOut
  <2> QED BY <2>3, <2>4, <2>5
<1>8. CASE Request(w)
  <2>1. ASSUME NEW p \in plans, Apply(w, p) PROVE AheadInv'
    BY <1>7, <2>1, EngineAssumption DEF Apply
  <2>2. ASSUME NEW p \in plans, RefuseApply(w, p) PROVE AheadInv'
    BY <2>2, WorkOfNone DEF RefuseApply, store
  <2>3. ASSUME NEW r \in Rev, NEW force \in BOOLEAN, Rollback(w, r, force) PROVE AheadInv'
    <3>1. r \in 0..last
      BY <2>3, EngineAssumption DEF Rollback, HandedOut, Listed, Rev
    <3> QED BY <1>7, <2>3, <3>1 DEF Rollback
  <2> QED BY <1>8, <2>1, <2>2, <2>3 DEF Request
<1> QED BY <1>1, <1>2, <1>3, <1>4, <1>5, <1>6, <1>8 DEF Undo, Restart

LEMMA AheadStep ==
  ASSUME AheadInv, Separate, [Next]_vars
  PROVE  AheadInv'
<1>1. TypeOK' /\ CurTyped'
  BY TypeStep DEF AheadInv
<1>2. CASE UNCHANGED vars
  BY <1>1, <1>2, WorkOfNone DEF vars, store
<1>3. CASE Environment
  <2>1. ASSUME NEW w \in Worker, Crash(w) \/ CrashInAppend(w) PROVE AheadInv'
    <3>1. pc' = [pc EXCEPT ![w] = "down"] /\ "down" \in Phase /\ "down" \in Resting
          /\ "down" \notin {"record", "mark", "write", "restore"} \cup Writing \cup Undoing
      BY <2>1 DEF Crash, CrashInAppend, Die, Go, Phase, Resting, Writing, Undoing
    <3> QED BY <1>1, <2>1, <3>1, WorkOfOne DEF Crash, CrashInAppend, Die, Listed
  <2>2. ASSUME NEW w \in Worker, NEW r \in Rev, Prune(w, r) PROVE AheadInv'
    BY <1>1, <2>2, WorkOfNone DEF Prune, Resting
  <2>3. CASE (\E t \in Tree : MakePlan(t)) \/ (\E p \in plans : DropPlan(p))
             \/ (\E f \in File, c \in Content : Edit(f, c))
    BY <1>1, <2>3, WorkOfNone DEF MakePlan, DropPlan, Edit, store
  <2> QED BY <1>3, <2>1, <2>2, <2>3 DEF Environment
<1> QED BY <1>1, <1>2, <1>3, AheadExecute, AheadOther DEF Next

LEMMA AheadInit == Init => AheadInv
<1> SUFFICES ASSUME Init PROVE AheadInv
  OBVIOUS
<1>1. TypeOK /\ CurTyped
  BY InitType
<1>2. HandedOut
  BY EngineAssumption DEF Init, HandedOut, Listed, Rev
<1>3. ASSUME NEW w \in Worker PROVE OwnWork(w)
  BY DEF Init, OwnWork, Resting, Writing, Undoing
<1> QED BY <1>1, <1>2, <1>3 DEF AheadInv

\* As long as no line is torn, what a process works on from its marker to its
\* end is listed.
Found ==
  budget.tear = MaxTear =>
    /\ torn = FALSE
    /\ \A w \in Worker :
         /\ scan[w] \subseteq Listed
         /\ pc[w] \in {"mark"} \cup Writing \cup Undoing => cur[w] \in Listed

\* Steps of w that keep the list, when w goes on with its revision or stops.
LEMMA FoundKept ==
  ASSUME TypeOK, Found, Listed \subseteq Listed', NEW w \in Worker,
         torn = FALSE => torn' = FALSE, budget'.tear = budget.tear,
         \A v \in Worker \ {w} : pc'[v] = pc[v] /\ cur'[v] = cur[v],
         \A v \in Worker : scan'[v] \subseteq scan[v],
         \/ pc'[w] \notin {"mark"} \cup Writing \cup Undoing
         \/ pc[w] \in {"mark"} \cup Writing \cup Undoing /\ cur'[w] = cur[w]
  PROVE  Found'
BY DEF Found

LEMMA FoundExecute ==
  ASSUME TypeOK, CurTyped, Found, NEW w \in Worker, Execute(w)
  PROVE  Found'
<1> USE DEF TypeOK, Writing, Undoing
<1>0. pc[w] = "record" => cur[w] \in Rev
  BY DEF CurTyped, Resting
<1>1. CASE WriteRecord(w)
  <2>1. /\ torn' = FALSE /\ Listed \subseteq Listed' /\ pc' = [pc EXCEPT ![w] = "mark"]
        /\ UNCHANGED <<cur, scan, budget>> /\ pc[w] = "record"
        /\ torn = FALSE => status' = [status EXCEPT ![cur[w]] = "applied"]
    BY <1>1 DEF WriteRecord, AppendEvent, Go, Listed
  <2>2. torn = FALSE => cur[w] \in Listed'
    BY <2>1, <1>0 DEF Listed
  <2> QED BY <2>1, <2>2 DEF Found
<1>2. CASE MarkReverted(w)
  <2>1. /\ torn' = FALSE /\ Listed \subseteq Listed' /\ pc' = [pc EXCEPT ![w] = "answer"]
        /\ UNCHANGED <<cur, scan, budget>>
    BY <1>2 DEF MarkReverted, SetStatus, AppendEvent, Go, Listed
  <2> QED BY <2>1, FoundKept
<1>3. CASE ~ WriteRecord(w) /\ ~ MarkReverted(w)
  <2>1. /\ UNCHANGED <<status, torn, cur, scan, budget>>
        /\ pc' = pc \/ \E s \in Phase :
             /\ pc' = [pc EXCEPT ![w] = s]
             /\ s \in {"mark"} \cup Writing \cup Undoing =>
                  pc[w] \in {"mark"} \cup Writing \cup Undoing
    BY <1>3 DEF Execute, Recheck, WriteSnapshot, WriteMarker, WriteFile, WriteFails, Verify,
       Check, Finish, Answer, StartRestore, ClearMarker, Leave, Go, store, Phase
  <2> QED BY <2>1, FoundKept DEF Listed
<1> QED BY <1>1, <1>2, <1>3

LEMMA FoundOther ==
  ASSUME TypeOK, Found, NEW w \in Worker, Undo(w) \/ Restart(w)
  PROVE  Found'
<1> USE DEF TypeOK, Writing, Undoing
<1>1. CASE Undo(w)
  <2>1. /\ UNCHANGED <<cur, scan>> /\ budget'.tear = budget.tear
        /\ Listed \subseteq Listed'
        /\ torn = FALSE => torn' = FALSE
        /\ pc' = pc \/ \E s \in Phase :
             /\ pc' = [pc EXCEPT ![w] = s]
             /\ s \in {"mark"} \cup Writing \cup Undoing => pc[w] \in Undoing
    BY <1>1 DEF Undo, RestoreFile, Throws, MarkRolledBack, SetStatus, AppendEvent, Settle,
       ClearMarker, Leave, Go, store, Listed, Phase, Budget
  <2> QED BY <2>1, FoundKept
<1>2. CASE Boot(w)
  BY <1>2 DEF Boot, Go, Found, store, Listed
<1>3. CASE \E r \in Rev : Recover(w, r)
  BY <1>3 DEF Recover, Go, Found, store, Listed
<1>4. CASE Ready(w)
  BY <1>4, FoundKept DEF Ready, Go, store, Listed
<1> QED BY <1>1, <1>2, <1>3, <1>4 DEF Restart

LEMMA FoundStep ==
  ASSUME TypeOK, CurTyped, Found, [Next]_vars
  PROVE  Found'
<1> USE DEF TypeOK, Writing, Undoing
<1>1. ASSUME NEW w \in Worker, Request(w) PROVE Found'
  <2>1. /\ UNCHANGED <<status, torn, scan, budget>>
        /\ \/ UNCHANGED <<pc, cur>>
           \/ /\ pc' = [pc EXCEPT ![w] = "recheck"]
              /\ \A v \in Worker \ {w} : cur'[v] = cur[v]
    BY <1>1 DEF Request, Apply, RefuseApply, Rollback, Begin, Go, store, local
  <2> QED BY <2>1, FoundKept DEF Listed
<1>2. ASSUME NEW w \in Worker, Crash(w) PROVE Found'
  BY <1>2, FoundKept DEF Crash, Die, Go, Listed, Budget
<1>3. ASSUME NEW w \in Worker, CrashInAppend(w) PROVE Found'
  <2>1. budget'.tear # MaxTear
    BY <1>3, EngineAssumption DEF CrashInAppend, Budget
  <2> QED BY <2>1 DEF Found
<1>4. CASE UNCHANGED vars
  BY <1>4 DEF vars, store, local, Found, Listed
<1>5. CASE /\ Environment
           /\ \A w \in Worker : ~ Crash(w) /\ ~ CrashInAppend(w)
  <2>1. UNCHANGED <<status, torn, local>> /\ budget'.tear = budget.tear
    BY <1>5 DEF Environment, MakePlan, DropPlan, Edit, Prune, store, Budget
  <2> QED BY <2>1 DEF Found, Listed, local
<1> QED BY <1>1, <1>2, <1>3, <1>4, <1>5, FoundExecute, FoundOther DEF Next

LEMMA FoundInit == Init => Found
BY DEF Init, Found, Writing, Undoing

\* The step that changes a file, from the invariants above.
Ahead == \A f \in File : disk'[f] # disk[f] /\ f \notin edited' =>
           \E r \in marked \cap snapped :
             f \in Touched(r) /\ (budget.tear = MaxTear => r \in Listed)

LEMMA AheadOfWrites ==
  ASSUME AheadInv, Found, [Next]_vars
  PROVE  Ahead
<1> SUFFICES ASSUME NEW f \in File, disk'[f] # disk[f], f \notin edited'
             PROVE  \E r \in marked \cap snapped :
                      f \in Touched(r) /\ (budget.tear = MaxTear => r \in Listed)
  BY DEF Ahead
<1>1. PICK w \in Worker, g \in File : WriteFile(w, g) \/ RestoreFile(w, g)
  BY EngineWrites DEF AheadInv
<1>2. g = f
  BY <1>1 DEF WriteFile, RestoreFile, AheadInv, TypeOK, Tree
<1>3. /\ pc[w] \in {"write", "restore"} /\ f \in todo[w]
      /\ pc[w] = "restore" => cur[w] \in snapped
  BY <1>1, <1>2 DEF WriteFile, RestoreFile
<1>4. cur[w] \in marked \cap snapped /\ f \in Touched(cur[w])
  BY <1>3 DEF AheadInv, OwnWork, Writing, Undoing
<1>5. budget.tear = MaxTear => cur[w] \in Listed
  BY <1>3 DEF Found, Writing, Undoing
<1> QED BY <1>4, <1>5

(* Whatever tears or fails, a file changes only under a marker and with its *)
(* old content in a snapshot, as long as no two processes work on one       *)
(* revision; and that revision is listed, as long as no line was torn.      *)
THEOREM WritesAhead == Spec /\ []Separate => WriteAhead
<1>1. AheadInv /\ Found /\ Separate /\ [Next]_vars => AheadInv' /\ Found' /\ [Ahead]_vars
  BY AheadStep, AheadOfWrites, FoundStep DEF AheadInv
<1>2. Spec /\ []Separate => [][Ahead]_vars
  BY AheadInit, FoundInit, <1>1, PTL DEF Spec
<1> QED BY <1>2 DEF WriteAhead, Ahead

\* A single process always writes ahead.
THEOREM OneProcessWritesAhead ==
  ASSUME NEW w \in Worker, Worker = {w}
  PROVE  Spec => WriteAhead
<1>1. Separate
  BY DEF Separate
<1> QED BY <1>1, WritesAhead, PTL

-----------------------------------------------------------------------------
(* The engine implements AtomicSite when nobody else edits the files: one   *)
(* step of the engine, the removal of a marker, is the step in which the    *)
(* change becomes visible or disappears.                                    *)

Pending == {rec[r].after : r \in marked}

RInv == IInv /\ FrameInv /\ edited = {}

\* What clients see when no revision, or exactly one, is marked.
LEMMA ViewNone ==
  ASSUME NEW d \in Tree, NEW R
  PROVE  View(d, R, {}) = d
BY DEF View, Tree

LEMMA ViewOne ==
  ASSUME NEW d, NEW R, NEW r \in Rev
  PROVE  View(d, R, {r}) =
           [f \in File |-> IF R[r].before[f] # R[r].after[f]
                           THEN R[r].before[f] ELSE d[f]]
<1>1. Newest({r}) = r
  BY DEF Newest, Rev
<1>2. ASSUME NEW f \in File
      PROVE  LET S == {q \in {r} : R[q].before[f] # R[q].after[f]}
             IN  (IF S = {} THEN d[f] ELSE R[Newest(S)].before[f])
                   = IF R[r].before[f] # R[r].after[f] THEN R[r].before[f] ELSE d[f]
  <2>1. CASE R[r].before[f] # R[r].after[f]
    <3>1. {q \in {r} : R[q].before[f] # R[q].after[f]} = {r}
      BY <2>1
    <3> QED BY <1>1, <2>1, <3>1
  <2>2. CASE R[r].before[f] = R[r].after[f]
    <3>1. {q \in {r} : R[q].before[f] # R[q].after[f]} = {}
      BY <2>2
    <3> QED BY <2>2, <3>1
  <2> QED BY <2>1, <2>2
<1> QED BY <1>2 DEF View

\* Steps that change no file, and after which only revisions are worked on or
\* marked that were so before.
LEMMA FrameKept ==
  ASSUME FrameInv, UNCHANGED <<disk, rec>>, NEW w \in Worker,
         \A v \in Worker : pc'[v] \notin Resting =>
           cur'[v] \in marked \/ (pc[v] \notin Resting /\ cur'[v] = cur[v]),
         \A r \in marked' : r \in marked \/ (pc[w] \notin Resting /\ r = cur[w])
  PROVE  FrameInv'
BY DEF FrameInv, Touched, Changed

LEMMA FrameStep ==
  ASSUME Whole, MaxEdit = 0, RInv, IInv', [Next]_vars
  PROVE  FrameInv' /\ edited' = {}
<1> USE DEF RInv, IInv, TypeOK, Resting
<1>1. budget.edit = 0 /\ budget.tear = 0
  BY DEF Budget, Whole
<1>2. ASSUME NEW w \in Worker, NEW after, NEW q, Begin(w, after, q)
      PROVE  FrameInv' /\ edited' = {}
  <2>1. pc' = [pc EXCEPT ![w] = "recheck"] /\ UNCHANGED <<disk, marked, edited>>
    BY <1>2 DEF Begin, Go
  <2>2. marked' = {} /\ \A v \in Worker \ {w} : pc'[v] \in Idle
    BY <2>1 DEF Serial, Preparing, Idle
  <2>3. last + 1 \in Rev /\ cur'[w] = last + 1 /\ rec'[last + 1].before = disk
    BY <1>2, EngineAssumption DEF Begin, Rev
  <2> QED BY <2>1, <2>2, <2>3 DEF FrameInv, Idle
<1>3. ASSUME NEW w \in Worker, NEW f \in File, WriteFile(w, f) \/ RestoreFile(w, f)
      PROVE  FrameInv' /\ edited' = {}
  <2>1. pc[w] \in {"write", "restore"} /\ f \in todo[w] /\ UNCHANGED <<rec, marked, cur, pc, edited>>
    BY <1>3 DEF WriteFile, RestoreFile, store
  <2>2. marked = {cur[w]} /\ f \in Touched(cur[w])
    BY <2>1 DEF MarkInv, DiskInv, Writing, Undoing
  <2>3. \A v \in Worker \ {w} : pc[v] \in Idle
    BY <2>1, Alone DEF Idle
  <2>4. \A g \in File : g # f => disk'[g] = disk[g]
    BY <1>3 DEF WriteFile, RestoreFile, Tree
  <2> QED BY <2>1, <2>2, <2>3, <2>4 DEF FrameInv, Touched, Changed, Idle
<1>4. ASSUME NEW w \in Worker, NEW p \in plans, Apply(w, p) \/ RefuseApply(w, p)
      PROVE  FrameInv' /\ edited' = {}
  <2>1. CASE Apply(w, p)
    BY <1>2, <2>1 DEF Apply
  <2>2. CASE RefuseApply(w, p)
    BY <2>2, FrameKept DEF RefuseApply, store, local
  <2> QED BY <1>4, <2>1, <2>2
<1>5. ASSUME NEW w \in Worker, NEW r \in Rev, NEW force \in BOOLEAN, Rollback(w, r, force)
      PROVE  FrameInv' /\ edited' = {}
  BY <1>2, <1>5 DEF Rollback
<1>6. ASSUME NEW w \in Worker, Execute(w) PROVE FrameInv' /\ edited' = {}
  <2>1. CASE Recheck(w) \/ WriteSnapshot(w) \/ WriteRecord(w) \/ MarkReverted(w)
             \/ Answer(w)
    BY <2>1, FrameKept DEF Recheck, WriteSnapshot, WriteRecord, MarkReverted,
       Answer, Go, Leave, store
  <2>2. CASE WriteMarker(w)
    BY <2>2, FrameKept DEF WriteMarker, Go
  <2>3. CASE WriteFails(w) \/ Verify(w) \/ Check(w)
    BY <2>3, FrameKept DEF WriteFails, Verify, Check, StartRestore, Go, store
  <2>4. CASE Finish(w)
    BY <2>4, FrameKept DEF Finish, ClearMarker, Go
  <2> QED BY <1>3, <1>6, <2>1, <2>2, <2>3, <2>4 DEF Execute
<1>7. ASSUME NEW w \in Worker, Undo(w) PROVE FrameInv' /\ edited' = {}
  <2>1. CASE Throws(w) \/ MarkRolledBack(w) \/ Settle(w)
    BY <2>1, FrameKept DEF Throws, MarkRolledBack, Settle, ClearMarker,
       Go, Leave, store
  <2> QED BY <1>3, <1>7, <2>1 DEF Undo
<1>8. ASSUME NEW w \in Worker, Restart(w) PROVE FrameInv' /\ edited' = {}
  BY <1>8, FrameKept DEF Restart, Boot, Recover, Ready, Go, store
<1>9. CASE Environment
  <2>1. ASSUME NEW f \in File, NEW c \in Content PROVE ~ Edit(f, c)
    BY <1>1 DEF Edit
  <2>2. CASE \E t \in Tree : MakePlan(t)
    BY <2>2, FrameKept DEF MakePlan, store, local
  <2>3. CASE \E p \in plans : DropPlan(p)
    BY <2>3 DEF DropPlan, store, local, FrameInv, Touched, Changed
  <2>4. CASE \E w \in Worker : Crash(w) \/ CrashInAppend(w)
    BY <2>4, FrameKept DEF Crash, CrashInAppend, Die, Go
  <2>5. CASE \E w \in Worker, r \in Rev : Prune(w, r)
    BY <2>5, FrameKept DEF Prune, local
  <2> QED BY <1>9, <2>1, <2>2, <2>3, <2>4, <2>5 DEF Environment
<1>10. CASE UNCHANGED vars
  BY <1>10 DEF vars, store, local, FrameInv, Touched, Changed
<1> QED BY <1>4, <1>5, <1>6, <1>7, <1>8, <1>9, <1>10 DEF Next, Request

Stutter == UNCHANGED <<settled, Pending>>

\* Of the engine's steps, three move the abstract site.
LEMMA StartStep ==
  ASSUME RInv, RInv', NEW w \in Worker, WriteMarker(w)
  PROVE  \E t \in Tree : Atomic!Start(t)
<1> USE DEF RInv, IInv, TypeOK
<1>1. /\ pc[w] = "mark" /\ marked' = marked \cup {cur[w]} /\ UNCHANGED <<disk, rec>>
  BY DEF WriteMarker
<1>2. marked = {} /\ cur[w] \in Rev /\ marked' = {cur[w]}
  BY <1>1 DEF MarkInv, CurTyped, Writing, Undoing, Resting
<1>3. settled = disk
  BY <1>2, ViewNone DEF settled
<1>4. settled' = [f \in File |-> IF rec[cur[w]].before[f] # rec[cur[w]].after[f]
                                 THEN rec[cur[w]].before[f] ELSE disk[f]]
  BY <1>1, <1>2, ViewOne DEF settled
<1>5. \A f \in File : rec[cur[w]].before[f] # rec[cur[w]].after[f] =>
        disk[f] = rec[cur[w]].before[f]
  BY <1>1 DEF DiskInv, Holds, Touched, Changed
<1>6. settled' = settled
  BY <1>3, <1>4, <1>5 DEF Tree
<1>7. Pending = {} /\ Pending' = {rec[cur[w]].after} /\ rec[cur[w]].after \in Tree
  BY <1>1, <1>2 DEF Pending, Record
<1> QED BY <1>6, <1>7 DEF Atomic!Start, Pending

LEMMA CommitStep ==
  ASSUME RInv, RInv', NEW w \in Worker, Finish(w)
  PROVE  Atomic!Commit
<1> USE DEF RInv, IInv, TypeOK
<1>1. /\ pc[w] = "unmark" /\ marked' = marked \ {cur[w]} /\ UNCHANGED <<disk, rec>>
  BY DEF Finish, ClearMarker
<1>2. marked = {cur[w]} /\ cur[w] \in Rev /\ marked' = {}
  BY <1>1 DEF MarkInv, CurTyped, Writing, Resting
<1>3. settled' = disk
  BY <1>1, <1>2, ViewNone DEF settled
<1>4. \A f \in File : disk[f] = rec[cur[w]].after[f]
  <2>1. \A f \in Touched(cur[w]) : disk[f] = rec[cur[w]].after[f]
    BY <1>1 DEF DiskInv, Holds
  <2>2. \A f \in File \ Touched(cur[w]) : disk[f] = rec[cur[w]].before[f]
    BY <1>2 DEF FrameInv
  <2> QED BY <2>1, <2>2 DEF Touched, Changed
<1>5. Pending = {rec[cur[w]].after} /\ Pending' = {} /\ rec[cur[w]].after \in Tree
  BY <1>1, <1>2 DEF Pending, Record
<1>6. disk = rec[cur[w]].after
  BY <1>4, <1>5 DEF Tree
<1> QED BY <1>3, <1>5, <1>6 DEF Atomic!Commit, Pending

LEMMA AbortStep ==
  ASSUME RInv, RInv', NEW w \in Worker, Settle(w)
  PROVE  Atomic!Abort
<1> USE DEF RInv, IInv, TypeOK
<1>1. /\ pc[w] = "settle" /\ marked' = marked \ {cur[w]} /\ UNCHANGED <<disk, rec>>
  BY DEF Settle, ClearMarker
<1>2. marked = {cur[w]} /\ cur[w] \in Rev /\ marked' = {}
  BY <1>1 DEF MarkInv, CurTyped, Undoing, Resting
<1>3. settled' = disk
  BY <1>1, <1>2, ViewNone DEF settled
<1>4. settled = [f \in File |-> IF rec[cur[w]].before[f] # rec[cur[w]].after[f]
                                THEN rec[cur[w]].before[f] ELSE disk[f]]
  BY <1>2, ViewOne DEF settled
<1>5. \A f \in File : rec[cur[w]].before[f] # rec[cur[w]].after[f] =>
        disk[f] = rec[cur[w]].before[f]
  BY <1>1 DEF DiskInv, Holds, Touched, Changed
<1>6. settled' = settled
  BY <1>3, <1>4, <1>5 DEF Tree
<1>7. Pending # {} /\ Pending' = {}
  BY <1>1, <1>2 DEF Pending
<1> QED BY <1>6, <1>7 DEF Atomic!Abort, Pending

\* While the marker is there, writing and restoring do not show.
LEMMA HiddenStep ==
  ASSUME RInv, RInv', NEW w \in Worker, NEW f \in File,
         WriteFile(w, f) \/ RestoreFile(w, f)
  PROVE  Stutter
<1> USE DEF RInv, IInv, TypeOK
<1>1. /\ pc[w] \in {"write", "restore"} /\ f \in todo[w] /\ UNCHANGED <<rec, marked>>
  BY DEF WriteFile, RestoreFile, store
<1>2. marked = {cur[w]} /\ cur[w] \in Rev /\ f \in Touched(cur[w])
  BY <1>1 DEF MarkInv, DiskInv, CurTyped, Writing, Undoing, Resting
<1>3. \A g \in File : g # f => disk'[g] = disk[g]
  BY DEF WriteFile, RestoreFile, Tree
<1>4. settled = [g \in File |-> IF rec[cur[w]].before[g] # rec[cur[w]].after[g]
                                THEN rec[cur[w]].before[g] ELSE disk[g]]
  BY <1>2, ViewOne DEF settled
<1>5. settled' = [g \in File |-> IF rec[cur[w]].before[g] # rec[cur[w]].after[g]
                                 THEN rec[cur[w]].before[g] ELSE disk'[g]]
  BY <1>1, <1>2, ViewOne DEF settled
<1>6. rec[cur[w]].before[f] # rec[cur[w]].after[f]
  BY <1>2 DEF Touched, Changed
<1>7. settled' = settled
  BY <1>3, <1>4, <1>5, <1>6
<1> QED BY <1>1, <1>7 DEF Stutter, Pending

LEMMA OtherStep ==
  ASSUME RInv, RInv', UNCHANGED <<disk, marked>>,
         rec' = rec \/ marked = {}
  PROVE  Stutter
<1>1. CASE rec' = rec
  BY <1>1 DEF Stutter, settled, Pending
<1>2. CASE marked = {}
  BY <1>2, ViewNone DEF Stutter, settled, Pending, RInv, IInv, TypeOK
<1> QED BY <1>1, <1>2

LEMMA SimulationStep ==
  ASSUME MaxEdit = 0, RInv, RInv', [Next]_vars
  PROVE  Atomic!Next \/ Stutter
<1>1. ASSUME NEW w \in Worker, Request(w) PROVE Atomic!Next \/ Stutter
  <2>1. ASSUME NEW after, NEW q, Begin(w, after, q) PROVE Stutter
    <3>1. UNCHANGED <<disk, marked>> /\ pc'[w] = "recheck"
      BY <2>1 DEF Begin, Go, RInv, IInv, TypeOK
    <3>2. marked' = {}
      BY <3>1 DEF RInv, IInv, Serial, Preparing
    <3> QED BY <3>1, <3>2, OtherStep
  <2>2. ASSUME NEW p \in plans, RefuseApply(w, p) PROVE Stutter
    BY <2>2, OtherStep DEF RefuseApply, store
  <2> QED BY <1>1, <2>1, <2>2 DEF Request, Apply, Rollback
<1>2. ASSUME NEW w \in Worker, Execute(w) PROVE Atomic!Next \/ Stutter
  <2>1. ASSUME Recheck(w) \/ WriteSnapshot(w) \/ WriteRecord(w) \/ WriteFails(w)
               \/ Verify(w) \/ Check(w) \/ MarkReverted(w) \/ Answer(w)
        PROVE  Stutter
    BY <2>1, OtherStep DEF Recheck, WriteSnapshot, WriteRecord, WriteFails,
       Verify, Check, MarkReverted, Answer, store
  <2>2. CASE WriteMarker(w)
    BY <2>2, StartStep DEF Atomic!Next, Atomic!Tree, Tree
  <2>3. CASE Finish(w)
    BY <2>3, CommitStep DEF Atomic!Next
  <2> QED BY <1>2, <2>1, <2>2, <2>3, HiddenStep DEF Execute
<1>3. ASSUME NEW w \in Worker, Undo(w) PROVE Atomic!Next \/ Stutter
  <2>1. ASSUME Throws(w) \/ MarkRolledBack(w) PROVE Stutter
    BY <2>1, OtherStep DEF Throws, MarkRolledBack, store
  <2> QED BY <1>3, <2>1, HiddenStep, AbortStep DEF Undo, Atomic!Next
<1>4. ASSUME NEW w \in Worker, Restart(w) PROVE Atomic!Next \/ Stutter
  BY <1>4, OtherStep DEF Restart, Boot, Recover, Ready, store
<1>5. CASE Environment
  <2>1. ASSUME NEW f \in File, NEW c \in Content PROVE ~ Edit(f, c)
    BY DEF Edit, RInv, IInv, TypeOK, Budget
  <2> QED BY <1>5, <2>1, OtherStep DEF Environment, MakePlan, DropPlan, Crash,
             CrashInAppend, Die, Prune, store
<1>6. CASE UNCHANGED vars
  BY <1>6, OtherStep DEF vars, store
<1> QED BY <1>1, <1>2, <1>3, <1>4, <1>5, <1>6 DEF Next

(* The engine implements the abstract site: its initial states are, and     *)
(* every step of it is a start, a commit, an abort or a stutter.            *)
THEOREM Implements ==
  ASSUME Whole, MaxEdit = 0
  PROVE  Spec /\ []Serial => ImplementsAtomicSite
<1>1. Init => RInv /\ Atomic!Init
  <2> SUFFICES ASSUME Init PROVE RInv /\ Atomic!Init
    OBVIOUS
  <2>1. IInv /\ FrameInv /\ edited = {}
    BY IInvInit DEF Init, FrameInv, Resting
  <2>2. settled \in Tree /\ Pending = {}
    BY ViewNone DEF Init, settled, Pending
  <2> QED BY <2>1, <2>2 DEF RInv, Atomic!Init, Atomic!Tree, Tree, Pending
<1>2. RInv /\ Serial' /\ [Next]_vars => RInv'
  <2> SUFFICES ASSUME RInv, Serial', [Next]_vars PROVE RInv'
    OBVIOUS
  <2>1. IInv'
    BY IInvStep DEF RInv
  <2> QED BY <2>1, FrameStep DEF RInv
<1>3. RInv /\ RInv' /\ [Next]_vars => [Atomic!Next]_(Atomic!vars)
  BY SimulationStep DEF Stutter, Atomic!vars, Pending
<1> QED BY <1>1, <1>2, <1>3, PTL DEF Spec, ImplementsAtomicSite, Atomic!Spec

-----------------------------------------------------------------------------
(* The revisions form one line, and a reverted one has its rollback.        *)

\* Until it is listed, the revision being made has the current one as its
\* parent; until it has an answer, the one it undoes stays applied.
Committing == Preparing \cup Writing \cup {"mark", "revert"}
WorkInv ==
  \A w \in Worker :
    /\ pc[w] \in Preparing => rec[cur[w]].parent = Current
    /\ pc[w] \in Committing /\ rec[cur[w]].reverts # 0 =>
         rec[cur[w]].reverts \in Rev /\ status[rec[cur[w]].reverts] = "applied"

\* A reverted revision has a rollback that nothing will undo.
RevertInv ==
  \A r \in Listed : status[r] = "reverted" =>
    \E q \in Listed \ marked :
      /\ rec[q].reverts = r /\ status[q] # "rolled_back"
      /\ \A w \in Worker : pc[w] = "mark" => cur[w] # q

HistoryInv == WorkInv /\ LinearHistory /\ RevertInv

\* Steps that write neither the index nor a marker, and begin nothing.
LEMMA HistoryKept ==
  ASSUME HistoryInv, UNCHANGED <<rec, status>>, marked' \subseteq marked,
         \A w \in Worker :
           /\ pc'[w] \in Preparing => pc[w] \in Preparing /\ cur'[w] = cur[w]
           /\ pc'[w] \in Committing => pc[w] \in Committing /\ cur'[w] = cur[w]
           /\ pc'[w] = "mark" => pc[w] = "mark"
  PROVE  HistoryInv'
<1>1. WorkInv'
  BY DEF HistoryInv, WorkInv, Current, Listed
<1>2. LinearHistory'
  BY DEF HistoryInv, LinearHistory, Listed
<1>3. RevertInv'
  <2>1. ASSUME NEW w \in Worker, pc'[w] = "mark"
        PROVE  pc[w] = "mark" /\ cur'[w] = cur[w]
    BY <2>1 DEF Committing
  <2> QED BY <2>1 DEF HistoryInv, RevertInv, Listed
<1> QED BY <1>1, <1>2, <1>3 DEF HistoryInv

\* The parent of a new revision is the current one; nobody's list has it yet.
LEMMA HistoryBegun ==
  ASSUME IInv, HistoryInv, Serial', NEW w \in Worker, NEW after,
         NEW q \in 0..MaxRev, Begin(w, after, q),
         q = 0 \/ (q \in Rev /\ q <= last /\ status[q] = "applied")
  PROVE  HistoryInv'
<1> USE DEF IInv, TypeOK
<1>1. /\ UNCHANGED <<status, marked>> /\ last + 1 \in Rev /\ last \in Nat
      /\ pc' = [pc EXCEPT ![w] = "recheck"] /\ cur' = [cur EXCEPT ![w] = last + 1]
  BY EngineAssumption DEF Begin, Go, Rev
<1>0. \A v \in Worker \ {w} : pc'[v] \in Idle
  BY <1>1 DEF Serial, Idle
<1>2. /\ rec'[last + 1].parent = Current /\ rec'[last + 1].reverts = q
      /\ \A r \in Rev : r # last + 1 => rec'[r] = rec[r]
  BY <1>1 DEF Begin
<1>3. \A r \in Listed : r \in Rev /\ r # last + 1
  BY DEF IdsInv, Listed, Rev
<1>4. Listed' = Listed /\ Current' = Current
  BY <1>1 DEF Listed, Current
<1>5. WorkInv'
  BY <1>0, <1>1, <1>2, <1>4 DEF WorkInv, Idle, Committing, Preparing, Writing
<1>6. LinearHistory'
  BY <1>1, <1>2, <1>3, <1>4 DEF HistoryInv, LinearHistory
<1>7. RevertInv'
  BY <1>0, <1>1, <1>2, <1>3, <1>4 DEF HistoryInv, RevertInv, Idle
<1> QED BY <1>5, <1>6, <1>7 DEF HistoryInv

\* The revision is listed: all that were listed before are older.
LEMMA HistoryRecorded ==
  ASSUME IInv, HistoryInv, NEW w \in Worker, WriteRecord(w)
  PROVE  HistoryInv'
<1> USE DEF IInv, TypeOK
<1>0. \A v \in Worker \ {w} : pc[v] \in Idle
  BY Alone DEF WriteRecord, Idle
<1>1. /\ UNCHANGED <<rec, marked, cur>> /\ pc[w] = "record"
      /\ pc' = [pc EXCEPT ![w] = "mark"]
      /\ status' = [status EXCEPT ![cur[w]] = "applied"]
  BY DEF WriteRecord, AppendEvent, Go
<1>2. /\ cur[w] \in Rev /\ cur[w] \notin Listed
      /\ \A r \in Listed : r \in Rev /\ r < cur[w]
  <2>1. cur[w] \in Rev /\ cur[w] = last /\ cur[w] \notin Listed
    BY <1>1 DEF CurTyped, CurInv, Resting, Preparing
  <2>2. \A r \in Listed : r \in Rev /\ r <= last
    BY DEF IdsInv, Listed
  <2> QED BY <2>1, <2>2 DEF Rev
<1>3. /\ Listed' = Listed \cup {cur[w]}
      /\ \A r \in Rev : r # cur[w] => status'[r] = status[r]
      /\ status'[cur[w]] = "applied"
  BY <1>1, <1>2 DEF Listed
<1>4. WorkInv'
  BY <1>0, <1>1, <1>2, <1>3 DEF HistoryInv, WorkInv, Idle, Committing, Preparing, Writing
<1>5. LinearHistory'
  <2>1. rec[cur[w]].parent = Current
    BY <1>1 DEF HistoryInv, WorkInv, Preparing
  <2>2. {q \in Listed' : q < cur[w] /\ status'[q] # "rolled_back"}
          = {q \in Listed : status[q] # "rolled_back"}
    BY <1>2, <1>3 DEF Rev
  <2>3. ASSUME NEW r \in Listed
        PROVE  {q \in Listed' : q < r /\ status'[q] # "rolled_back"}
                 = {q \in Listed : q < r /\ status[q] # "rolled_back"}
    BY <1>2, <1>3 DEF Rev
  <2> SUFFICES ASSUME NEW r \in Listed'
               PROVE  rec[r].parent =
                        Newest({q \in Listed' : q < r /\ status'[q] # "rolled_back"})
    BY <1>1 DEF LinearHistory
  <2>4. CASE r = cur[w]
    BY <2>1, <2>2, <2>4 DEF Current
  <2>5. CASE r \in Listed
    BY <2>3, <2>5 DEF HistoryInv, LinearHistory
  <2> QED BY <1>3, <2>4, <2>5
<1>6. RevertInv'
  BY <1>0, <1>1, <1>2, <1>3 DEF HistoryInv, RevertInv, Idle
<1> QED BY <1>4, <1>5, <1>6 DEF HistoryInv

\* Only the newest revision is marked, and it is not yet the rollback that a
\* reverted one relies on.
LEMMA HistoryMarked ==
  ASSUME IInv, HistoryInv, NEW w \in Worker, WriteMarker(w)
  PROVE  HistoryInv'
<1> USE DEF IInv, TypeOK
<1>0. \A v \in Worker \ {w} : pc[v] \in Idle
  BY Alone DEF WriteMarker, Idle
<1>1. /\ UNCHANGED <<rec, status, cur>> /\ pc[w] = "mark"
      /\ pc' = [pc EXCEPT ![w] = "write"] /\ marked' = marked \cup {cur[w]}
  BY DEF WriteMarker, Go
<1>2. WorkInv'
  BY <1>0, <1>1 DEF HistoryInv, WorkInv, Idle, Committing, Preparing, Writing
<1>3. LinearHistory'
  BY <1>1 DEF HistoryInv, LinearHistory, Listed
<1>4. RevertInv'
  BY <1>0, <1>1 DEF HistoryInv, RevertInv, Idle, Listed
<1> QED BY <1>2, <1>3, <1>4 DEF HistoryInv

\* What becomes reverted was applied, so that no line changes; the rollback
\* itself is finished.
LEMMA HistoryReverted ==
  ASSUME IInv, HistoryInv, NEW w \in Worker, MarkReverted(w)
  PROVE  HistoryInv'
<1> USE DEF IInv, TypeOK
<1> DEFINE o == rec[cur[w]].reverts
<1>0. \A v \in Worker \ {w} : pc[v] \in Idle
  BY Alone DEF MarkReverted, Idle
<1>1. UNCHANGED <<rec, marked, cur>> /\ pc[w] = "revert" /\ pc' = [pc EXCEPT ![w] = "answer"]
  BY DEF MarkReverted, Go
<1>2. /\ cur[w] \in Listed /\ status[cur[w]] = "applied" /\ marked = {}
      /\ o \in Listed /\ status[o] = "applied" /\ o # cur[w]
  <2>1. cur[w] \in Rev /\ NewestListed(cur[w]) /\ status[cur[w]] = "applied" /\ o # 0
    BY <1>1 DEF CurTyped, CurInv, Resting, Applying
  <2>2. o \in Rev /\ status[o] = "applied"
    BY <1>1, <2>1 DEF HistoryInv, WorkInv, Committing
  <2>3. marked = {}
    BY <1>1 DEF MarkInv, Writing, Undoing
  <2>4. o < cur[w]
    BY <2>1 DEF IdsInv, NewestListed
  <2> QED BY <2>1, <2>2, <2>3, <2>4 DEF Listed, NewestListed, Rev
<1>3. status' = [status EXCEPT ![o] = "reverted"]
  BY <1>2 DEF MarkReverted, SetStatus, AppendEvent
<1>4. Listed' = Listed /\ \A r \in Rev : r # o => status'[r] = status[r]
  BY <1>2, <1>3 DEF Listed
<1>5. status'[o] = "reverted"
  BY <1>2, <1>3 DEF Listed
<1>6. WorkInv'
  BY <1>0, <1>1 DEF WorkInv, Idle, Committing, Preparing, Writing
<1>7. LinearHistory'
  <2>1. ASSUME NEW r \in Listed
        PROVE  {q \in Listed' : q < r /\ status'[q] # "rolled_back"}
                 = {q \in Listed : q < r /\ status[q] # "rolled_back"}
    BY <1>2, <1>4, <1>5 DEF Listed
  <2> QED BY <1>1, <1>4, <2>1 DEF HistoryInv, LinearHistory
<1>8. RevertInv'
  <2>1. \A v \in Worker : pc'[v] # "mark"
    BY <1>0, <1>1 DEF Idle
  <2>2. ASSUME NEW r \in Listed, status'[r] = "reverted"
        PROVE  \E q \in Listed : rec[q].reverts = r /\ status'[q] # "rolled_back"
    <3>1. CASE r = o
      BY <1>2, <1>4, <3>1 DEF Listed
    <3>2. CASE r # o
      <4>1. status[r] = "reverted"
        BY <1>4, <2>2, <3>2 DEF Listed
      <4>2. PICK q \in Listed : rec[q].reverts = r /\ status[q] # "rolled_back"
        BY <4>1 DEF HistoryInv, RevertInv
      <4> QED BY <1>4, <1>5, <4>2 DEF Listed
    <3> QED BY <3>1, <3>2
  <2> QED BY <1>1, <1>2, <1>4, <2>1, <2>2 DEF RevertInv
<1> QED BY <1>6, <1>7, <1>8 DEF HistoryInv

\* Only the newest revision is undone: it is nobody's parent, and marked.
LEMMA HistoryUndone ==
  ASSUME IInv, HistoryInv, NEW w \in Worker, MarkRolledBack(w)
  PROVE  HistoryInv'
<1> USE DEF IInv, TypeOK
<1>0. \A v \in Worker \ {w} : pc[v] \in Idle
  BY Alone DEF MarkRolledBack, Idle
<1>1. /\ UNCHANGED <<rec, marked, cur>> /\ pc[w] = "restore"
      /\ pc' = [pc EXCEPT ![w] = "settle"]
  BY DEF MarkRolledBack, Go
<1>2. cur[w] \in Rev /\ NewestListed(cur[w]) /\ cur[w] \in marked
  BY <1>1 DEF CurTyped, CurInv, MarkInv, Resting, Undoing
<1>3. /\ Listed' = Listed /\ status'[cur[w]] = "rolled_back"
      /\ \A r \in Rev : r # cur[w] => status'[r] = status[r]
  BY <1>2 DEF MarkRolledBack, SetStatus, AppendEvent, NewestListed, Listed
<1>4. WorkInv'
  BY <1>0, <1>1 DEF WorkInv, Idle, Committing, Preparing, Writing
<1>5. LinearHistory'
  <2>1. ASSUME NEW r \in Listed
        PROVE  {q \in Listed' : q < r /\ status'[q] # "rolled_back"}
                 = {q \in Listed : q < r /\ status[q] # "rolled_back"}
    BY <1>2, <1>3 DEF Listed, NewestListed, Rev
  <2> QED BY <1>1, <1>3, <2>1 DEF HistoryInv, LinearHistory
<1>6. RevertInv'
  BY <1>0, <1>1, <1>2, <1>3 DEF HistoryInv, RevertInv, Idle, Listed
<1> QED BY <1>4, <1>5, <1>6 DEF HistoryInv

LEMMA HistoryStep ==
  ASSUME IInv, HistoryInv, Serial', [Next]_vars
  PROVE  HistoryInv'
<1> USE DEF IInv, TypeOK, Preparing, Writing, Committing
<1>1. ASSUME NEW w \in Worker, NEW p \in plans, Apply(w, p) PROVE HistoryInv'
  <2>1. 0 \in 0..MaxRev
    BY EngineAssumption
  <2> QED BY <1>1, <2>1, HistoryBegun DEF Apply
<1>2. ASSUME NEW w \in Worker, NEW p \in plans, RefuseApply(w, p) PROVE HistoryInv'
  BY <1>2, HistoryKept DEF RefuseApply, store, local
<1>3. ASSUME NEW w \in Worker, NEW r \in Rev, NEW force \in BOOLEAN, Rollback(w, r, force)
      PROVE  HistoryInv'
  <2>1. r \in 0..MaxRev /\ r <= last /\ status[r] = "applied"
    BY <1>3 DEF Rollback, IdsInv, Listed, Rev
  <2> QED BY <1>3, <2>1, HistoryBegun DEF Rollback
<1>4. ASSUME NEW w \in Worker, Execute(w) PROVE HistoryInv'
  <2>1. CASE Recheck(w) \/ WriteSnapshot(w) \/ Answer(w)
    BY <2>1, HistoryKept DEF Recheck, WriteSnapshot, Answer, Go, Leave, store
  <2>2. CASE \E f \in File : WriteFile(w, f)
    BY <2>2, HistoryKept DEF WriteFile, store
  <2>3. CASE WriteFails(w) \/ Verify(w) \/ Check(w)
    BY <2>3, HistoryKept DEF WriteFails, Verify, Check, StartRestore, Go, store
  <2>4. CASE Finish(w)
    BY <2>4, HistoryKept DEF Finish, ClearMarker, Go
  <2> QED BY <1>4, <2>1, <2>2, <2>3, <2>4, HistoryRecorded, HistoryMarked,
       HistoryReverted DEF Execute
<1>5. ASSUME NEW w \in Worker, Undo(w) PROVE HistoryInv'
  <2>1. CASE \E f \in File : RestoreFile(w, f)
    BY <2>1, HistoryKept DEF RestoreFile, store
  <2>2. CASE Throws(w) \/ Settle(w)
    BY <2>2, HistoryKept DEF Throws, Settle, ClearMarker, Go, Leave, store
  <2> QED BY <1>5, <2>1, <2>2, HistoryUndone DEF Undo
<1>6. ASSUME NEW w \in Worker, Restart(w) PROVE HistoryInv'
  BY <1>6, HistoryKept DEF Restart, Boot, Recover, Ready, Go, store
<1>7. CASE Environment
  <2>1. CASE \E f \in File, c \in Content : Edit(f, c)
    BY <2>1, HistoryKept DEF Edit, store, local
  <2>2. CASE (\E t \in Tree : MakePlan(t)) \/ \E p \in plans : DropPlan(p)
    BY <2>2, HistoryKept DEF MakePlan, DropPlan, store, local
  <2>3. CASE \E w \in Worker : Crash(w) \/ CrashInAppend(w)
    BY <2>3, HistoryKept DEF Crash, CrashInAppend, Die, Go
  <2>4. CASE \E w \in Worker, r \in Rev : Prune(w, r)
    BY <2>4, HistoryKept DEF Prune, local
  <2> QED BY <1>7, <2>1, <2>2, <2>3, <2>4 DEF Environment
<1>8. CASE UNCHANGED vars
  BY <1>8, HistoryKept DEF vars, store, local
<1> QED BY <1>1, <1>2, <1>3, <1>4, <1>5, <1>6, <1>7, <1>8 DEF Next, Request

LEMMA HistoryAlways ==
  ASSUME Whole
  PROVE  Spec /\ []Serial => []HistoryInv
<1>1. Init => HistoryInv
  BY DEF Init, HistoryInv, WorkInv, LinearHistory, RevertInv, Listed, Committing,
     Preparing, Writing
<1>2. IInv /\ HistoryInv /\ Serial' /\ [Next]_vars => HistoryInv'
  BY HistoryStep
<1> QED BY <1>1, <1>2, InvariantIfSerial, PTL DEF Spec

(* Revisions form one line, however often processes crash, undo and         *)
(* restart: each has as its parent the newest earlier one that was not      *)
(* rolled back.                                                             *)
THEOREM AlwaysLinear ==
  ASSUME Whole
  PROVE  Spec /\ []Serial => []LinearHistory
<1>1. HistoryInv => LinearHistory
  BY DEF HistoryInv
<1> QED BY <1>1, HistoryAlways, PTL

(* A revision that says "reverted" has a completed rollback, which no       *)
(* restart undoes later.                                                    *)
THEOREM RevertedAlwaysHasRollback ==
  ASSUME Whole
  PROVE  Spec /\ []Serial => []RevertedHasRollback
<1>1. HistoryInv => RevertedHasRollback
  BY DEF HistoryInv, RevertInv, RevertedHasRollback
<1> QED BY <1>1, HistoryAlways, PTL

-----------------------------------------------------------------------------
(* Where processes are serial: one process, with any number of crashes, or  *)
(* any number of processes, none of which crashes.                          *)

Regular == MaxFault = 0 /\ ((\E w \in Worker : Worker = {w}) \/ MaxCrash = 0)

\* While no process crashes, none recovers, and who works has the lock.
Up == MaxCrash = 0 =>
        \A w \in Worker : pc[w] \notin {"down", "scan"} /\ (pc[w] # "ready" => lock = w)

LEMMA MarkedIsCurrent ==
  ASSUME IInv, NEW w \in Worker, pc[w] \notin Resting
  PROVE  marked \subseteq {cur[w]}
<1>1. pc[w] \in Preparing \cup Writing \cup Undoing \cup {"mark", "revert", "answer"}
  BY DEF IInv, TypeOK, Phase, Resting, Preparing, Writing, Undoing
<1> QED BY <1>1 DEF IInv, Serial, MarkInv

\* Nobody begins or prunes while a marker is left.
LEMMA Undisturbed ==
  ASSUME Regular, IInv, Up
  PROVE  /\ \A w \in Worker : pc[w] = "ready" /\ lock = NoWorker => marked = {}
         /\ \A r \in marked :
              \/ \E v \in Worker : cur[v] = r /\ pc[v] \notin Resting
              \/ \A w \in Worker : pc[w] # "ready" /\ lock # w
<1>0. budget.fault = MaxFault
  BY DEF Regular, IInv, TypeOK, Budget
<1>1. CASE \E w \in Worker : Worker = {w}
  <2>1. PICK w \in Worker : Worker = {w}
    BY <1>1
  <2>2. marked # {} => pc[w] # "ready"
    BY <1>0, <2>1 DEF IInv, LeftInv
  <2>3. pc[w] \in Resting => lock # w
    BY DEF IInv, LockInv
  <2> QED BY <2>1, <2>2, <2>3, MarkedIsCurrent
<1>2. CASE MaxCrash = 0
  <2>1. NoWorker \notin Worker
    BY EngineAssumption
  <2>2. ASSUME NEW r \in marked PROVE \E v \in Worker : pc[v] # "ready"
    BY <1>0 DEF IInv, LeftInv
  <2>3. ASSUME NEW r \in marked PROVE \E v \in Worker : cur[v] = r /\ pc[v] \notin Resting
    <3>1. PICK v \in Worker : pc[v] # "ready"
      BY <2>2
    <3>2. pc[v] \notin Resting
      BY <1>2, <3>1 DEF Up, Resting
    <3> QED BY <3>2, MarkedIsCurrent
  <2>4. lock = NoWorker => marked = {}
    BY <1>2, <2>1, <2>2 DEF Up
  <2> QED BY <2>3, <2>4
<1> QED BY <1>1, <1>2 DEF Regular

LEMMA UpStep ==
  ASSUME IInv, Up, Whole, [Next]_vars
  PROVE  Up'
<1> SUFFICES ASSUME MaxCrash = 0
             PROVE  \A v \in Worker :
                      pc'[v] \notin {"down", "scan"} /\ (pc'[v] # "ready" => lock' = v)
  BY DEF Up
<1> USE DEF IInv, TypeOK
<1>1. \A v \in Worker : pc[v] \notin {"down", "scan"} /\ (pc[v] # "ready" => lock = v)
  BY DEF Up
<1>2. budget.crash = 0 /\ budget.tear = 0
  BY DEF Budget, Whole
<1>3. ASSUME NEW w \in Worker PROVE ~ Crash(w) /\ ~ CrashInAppend(w) /\ ~ Restart(w)
  BY <1>1, <1>2 DEF Crash, CrashInAppend, Restart, Boot, Recover, Ready
<1>4. ASSUME NEW w \in Worker, Request(w)
      PROVE  \/ UNCHANGED <<pc, lock>>
             \/ lock = NoWorker /\ lock' = w /\ pc' = [pc EXCEPT ![w] = "recheck"]
  BY <1>4 DEF Request, Apply, RefuseApply, Rollback, Begin, Go, local
<1>5. ASSUME NEW w \in Worker, Execute(w) \/ Undo(w)
      PROVE  /\ pc[w] # "ready"
             /\ \/ /\ lock' = lock
                   /\ pc' = pc \/ \E s \in Phase \ {"down", "scan", "ready"} : pc' = [pc EXCEPT ![w] = s]
                \/ lock = w /\ lock' = NoWorker /\ pc' = [pc EXCEPT ![w] = "ready"]
  <2>1. pc[w] # "ready"
    BY <1>5 DEF Execute, Undo, Recheck, WriteSnapshot, WriteRecord, WriteMarker, WriteFile,
       WriteFails, Verify, Check, Finish, MarkReverted, Answer, RestoreFile, Throws, Unguarded,
       MarkRolledBack, Settle
  <2>2. lock = w
    BY <1>1, <2>1
  <2>3. CASE Execute(w)
    BY <2>1, <2>2, <2>3 DEF Execute, Recheck, WriteSnapshot, WriteRecord, WriteMarker, WriteFile,
       WriteFails, Verify, Check, Finish, MarkReverted, Answer, StartRestore, ClearMarker,
       Leave, Go, Phase
  <2>4. CASE Undo(w)
    BY <2>1, <2>2, <2>4 DEF Undo, RestoreFile, Throws, MarkRolledBack, Settle,
       ClearMarker, Leave, Go, Phase
  <2> QED BY <1>5, <2>1, <2>3, <2>4
<1>6. ASSUME Environment PROVE UNCHANGED <<pc, lock>>
  BY <1>3, <1>6 DEF Environment, MakePlan, DropPlan, Edit, Prune, local
<1>7. ASSUME NEW w \in Worker, Request(w) PROVE Up'
  BY <1>1, <1>4, <1>7, EngineAssumption DEF Up
<1>8. ASSUME NEW w \in Worker, Execute(w) \/ Undo(w) PROVE Up'
  BY <1>1, <1>5, <1>8, EngineAssumption DEF Up
<1>9. ASSUME UNCHANGED <<pc, lock>> PROVE Up'
  BY <1>1, <1>9 DEF Up
<1>10. ASSUME UNCHANGED vars PROVE Up'
  BY <1>9, <1>10 DEF vars, local
<1>11. Up'
  BY <1>3, <1>6, <1>7, <1>8, <1>9, <1>10 DEF Next
<1> QED BY <1>11 DEF Up

\* What a step does to markers, to snapshots and to who prepares.
LEMMA MarkStep ==
  ASSUME IInv, [Next]_vars
  PROVE  /\ \/ marked' \subseteq marked
            \/ \E w \in Worker : pc[w] = "mark" /\ pc'[w] = "write" /\ marked' = marked \cup {cur[w]}
         /\ \/ snapped \subseteq snapped'
            \/ \E w \in Worker, r \in Rev : Prune(w, r)
         /\ \A v \in Worker : pc'[v] \in Preparing =>
              pc[v] \in Preparing \/ (pc[v] = "ready" /\ lock = NoWorker /\ marked' = marked)
<1> USE DEF IInv, TypeOK, Preparing
<1>1. ASSUME NEW w \in Worker, Request(w)
      PROVE  /\ UNCHANGED <<marked, snapped>>
             /\ pc' = pc \/ (pc[w] = "ready" /\ lock = NoWorker /\ pc' = [pc EXCEPT ![w] = "recheck"])
  BY <1>1 DEF Request, Apply, RefuseApply, Rollback, Begin, Go, store, local
<1>2. ASSUME NEW w \in Worker, Execute(w), ~ WriteMarker(w)
      PROVE  /\ marked' \subseteq marked /\ snapped \subseteq snapped'
             /\ pc' = pc \/ \E s \in Phase :
                    pc' = [pc EXCEPT ![w] = s] /\ (s \in Preparing => pc[w] \in Preparing)
  BY <1>2 DEF Execute, Recheck, WriteSnapshot, WriteRecord, WriteFile, WriteFails, Verify, Check,
     Finish, MarkReverted, Answer, StartRestore, ClearMarker, Leave, Go, store, Phase
<1>3. ASSUME NEW w \in Worker, WriteMarker(w)
      PROVE  /\ pc[w] = "mark" /\ marked' = marked \cup {cur[w]} /\ snapped' = snapped
             /\ pc' = [pc EXCEPT ![w] = "write"]
  BY <1>3 DEF WriteMarker, Go
<1>4. ASSUME NEW w \in Worker, Undo(w) \/ Restart(w) \/ Crash(w) \/ CrashInAppend(w)
      PROVE  /\ marked' \subseteq marked /\ snapped' = snapped
             /\ pc' = pc \/ \E s \in Phase : pc' = [pc EXCEPT ![w] = s] /\ s \notin Preparing
  BY <1>4 DEF Undo, RestoreFile, Throws, MarkRolledBack, Settle, ClearMarker, Leave, Go,
     Restart, Boot, Recover, Ready, Crash, CrashInAppend, Die, store, Phase
<1>5. ASSUME Environment, \A w \in Worker : ~ Crash(w) /\ ~ CrashInAppend(w)
      PROVE  /\ UNCHANGED <<pc, marked>>
             /\ snapped' = snapped \/ \E w \in Worker, r \in Rev : Prune(w, r)
  BY <1>5 DEF Environment, MakePlan, DropPlan, Edit, Prune, store, local
<1>6. ASSUME UNCHANGED vars PROVE UNCHANGED <<pc, marked, snapped>>
  BY <1>6 DEF vars, store, local
<1>7. CASE \E w \in Worker : Request(w)
  BY <1>1, <1>7
<1>8. CASE \E w \in Worker : Execute(w)
  <2>1. PICK w \in Worker : Execute(w)
    BY <1>8
  <2>2. CASE WriteMarker(w)
    <3>1. /\ pc[w] = "mark" /\ marked' = marked \cup {cur[w]} /\ snapped' = snapped
          /\ pc' = [pc EXCEPT ![w] = "write"]
      BY <1>3, <2>2
    <3> QED BY <3>1
  <2>3. CASE ~ WriteMarker(w)
    <3>1. /\ marked' \subseteq marked /\ snapped \subseteq snapped'
          /\ pc' = pc \/ \E s \in Phase :
                    pc' = [pc EXCEPT ![w] = s] /\ (s \in Preparing => pc[w] \in Preparing)
      BY <1>2, <2>1, <2>3
    <3> QED BY <3>1
  <2> QED BY <2>2, <2>3
<1>9. CASE \E w \in Worker : Undo(w) \/ Restart(w) \/ Crash(w) \/ CrashInAppend(w)
  BY <1>4, <1>9
<1>10. CASE UNCHANGED vars
  BY <1>6, <1>10
<1>11. CASE Environment /\ \A w \in Worker : ~ Crash(w) /\ ~ CrashInAppend(w)
  BY <1>5, <1>11
<1> QED BY <1>7, <1>8, <1>9, <1>10, <1>11 DEF Next

LEMMA SerialStep ==
  ASSUME Regular, Whole, IInv, Up, [Next]_vars
  PROVE  Serial' /\ Up'
<1>1. Up'
  BY UpStep
<1>2. \A v, w \in Worker : v # w => pc'[v] \in Idle \/ pc'[w] \in Idle
  <2>1. CASE \E w \in Worker : Worker = {w}
    BY <2>1
  <2>2. CASE MaxCrash = 0
    BY <1>1, <2>2 DEF Up, Idle
  <2> QED BY <2>1, <2>2 DEF Regular
<1>3. ASSUME NEW v \in Worker, pc'[v] \in Preparing PROVE marked' = {}
  <2>1. CASE pc[v] \in Preparing
    <3>1. marked = {}
      BY <2>1 DEF IInv, Serial
    <3>2. \A w \in Worker : pc[w] # "mark" \/ w = v
      BY <2>1 DEF IInv, Serial, Preparing, Idle
    <3>3. pc[v] # "mark"
      BY <2>1 DEF Preparing
    <3> QED BY <3>1, <3>2, <3>3, MarkStep
  <2>2. CASE pc[v] = "ready" /\ lock = NoWorker /\ marked' = marked
    BY <2>2, Undisturbed
  <2> QED BY <1>3, <2>1, <2>2, MarkStep
<1>4. marked' \subseteq snapped'
  <2>1. CASE snapped \subseteq snapped'
    <3>1. marked \subseteq snapped
      BY DEF IInv, Serial
    <3>2. \A w \in Worker : pc[w] = "mark" => cur[w] \in snapped
      BY DEF IInv, MarkInv
    <3> QED BY <2>1, <3>1, <3>2, MarkStep
  <2>2. CASE \E w \in Worker, r \in Rev : Prune(w, r)
    <3>1. PICK w \in Worker, r \in Rev : Prune(w, r)
      BY <2>2
    <3>2. /\ marked' = marked /\ snapped' = snapped \ {r} /\ (pc[w] = "ready" \/ lock = w)
          /\ \A v \in Worker : pc[v] \notin Resting => cur[v] # r
      BY <3>1 DEF Prune, Resting
    <3>3. r \notin marked
      BY <3>2, Undisturbed
    <3> QED BY <3>2, <3>3 DEF IInv, Serial
  <2> QED BY <2>1, <2>2, MarkStep
<1> QED BY <1>1, <1>2, <1>3, <1>4 DEF Serial

(* One process, or any number that do not crash, never recover or serve     *)
(* into each other's work.                                                  *)
THEOREM SerialIfRegular ==
  ASSUME Whole, Regular
  PROVE  Spec => []Serial
<1>1. Init => IInv /\ Up
  BY IInvInit DEF Init, Up
<1>2. IInv /\ Up /\ [Next]_vars => IInv' /\ Up'
  BY SerialStep, IInvStep
<1>3. IInv => Serial
  BY DEF IInv
<1> QED BY <1>1, <1>2, <1>3, PTL DEF Spec

(* For them everything above holds of every behaviour.                      *)
THEOREM SafeIfRegular ==
  ASSUME Whole, Regular
  PROVE  Spec => /\ []IInv /\ []AllOrNothing /\ []RolledBackIsUndone /\ []AnswerIsTrue
                 /\ []LinearHistory /\ []RevertedHasRollback /\ WriteAhead
<1>1. Serial => Separate
  BY DEF Serial, Separate, Idle, Resting
<1> QED
  BY <1>1, SerialIfRegular, InvariantIfSerial, CrashAtomicity, UndoneIsUndone,
     TrueAnswers, AlwaysLinear, RevertedAlwaysHasRollback, WritesAhead, PTL

(* Without edits by others, they implement the atomic site.                 *)
THEOREM RegularImplements ==
  ASSUME Whole, Regular, MaxEdit = 0
  PROVE  Spec => ImplementsAtomicSite
BY SerialIfRegular, Implements, PTL
=============================================================================
