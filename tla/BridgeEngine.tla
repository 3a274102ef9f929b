----------------------------- MODULE BridgeEngine -----------------------------
(***************************************************************************)
(* The change-set engine of the automation bridge: every mutation of a     *)
(* site's files is a revision, executed under the site lock as             *)
(*                                                                         *)
(*   recheck -> snapshot -> record -> IN_PROGRESS marker -> write files    *)
(*           -> verify -> revalidate/route check -> clear the marker       *)
(*                                                                         *)
(* and undone from its snapshot when a step fails.  A process that starts  *)
(* restores every listed revision whose marker is still there, without     *)
(* taking the lock.  Several processes (Worker) may share one state        *)
(* directory.  The site lock is ideal here: the protocol behind it is the  *)
(* subject of module SiteLock.                                             *)
(***************************************************************************)
EXTENDS Naturals, FiniteSets

CONSTANTS
  File,       \* paths in the writable roots
  Content,    \* what a path can hold; one member can stand for "absent"
  Worker,     \* bridge processes sharing the state directory
  NoWorker,   \* the lock has no holder
  MaxRev,     \* bound: revision ids handed out
  MaxPlan,    \* bound: plans clients hold at a time
  MaxCrash,   \* bound: crashes of a process between two steps
  MaxTear,    \* bound: crashes in the middle of an append to index.jsonl
  MaxFault,   \* bound: file operations that fail where nothing undoes them
  MaxEdit     \* bound: edits of the site's files by anyone else

ASSUME EngineAssumption ==
  /\ NoWorker \notin Worker
  /\ MaxRev \in Nat /\ MaxPlan \in Nat
  /\ MaxCrash \in Nat /\ MaxTear \in Nat /\ MaxFault \in Nat /\ MaxEdit \in Nat

VARIABLES
  disk,     \* the site's files
  plans,    \* plans clients hold and may send back as an apply request
  last,     \* revision ids handed out so far are 1..last
  rec,      \* rec[r]: the record of r, fixed when its execution begins
  snapped,  \* revisions whose before/ snapshot is on disk
  status,   \* status[r]: what index.jsonl says of r
  torn,     \* index.jsonl ends in a torn line
  marked,   \* revisions whose IN_PROGRESS marker is on disk
  lock,     \* holder of the site lock
  pc, cur, todo, scan,  \* per process: step, revision, files left, ids to scan
  budget,   \* what is left of the bounds on crashes, tears, faults and edits
  edited    \* history: files edited by anyone else so far

store == <<last, rec, snapped, status, torn, marked>>
local == <<pc, cur, todo, scan>>
vars  == <<disk, plans, store, lock, local, budget, edited>>

Rev    == 1..MaxRev
Tree   == [File -> Content]
Status == {"unlisted", "applied", "rolled_back", "reverted"}
Phase  == {"down", "scan", "ready", "recheck", "snapshot", "record", "mark",
           "write", "check", "restore", "settle", "unmark", "revert", "answer"}

\* base, parent and reverts are 0 for null; reverts # 0 makes it a rollback.
Record == [before : Tree, after : Tree, parent : 0..MaxRev,
           reverts : 0..MaxRev]
Plan   == [base : 0..MaxRev, before : Tree, after : Tree]
Budget == [crash : 0..MaxCrash, tear : 0..MaxTear,
           fault : 0..MaxFault, edit : 0..MaxEdit]

TypeOK ==
  /\ disk \in Tree
  /\ plans \subseteq Plan
  /\ last \in 0..MaxRev
  /\ rec \in [Rev -> Record]
  /\ snapped \subseteq Rev
  /\ status \in [Rev -> Status]
  /\ torn \in BOOLEAN
  /\ marked \subseteq Rev
  /\ lock \in Worker \cup {NoWorker}
  /\ pc \in [Worker -> Phase]
  /\ cur \in [Worker -> 0..MaxRev]
  /\ todo \in [Worker -> SUBSET File]
  /\ scan \in [Worker -> SUBSET Rev]
  /\ budget \in Budget
  /\ edited \subseteq File

-----------------------------------------------------------------------------
(* The revision index: a fold of the events in index.jsonl.                *)

Newest(S) == IF S = {} THEN 0 ELSE CHOOSE r \in S : \A q \in S : q <= r

Listed  == {r \in Rev : status[r] # "unlisted"}
\* Bug: forgets that a rolled-back revision is not the current one.
CurrentAnyStatus == Newest(Listed)

Current == Newest({r \in Listed : status[r] # "rolled_back"})

\* An event appended after a torn line shares that line and is lost with it.
\* A status event counts only for a revision whose "created" event is listed.
AppendEvent(r, s) ==
  /\ torn' = FALSE
  /\ status' = IF torn THEN status ELSE [status EXCEPT ![r] = s]

SetStatus(r, s) ==
  IF r \in Listed THEN AppendEvent(r, s)
                  ELSE torn' = FALSE /\ UNCHANGED status

Changed(b, a) == {f \in File : b[f] # a[f]}
Touched(r)    == Changed(rec[r].before, rec[r].after)

Go(w, step) == pc' = [pc EXCEPT ![w] = step]

\* A request gives the lock back and answers; recovery, which runs without
\* the lock, goes on with its scan.
Leave(w) ==
  IF lock = w THEN /\ Go(w, "ready") /\ lock' = NoWorker
              ELSE /\ Go(w, "scan")  /\ UNCHANGED lock

-----------------------------------------------------------------------------
(* Requests.                                                               *)

\* POST /changesets/plan: the change to the present files, and the revision
\* it was computed on.
MakePlan(t) ==
  /\ \E w \in Worker : pc[w] = "ready"
  /\ Cardinality(plans) < MaxPlan
  /\ plans' = plans \cup {[base |-> Current, before |-> disk, after |-> t]}
  /\ UNCHANGED <<disk, store, lock, local, budget, edited>>

\* The client forgets a plan.
DropPlan(p) ==
  /\ plans' = plans \ {p}
  /\ UNCHANGED <<disk, store, lock, local, budget, edited>>

\* executeChanges begins: a fresh id, the current revision as its parent.
Begin(w, after, reverts) ==
  /\ pc[w] = "ready"
  /\ lock = NoWorker
  /\ last < MaxRev
  /\ lock' = w
  /\ last' = last + 1
  /\ rec'  = [rec EXCEPT ![last + 1] =
                [before |-> disk, after |-> after, parent |-> Current,
                 reverts |-> reverts]]
  /\ cur'  = [cur EXCEPT ![w] = last + 1]
  /\ Go(w, "recheck")
  /\ UNCHANGED <<disk, snapped, status, torn, marked, todo, scan, budget, edited>>

\* The plan still describes what applying it now would do.
PlanHolds(p) ==
  /\ p.base \in {0, Current}
  /\ \A f \in Changed(p.before, p.after) : disk[f] = p.before[f]

\* POST /changesets/apply: planned again under the lock; only the files of the
\* approved diff change.
Apply(w, p) ==
  /\ PlanHolds(p)
  /\ plans' = plans \ {p}
  /\ Begin(w, [f \in File |-> IF f \in Changed(p.before, p.after)
                              THEN p.after[f] ELSE disk[f]], 0)

\* 409 CONFLICT_REVISION: base revision or diff hash differ.
RefuseApply(w, p) ==
  /\ pc[w] = "ready"
  /\ lock = NoWorker
  /\ ~ PlanHolds(p)
  /\ plans' = plans \ {p}
  /\ UNCHANGED <<disk, store, lock, local, budget, edited>>

\* POST /revisions/{r}/rollback: refused when a file changed since, unless the
\* caller forces it.
Rollback(w, r, force) ==
  /\ status[r] = "applied"
  /\ r \in snapped
  /\ force \/ \A f \in Touched(r) : disk[f] = rec[r].after[f]
  /\ Begin(w, [f \in File |-> IF f \in Touched(r)
                              THEN rec[r].before[f] ELSE disk[f]], r)
  /\ UNCHANGED plans

-----------------------------------------------------------------------------
(* executeChanges, step by step.                                           *)

Recheck(w) ==
  /\ pc[w] = "recheck"
  /\ IF \A f \in Touched(cur[w]) : disk[f] = rec[cur[w]].before[f]
     THEN Go(w, "snapshot") /\ UNCHANGED lock
     ELSE Leave(w)
  /\ UNCHANGED <<disk, plans, store, cur, todo, scan, budget, edited>>

\* Bug: the snapshot is not written.
SkipSnapshot(w) ==
  /\ pc[w] = "snapshot"
  /\ Go(w, "record")
  /\ UNCHANGED <<disk, plans, store, lock, cur, todo, scan, budget, edited>>

WriteSnapshot(w) ==
  /\ pc[w] = "snapshot"
  /\ snapped' = snapped \cup {cur[w]}
  /\ Go(w, "record")
  /\ UNCHANGED <<disk, plans, last, rec, status, torn, marked, lock, cur, todo,
                 scan, budget, edited>>

\* Bug: the original is marked as reverted before the rollback is done.
RecordAndRevert(w) ==
  /\ pc[w] = "record"
  /\ torn' = FALSE
  /\ status' = [r \in Rev |->
       IF r = cur[w] THEN "applied"
       ELSE IF r = rec[cur[w]].reverts THEN "reverted" ELSE status[r]]
  /\ Go(w, "mark")
  /\ UNCHANGED <<disk, plans, last, rec, snapped, marked, lock, cur, todo, scan,
                 budget, edited>>

WriteRecord(w) ==
  /\ pc[w] = "record"
  /\ AppendEvent(cur[w], "applied")
  /\ Go(w, "mark")
  /\ UNCHANGED <<disk, plans, last, rec, snapped, marked, lock, cur, todo, scan,
                 budget, edited>>

\* Bug: the marker is not written.
SkipMarker(w) ==
  /\ pc[w] = "mark"
  /\ todo' = [todo EXCEPT ![w] = Touched(cur[w])]
  /\ Go(w, "write")
  /\ UNCHANGED <<disk, plans, store, lock, cur, scan, budget, edited>>

WriteMarker(w) ==
  /\ pc[w] = "mark"
  /\ marked' = marked \cup {cur[w]}
  /\ todo' = [todo EXCEPT ![w] = Touched(cur[w])]
  /\ Go(w, "write")
  /\ UNCHANGED <<disk, plans, last, rec, snapped, status, torn, lock, cur, scan,
                 budget, edited>>

WriteFile(w, f) ==
  /\ pc[w] = "write"
  /\ f \in todo[w]
  /\ disk' = [disk EXCEPT ![f] = rec[cur[w]].after[f]]
  /\ todo' = [todo EXCEPT ![w] = @ \ {f}]
  /\ UNCHANGED <<plans, store, lock, pc, cur, scan, budget, edited>>

StartRestore(w) ==
  /\ todo' = [todo EXCEPT ![w] = Touched(cur[w])]
  /\ Go(w, "restore")

WriteFails(w) ==
  /\ pc[w] = "write"
  /\ todo[w] # {}
  /\ StartRestore(w)
  /\ UNCHANGED <<disk, plans, store, lock, cur, scan, budget, edited>>

\* Bug: the first file that was written is taken for all of them.
VerifyAny(w) ==
  /\ pc[w] = "write"
  /\ IF \E f \in Touched(cur[w]) : disk[f] = rec[cur[w]].after[f]
     THEN Go(w, "check") /\ UNCHANGED todo
     ELSE StartRestore(w)
  /\ UNCHANGED <<disk, plans, store, lock, cur, scan, budget, edited>>

Verify(w) ==
  /\ pc[w] = "write"
  /\ todo[w] = {}
  /\ IF \A f \in Touched(cur[w]) : disk[f] = rec[cur[w]].after[f]
     THEN Go(w, "check") /\ UNCHANGED todo
     ELSE StartRestore(w)
  /\ UNCHANGED <<disk, plans, store, lock, cur, scan, budget, edited>>

\* Revalidation and the route checks succeed, or one of them fails.
Check(w) ==
  /\ pc[w] = "check"
  /\ \/ Go(w, "unmark") /\ UNCHANGED todo
     \/ StartRestore(w)
  /\ UNCHANGED <<disk, plans, store, lock, cur, scan, budget, edited>>

ClearMarker(w, next) ==
  /\ marked' = marked \ {cur[w]}
  /\ UNCHANGED <<disk, plans, last, rec, snapped, status, torn, cur, todo, scan,
                 budget, edited>>
  /\ next

\* Bug: the marker stays when the revision is done.
FinishMarked(w) ==
  /\ pc[w] = "unmark"
  /\ Go(w, IF rec[cur[w]].reverts = 0 THEN "answer" ELSE "revert")
  /\ UNCHANGED <<disk, plans, store, lock, cur, todo, scan, budget, edited>>

Finish(w) ==
  /\ pc[w] = "unmark"
  /\ ClearMarker(w, /\ Go(w, IF rec[cur[w]].reverts = 0 THEN "answer" ELSE "revert")
                    /\ UNCHANGED lock)

\* A rollback marks the revision it undid.
MarkReverted(w) ==
  /\ pc[w] = "revert"
  /\ SetStatus(rec[cur[w]].reverts, "reverted")
  /\ Go(w, "answer")
  /\ UNCHANGED <<disk, plans, last, rec, snapped, marked, lock, cur, todo, scan,
                 budget, edited>>

\* 200 {"status": "applied"}
Answer(w) ==
  /\ pc[w] = "answer"
  /\ Leave(w)
  /\ UNCHANGED <<disk, plans, store, cur, todo, scan, budget, edited>>

-----------------------------------------------------------------------------
(* Undoing a revision: after a failed step, or on startup.                 *)

RestoreFile(w, f) ==
  /\ pc[w] = "restore"
  /\ cur[w] \in snapped
  /\ f \in todo[w]
  /\ disk' = [disk EXCEPT ![f] = rec[cur[w]].before[f]]
  /\ todo' = [todo EXCEPT ![w] = @ \ {f}]
  /\ UNCHANGED <<plans, store, lock, pc, cur, scan, budget, edited>>

\* Steps whose failure nothing undoes: what is on disk stays, the marker too.
Unguarded == {"snapshot", "record", "mark", "unmark", "revert", "restore", "settle"}

\* 500 INTERNAL, or a logged error of the recovery.
Throws(w) ==
  /\ \/ pc[w] = "restore" /\ cur[w] \notin snapped /\ UNCHANGED budget
     \/ /\ pc[w] \in Unguarded /\ budget.fault > 0
        /\ budget' = [budget EXCEPT !.fault = @ - 1]
  /\ Leave(w)
  /\ UNCHANGED <<disk, plans, store, cur, todo, scan, edited>>

\* Bug: the status is recorded before the last file is restored.
MarkRolledBackEarly(w) ==
  /\ pc[w] = "restore"
  /\ cur[w] \in snapped
  /\ SetStatus(cur[w], "rolled_back")
  /\ Go(w, "settle")
  /\ UNCHANGED <<disk, plans, last, rec, snapped, marked, lock, cur, todo, scan,
                 budget, edited>>

MarkRolledBack(w) ==
  /\ pc[w] = "restore"
  /\ cur[w] \in snapped
  /\ todo[w] = {}
  /\ SetStatus(cur[w], "rolled_back")
  /\ Go(w, "settle")
  /\ UNCHANGED <<disk, plans, last, rec, snapped, marked, lock, cur, todo, scan,
                 budget, edited>>

Settle(w) ==
  /\ pc[w] = "settle"
  /\ ClearMarker(w, Leave(w))

-----------------------------------------------------------------------------
(* Process life cycle.                                                     *)

\* The lock of a dead process is taken over as stale.
Die(w) ==
  /\ pc[w] # "down"
  /\ Go(w, "down")
  /\ lock' = IF lock = w THEN NoWorker ELSE lock
  /\ UNCHANGED <<disk, plans, last, rec, snapped, status, marked, cur, todo, scan,
                 edited>>

Crash(w) ==
  /\ budget.crash > 0
  /\ budget' = [budget EXCEPT !.crash = @ - 1]
  /\ Die(w)
  /\ UNCHANGED torn

Appending(w) ==
  \/ pc[w] \in {"record", "revert"}
  \/ pc[w] = "restore" /\ cur[w] \in snapped /\ todo[w] = {}

CrashInAppend(w) ==
  /\ Appending(w)
  /\ budget.tear > 0
  /\ budget' = [budget EXCEPT !.tear = @ - 1]
  /\ Die(w)
  /\ torn' = TRUE

\* Bug: a starting process does not look for interrupted revisions.
BootBlind(w) ==
  /\ pc[w] = "down"
  /\ scan' = [scan EXCEPT ![w] = {}]
  /\ Go(w, "scan")
  /\ UNCHANGED <<disk, plans, store, lock, cur, todo, budget, edited>>

Boot(w) ==
  /\ pc[w] = "down"
  /\ scan' = [scan EXCEPT ![w] = Listed]
  /\ Go(w, "scan")
  /\ UNCHANGED <<disk, plans, store, lock, cur, todo, budget, edited>>

\* recoverInterrupted looks at the listed revisions, newest first.
Recover(w, r) ==
  /\ pc[w] = "scan"
  /\ r \in scan[w]
  /\ \A q \in scan[w] : q <= r
  /\ scan' = [scan EXCEPT ![w] = @ \ {r}]
  /\ IF r \in marked
     THEN /\ cur'  = [cur EXCEPT ![w] = r]
          /\ todo' = [todo EXCEPT ![w] = Touched(r)]
          /\ Go(w, "restore")
     ELSE UNCHANGED <<pc, cur, todo>>
  /\ UNCHANGED <<disk, plans, store, lock, budget, edited>>

\* Bug: requests are served while the scan goes on.
ReadyEarly(w) ==
  /\ pc[w] = "scan"
  /\ Go(w, "ready")
  /\ UNCHANGED <<disk, plans, store, lock, cur, todo, scan, budget, edited>>

Ready(w) ==
  /\ pc[w] = "scan"
  /\ scan[w] = {}
  /\ Go(w, "ready")
  /\ UNCHANGED <<disk, plans, store, lock, cur, todo, scan, budget, edited>>

\* Retention: snapshots older than the limit go, on startup and every hour.
Prune(w, r) ==
  /\ pc[w] = "ready" \/ lock = w
  /\ r \in snapped \cap Listed
  /\ \A v \in Worker : pc[v] \notin {"down", "scan", "ready"} => cur[v] # r
  /\ snapped' = snapped \ {r}
  /\ UNCHANGED <<disk, plans, last, rec, status, torn, marked, lock, local,
                 budget, edited>>

\* A deployment, a developer or the site itself changes a file.
Edit(f, c) ==
  /\ budget.edit > 0
  /\ disk[f] # c
  /\ budget' = [budget EXCEPT !.edit = @ - 1]
  /\ disk' = [disk EXCEPT ![f] = c]
  /\ edited' = edited \cup {f}
  /\ UNCHANGED <<plans, store, lock, local>>

-----------------------------------------------------------------------------
Init ==
  /\ disk \in Tree
  /\ plans = {}
  /\ last = 0
  /\ rec = [r \in Rev |-> [before |-> disk, after |-> disk, parent |-> 0,
                           reverts |-> 0]]
  /\ snapped = {}
  /\ status = [r \in Rev |-> "unlisted"]
  /\ torn = FALSE
  /\ marked = {}
  /\ lock = NoWorker
  /\ pc = [w \in Worker |-> "ready"]
  /\ cur = [w \in Worker |-> 0]
  /\ todo = [w \in Worker |-> {}]
  /\ scan = [w \in Worker |-> {}]
  /\ budget = [crash |-> MaxCrash, tear |-> MaxTear, fault |-> MaxFault,
               edit |-> MaxEdit]
  /\ edited = {}

Execute(w) ==
  \/ Recheck(w) \/ WriteSnapshot(w) \/ WriteRecord(w) \/ WriteMarker(w)
  \/ \E f \in File : WriteFile(w, f)
  \/ WriteFails(w) \/ Verify(w) \/ Check(w) \/ Finish(w) \/ MarkReverted(w)
  \/ Answer(w)

Undo(w) ==
  \/ \E f \in File : RestoreFile(w, f)
  \/ Throws(w) \/ MarkRolledBack(w) \/ Settle(w)

Restart(w) == Boot(w) \/ (\E r \in Rev : Recover(w, r)) \/ Ready(w)

Request(w) ==
  \/ \E p \in plans : Apply(w, p) \/ RefuseApply(w, p)
  \/ \E r \in Rev, force \in BOOLEAN : Rollback(w, r, force)

Environment ==
  \/ \E t \in Tree : MakePlan(t)
  \/ \E p \in plans : DropPlan(p)
  \/ \E f \in File, c \in Content : Edit(f, c)
  \/ \E w \in Worker : Crash(w) \/ CrashInAppend(w)
  \/ \E w \in Worker, r \in Rev : Prune(w, r)

Next ==
  \/ \E w \in Worker : Request(w) \/ Execute(w) \/ Undo(w) \/ Restart(w)
  \/ Environment

Spec == Init /\ [][Next]_vars

\* A live process goes on with what it started, and a dead one is restarted.
FairSpec == Spec /\ \A w \in Worker : WF_vars(Execute(w) \/ Undo(w) \/ Restart(w))

-----------------------------------------------------------------------------
(* Properties.                                                             *)

\* Files nobody else edited are as tree t has them, where r changes them.
Holds(r, t) == \A f \in Touched(r) \ edited : disk[f] = t[f]

NewestListed(r) == r \in Listed /\ \A q \in Listed : q <= r

\* No process is working on revision r.
AtRest(r) == \A w \in Worker : pc[w] \in {"down", "scan", "ready"} \/ cur[w] # r

\* Crash atomicity: once nobody works on the newest revision and its marker is
\* gone, the site holds all of it or none of it, whatever crashed or was undone
\* on the way.  (A restore that fails and is followed by another request breaks
\* this: Serial, below.)
AllOrNothing ==
  \A r \in Rev : NewestListed(r) /\ r \notin marked /\ AtRest(r) =>
    Holds(r, rec[r].before) \/ Holds(r, rec[r].after)

\* A revision recorded as rolled_back has left nothing behind on the site.
RolledBackIsUndone ==
  \A r \in Rev :
    NewestListed(r) /\ r \notin marked /\ AtRest(r) /\ status[r] = "rolled_back" =>
      Holds(r, rec[r].before)

\* When a request is answered "applied", the revision is recorded as applied,
\* no restart will undo it, and its content is on the site.
AnswerIsTrue ==
  \A w \in Worker : pc[w] = "answer" =>
    /\ status[cur[w]] = "applied"
    /\ cur[w] \notin marked
    /\ Holds(cur[w], rec[cur[w]].after)

\* Revisions form one line: the parent of each is the newest one before it
\* that was not rolled back, also after crashes and recoveries.
LinearHistory ==
  \A r \in Listed :
    rec[r].parent = Newest({q \in Listed : q < r /\ status[q] # "rolled_back"})

\* A revision says "reverted" only when a rollback of it was completed.
RevertedHasRollback ==
  \A r \in Listed : status[r] = "reverted" =>
    \E q \in Listed : rec[q].reverts = r /\ status[q] # "rolled_back"

\* Write-ahead: the engine never changes a file unless the content it had
\* before and a marker are on disk, for a revision that is listed, so that the
\* next start will look for the marker.  Only a torn line can leave it unlisted.
WriteAhead ==
  [][\A f \in File : disk'[f] # disk[f] /\ f \notin edited' =>
       \E r \in marked \cap snapped :
         f \in Touched(r) /\ (budget.tear = MaxTear => r \in Listed)]_vars

\* An interrupted revision is eventually undone or finished.
InterruptedIsSettled == \A r \in Rev : r \in marked ~> r \notin marked

-----------------------------------------------------------------------------
(* What clients see: the site without the unfinished work of a marked      *)
(* revision, and the tree that work leads to.                              *)

View(files, recs, marks) ==
  [f \in File |->
    LET R == {r \in marks : recs[r].before[f] # recs[r].after[f]}
    IN  IF R = {} THEN files[f] ELSE recs[Newest(R)].before[f]]

settled == View(disk, rec, marked)

Atomic == INSTANCE AtomicSite
            WITH site <- settled, pending <- {rec[r].after : r \in marked}

\* Without edits by others, the engine implements a site whose trees change
\* in one step, whatever crashes in between.
ImplementsAtomicSite == Atomic!Spec

-----------------------------------------------------------------------------
(* The inductive invariant behind the safety properties above, for a whole *)
(* index and for processes that work one at a time.                        *)

Idle      == {"down", "ready"}
Resting   == {"down", "scan", "ready"}
Preparing == {"recheck", "snapshot", "record"}
Writing   == {"write", "check", "unmark"}
Undoing   == {"restore", "settle"}
Applying  == Writing \cup {"mark", "revert", "answer"}

\* One process at a time executes or recovers, no request begins while an
\* interrupted revision is left, and retention keeps its snapshot.
Serial ==
  /\ \A v, w \in Worker : v # w => pc[v] \in Idle \/ pc[w] \in Idle
  /\ \A w \in Worker : pc[w] \in Preparing => marked = {}
  /\ marked \subseteq snapped

\* Ids are handed out in order; a rollback reverts an earlier revision.
IdsInv ==
  /\ \A r \in Listed \cup snapped \cup marked : r <= last
  /\ \A r \in Rev : r <= last => rec[r].reverts < r

\* The lock is held from the first step of a request to its answer.
LockInv ==
  \A w \in Worker :
    /\ lock = w => pc[w] \notin Resting
    /\ pc[w] \in Preparing \cup Applying => lock = w

\* A process that works, works on a revision.
CurTyped == \A w \in Worker : pc[w] \notin Resting => cur[w] \in Rev

\* That revision is the newest, listed once it is recorded.
CurInv ==
  \A w \in Worker :
    /\ pc[w] \in Preparing => cur[w] = last /\ cur[w] \notin Listed
    /\ pc[w] \in Applying \cup Undoing => NewestListed(cur[w])
    /\ pc[w] \in Applying => status[cur[w]] = "applied"
    /\ pc[w] = "revert" => rec[cur[w]].reverts # 0

\* At most one revision is marked, the newest.
MarkInv ==
  /\ \A r \in marked : NewestListed(r)
  /\ \A w \in Worker :
       /\ pc[w] \in Writing \cup Undoing => marked = {cur[w]}
       /\ pc[w] \in {"mark", "revert", "answer"} => marked = {}
       /\ pc[w] \in {"record", "mark"} => cur[w] \in snapped

\* Unless a step threw, a marker is left only while some process works or
\* has yet to recover, and who recovers will come to it.
LeftInv ==
  budget.fault = MaxFault /\ marked # {} =>
    /\ \E w \in Worker : pc[w] # "ready"
    /\ \A w \in Worker : pc[w] = "scan" => marked \subseteq scan[w]

\* What each step may assume of the files.
DiskInv ==
  \A w \in Worker :
    LET r == cur[w] IN
    /\ pc[w] \in {"write", "restore"} => todo[w] \subseteq Touched(r)
    /\ pc[w] \in {"snapshot", "record", "mark", "settle"} => Holds(r, rec[r].before)
    /\ pc[w] \in {"check", "unmark", "revert", "answer"} => Holds(r, rec[r].after)
    /\ pc[w] = "restore" => \A f \in Touched(r) \ (todo[w] \cup edited) :
                              disk[f] = rec[r].before[f]

\* Without edits by others, the files a revision does not touch stay as it
\* found them for as long as it is worked on or marked.
FrameInv ==
  \A r \in Rev :
    r \in marked \/ (\E w \in Worker : cur[w] = r /\ pc[w] \notin Resting) =>
      \A f \in File \ Touched(r) : disk[f] = rec[r].before[f]

IInv ==
  /\ TypeOK
  /\ CurTyped
  /\ torn = FALSE
  /\ Serial
  /\ IdsInv
  /\ LockInv
  /\ CurInv
  /\ MarkInv
  /\ LeftInv
  /\ DiskInv
  /\ AllOrNothing
  /\ RolledBackIsUndone
=============================================================================
