------------------------------- MODULE Deployment -------------------------------
(***************************************************************************)
(* Compose-recreate deployments: the bridge builds and restarts a site's   *)
(* services one by one under the deploy lock, checks them and rolls back   *)
(* to the recorded images; the control plane follows the bridge's job and  *)
(* keeps a record of its own.  An image is named by the deployment that    *)
(* built it; Base is what ran before.                                      *)
(***************************************************************************)
EXTENDS Naturals, FiniteSets

CONSTANTS
  Service,    \* services of the deployment profile
  First,      \* the first of them
  MaxDep,     \* bound: deployments and rollbacks started
  MaxFail,    \* bound: docker commands, checks and requests that fail
  MaxCrash    \* bound: restarts of the bridge or of the control plane

ASSUME DeploymentAssumption ==
  /\ IsFiniteSet(Service) /\ First \in Service
  /\ MaxDep \in Nat /\ MaxFail \in Nat /\ MaxCrash \in Nat

Dep    == 1..MaxDep
Base   == 0                 \* the image before the first deployment
Absent == MaxDep + 1        \* no container, no image
Image  == 0..MaxDep + 1
Images == [Service -> Image]

VARIABLES
  running, tag,  \* per service: image of its container; image its ref names
  last,     \* deployments started so far are 1..last
  rec,      \* rec[d]: the bridge's record file of d
  job,      \* job[d]: what the bridge's job registry answers
  run,      \* the deployment under way: which, how far, what is left of it
  cp,       \* cp[d]: status in the control plane's record of d
  follow,   \* follow[d]: how far the control plane's follower of d is
  seen,     \* seen[d]: the job status the follower ended its wait with
  fails, crashes,  \* so far
  cut,      \* history: deployments that a restart of the bridge, or a failed
            \* write of their failure, has cut off
  unsaved,  \* history: deployments whose success could not be written
  unread    \* history: deployments whose record the follower could not get

site  == <<running, tag>>
plane == <<cp, follow, seen>>
past  == <<cut, unsaved, unread>>
vars  == <<site, last, rec, job, run, plane, fails, crashes, past>>

RecStatus == {"none", "running", "succeeded", "failed", "rolled_back"}
JobStatus == {"none", "running", "succeeded", "failed", "gone"}
Phase     == {"idle", "images", "retag", "up", "check", "undo", "undone", "save"}

\* prev: the images recorded before the change; goal: those a rollback
\* returns to.  Absent: no image is recorded, none can be given.
Record == [status : RecStatus, rollback : BOOLEAN, prev : Images, goal : Images]
NoRun  == [dep |-> 0, phase |-> "idle", todo |-> {}, end |-> "none"]

TypeOK ==
  /\ running \in Images /\ tag \in Images
  /\ last \in 0..MaxDep
  /\ rec \in [Dep -> Record]
  /\ job \in [Dep -> JobStatus]
  /\ run \in [dep : 0..MaxDep, phase : Phase, todo : SUBSET Service, end : RecStatus]
  /\ cp \in [Dep -> RecStatus \cup {"unknown"}]
  /\ follow \in [Dep -> {"no", "wait", "fetch", "done"}]
  /\ seen \in [Dep -> JobStatus]
  /\ fails \in 0..MaxFail /\ crashes \in 0..MaxCrash
  /\ cut \subseteq Dep /\ unsaved \subseteq Dep /\ unread \subseteq Dep

Me      == run.dep
Fail    == fails < MaxFail /\ fails' = fails + 1
Phases(p, todo) == run' = [run EXCEPT !.phase = p, !.todo = todo]

-----------------------------------------------------------------------------
(* The bridge.                                                             *)

\* withLock("deploy"), begin and jobs.create.  The request answers with the
\* ids, and the control plane files its own record unless the answer is lost.
Start(rollback, goal) ==
  LET d == last + 1 IN
  /\ run.phase = "idle"
  /\ last < MaxDep
  /\ last' = d
  /\ rec' = [rec EXCEPT ![d] = [status |-> "running", rollback |-> rollback,
                                prev |-> [s \in Service |-> Absent], goal |-> goal]]
  /\ job' = [job EXCEPT ![d] = "running"]
  /\ run' = [dep |-> d, phase |-> "images", todo |-> Service, end |-> "none"]
  /\ \/ /\ cp' = [cp EXCEPT ![d] = "running"]
        /\ follow' = [follow EXCEPT ![d] = "wait"]
        /\ UNCHANGED fails
     \/ Fail /\ UNCHANGED <<cp, follow>>
  /\ UNCHANGED <<site, seen, crashes, past>>

Deploy == Start(FALSE, [s \in Service |-> Absent])

\* POST /deployments/{id}/rollback: of a deployment that is over and whose
\* images were all recorded.
Rollback(d) ==
  /\ rec[d].status \notin {"none", "running"}
  /\ \A s \in Service : rec[d].prev[s] # Absent
  /\ Start(TRUE, rec[d].prev)

\* record-images; a rollback records the first service's only.  A service
\* without a container, or that ps or inspect cannot tell of, has no image to
\* record, and no reference a rollback could give its image to.
RecordImages ==
  /\ run.phase = "images"
  /\ \E missed \in SUBSET Service :
       LET known(s) == s \notin missed /\ running[s] # Absent IN
       /\ IF missed = {} THEN UNCHANGED fails ELSE Fail
       /\ rec' = [rec EXCEPT
            ![Me].prev = [s \in Service |-> IF known(s) /\ (s = First \/ ~rec[Me].rollback)
                                             THEN running[s] ELSE Absent],
            ![Me].goal = [s \in Service |-> IF known(s) THEN @[s] ELSE Absent]]
  /\ Phases("retag", Service)
  /\ UNCHANGED <<site, last, job, plane, crashes, past>>

\* The image a service gets: built now, or the one to return to.
Target(s) == IF rec[Me].rollback THEN rec[Me].goal[s] ELSE Me

\* build:s, or retag:s for a rollback.
Retag(s) ==
  /\ run.phase = "retag" /\ s \in run.todo /\ Target(s) # Absent
  /\ tag' = [tag EXCEPT ![s] = Target(s)]
  /\ run' = [run EXCEPT !.phase = "up", !.todo = @ \ {s}]
  /\ UNCHANGED <<running, last, rec, job, plane, fails, crashes, past>>

\* Bug: the job is announced before the services are checked.
UpEarly ==
  /\ run.phase = "up"
  /\ running' = [s \in Service |-> IF s \in run.todo THEN running[s] ELSE tag[s]]
  /\ Phases(IF run.todo = {} THEN "check" ELSE "retag", run.todo)
  /\ job' = IF run.todo = {} THEN [job EXCEPT ![Me] = "succeeded"] ELSE job
  /\ UNCHANGED <<tag, last, rec, plane, fails, crashes, past>>

\* up:s: compose recreates what does not run the image its ref names.
Up ==
  /\ run.phase = "up"
  /\ running' = [s \in Service |-> IF s \in run.todo THEN running[s] ELSE tag[s]]
  /\ Phases(IF run.todo = {} THEN "check" ELSE "retag", run.todo)
  /\ UNCHANGED <<tag, last, rec, job, plane, fails, crashes, past>>

\* health:s of every service, then smoke: the job ends before the record.
Pass ==
  /\ run.phase = "check"
  /\ job' = [job EXCEPT ![Me] = "succeeded"]
  /\ run' = [run EXCEPT !.phase = "save", !.end = "succeeded"]
  /\ UNCHANGED <<site, last, rec, plane, fails, crashes, past>>

\* Bug: a failure is not saved.
EndJobOnly(status) ==
  /\ job' = [job EXCEPT ![Me] = "failed"]
  /\ run' = NoRun

\* Bug: a failure is not told to the job registry.
EndRecordOnly(status) ==
  /\ UNCHANGED job
  /\ run' = [run EXCEPT !.phase = "save", !.end = status]

\* fail(): the job ends before the record, here too.
EndJob(status) ==
  /\ job' = [job EXCEPT ![Me] = "failed"]
  /\ run' = [run EXCEPT !.phase = "save", !.end = status]

Recorded == {s \in Service : rec[Me].prev[s] # Absent}

\* A step fails.  A deployment with recorded images goes on to undo them; a
\* failed up may have recreated the container.
StepFails ==
  /\ run.phase \in {"images", "retag", "up", "check"}
  /\ Fail
  /\ running' \in {running, [s \in Service |->
                     IF run.phase = "up" /\ s \notin run.todo THEN tag[s]
                                                             ELSE running[s]]}
  /\ IF rec[Me].rollback \/ Recorded = {}
       THEN EndJob("failed")
       ELSE Phases("undo", Recorded) /\ UNCHANGED job
  /\ UNCHANGED <<tag, last, rec, plane, crashes, past>>

\* A rollback ends at the first service it has no image for.
NoTarget(s) ==
  /\ run.phase = "retag" /\ s \in run.todo /\ Target(s) = Absent
  /\ EndJob("failed")
  /\ UNCHANGED <<site, last, rec, plane, fails, crashes, past>>

\* Each step of the rollback saves the record as it is in memory: one whose
\* success could not be saved still says so.
Remembered == IF run.end = "succeeded" THEN [rec EXCEPT ![Me].status = "succeeded"] ELSE rec

\* Bug: the container is recreated without giving its ref back its image.
UndoNoRetag(s) ==
  /\ run.phase = "undo" /\ s \in run.todo
  /\ running' = [running EXCEPT ![s] = tag[s]]
  /\ run' = [run EXCEPT !.todo = @ \ {s}]
  /\ rec' = Remembered
  /\ UNCHANGED <<tag, last, job, plane, fails, crashes, past>>

\* auto-rollback:retag:s and auto-rollback:up:s.
Undo(s) ==
  /\ run.phase = "undo" /\ s \in run.todo
  /\ tag' = [tag EXCEPT ![s] = rec[Me].prev[s]]
  /\ running' = [running EXCEPT ![s] = rec[Me].prev[s]]
  /\ run' = [run EXCEPT !.todo = @ \ {s}]
  /\ rec' = Remembered
  /\ UNCHANGED <<last, job, plane, fails, crashes, past>>

\* One of them, or saving the record after it, fails.
UndoFails(s) ==
  /\ run.phase = "undo" /\ s \in run.todo
  /\ Fail
  /\ tag' \in {tag, [tag EXCEPT ![s] = rec[Me].prev[s]]}
  /\ running' \in {running, [running EXCEPT ![s] = tag'[s]]}
  /\ rec' \in {rec, Remembered}
  /\ EndJob("failed")
  /\ UNCHANGED <<last, plane, crashes, past>>

\* Whether the services are healthy again is recorded and changes nothing.
Undone ==
  /\ run.phase = "undo" /\ run.todo = {}
  /\ EndJob("rolled_back")
  /\ UNCHANGED <<site, last, rec, plane, fails, crashes, past>>

\* save(d), and the lock is released.
SaveRecord ==
  /\ run.phase = "save"
  /\ rec' = [rec EXCEPT ![Me].status = run.end]
  /\ run' = NoRun
  /\ UNCHANGED <<site, last, job, plane, fails, crashes, past>>

\* The record cannot be written.  A success counts as a failed step, though
\* the job has been announced as succeeded; a failure is only logged.
SaveFails ==
  /\ run.phase = "save"
  /\ Fail
  /\ \/ /\ run.end # "succeeded"
        /\ run' = NoRun /\ cut' = cut \cup {Me}
        /\ UNCHANGED <<job, unsaved>>
     \/ /\ run.end = "succeeded"
        /\ unsaved' = unsaved \cup {Me}
        /\ IF rec[Me].rollback \/ Recorded = {}
             THEN EndJob("failed")
             ELSE Phases("undo", Recorded) /\ UNCHANGED job
        /\ UNCHANGED cut
  /\ UNCHANGED <<site, last, rec, plane, crashes, unread>>

\* The bridge is restarted: the deployment is cut off and its record stays
\* as it is; an ended job may not have been persisted yet.
BridgeRestart ==
  /\ crashes < MaxCrash
  /\ crashes' = crashes + 1
  /\ job' \in {[d \in Dep |-> IF job[d] = "running" THEN "gone" ELSE job[d]],
               [d \in Dep |-> IF job[d] = "running" \/ (d = Me /\ job[d] # "none")
                                THEN "gone" ELSE job[d]]}
  /\ cut' = IF Me # 0 THEN cut \cup {Me} ELSE cut
  /\ run' = NoRun
  /\ UNCHANGED <<site, last, rec, plane, fails, unsaved, unread>>

-----------------------------------------------------------------------------
(* The control plane's follower.                                           *)

Report(d, status) ==
  /\ cp' = [cp EXCEPT ![d] = status]
  /\ follow' = [follow EXCEPT ![d] = "done"]

\* wait_job sees a job that has ended.
JobEnded(d) ==
  /\ follow[d] = "wait" /\ job[d] \in {"succeeded", "failed"}
  /\ follow' = [follow EXCEPT ![d] = "fetch"]
  /\ seen' = [seen EXCEPT ![d] = job[d]]
  /\ UNCHANGED <<site, last, rec, job, run, cp, fails, crashes, past>>

\* The job is not known any more.
JobGone(d) ==
  /\ follow[d] = "wait" /\ job[d] = "gone"
  /\ Report(d, "unknown")
  /\ UNCHANGED <<site, last, rec, job, run, seen, fails, crashes, past>>

\* The bridge does not answer, or the wait times out.
ContactLost(d) ==
  /\ follow[d] = "wait"
  /\ Fail
  /\ Report(d, "unknown")
  /\ UNCHANGED <<site, last, rec, job, run, seen, crashes, past>>

\* The final status comes from the bridge's record.
Fetch(d) ==
  /\ follow[d] = "fetch"
  /\ Report(d, rec[d].status)
  /\ UNCHANGED <<site, last, rec, job, run, seen, fails, crashes, past>>

\* The record cannot be had: the job tells the status.
FetchFails(d) ==
  /\ follow[d] = "fetch"
  /\ Fail
  /\ Report(d, seen[d])
  /\ unread' = unread \cup {d}
  /\ UNCHANGED <<site, last, rec, job, run, seen, crashes, cut, unsaved>>

\* An error it does not catch: its entry stays as it is.
FollowerDies(d) ==
  /\ follow[d] \in {"wait", "fetch"}
  /\ Fail
  /\ follow' = [follow EXCEPT ![d] = "done"]
  /\ UNCHANGED <<site, last, rec, job, run, cp, seen, crashes, past>>

\* The control plane is restarted: nobody follows any more.
PlaneRestart ==
  /\ crashes < MaxCrash
  /\ crashes' = crashes + 1
  /\ follow' = [d \in Dep |-> IF follow[d] = "no" THEN "no" ELSE "done"]
  /\ UNCHANGED <<site, last, rec, job, run, cp, seen, fails, past>>

-----------------------------------------------------------------------------
Init ==
  /\ running \in [Service -> {Base, Absent}] /\ tag = running
  /\ last = 0
  /\ rec = [d \in Dep |-> [status |-> "none", rollback |-> FALSE,
                           prev |-> [s \in Service |-> Absent],
                           goal |-> [s \in Service |-> Absent]]]
  /\ job = [d \in Dep |-> "none"] /\ run = NoRun
  /\ cp = [d \in Dep |-> "none"] /\ follow = [d \in Dep |-> "no"]
  /\ seen = [d \in Dep |-> "none"]
  /\ fails = 0 /\ crashes = 0 /\ cut = {} /\ unsaved = {} /\ unread = {}

Step ==
  \/ RecordImages \/ Up \/ Pass \/ Undone \/ SaveRecord
  \/ \E s \in Service : Retag(s) \/ NoTarget(s) \/ Undo(s)
Watch(d) == JobEnded(d) \/ JobGone(d) \/ Fetch(d)
Next ==
  \/ Deploy \/ (\E d \in Dep : Rollback(d))
  \/ Step \/ StepFails \/ SaveFails \/ (\E s \in Service : UndoFails(s))
  \/ \E d \in Dep : Watch(d) \/ ContactLost(d) \/ FetchFails(d) \/ FollowerDies(d)
  \/ BridgeRestart \/ PlaneRestart

Spec     == Init /\ [][Next]_vars
\* Docker commands end and the follower polls.
FairSpec == Spec /\ WF_vars(Step) /\ \A d \in Dep : WF_vars(Watch(d))

-----------------------------------------------------------------------------
(* What deployments promise.                                               *)

Newest == last > 0 /\ run.phase = "idle"

\* When nothing is under way, the record of the newest deployment tells what
\* runs: its own images, those it was to return to, or, of the services that
\* had one recorded, those recorded before it; and a container that is
\* recreated gets the same image again.  One case is left out: a success that
\* could not be saved is rolled back with a record that says succeeded at every
\* step, and a restart, or a failing last write, leaves it like that.
RecordTellsWhatRuns ==
  Newest /\ last \notin cut \cap unsaved =>
    LET r == rec[last] IN
    /\ r.status = "succeeded" =>
         \A s \in Service : running[s] = IF r.rollback THEN r.goal[s] ELSE last
    /\ r.status = "rolled_back" =>
         \A s \in Service : r.prev[s] # Absent => running[s] = r.prev[s]
    /\ r.status \in {"succeeded", "rolled_back"} =>
         \A s \in Service : r.prev[s] # Absent => tag[s] = running[s]

\* How a deployment ended, in the control plane's history, is how the bridge
\* recorded it, however early the follower asked and whatever was restarted or
\* lost: only a follower that could not get the record goes by the job, and
\* shows a success that is yet to be saved, or was cut off before it was.
\* Nothing is said of a success the bridge could not save, which the history
\* keeps though the bridge then rolls it back.
HistoryIsTrue ==
  \A d \in Dep \ unsaved :
    /\ cp[d] = "succeeded" =>
         \/ rec[d].status = "succeeded"
         \/ d \in unread /\ (d \in cut \/ (d = run.dep /\ run.end = "succeeded"))
    /\ cp[d] = "failed" => rec[d].status # "succeeded"
    /\ cp[d] = "rolled_back" => rec[d].status = "rolled_back"

\* A record says "running" of a deployment nobody is running only after a
\* restart of the bridge or a failed write of its failure: no failing step, and
\* no success that could not be saved, leaves one behind.
RunningIsRun ==
  \A d \in Dep : rec[d].status = "running" => d = run.dep \/ d \in cut

\* The control plane's comment, the status changes once, from the final record,
\* does not hold: the job ends before the record is saved, and a follower that
\* reads the record in between leaves its own at "running" for good.
StatusIsFinal ==
  fails + crashes = 0 => \A d \in Dep : follow[d] = "done" => cp[d] # "running"

\* The follower comes to an end, and the progress stream with it.
FollowerEnds == \A d \in Dep : follow[d] = "wait" ~> follow[d] = "done"
=============================================================================
