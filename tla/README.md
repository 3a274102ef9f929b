# A verification project for Site Autopilot

Site Autopilot manages Next.js sites.  A *control plane* (Python, `src/backend`)
keeps change sets in MongoDB and takes each from a plan to an approved, applied
and possibly rolled-back change.  An *automation bridge* (TypeScript,
`src/automation-bridge`) runs beside each site and is the only thing that writes
to it: every change is a revision with a snapshot, a marker and a verification.
A signed HTTP protocol (`src/protocol`) connects the two.

This directory holds TLA+ models of the state machines that carry that promise,
the TLC configurations that check them on small instances, and TLAPS proofs.
Paths are relative to the repository root; `core/` stands for
`src/automation-bridge/src/core/`.

## 1. The system and its parts

| Part | State it keeps | Operations | Interacts with | Right when |
|---|---|---|---|---|
| Bridge engine and revision store (`core/engine.ts`, `revisions.ts`, `fsutil.ts`) | site files; `records/`, `snapshots/`, `index.jsonl`, `IN_PROGRESS` markers | plan, apply, rollback, recover at start, retention | takes the site lock; answers through the idempotency store | a change is all or nothing whatever crashes; answers are true; history is one line |
| Site lock (`core/lock.ts`) | one mutex per process, one lock file | acquire, heartbeat, take over, release | every mutation | one holder per process; a file is lost only to a race or a suspension; nobody waits for a dead one |
| Idempotency store (`core/idempotency.ts`) | answers by key, in-flight table | run, replay, prune | every mutating request; the client's retries | an answer belongs to its request; what was answered does not run again; secrets are not on disk |
| Request handler (`core/bridge.ts`, `routes.ts`) | none | dispatch, scopes, errors | authentication, idempotency, engine | final answers are stored, passing ones are not |
| Deployments (`core/docker.ts`, `routers/operations.py`) | deployment records, running containers | deploy, automatic and manual rollback, follow | "deploy" lock, job registry | a record says what runs; the control plane's history is true |
| Jobs, validation (`core/jobs.ts`, `validation.ts`) | live jobs and their events; a semaphore | create, update, stream, run | validations, previews, deployments | jobs end; at most `max_concurrent` run |
| Backups (`core/backups.ts`) | archives | create, restore | the site lock; the engine's executor | a restore is a revision |
| Keys, nonces, limits (`core/auth/`) | key file, nonces, hit windows | verify, rotate, revoke | every request | revoked keys stay revoked, nonces are used once |
| Change-set pipeline (`src/backend/core/changesets.py`) | `db.changesets`, `db.revisions` | create, update, re-plan, validate, submit, review, apply, roll back, cancel | the bridge client; background tasks | only approved diffs reach a site, one task applies, the document is true |
| Bridge client (`src/backend/providers/bridge_client.py`) | none | signed request, retries, wait for a job | the bridge | a retry never changes twice |
| Sites and policies (`routers/sites.py`) | `db.sites`, `db.site_policies` | connect, shake hands, update, verify writes, switch writes, rotate, replace and revoke the key | the bridge's keys; the pipeline | writes are on only for a bridge that was probed; a revoked site stays off; a key that works goes on working |
| Media plans (`routers/media_plan.py`, `core/scheduler.py`) | tasks in the database, jobs of the scheduler | activate, execute, pause, resume, set a status | the scheduler; outside services | a paused task is not started, nor one that waits for a person; a scheduled one is |
| Task queues (`core/tasks.py`), other scheduled jobs, autopilot | queues, `db.task_runs` | push, finish, stream | the browser; `create_changeset` | display only |
| SEO, content, ads routers; frontend; migration tools | their own collections | reports, proposals | outside services | out of scope here |

What makes the system hard: the engine changes many files, one at a time, and may
stop between any two steps, also while it undoes a change; several processes may
share one state directory and meet only in a lock file and in records on disk; a
request of the control plane is a coroutine that reads a document, waits, and
writes a document that others have changed since; calls to the bridge are lost,
late or repeated; the control plane may restart in the middle of an apply; people
review a diff while others re-plan it; a job ends before its record is saved; a
scheduler holds in memory what the database promises.  Each hazard is listed with
its line in `PROJECT.json`.

## 2. Modules

| Module | Contents |
|---|---|
| `AtomicSite` | what the engine promises: a change set is taken up, then becomes visible in one step or not at all |
| `Exclusion` | what the site lock promises: a mutation begins when none runs, and runs alone |
| `BridgeEngine` | the engine, step by step, with its properties, the refinement mapping and the inductive invariant |
| `ChangeSet` | the control plane's pipeline for one change set, the network, and the bridge seen from outside |
| `SiteLock` | `withLock`: the mutex of each process and the lock file they share |
| `Idempotency` | `IdempotencyStore.run` at its awaits, in several processes, for one key |
| `Deployment` | a bridge's deployments, their jobs and records, and the control plane's followers |
| `Sites` | a site's document in the control plane and the keys of the bridges it may point to |
| `MediaPlan` | the tasks of a media plan, the scheduler's jobs, and the requests that move them |
| `BridgeEngine_proofs`, `BridgeEngine_safety` | types and lemmas; the inductive invariant, the theorems, the refinement |
| `ChangeSet_proofs`, `SiteLock_proofs`, `Idempotency_proofs`, `Deployment_proofs`, `Sites_proofs`, `MediaPlan_proofs` | inductive invariant and theorems of each |
| `MC...` | symmetry sets and constraints for TLC |

Definitions marked "Bug:" are variants of the operator that follows them with a
plausible mistake.  No specification uses them; they are there so that each
property can be seen to fail.

How they fit together: `BridgeEngine` takes the site lock as ideal, `SiteLock` says
what it really is, and `Exclusion` stands between the two; `ChangeSet` takes an apply on
the bridge as one step, which `BridgeEngine` establishes through `AtomicSite`,
and the bridge's answers by key as
one table, which `Idempotency` takes apart; `ChangeSet` reads the writes switch that
`Sites` sets; `Deployment` has the control plane's follower in the same module,
because what goes wrong there goes wrong between the two.

### BridgeEngine

State: `disk` (the site's files, a function from paths to contents), `rec`, `snapped`, `status`,
`torn`, `marked` (the revision store on disk; `status` is the fold of `index.jsonl`), `lock`,
and per process the step `pc`, the revision `cur` and the work left (`todo`, `scan`).  One
action per step of `executeChanges` (`engine.ts:255-348`): `Recheck`, `WriteSnapshot`,
`WriteRecord`, `WriteMarker`, `WriteFile`, `Verify`, `Check`, `Finish`, `MarkReverted`,
`Answer`; of the undo: `RestoreFile`, `MarkRolledBack`, `Settle`; of a start: `Boot`, `Recover`,
`Ready`.  `Throws` is a file operation that fails where nothing undoes the revision
(`Unguarded`: snapshot, append, marker, restore): the request ends in INTERNAL and the disk
stays as it is.  Requests are `MakePlan`, `Apply`/`RefuseApply`, `Rollback`. `Crash` and
`CrashInAppend` stop a process between any two steps or in the middle of a line; `Edit` is
anyone else who changes the site; `Prune` is retention.

Abstracted: what an operation writes (`planOne`) is an arbitrary target tree; a file write is
atomic because `atomicWrite` renames; the lock is ideal, and a dead process's lock is taken over
at once; revalidation and route checks succeed or fail at will; an append that fails leaves no
part of its line (one that a crash interrupts does).  Retention never reaches the revision at
work or the newest one: it goes by age, with a limit of days.  `settled` and `Atomic` are the
refinement mapping: a client sees the site without the unfinished work of a marked revision.

### ChangeSet

State: `cs` (the document), `req` (the coroutines under way, each with what it saw of
the document and where it waits), `site`, `writes`, `filed` (`db.revisions`), `wire`
(calls on their way), `answers` (the bridge's idempotency store).  `Start...` is
the part of a handler before its first wait, the action without `Start` the part
after it; every `_save` is `Save`: it writes if the status is one of those
expected, and ends the request with 409 if not.  A slot can hold any request, a
background task, or both in turn.  `ExecuteApply`, `ExecuteRollback`, `Refuse`,
`Replay` and `Lose` are the bridge.  `Dies` is an error a coroutine does not catch, at
any wait but those where `_apply` catches everything, and `BeginBreaks` one between the two
database calls of `start_apply`.  `hands` and `granted` only record history.

Abstracted: a site's content is one value, a diff is a pair of values, a policy is
three switches (`SelfApproval`, `AutoApply`, `MustValidate`); `EarlyAccess` says whether
somebody finds a draft by listing before its creation has ended.  A rollback's reason
is in its body and not in its key (`Reason`).  The preview, the
daily limit, audit entries and progress events are left out, as no decision reads
them.  Answers do not expire within a run.  Permissions by role are checked before
each handler and not modelled: any user may ask for anything the pipeline itself
does not forbid.

### SiteLock (`core/lock.ts`)

A request is born in a process (`home`) and runs `withLock` once; `st` is how far it
has come.  `Ask`, `Enter`, `TimeOut` and `PassOn` are the mutex (`queue` is its promise
chain: a request that timed out still passes the turn on when it gets it).  `Create`
is the exclusive open, `Write` the write of the token; between them the file is
empty.  `Stale` is the test a request makes of a file it could not create: gone, past
`staleMs`, or still empty when it is no longer new; a dead writer's pid is noticed
or not, as another process may have its number.  `JudgeStale`, `Retry` and `GiveUp`
are the outcomes and `Remove` the unlink that follows a verdict and takes whatever
file is at the path by then.  `ReadToken` and `Unlink` are the release.  `Beat` is the
heartbeat.  Ages are "fresh", "old" and "stale": time passes (`Pass`) only for a file
that nobody tends, neither a process that is awake and runs under the lock, nor the
writer in the short steps around it; that is what a heartbeat well inside `staleMs` buys.
`Suspend`, `Resume` and `Crash` are the troubles, with `FailWrite` and `FailUnlink`.

### Idempotency (`core/idempotency.ts`)

`Arrive`, `Load`, `Deliver` and the ends of the handler are the parts of `run` between its
awaits: the look at in-flight and memory, the read of the record, the registration, which looks
at nothing again (`Register`), the handler, the write.  A response is named by the request whose
handler produced it, so `file`, `memory` and `inflight` hold requests.  `EndTransient` is an
outcome that is not stored (`bridge.ts` rethrows it), `EndFinal` one that is; `SaveFails` and
`Crash` leave a change without its record.  `Expire` ages a response, `Prune` and `PruneRemove`
are the sweep, split between its read and its removal.  A record that cannot be read counts as
none (`LoadFails`), and the sweep removes it (`PruneMisreads`); `blind` remembers who misread.

### Deployment (`core/docker.ts`, `routes.ts`, `routers/operations.py`)

An image is named by the deployment that built it.  `running` and `tag` are the containers'
images and what the image names point to; `rec` is the record file, `job` the registry's answer,
`run` the deployment under way.  A service that `ps` or `inspect` cannot tell of goes
unrecorded, and a rollback ends at it (`NoTarget`).  `Deploy` and `Rollback` start one under the
deploy lock; `RecordImages`, `Retag`, `Up` and `Pass` are its steps; `StepFails` leads to the
undo (`Undo`, `UndoFails`, `Undone`) or straight to failure; `EndJob` ends the job and only then
`SaveRecord` saves the record, in that order as `docker.ts:348-349` has it.  A success that
cannot be saved is undone like a failed step, with a record that says "succeeded" at each step
of the undo (`Remembered`).  `BridgeRestart` loses the registry; a container that was being
recreated stays as it is.  `Watch`, `ContactLost`, `FetchFails`, `FollowerDies` and
`PlaneRestart` are the control plane's follower: it polls the job, then reads the record once.
`cut`, `unsaved` and `unread` record what could not be written or read.

### Sites (`routers/sites.py`, `core/auth/keystore.ts`)

`site` is the document (bridge, key, status, verification, writes switch).  Handlers
are requests that read the document, call the bridge, and store their own fields:
`Ask` and `Reading` are the first half, `Handshake`, `Update`, `Verify`, `Enable`,
`StoreRotated`, `StoreReplaced` and `StoreRevoked` the second; `Issue`, `Rotate` and
`GraceEnds` are the bridge's keys, where a rotated key keeps working for a grace
period.  `Create`, with whatever key it is given, and `Delete` are registration and
removal; `BreakOff` ends a request at any of its waits, for an error it does not catch
or a stop of the control plane.  `overtaken` records the kinds of request that stored over
a change they had not seen, `works` whether the bridge at the site's address accepted the
stored key when address or key was last stored, `lost` the keys whose rotation or
revocation on the bridge was not stored.

Assumed: the grace period outlasts the moment between a rotation and the storing of
the new key; nobody gives a key that a rotation has only just brought back (`Given`).
Revoked keys, keys about to run out and keys of another bridge may all be given.

### MediaPlan (`routers/media_plan.py`, `core/scheduler.py`)

Per task `status` (database) and `job` (scheduler); requests (`ctl`) and executions
(`exec`) run side by side.  `Activate` inserts the tasks of a plan, `ActivateJob` gives
those that are scheduled their jobs, one by one; `PauseJobs` pauses the jobs of the
tasks it has read and `PauseMark` then marks every task that is scheduled by now;
`ResumeJobs` and `ResumeMark` likewise, where a paused job that is gone is made
anew; `Put` sets a status by hand and, for "scheduled", `PutJob` adds a job.  `Fire`
starts a job that is due, `Skip` drops one while the same job still runs, `Overdue` lets
the date of a paused job go by; `Execute` is a manual start.  An execution looks for
its platform's credential (`Gate`, `Block`), marks the task (`Start`), does the `Work` and
logs it (`Log`).  `ActivateFails`, `Breaks`, `GateFails` and `LogFails` are the errors of
the database, `AddJob` may be refused and the error swallowed, and `Restart` loses every
job, as they are held in memory only.  `byHand`, `waits` (the tasks created to wait for a
person that no user has set to scheduled or paused), `raced`, `lost` and `unlogged` only
record history.

## 3. What the runs check

| Run | Instance | Shows |
|---|---|---|
| `EngineCrash` | 2 files, 2 contents, 1 process, 3 revisions, 2 crashes | all or nothing (`AllOrNothing`); rolled back is undone (`RolledBackIsUndone`); one line of history (`LinearHistory`); a reverted revision has its rollback (`RevertedHasRollback`); the engine implements `AtomicSite` (`ImplementsAtomicSite`) |
| `EngineEdits` | 2 revisions, 1 crash, 1 edit by others, fairness | the inductive invariant (`IInv`); a success answer is true (`AnswerIsTrue`); interrupted revisions are settled (`InterruptedIsSettled`) |
| `EngineFaults` | 2 revisions, 1 crash, 1 torn line, 1 failing file operation | no file changes before snapshot and marker are on disk, whatever else fails, and the revision is listed, so that a start looks for the marker, unless a line was torn (`WriteAhead`) |
| `ChangeSetPair` | any 2 coroutines, 5 requests, 1 loss, 1 restart or uncaught error | `OneApplier`; an applied change set has its revision (`AppliedHasRevision`); `RolledBackIsUndone`; nobody approves what they had a hand in, unless they signed while an edit, submission or review overlapped (`FourEyes`) |
| `ChangeSetAuto` | 2 coroutines, 4 requests, also on a draft still being created, automatic approval, 1 loss, 1 change by others | only approved diffs reach the site (`OnlyApproved`); only the applying task ends the applying (`ApplyingIsOwned`) and nothing ends a final status (`TerminalIsFinal`), but for `create`'s second write |
| `ChangeSetTurns` | 8 requests one after the other, validation required, 1 loss, 1 change by others, 1 restart or uncaught error, fairness | approvals belong to the plan (`ApprovalsAreCurrent`); only that restart or error leaves a change set in "applying" or "validating" (`ApplyingEnds`, `ValidatingEnds`) |
| `ChangeSetStaleReview` | 3 coroutines | **violated** (`OnlyApproved`): an approval of an old diff lands on a new one |
| `SiteLock` | 2 processes, 3 requests, 2 troubles, fairness | `OneAtATime` in a process; a file that outlives its request was left by a crash or a failed write or removal (`NothingLeaks`); a holder loses its file only to a suspension or a race (`TakenOnlyByRace`); `EveryoneIsAnswered` |
| `Idempotency` | 2 processes, a plain and a secret request, 3 requests, 1 crash or failed write or read, 1 expiry, fairness | answers belong to their requests (`AnswersFit`); a secret is told again only by the process that made it (`SecretsStayInMemory`); what was answered does not run again while its record can be read (`AnsweredRunsNoMore`); `JoinersAreAnswered` |
| `Deployment` | 2 services, 2 deployments, 2 failures, 1 restart of either side, fairness | the newest record tells what runs (`RecordTellsWhatRuns`); the control plane shows no end the bridge did not record (`HistoryIsTrue`); a record says "running" only of what runs or was cut off (`RunningIsRun`); `FollowerEnds` |
| `Sites` | 2 bridges, 2 requests at a time, 2 keys each, 5 requests, 1 failed call | writes are on only for a probed bridge (`WritesAreVerified`); `KeylessIsOff`; a stored key that works goes on working until a rotation or revocation of it is lost (`KeyStaysValid`); `RevokedStays` |
| `MediaPlan` | 1 task, 2 requests and 2 executions at a time, 4 requests, 1 error or restart, fairness | a paused task is not started (`StaysPaused`); nor one that waits for a person (`WaitsForPerson`); a scheduled one leaves that state (`ScheduledRuns`); one in progress comes to an end (`InProgressEnds`) |

Bounds.  Two files and two contents distinguish "before", "after" and "half".  Three
revisions allow an apply, its rollback and the rollback of that, or an interrupted
one between two others; two crashes allow a crash during the recovery from a crash.
Two coroutines are every pair of requests that can race; `ChangeSetStaleReview` needs
three, which is why `OnlyApproved` holds with two and not in general; its constraint
`Straight` leaves out changes of mind the counterexample does not need.  Five requests
carry a change set from submit to roll-back; eight, one at a time, allow a second round
through re-plan, validation, submit and review.  `MaxLoss` counts lost or repeated calls,
`MaxOther` changes of the site or of the writes switch, `MaxCrash` restarts and uncaught
errors.  `ChangeSetAuto` has one person, who may approve their own work: who acts matters only
to the guard of `review`, which is open then.  `ChangeSetPair` and `ChangeSetTurns` leave
early readers of a draft to `ChangeSetAuto`; why, section 4 says.

Three requests for the lock are two in one process and one in another, or all in one;
two troubles allow a suspension and the crash of who took over, or a failed write and a
failed removal.  Three requests under one key are a run, one that joins it and one that
replays, with a second process beside them; the first arrives at a fixed process, as
processes are interchangeable (`MCSpec`).  Two deployments are a deployment and its
rollback, or one that fails and one that follows; two failures allow a failing step and a
failing undo.  Two bridges let a site move, two keys per bridge let a key be
rotated once on each, and five requests reach a revocation, a replacement and the
switch after a verification; the proofs show that no larger instance differs for any
of the four properties.  The tasks of a media plan do not interact, so one is enough;
two executions are a job beside a manual start; of two free slots the first is taken
(`FirstFree`).

`CHECK_DEADLOCK FALSE` stands where requests are used up at the end of a run: `ChangeSet`,
`SiteLock`, `Idempotency`, `Deployment`, `Sites` and `MediaPlan`.  The constants that are
interchangeable are symmetry sets where no liveness is checked.

Fairness.  `EngineEdits`: a live process goes on with what it started, and a dead one
is started again (the containers' restart policy).  `ChangeSetTurns`: a coroutine that
can go on does (the event loop; every wait on the bridge has a timeout), and the
bridge works off its requests.  `SiteLock`: event loops turn, mutations end, a suspended
process is resumed, and a deadline passes (strong fairness of `GiveUp`: whoever finds a
live lock again and again is told LOCKED in the end).  `Idempotency`: handlers end.
`Deployment`: docker commands end, as each has a timeout; the follower polls.
`MediaPlan`: requests and executions go on, and the date of a live job comes up for
as long as it is live (strong, as a pause takes it away).  New requests, failures,
crashes, edits and restarts are never fair.

## 4. Disagreements found

One run ends in a violation and is listed under `findings` in `PROJECT.json`:
`ChangeSetStaleReview`, where check and write act on different reads.

More are within the models; each shows when the constant or the property of a run
is changed as said here:

- `EngineEdits` with two workers violates `AnswerIsTrue`: recovery at the start of one
  process takes no lock (`engine.ts:363`) and undoes what another is applying (`EngineFaults`
  with two violates `WriteAhead`: it clears the marker of the one that writes), although
  `automation-bridge/README.md:82-83` has the lock serialise processes.
- `EngineEdits` with `MaxFault = 1` violates `AllOrNothing`: after a failed restore the
  marker stays and nothing refuses the next request.
- `EngineCrash` with `MaxTear = 1` violates `ImplementsAtomicSite` and `AllOrNothing`: an event
  appended after a torn line is lost with it; if it is the created event, no start finds the
  revision's marker.
- `ChangeSetTurns` violates `ReplannedIsAccepted`: a re-planned,
  re-approved change set is refused as a reuse of its key (`changesets.py:440`, `:465`).
- `FourEyes` without its exception is violated by two slots and four requests: `submit` and
  `update_changeset` write back the authors they read (`changesets.py:244`, `:362`), so of two
  that overlap one name is lost, and a review that overlaps an edit has read the authors
  before it.  The property leaves out those who signed in such an overlap.
- `TerminalIsFinal` and `ApplyingIsOwned` without `CreateWrites` are violated by
  `ChangeSetAuto`: the second write of `create_changeset` (`:223`) expects no status, and the
  draft is listed before (`routers/changesets.py:34-62`), so it may have been cancelled, or
  edited, approved and be applying by then.  With `EarlyAccess = TRUE` two tasks may then
  apply one change set, and `OneApplier` and `AppliedHasRevision` fail.
- A change set stays in "applying" or "validating" for good after a restart, as nothing takes
  it up, and after an error nobody catches: a failing database in the second read of
  `start_apply`, in the write of the failure itself, or in the first reads of `_run_job`
  (`changesets.py:274-275`), or a reset connection, which `bridge_client.py:181-182` lets
  through.  `ApplyingEnds` and `ValidatingEnds` except just these.
- A rollback whose answer was lost and that is asked for again with another reason is
  refused as a reuse of its key, though the bridge has undone the revision: the reason is in
  the body (`bridge_client.py:259`) and not in the key, and the document says "applied".
- The docstring of the pipeline (`changesets.py:10-12`) has an apply require a passed
  validation; `start_apply` does not look for one, and only `review` does, where the policy
  asks for it.
- `SiteLock` with `MaxTrouble = 0` violates `Exclusive`, what the module's comment promises:
  of two requests that find one stale or vanished file, the second removes the file the
  first has created.  `TakenOnlyByRace` says exactly which paths there are.
- `Idempotency` violates `AtMostOnce`: two requests that look at the disk at one time, even
  in one process, both run the handler (`idempotency.ts:84`); the comment at `:60-64` says
  at most once.
- A record that cannot be read counts as none (`idempotency.ts:56`), and the handler runs
  again; prune removes a record it could not read, expired or not (`:129-131`).
  `AnsweredRunsNoMore` excepts requests to which that has happened.
- `Deployment` violates `StatusIsFinal`: the job ends (`docker.ts:348`) before the record is
  saved (`:349`), and a follower that reads in between leaves "running" in the control
  plane's history for good, although `operations.py:68` reads the record as final.
- `HistoryIsTrue` without the exception for `unsaved` is violated: the job says "succeeded",
  saving the record fails, the deployment is rolled back (`docker.ts:348-361`), and the
  history keeps the success.  A restart in the middle of that undo, or a failing last
  write, leaves a record that says so too, which `RecordTellsWhatRuns` leaves out.
- `Sites`: each `overtaken` disjunct is needed.  A handshake that was under way stores
  "connected" over a revocation; a verification under way stores "verified" on a site
  that has moved to another bridge; a rotation stores its key over a replaced one.
- `KeyStaysValid` excepts keys in `lost`: a rotation whose answer is lost, or whose new key is
  not stored (a failing database, a stop between `sites.py:257` and `:266`), leaves a key that
  runs out in five minutes; a revocation that is not stored leaves one that is refused.
- `MediaPlan`: each exception of the properties is needed.  Resuming a plan more than an
  hour after a task's date leaves the task "scheduled" for good, as the scheduler drops
  its job; setting one task to "paused" does not stop its job; a restart loses all jobs.
- `WaitsForPerson` is violated if setting a task to "paused" does not end its waiting: a user
  may set a task that requires approval to "paused" (`media_plan.py:682-704`), the next resume
  schedules it (`:727-751`), and it is started; `requires_human_approval` (`:116`) is never
  consulted.

Two more show in `EngineCrash`'s state graph without being properties there: a crash
between the record and the marker leaves a revision listed as applied that was
never written, and a crash before `setStatus` (`engine.ts:452`) leaves a rolled-back
original listed as applied.

## 5. What is proved

For every value of the constants, that is, any files, processes, requests, services,
bridges and any bounds on failures:

| Theorem | Statement | Assumes |
|---|---|---|
| `BridgeEngine_proofs!TypeCorrect` | `Spec => []TypeOK` | any number of processes, all faults |
| `WritesAhead` | `Spec /\ []Separate => WriteAhead` | all faults, torn lines too |
| `OneProcessWritesAhead` | `Spec => WriteAhead` | one process, all faults |
| `InvariantIfSerial` | `Spec /\ []Serial => []IInv` | `Whole` |
| `CrashAtomicity` | `Spec /\ []Serial => []AllOrNothing` | `Whole` |
| `UndoneIsUndone` | `Spec /\ []Serial => []RolledBackIsUndone` | `Whole` |
| `TrueAnswers` | `Spec /\ []Serial => []AnswerIsTrue` | `Whole` |
| `AlwaysLinear` | `Spec /\ []Serial => []LinearHistory` | `Whole` |
| `RevertedAlwaysHasRollback` | `Spec /\ []Serial => []RevertedHasRollback` | `Whole` |
| `Implements` | `Spec /\ []Serial => ImplementsAtomicSite` | `Whole`, no edits by others |
| `SerialIfRegular` | `Spec => []Serial` | `Whole`, `Regular` |
| `SafeIfRegular` | `Spec =>` `IInv`, the invariants above and write-ahead | `Whole`, `Regular` |
| `RegularImplements` | `Spec => ImplementsAtomicSite` | `Whole`, `Regular`, no edits by others |
| `AlwaysOneApplier` | `Spec => []OneApplier` | `Hidden` |
| `AppliedAlwaysHasRevision` | `Spec => []AppliedHasRevision` | `Hidden` |
| `RolledBackIsAlwaysUndone` | `Spec => []RolledBackIsUndone` | `Hidden` |
| `TerminalStaysFinal` | `Spec => TerminalIsFinal` | |
| `ApplyingIsAlwaysOwned` | `Spec => ApplyingIsOwned` | |
| `OnlyApprovedIfCalm` | `Spec /\ []Calm => []OnlyApproved` | `Hidden` |
| `ApprovalsAreCurrentIfCalm` | `Spec /\ []Calm => []ApprovalsAreCurrent` | `Hidden` |
| `FourEyesAlways` | `Spec => FourEyes` | `SelfApproval = FALSE` |
| `AlwaysOneAtATime` | `Spec => []OneAtATime` | |
| `NothingEverLeaks` | `Spec => []NothingLeaks` | |
| `VerdictsAreSound` | `Spec => VerdictIsSound` | |
| `AlwaysTakenOnlyByRace` | `Spec => TakenOnlyByRace` | |
| `ExclusiveIfNoRace` | `Spec /\ []NoRace => []Exclusive` | |
| `ExclusiveInOneProcess` | `Spec => []Exclusive` | one process |
| `IdealIfNoRace` | `Spec /\ []NoRace => Ideal!Spec` | |
| `IdealInOneProcess` | `Spec => Ideal!Spec` | one process |
| `AnswersAlwaysFit` | `Spec => []AnswersFit` | |
| `SecretsAlwaysStay` | `Spec => SecretsStayInMemory` | |
| `AnsweredNeverRuns` | `Spec => []AnsweredRunsNoMore` | |
| `OnceIfApart` | `Spec /\ []Apart => []AtMostOnce` | |
| `RecordsTellWhatRuns` | `Spec => []RecordTellsWhatRuns` | |
| `HistoryIsAlwaysTrue` | `Spec => []HistoryIsTrue` | |
| `RunningAlwaysRuns` | `Spec => []RunningIsRun` | |
| `WritesAreAlwaysVerified` | `Spec => []WritesAreVerified` | |
| `KeylessIsAlwaysOff` | `Spec => []KeylessIsOff` | |
| `RevokedAlwaysStays` | `Spec => RevokedStays` | |
| `KeyAlwaysStaysValid` | `Spec => []KeyStaysValid` | |
| `AlwaysStaysPaused` | `Spec => StaysPaused` | |
| `AlwaysWaitsForPerson` | `Spec => WaitsForPerson` | |

The six modules after the engine have their own `TypeCorrect` besides.  Any
number of crashes and restarts is covered, but for `Regular`.  Apart from the
conditions below the theorems assume what the modules assume of their constants.

`Whole` says that no append to the index is torn, and `Hidden` that nobody finds a change
set before its creation has ended; both are about constants.  The conditions under `[]`
are about the order in which things happen.  The code does not see to them, which is
what section 4 is about; the theorems say that nothing else goes wrong:

| Condition | Says | Without it |
|---|---|---|
| `Separate` | no two processes work on the same revision | `WriteAhead` fails with two processes and one restart: recovery clears the marker under the one that writes |
| `Serial` | one process at a time executes or recovers; no request begins while an interrupted revision is left; its snapshot is kept | `AnswerIsTrue` fails with two processes, `AllOrNothing` after a failed restore |
| `Calm` | no review of a change set overlaps a planning of it | `ApprovalsAreCurrent` fails with two requests, `OnlyApproved` with three |
| `NoRace` | no holder of the lock file was suspended; who removes a file it judged stale finds that file, or none | `Exclusive` fails (section 4) |
| `Apart` | no two requests look for a key's record at one time, and none while its handler runs in another process | `AtMostOnce` fails, in one process too |

`Separate` and `Serial` hold of their own in a regular deployment (`SerialIfRegular`): no file
operation fails where nothing undoes it, and either one process uses the state directory or none
crashes.  With one process, `Separate` and the lock's `Exclusive` need no condition at all, and
`Apart` means that no two requests load the record at one time.  None of the conditions empties
a theorem: with them TLC still reaches, for instance, a second process that recovers what the
first left, a start that recovers after a restore has failed and then serves requests, two
reviews side by side, and the takeover of a dead request's lock file.

The engine.  `AllOrNothing` is not inductive: it says nothing while a revision is marked.
`IInv` adds what each step relies on: work is serial; ids grow and a rollback reverts an earlier
revision (`IdsInv`); the lock is held from the first step of a request to its answer
(`LockInv`); the revision being worked on is the newest and is listed once it is recorded
(`CurInv`); at most one revision is marked, and it is the newest (`MarkInv`); unless something
failed that nothing undoes, a marker is left only while somebody works or has yet to recover,
and a start that still has it to scan will find it (`LeftInv`, which is what `SerialIfRegular`
lives on); and what the files hold at each step, up to files somebody else edited (`DiskInv`).
Write-ahead has its own, smaller invariant (`AheadInv`), where no append, restore or request
needs to go well: who records has its snapshot, who writes or restores has its marker and only
files of its revision left (`OwnWork`).  `Found` adds that, until a line is torn, who writes or
restores works on a listed revision.  There is one lemma per action, and in it one step per part
of `IInv`.  For `Implements` a frame condition is added (`FrameInv`: files a revision does not
touch are as it found them), and each step is shown to be `Start`, `Commit`, `Abort` or a
stutter of `AtomicSite`. For the history, `WorkInv` keeps the parent of the revision being made
current until it is listed, and the revision it undoes applied until it is marked; only the
newest revision is ever undone, so no line changes behind a later one (`HistoryUndone`), and a
rollback that has marked its original is finished and will not be undone (`RevertInv`).

The change set.  None of its invariants is inductive alone, as each relates the document to
what some coroutine saw of it earlier.  A re-plan saw a status that allows one (`Seen`), so
that its write, which expects that status, never takes a change set out of "applying" or a
final status.  With the types that is enough for the two action properties (`TInv`, `Lawful`):
they hold whoever finds a draft early, and their one exception, the unguarded second write of
a creation, is in the properties.  The rest of `IInv` needs `Hidden`: whoever creates is alone
with a draft (`Alone`), so that this write hits nothing; who applies holds the plan and
the operations of the document, since nothing writes either while the status is
"applying", and what it is about to record is answered and on file (`Applier`); a
rollback is of the applied revision, and what it is about to say has happened
(`Undoer`).  Most actions touch none of this: four lemmas cover them in groups
(`QuietInv`, `WorkMove`, `UndoMove`, `StillInv`).

For reviews, `RInv` says of each coroutine that what it saw still holds or matters no more
(`Mindful`): who is about to approve saw the diff on record, and a diff is granted once an
approval of it is stored.  For `FourEyes`, `HInv`: whoever signed with no overlap (`hands`) is
among the authors on record, an edit or a submission under way has read all of them, and who
is about to approve is none of them (`Honest`).  It needs no condition but that nobody may
approve their own work.

The lock.  `OneAtATime` follows from the chain: whoever waits is in the queue of its
process, and whoever is past the mutex is its head (`Chain`).  For the file, `Written`
says what its writer has done and that the file is fresh while its writer holds it and
has not slept; so a verdict can only name a file whose writer is past holding, or has
slept (`Verdicts`, `Sleepers`).  `TakenOnlyByRace` is then a case distinction on who
removes the file.  For `ExclusiveIfNoRace`, whoever runs its mutation is the writer of the
file at the path (`Owned`), so two would have written the same file; in one process the
chain alone excludes them.  With `Exclusive`, every step of the protocol begins a mutation
when none runs, ends the one that runs, or is a stutter of `Exclusion`.

The idempotency store.  In-flight and in-memory entries are kept by the process that
produced them (`Places`), whoever joins has looked at the fingerprint (`Joins`), so every
answer fits (`Fits`), and a replay that shows a secret comes from the process that made it.
For `AnsweredRunsNoMore`, `Disk`: while nothing has expired and no prune has misread a record
(`Sighted`), a final answer given out by its own request is on disk, and whoever came later
is past the decision to run, unless it could not read that record.  For `OnceIfApart`,
`OneRun`: until a crash or an expiry at most one request runs the handler, and none once an
outcome is final.

Deployments.  `Progress` says, per phase, which of the recorded services already have their
image and name it, counted by the services left to do; with `Current` (the record under way is
the newest, and says "running", or "succeeded" once that could not be saved) this gives the
record its truth at the moment it is saved.  `Truthful` carries the outcome from the bridge to
the job, to what the follower has seen, to the control plane, for every deployment whose
success could be saved: every link is the record, its imminent saving, or a cut, and where
one says "failed" the record says no success.

Sites.  `VerifiedHere` and `KeylessIsUnverified` are what `MayEnable` relies on; `Keyed` and
`ArgTyped` say what a request carries.  `RevokedStays` needs that a revoked site's key is
not one a request under way will store as unchanged: a rotated key is new and nobody
else has it (`Issued`, `Fresh`), so a handshake that finds the key it began with began
before no revocation (`RevokedIsOld`).  For `KeyStaysValid`, `RotationInv`: the key a
rotation has brought back is accepted where it was asked for and does not run out (`Brought`),
and no request uses it until it is stored (`Private`); a key that worked and is now running
out is one whose rotation is about to store another, or is lost (`Graced`).

Media plans.  Both properties rest on where a live job can come from.  A task in `waits` was
created to wait for a person, and no user has set it to "scheduled" or "paused".  `Untouched`:
it has no job and no request means to give it one; `Waiting`: nor does its status let a later
one (it is neither "scheduled" nor "paused").  `Pausing`: while
a pause is between its read and its mark, a scheduled task with a live job is one it will
still pause or one somebody has touched since.  `Paused`, the invariant behind
`StaysPaused`, follows at the mark.

Only model-checked is liveness, as fairness and ENABLED are beyond the prover:
`InterruptedIsSettled`, `ApplyingEnds`, `ValidatingEnds`, `EveryoneIsAnswered`,
`JoinersAreAnswered`, `FollowerEnds`, `ScheduledRuns` and `InProgressEnds`.  `OnlyApproved`
and `ApprovalsAreCurrent` hold in their passing runs without their condition because of the
bounds (two coroutines, or one at a time); the theorems carry them to any number of
coroutines, with the condition.

Before they were proved, the conditional statements were checked with TLC as constraints on
instances of their own: `Serial` and `Separate` with two processes, a crash, a failing restore
and an edit or a torn line; `Calm` with three coroutines and six requests; `NoRace` with two
processes and two troubles; `Apart` with two processes and three requests.

## 6. Plan

In this order; the most important behaviour was modelled first.

1. Done: `BridgeEngine` with `AtomicSite`, and its proofs; `ChangeSet`.
2. Done, with proofs: `SiteLock`, `Idempotency`, `Deployment`, `Sites`.
3. Done, with proofs: `MediaPlan`.
4. Done: the proofs about `ChangeSet` and `MediaPlan`, and of the engine's history.
   Then, with conditions on what may overlap: the engine for several processes and
   failing restores, the lock as an ideal one, reviews, and handlers that run once.
5. The key file in several processes (each writes the whole file from its own memory,
   `keystore.ts:120`) and nonces across restarts.
6. The validation runner's semaphore and the event streams of jobs.

## 7. Not modelled

`PROJECT.json` lists every component with its status and the reason.  In short:

- The key file under several processes, nonces, rate limits: `Sites` takes a bridge's
  keys as one process's.  Signatures and canonical strings are cryptography.
- The job registry's event streams, the semaphore of validations and scratch
  directories: the other modules see a job only by its status.
- Backups: a restore goes through the engine's executor; archives are file I/O.
- Data transformation without a protocol: parsing, sanitising, diffs, path rules,
  inventory, content adapters.  `BridgeEngine` takes their result as an arbitrary tree.
- Dispatch, scopes, error mapping, the audit logs, HTTP plumbing: no state a decision
  reads.
- Display: progress streams and the frontend, the largest part of the repository by
  lines.  Routers that report on outside services.  One-off tools.
- Accounts, roles and the daily limit of change sets: checks of one request, or of a
  count over many change sets, where one change set is modelled.

## 8. Running the checks

    tlc -workers 2 -config EngineCrash.cfg MCBridgeEngine.tla
    tlc -workers 2 -config ChangeSetPair.cfg MCChangeSet.tla
    tlc -workers 2 -config SiteLock.cfg MCSiteLock.tla
    tlapm BridgeEngine_safety.tla
    tlapm Sites_proofs.tla

A run takes between a few seconds and four minutes; the proofs of a module take
between one and ten minutes from nothing.
