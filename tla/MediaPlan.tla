------------------------------- MODULE MediaPlan -------------------------------
(***************************************************************************)
(* The scheduled tasks of a media plan: their documents in the database,   *)
(* their jobs in the scheduler's memory, the executions the scheduler or a *)
(* user starts, and the requests that activate, pause and resume the plan  *)
(* or set a task's status.  Every request and every execution is cut at    *)
(* its database calls; none of them tests the status it overwrites.        *)
(***************************************************************************)
EXTENDS Naturals, FiniteSets

CONSTANTS
  Task,        \* tasks an activation can create
  NeedsLink,   \* those whose platform needs a stored credential
  Request,     \* requests under way at the same time
  Exec,        \* executions under way at the same time
  NoTask,
  MaxAsk,      \* bound: requests and manual executions
  MaxFail      \* bound: errors of database and scheduler, and restarts

ASSUME MediaPlanAssumption ==
  /\ NeedsLink \subseteq Task /\ NoTask \notin Task
  /\ MaxAsk \in Nat /\ MaxFail \in Nat

VARIABLES
  status,     \* a task's status in the database
  byHand,     \* history: tasks whose present status a user has set
  waits,      \* history: tasks created to wait for a person that no user has
              \* set to scheduled, or to paused
  job,        \* a task's job in the scheduler
  ctl,        \* the requests under way
  exec,       \* the executions under way
  raced,      \* history: tasks whose job and status were set by two requests
              \* at a time, or by one that broke off between the two
  lost,       \* history: tasks whose last job was not added, was skipped, came
              \* too late, broke off or went down with the process
  unlogged,   \* history: tasks whose execution could not store its end
  asks, fails \* so far

users  == <<byHand, waits>>
past   == <<raced, lost, unlogged>>
counts == <<asks, fails>>
vars   == <<status, users, job, ctl, exec, past, counts>>

\* A user may also set failed and awaiting_connection; nothing treats them
\* otherwise than completed.
Settable == {"scheduled", "in_progress", "completed", "paused", "awaiting_asset"}
Status   == Settable \cup {"none", "failed", "awaiting_connection", "requires_approval"}
Idle     == [op |-> "idle", at |-> "idle", todo |-> {}]
Resting  == [of |-> NoTask, by |-> "job", at |-> "idle"]

TypeOK ==
  /\ status \in [Task -> Status]
  /\ job \in [Task -> {"none", "live", "paused", "overdue"}]
  /\ ctl \in [Request ->
       [op : {"idle", "activate", "pause", "resume", "put"},
        at : {"idle", "jobs", "mark"}, todo : SUBSET Task]]
  /\ exec \in [Exec -> {Resting} \cup
       [of : Task, by : {"job", "hand"},
        at : {"read", "block", "start", "work", "ok", "error"}]]
  /\ byHand \subseteq Task /\ waits \subseteq Task
  /\ raced \subseteq Task /\ lost \subseteq Task /\ unlogged \subseteq Task
  /\ asks \in 0..MaxAsk /\ fails \in 0..MaxFail

Count     == asks < MaxAsk /\ asks' = asks + 1 /\ UNCHANGED fails
Fail      == fails < MaxFail /\ fails' = fails + 1 /\ UNCHANGED asks
Begins(c, op, at, todo) ==
  ctl' = [ctl EXCEPT ![c] = [op |-> op, at |-> at, todo |-> todo]]
GoesOn(c, at)    == ctl' = [ctl EXCEPT ![c].at = at]
Ends(c)          == ctl' = [ctl EXCEPT ![c] = Idle]
In(c, op, at)    == ctl[c].op = op /\ ctl[c].at = at
UnderWay(op)     == \E c \in Request : ctl[c].op = op
Are(s)           == {t \in Task : status[t] = s}
\* The documents of T get status s, by the program.
Set(T, s) ==
  /\ status' = [t \in Task |-> IF t \in T THEN s ELSE status[t]]
  /\ byHand' = byHand \ T
  /\ UNCHANGED waits

\* scheduler.add_job with replace_existing, whatever the document says by now.
\* An error is caught and forgotten.
AddJob(t) ==
  \/ /\ job' = [job EXCEPT ![t] = "live"]
     /\ raced' = IF status[t] # "scheduled" \/ UnderWay("pause") THEN raced \cup {t}
                                                                ELSE raced
     /\ lost' = lost \ {t}
     /\ UNCHANGED <<unlogged, counts>>
  \/ /\ Fail
     /\ lost' = lost \cup {t}
     /\ UNCHANGED <<job, raced, unlogged>>

-----------------------------------------------------------------------------
(* Activation.                                                             *)

\* The tasks of new are inserted; those of waiting wait for a person.
Insert(new, waiting) ==
  /\ new # {} /\ new \subseteq Are("none") /\ waiting \subseteq new
  /\ \E s \in {"awaiting_asset", "requires_approval"} :
       status' = [t \in Task |-> IF t \in waiting THEN s
                                 ELSE IF t \in new THEN "scheduled" ELSE status[t]]
  /\ waits' = waits \cup waiting
  /\ UNCHANGED byHand

\* Those that are scheduled will get their jobs.  An active plan can be
\* activated again: its tasks are then created again.
Activate(c, new) ==
  /\ ctl[c] = Idle /\ Count
  /\ \E waiting \in SUBSET new :
       /\ Insert(new, waiting)
       /\ Begins(c, "activate", "jobs", new \ waiting)
  /\ UNCHANGED <<job, exec, past>>

\* insert_many breaks off: the tasks before the error are there.
ActivateFails(new) ==
  /\ Fail
  /\ \E waiting \in SUBSET new : Insert(new, waiting)
  /\ lost' = lost \cup new
  /\ UNCHANGED <<job, ctl, exec, raced, unlogged>>

\* One by one, with a database call after each.
ActivateJob(c, t) ==
  /\ In(c, "activate", "jobs") /\ t \in ctl[c].todo
  /\ AddJob(t)
  /\ ctl' = [ctl EXCEPT ![c].todo = @ \ {t}]
  /\ UNCHANGED <<status, users, exec>>

\* Then the plan is marked active.  The plan's own status is left out: it is
\* written last by every request and read by none.
EndActivation(c) ==
  /\ In(c, "activate", "jobs") /\ ctl[c].todo = {}
  /\ Ends(c)
  /\ UNCHANGED <<status, users, job, exec, past, counts>>

-----------------------------------------------------------------------------
(* Pausing and resuming the plan; setting a status.                        *)

\* The tasks to pause, or to resume, are read.
Find(c, op, s) ==
  /\ ctl[c] = Idle /\ Count
  /\ Begins(c, op, "jobs", Are(s))
  /\ UNCHANGED <<status, users, job, exec, past>>

Pause(c)  == Find(c, "pause", "scheduled")
Resume(c) == Find(c, "resume", "paused")

\* Bug: a failing pause_job ends the loop.
PauseOne(c) ==
  /\ In(c, "pause", "jobs")
  /\ \E T \in SUBSET ctl[c].todo :
       /\ Cardinality(T) <= 1
       /\ job' = [t \in Task |-> IF t \in T /\ job[t] = "live" THEN "paused" ELSE job[t]]
  /\ GoesOn(c, "mark")
  /\ UNCHANGED <<status, users, exec, past, counts>>

\* pause_job of each; a task that has none is passed over.
PauseJobs(c) ==
  /\ In(c, "pause", "jobs")
  /\ job' = [t \in Task |-> IF t \in ctl[c].todo /\ job[t] = "live" THEN "paused"
                                                                  ELSE job[t]]
  /\ GoesOn(c, "mark")
  /\ UNCHANGED <<status, users, exec, past, counts>>

\* Bug: every task that has not run is marked.
PauseAll(c) ==
  /\ In(c, "pause", "mark")
  /\ Set(Are("scheduled") \cup Are("requires_approval") \cup Are("awaiting_asset"), "paused")
  /\ raced' = IF UnderWay("resume") THEN raced \cup Are("scheduled") ELSE raced
  /\ Ends(c)
  /\ UNCHANGED <<job, exec, lost, unlogged, counts>>

\* Every task that is scheduled by now, read or not, is marked.
PauseMark(c) ==
  /\ In(c, "pause", "mark")
  /\ Set(Are("scheduled"), "paused")
  /\ raced' = IF UnderWay("resume") THEN raced \cup Are("scheduled") ELSE raced
  /\ Ends(c)
  /\ UNCHANGED <<job, exec, lost, unlogged, counts>>

\* The jobs of T that are overdue run no more: the scheduler counts a job more
\* than an hour late as missed.
Late(T) == {t \in T : job[t] = "overdue"}

\* Bug: a paused job that is gone is not added again.
ResumeOnly(c) ==
  /\ In(c, "resume", "jobs")
  /\ job' = [t \in Task |-> IF t \in ctl[c].todo /\ job[t] = "paused" THEN "live"
                                                                    ELSE job[t]]
  /\ GoesOn(c, "mark")
  /\ UNCHANGED <<status, users, exec, past, counts>>

\* resume_job of each; a task that has none gets a new one, if the scheduler
\* takes it.
ResumeJobs(c) ==
  LET T == ctl[c].todo IN
  /\ In(c, "resume", "jobs")
  /\ \E refused \in SUBSET {t \in T : job[t] = "none"} :
       /\ IF refused = {} THEN UNCHANGED counts ELSE Fail
       /\ job' = [t \in Task |-> IF t \in Late(T) \cup refused THEN "none"
                                 ELSE IF t \in T THEN "live" ELSE job[t]]
       /\ lost' = (lost \ T) \cup Late(T) \cup refused
  /\ raced' = IF UnderWay("pause") THEN raced \cup T ELSE raced
  /\ GoesOn(c, "mark")
  /\ UNCHANGED <<status, users, exec, unlogged>>

\* Every task that is paused by now, read or not, is marked.
ResumeMark(c) ==
  LET now == Are("paused") IN
  /\ In(c, "resume", "mark")
  /\ Set(now, "scheduled")
  /\ raced' = raced \cup (IF UnderWay("pause") THEN now ELSE now \ ctl[c].todo)
  /\ Ends(c)
  /\ UNCHANGED <<job, exec, lost, unlogged, counts>>

\* PUT status: whatever the task is doing.  Only "scheduled" touches its job.
Put(c, t, s) ==
  /\ ctl[c] = Idle /\ status[t] # "none" /\ Count
  /\ status' = [status EXCEPT ![t] = s]
  /\ byHand' = byHand \cup {t}
  /\ waits' = IF s \in {"scheduled", "paused"} THEN waits \ {t} ELSE waits
  /\ raced' = IF UnderWay("pause") \/ UnderWay("resume") THEN raced \cup {t}
                                                      ELSE raced
  /\ IF s = "scheduled" THEN Begins(c, "put", "jobs", {t}) ELSE UNCHANGED ctl
  /\ UNCHANGED <<job, exec, lost, unlogged>>

PutJob(c) ==
  /\ In(c, "put", "jobs")
  /\ \E t \in ctl[c].todo : AddJob(t)
  /\ Ends(c)
  /\ UNCHANGED <<status, users, exec>>

\* A database error nobody catches: in the middle of a PUT, a pause or a resume
\* one of job and document is set and the other is not.
Breaks(c) ==
  /\ In(c, "put", "jobs") \/ In(c, "pause", "mark") \/ In(c, "resume", "mark")
  /\ Fail /\ Ends(c)
  /\ raced' = raced \cup ctl[c].todo
  /\ lost' = lost \cup ctl[c].todo
  /\ UNCHANGED <<status, users, job, exec, unlogged>>

-----------------------------------------------------------------------------
(* Executions.                                                             *)

Rests(e)      == exec[e].at = "idle"
Starts(e, t, by) == exec' = [exec EXCEPT ![e] = [of |-> t, by |-> by, at |-> "read"]]
Steps(e, from, to) == exec[e].at = from /\ exec' = [exec EXCEPT ![e].at = to]
Running(t)    == \E e \in Exec : ~Rests(e) /\ exec[e].of = t /\ exec[e].by = "job"

\* The job's time has come: it leaves the scheduler and the task is executed.
Fire(e, t) ==
  /\ job[t] = "live" /\ Rests(e) /\ ~Running(t)
  /\ job' = [job EXCEPT ![t] = "none"]
  /\ Starts(e, t, "job")
  /\ UNCHANGED <<status, users, ctl, past, counts>>

\* An earlier job of that name still runs (max_instances): this one is skipped.
Skip(t) ==
  /\ job[t] = "live" /\ Running(t)
  /\ job' = [job EXCEPT ![t] = "none"]
  /\ lost' = lost \cup {t}
  /\ UNCHANGED <<status, users, ctl, exec, raced, unlogged, counts>>

\* A paused job's date goes by, and an hour more.
Overdue(t) ==
  /\ job[t] = "paused"
  /\ job' = [job EXCEPT ![t] = "overdue"]
  /\ UNCHANGED <<status, users, ctl, exec, past, counts>>

\* POST execute: a background task, whatever the status and whatever runs.
Execute(e, t) ==
  /\ Rests(e) /\ status[t] # "none" /\ Count
  /\ Starts(e, t, "hand")
  /\ UNCHANGED <<status, users, job, ctl, past>>

\* The task is read, and its platform's credential looked for: users store
\* and delete credentials at any time.
Gate(e) ==
  /\ \/ Steps(e, "read", "start")
     \/ exec[e].of \in NeedsLink /\ Steps(e, "read", "block")
  /\ UNCHANGED <<status, users, job, ctl, past, counts>>

Block(e) ==
  /\ exec[e].at = "block"
  /\ exec' = [exec EXCEPT ![e] = Resting]
  /\ Set({exec[e].of}, "awaiting_connection")
  /\ UNCHANGED <<job, ctl, past, counts>>

Start(e) ==
  /\ Steps(e, "start", "work")
  /\ Set({exec[e].of}, "in_progress")
  /\ UNCHANGED <<job, ctl, past, counts>>

\* The content is made and goes out to the platform; any of it may fail, the
\* credential being gone for one.
Work(e) ==
  /\ Steps(e, "work", "ok") \/ Steps(e, "work", "error")
  /\ UNCHANGED <<status, users, job, ctl, past, counts>>

\* Bug: an execution that fails is not logged.
LogSuccess(e) ==
  /\ exec[e].at \in {"ok", "error"}
  /\ exec' = [exec EXCEPT ![e] = Resting]
  /\ IF exec[e].at = "ok" THEN Set({exec[e].of}, "completed")
                          ELSE UNCHANGED <<status, users>>
  /\ unlogged' = unlogged \ {exec[e].of}
  /\ UNCHANGED <<job, ctl, raced, lost, counts>>

\* _mp_log_execution
Log(e) ==
  /\ exec[e].at \in {"ok", "error"}
  /\ exec' = [exec EXCEPT ![e] = Resting]
  /\ Set({exec[e].of}, IF exec[e].at = "ok" THEN "completed" ELSE "failed")
  /\ unlogged' = unlogged \ {exec[e].of}
  /\ UNCHANGED <<job, ctl, raced, lost, counts>>

\* It fails: a success is then logged as an error; an error is not logged.
LogFails(e) ==
  /\ Fail
  /\ \/ Steps(e, "ok", "error") /\ UNCHANGED unlogged
     \/ /\ exec[e].at = "error" /\ exec' = [exec EXCEPT ![e] = Resting]
        /\ unlogged' = unlogged \cup {exec[e].of}
  /\ UNCHANGED <<status, users, job, ctl, raced, lost>>

\* A database error before the work begins ends the execution; its job is gone.
GateFails(e) ==
  /\ exec[e].at \in {"read", "block", "start"}
  /\ Fail
  /\ exec' = [exec EXCEPT ![e] = Resting]
  /\ lost' = lost \cup {exec[e].of}
  /\ UNCHANGED <<status, users, job, ctl, raced, unlogged>>

-----------------------------------------------------------------------------
(* The surroundings.                                                       *)

\* Requests and executions are gone, and so are the jobs: nothing at start-up
\* schedules the tasks of media plans again.
Restart ==
  /\ Fail
  /\ ctl' = [c \in Request |-> Idle] /\ exec' = [e \in Exec |-> Resting]
  /\ job' = [t \in Task |-> "none"]
  /\ lost' = lost \cup {t \in Task : status[t] # "none"}
  /\ unlogged' = unlogged \cup Are("in_progress")
  /\ UNCHANGED <<status, users, raced>>

Init ==
  /\ status = [t \in Task |-> "none"]
  /\ byHand = {} /\ waits = {}
  /\ job = [t \in Task |-> "none"]
  /\ ctl = [c \in Request |-> Idle] /\ exec = [e \in Exec |-> Resting]
  /\ raced = {} /\ lost = {} /\ unlogged = {}
  /\ asks = 0 /\ fails = 0

Ask(c) ==
  \/ (\E new \in SUBSET Task : Activate(c, new)) \/ Pause(c) \/ Resume(c)
  \/ \E t \in Task, s \in Settable : Put(c, t, s)
Proceed(c) ==
  \/ (\E t \in Task : ActivateJob(c, t)) \/ EndActivation(c)
  \/ PauseJobs(c) \/ PauseMark(c) \/ ResumeJobs(c) \/ ResumeMark(c)
  \/ PutJob(c)
Go(e)  == Gate(e) \/ Block(e) \/ Start(e) \/ Work(e) \/ Log(e)
Due(t) == (\E e \in Exec : Fire(e, t)) \/ Skip(t)

Next ==
  \/ \E c \in Request : Ask(c) \/ Proceed(c) \/ Breaks(c)
  \/ \E e \in Exec : Go(e) \/ LogFails(e) \/ GateFails(e) \/ \E t \in Task : Execute(e, t)
  \/ \E t \in Task : Due(t) \/ Overdue(t)
  \/ \E new \in SUBSET Task : ActivateFails(new)
  \/ Restart

Spec     == Init /\ [][Next]_vars
\* The event loop turns, calls end, and the scheduler fires what is due.  An
\* execution is never short of a slot in the code, so the slots are fair too.
FairSpec ==
  /\ Spec
  /\ \A c \in Request : WF_vars(Proceed(c))
  /\ \A e \in Exec : WF_vars(Go(e))
  /\ \A t \in Task : SF_vars(Due(t))

-----------------------------------------------------------------------------
(* What a media plan promises.                                             *)

\* The scheduler executes t in this step.
Fires(t) ==
  /\ job[t] = "live" /\ job'[t] = "none"
  /\ \E e \in Exec : exec[e].at = "idle" /\ exec'[e].of = t

\* Pausing a plan stops its tasks: one that the pause has marked is not
\* started by the scheduler before the plan is resumed, unless another request
\* was setting its status or its job at the same time.
StaysPaused ==
  [][\A t \in Task : Fires(t) /\ status[t] = "paused" =>
       t \in byHand \cup raced \/ UnderWay("resume")]_vars

\* A task that was created to wait for a person is not started by the
\* scheduler, whatever is activated, paused, resumed, executed and breaks off,
\* before a user has set it to scheduled.  Setting it to paused has the same
\* effect: the next resume schedules it, and nothing asks for the approval.
WaitsForPerson == [][\A t \in waits : ~Fires(t)]_vars

\* A task that is shown as scheduled leaves that state, unless its last job was
\* lost or it was raced.
ScheduledRuns ==
  \A t \in Task :
    status[t] = "scheduled" ~> status[t] # "scheduled" \/ t \in lost \cup raced

\* A task that is shown as in progress comes to an end, unless the end could
\* not be stored, for a restart or an error, or somebody said so by hand.
InProgressEnds ==
  \A t \in Task :
    status[t] = "in_progress" ~>
      status[t] # "in_progress" \/ t \in byHand \cup unlogged
=============================================================================
