--------------------------- MODULE MediaPlan_proofs ---------------------------
(***************************************************************************)
(* Proofs about MediaPlan, for any number of tasks, requests and           *)
(* executions and any bounds.                                              *)
(***************************************************************************)
EXTENDS MediaPlan, TLAPS

(* What a request is doing.                                                 *)
Control == [op : {"idle", "activate", "pause", "resume", "put"},
            at : {"idle", "jobs", "mark"}, todo : SUBSET Task]

(* No request has a job for a task that was not created yet, or that waits  *)
(* for a person; and no pause or resume takes the latter for its own.       *)
Untouched ==
  \A t \in Task : status[t] = "none" \/ t \in waits =>
    job[t] = "none" /\ \A c \in Request : t \notin ctl[c].todo

Waiting == \A t \in waits : status[t] \notin {"none", "scheduled", "paused"}

(* While a pause is under way, a scheduled task with a live job is one that *)
(* it will still pause, or one that another request has just touched.       *)
Pausing ==
  \A c \in Request, t \in Task : status[t] = "scheduled" /\ job[t] = "live" =>
    /\ In(c, "pause", "jobs") => t \in ctl[c].todo \cup raced
    /\ In(c, "pause", "mark") => t \in raced

(* A paused task has a live job only by hand, by a race or by a resumption  *)
(* that is about to mark it.                                                *)
Paused ==
  \A t \in Task : status[t] = "paused" /\ job[t] = "live" =>
    \/ t \in byHand \cup raced
    \/ \E c \in Request : ctl[c].op = "resume" /\ t \in ctl[c].todo

IInv == TypeOK /\ Untouched /\ Waiting /\ Pausing /\ Paused

-----------------------------------------------------------------------------
(* Types.                                                                   *)

LEMMA InitInv == Init => IInv
BY MediaPlanAssumption DEF Init, IInv, TypeOK, Untouched, Waiting, Pausing, Paused, In,
   Idle, Resting, Status, Settable

LEMMA InsertType ==
  ASSUME TypeOK, NEW new \in SUBSET Task, NEW waiting \in SUBSET new, Insert(new, waiting)
  PROVE  status' \in [Task -> Status] /\ waits' \subseteq Task /\ byHand' = byHand
<1>1. PICK s \in {"awaiting_asset", "requires_approval"} :
        status' = [t \in Task |-> IF t \in waiting THEN s
                                  ELSE IF t \in new THEN "scheduled" ELSE status[t]]
  BY DEF Insert
<1> QED BY <1>1 DEF Insert, TypeOK, Status, Settable

LEMMA AskType ==
  ASSUME TypeOK, NEW c \in Request, Ask(c)
  PROVE  TypeOK'
<1> USE DEF TypeOK, Status, Settable, Control
<1>1. ASSUME NEW new \in SUBSET Task, Activate(c, new)
      PROVE  TypeOK'
  <2>1. status' \in [Task -> Status] /\ waits' \subseteq Task /\ byHand' = byHand
    BY <1>1, InsertType DEF Activate
  <2>2. ctl' \in [Request -> Control]
    <3>1. PICK waiting \in SUBSET new : Begins(c, "activate", "jobs", new \ waiting)
      BY <1>1 DEF Activate
    <3> QED BY <3>1 DEF Begins
  <2>3. asks' \in 0..MaxAsk
    BY <1>1, MediaPlanAssumption DEF Activate, Count
  <2>4. UNCHANGED <<job, exec, past, fails>>
    BY <1>1 DEF Activate, Count
  <2> QED BY <2>1, <2>2, <2>3, <2>4 DEF past
<1>2. CASE Pause(c) \/ Resume(c)
  BY <1>2, MediaPlanAssumption DEF Pause, Resume, Find, Are, Count, Begins, users, past
<1>3. ASSUME NEW t \in Task, NEW s \in Settable, Put(c, t, s)
      PROVE  TypeOK'
  BY <1>3, MediaPlanAssumption DEF Put, Count, Begins
<1> QED BY <1>1, <1>2, <1>3 DEF Ask

LEMMA ProceedType ==
  ASSUME TypeOK, NEW c \in Request, Proceed(c)
  PROVE  TypeOK'
<1> USE DEF TypeOK, Status, Settable, Control
<1>1. ASSUME NEW t \in Task, ActivateJob(c, t)
      PROVE  TypeOK'
  <2>1. ctl' \in [Request -> Control]
    <3>1. [ctl[c] EXCEPT !.todo = ctl[c].todo \ {t}] \in Control
      OBVIOUS
    <3>2. ctl' = [ctl EXCEPT ![c] = [ctl[c] EXCEPT !.todo = ctl[c].todo \ {t}]]
      BY <1>1 DEF ActivateJob
    <3> QED BY <3>1, <3>2
  <2>2. job' \in [Task -> {"none", "live", "paused", "overdue"}]
        /\ raced' \subseteq Task
        /\ lost' \subseteq Task /\ fails' \in 0..MaxFail
        /\ UNCHANGED <<status, users, exec, unlogged, asks>>
    BY <1>1, MediaPlanAssumption DEF ActivateJob, AddJob, Fail, counts
  <2> QED BY <2>1, <2>2 DEF users
<1>2. CASE EndActivation(c)
  BY <1>2 DEF EndActivation, Ends, Idle, users, past, counts
<1>3. CASE PauseJobs(c)
  <2>1. ctl' \in [Request -> Control]
    BY <1>3 DEF PauseJobs, GoesOn
  <2>2. job' \in [Task -> {"none", "live", "paused", "overdue"}]
    BY <1>3 DEF PauseJobs
  <2> QED BY <1>3, <2>1, <2>2 DEF PauseJobs, users, past, counts
<1>4. CASE PauseMark(c)
  BY <1>4 DEF PauseMark, Set, Are, Ends, Idle, counts
<1>5. CASE ResumeJobs(c)
  <2>1. job' \in [Task -> {"none", "live", "paused", "overdue"}]
    BY <1>5 DEF ResumeJobs
  <2>2. ctl' \in [Request -> Control]
    BY <1>5 DEF ResumeJobs, GoesOn
  <2>3. lost' \subseteq Task /\ raced' \subseteq Task
    BY <1>5 DEF ResumeJobs, Late
  <2>4. fails' \in 0..MaxFail /\ asks' = asks
    BY <1>5, MediaPlanAssumption DEF ResumeJobs, Fail, counts
  <2> QED BY <1>5, <2>1, <2>2, <2>3, <2>4 DEF ResumeJobs, users
<1>6. CASE ResumeMark(c)
  BY <1>6 DEF ResumeMark, Set, Are, Ends, Idle, counts
<1>7. CASE PutJob(c)
  BY <1>7, MediaPlanAssumption DEF PutJob, AddJob, Fail, Ends, Idle, users, counts
<1> QED BY <1>1, <1>2, <1>3, <1>4, <1>5, <1>6, <1>7 DEF Proceed

(* What an execution is doing.                                              *)
Execution ==
  {Resting} \cup [of : Task, by : {"job", "hand"},
                 at : {"read", "block", "start", "work", "ok", "error"}]

LEMMA StepsType ==
  ASSUME TypeOK, NEW e \in Exec, NEW from, NEW to \in {"block", "start", "work", "ok", "error"},
         from # "idle", Steps(e, from, to)
  PROVE  exec' \in [Exec -> Execution]
<1>1. exec \in [Exec -> Execution]
  BY DEF TypeOK, Execution
<1>2. exec[e] \in Execution /\ exec[e] # Resting
  BY <1>1 DEF Steps, Resting
<1>3. [exec[e] EXCEPT !.at = to] \in Execution
  BY <1>2 DEF Execution
<1>4. exec' = [exec EXCEPT ![e] = [exec[e] EXCEPT !.at = to]]
  BY DEF Steps
<1> QED BY <1>1, <1>3, <1>4

LEMMA ExecType ==
  ASSUME TypeOK, NEW e \in Exec,
         Go(e) \/ LogFails(e) \/ GateFails(e) \/ \E t \in Task : Execute(e, t) \/ Fire(e, t)
  PROVE  TypeOK'
<1>1. exec' \in [Exec -> Execution]
  <2>1. exec \in [Exec -> Execution]
    BY DEF TypeOK, Execution
  <2>2. ASSUME NEW t \in Task, Execute(e, t) \/ Fire(e, t)
        PROVE  exec' \in [Exec -> Execution]
    BY <2>1, <2>2 DEF Execute, Fire, Starts, Execution
  <2>3. CASE Gate(e) \/ Work(e) \/ Start(e)
    BY <2>3, StepsType DEF Gate, Work, Start
  <2>4. CASE Block(e) \/ Log(e)
    BY <2>1, <2>4 DEF Block, Log, Execution
  <2>5. CASE LogFails(e) \/ GateFails(e)
    BY <2>1, <2>5, StepsType DEF LogFails, GateFails, Execution
  <2> QED BY <2>2, <2>3, <2>4, <2>5 DEF Go
<1>2. exec[e].at # "idle" => exec[e].of \in Task
  BY DEF TypeOK, Resting
<1> DEFINE Others ==
      /\ status' \in [Task -> Status] /\ job' \in [Task -> {"none", "live", "paused", "overdue"}]
      /\ UNCHANGED <<ctl, waits, raced>>
      /\ byHand' \subseteq Task /\ lost' \subseteq Task /\ unlogged' \subseteq Task
      /\ asks' \in 0..MaxAsk /\ fails' \in 0..MaxFail
<1>3. Others
  <2> USE DEF TypeOK, users, past, counts
  <2>1. ASSUME NEW t \in Task, Execute(e, t) \/ Fire(e, t)
        PROVE  Others
    BY <2>1, MediaPlanAssumption DEF Execute, Fire, Count
  <2>2. CASE Gate(e) \/ Work(e)
    BY <2>2 DEF Gate, Work
  <2>3. CASE Block(e) \/ Start(e) \/ Log(e)
    BY <2>3 DEF Block, Start, Log, Set, Status, Settable
  <2>4. CASE LogFails(e) \/ GateFails(e)
    BY <1>2, <2>4, MediaPlanAssumption DEF LogFails, GateFails, Fail
  <2> QED BY <2>1, <2>2, <2>3, <2>4 DEF Go
<1> QED BY <1>1, <1>3 DEF TypeOK, Execution

LEMMA TypeStep ==
  ASSUME TypeOK, [Next]_vars
  PROVE  TypeOK'
<1>1. ASSUME NEW t \in Task, Skip(t) \/ Overdue(t)
      PROVE  TypeOK'
  BY <1>1 DEF TypeOK, Skip, Overdue, users, past, counts
<1>2. CASE Restart
  BY <1>2, MediaPlanAssumption DEF TypeOK, Restart, Fail, Are, Idle, Resting, users
<1>3. CASE UNCHANGED vars
  BY <1>3 DEF TypeOK, vars, users, past, counts
<1>4. ASSUME NEW c \in Request, Breaks(c)
      PROVE  TypeOK'
  BY <1>4, MediaPlanAssumption DEF TypeOK, Breaks, Fail, Ends, Idle, users
<1>5. ASSUME NEW new \in SUBSET Task, ActivateFails(new)
      PROVE  TypeOK'
  <2>1. status' \in [Task -> Status] /\ waits' \subseteq Task /\ byHand' = byHand
    BY <1>5, InsertType DEF ActivateFails
  <2>2. fails' \in 0..MaxFail /\ asks' = asks /\ lost' \subseteq Task
    BY <1>5, MediaPlanAssumption DEF ActivateFails, Fail, TypeOK
  <2> QED BY <1>5, <2>1, <2>2 DEF ActivateFails, TypeOK
<1> QED
  BY <1>1, <1>2, <1>3, <1>4, <1>5, AskType, ProceedType, ExecType DEF Next, Due

-----------------------------------------------------------------------------
(* Requests.                                                                *)

(* New tasks have no job; those that wait for a person are marked so.       *)
LEMMA Inserted ==
  ASSUME TypeOK, NEW new \in SUBSET Task, NEW waiting \in SUBSET new, Insert(new, waiting)
  PROVE  /\ \A t \in waiting : status'[t] \in {"awaiting_asset", "requires_approval"}
         /\ \A t \in new \ waiting : status'[t] = "scheduled"
         /\ \A t \in Task \ new : status'[t] = status[t]
         /\ \A t \in new : status[t] = "none"
         /\ waits' = waits \cup waiting /\ byHand' = byHand
<1>1. PICK s \in {"awaiting_asset", "requires_approval"} :
        status' = [t \in Task |-> IF t \in waiting THEN s
                                  ELSE IF t \in new THEN "scheduled" ELSE status[t]]
  BY DEF Insert
<1>2. waits' = waits \cup waiting /\ byHand' = byHand /\ \A t \in new : status[t] = "none"
  BY DEF Insert, Are
<1> QED BY <1>1, <1>2

LEMMA InsertInv ==
  ASSUME IInv, TypeOK', NEW new \in SUBSET Task, NEW waiting \in SUBSET new,
         Insert(new, waiting), UNCHANGED <<job, exec, raced>>,
         \A c \in Request :
           \/ ctl'[c] = ctl[c]
           \/ ctl[c].op = "idle" /\ ctl'[c].op = "activate" /\ ctl'[c].todo = new \ waiting
  PROVE  IInv'
<1>1. /\ \A t \in waiting : status'[t] \in {"awaiting_asset", "requires_approval"}
      /\ \A t \in new \ waiting : status'[t] = "scheduled"
      /\ \A t \in Task \ new : status'[t] = status[t]
      /\ \A t \in new : status[t] = "none"
      /\ waits' = waits \cup waiting /\ byHand' = byHand
  BY Inserted DEF IInv
<1>2. \A t \in new : t \notin waits /\ job[t] = "none" /\ \A c \in Request : t \notin ctl[c].todo
  BY <1>1 DEF IInv, Untouched, Waiting
<1>3. Untouched'
  BY <1>1, <1>2 DEF IInv, Untouched
<1>4. Waiting'
  <2>1. waits \subseteq Task
    BY DEF IInv, TypeOK
  <2> QED BY <1>1, <1>2, <2>1 DEF IInv, Waiting
<1>5. Pausing'
  BY <1>1, <1>2 DEF IInv, Pausing, In
<1>6. Paused'
  BY <1>1, <1>2 DEF IInv, Paused
<1> QED BY <1>3, <1>4, <1>5, <1>6 DEF IInv

LEMMA ActivateInv ==
  ASSUME IInv, TypeOK', NEW c \in Request, NEW new \in SUBSET Task,
         Activate(c, new)
  PROVE  IInv'
<1>1. PICK waiting \in SUBSET new :
        Insert(new, waiting) /\ Begins(c, "activate", "jobs", new \ waiting)
  BY DEF Activate
<1>2. \A d \in Request :
        \/ ctl'[d] = ctl[d]
        \/ ctl[d].op = "idle" /\ ctl'[d].op = "activate" /\ ctl'[d].todo = new \ waiting
  BY <1>1 DEF Activate, Begins, Idle, IInv, TypeOK
<1> QED BY <1>1, <1>2, InsertInv DEF Activate, past

LEMMA FindInv ==
  ASSUME IInv, TypeOK', NEW c \in Request, Pause(c) \/ Resume(c)
  PROVE  IInv'
<1>1. /\ UNCHANGED <<status, byHand, waits, job, exec, raced>> /\ ctl[c].op = "idle"
      /\ \A d \in Request \ {c} : ctl'[d] = ctl[d]
      /\ \/ ctl'[c] = [op |-> "pause", at |-> "jobs", todo |-> Are("scheduled")]
         \/ ctl'[c] = [op |-> "resume", at |-> "jobs", todo |-> Are("paused")]
  BY DEF Pause, Resume, Find, Begins, users, past, Idle, IInv, TypeOK
<1>2. Untouched' /\ Waiting'
  BY <1>1 DEF IInv, Untouched, Waiting, Are
<1>3. Pausing'
  BY <1>1 DEF IInv, Pausing, In, Are
<1>4. Paused'
  BY <1>1 DEF IInv, Paused
<1> QED BY <1>2, <1>3, <1>4 DEF IInv

LEMMA PutInv ==
  ASSUME IInv, TypeOK', NEW c \in Request, NEW t \in Task, NEW s \in Settable,
         Put(c, t, s)
  PROVE  IInv'
<1>1. /\ UNCHANGED <<job, exec>> /\ ctl[c].op = "idle" /\ status[t] # "none"
      /\ byHand' = byHand \cup {t} /\ raced \subseteq raced'
      /\ UnderWay("pause") => t \in raced'
      /\ waits' = IF s \in {"scheduled", "paused"} THEN waits \ {t} ELSE waits
      /\ status' = [status EXCEPT ![t] = s]
      /\ \A d \in Request \ {c} : ctl'[d] = ctl[d]
      /\ \/ ctl'[c] = ctl[c]
         \/ ctl'[c] = [op |-> "put", at |-> "jobs", todo |-> {t}] /\ s = "scheduled"
  BY DEF Put, Begins, Idle, IInv, TypeOK
<1>2. status'[t] = s /\ s # "none" /\ \A u \in Task \ {t} : status'[u] = status[u]
  BY <1>1 DEF IInv, TypeOK, Settable
<1>3. Untouched'
  BY <1>1, <1>2 DEF IInv, Untouched
<1>4. Waiting'
  <2>1. waits \subseteq Task
    BY DEF IInv, TypeOK
  <2> QED BY <1>1, <1>2, <2>1 DEF IInv, Waiting
<1>5. Pausing'
  BY <1>1, <1>2 DEF IInv, Pausing, In, UnderWay
<1>6. Paused'
  BY <1>1, <1>2 DEF IInv, Paused
<1> QED BY <1>3, <1>4, <1>5, <1>6 DEF IInv

(* A job is given only to a task that somebody asked it for.                *)
LEMMA AddJobInv ==
  ASSUME IInv, TypeOK', NEW c \in Request, NEW t \in Task,
         ActivateJob(c, t) \/ (PutJob(c) /\ t \in ctl[c].todo /\ AddJob(t))
  PROVE  IInv'
<1>1. /\ UNCHANGED <<status, byHand, waits, exec>> /\ t \in ctl[c].todo
      /\ ctl[c].op \in {"activate", "put"}
      /\ AddJob(t)
      /\ \A d \in Request \ {c} : ctl'[d] = ctl[d]
      /\ ctl'[c].op \notin {"pause", "resume"} /\ ctl'[c].todo \subseteq ctl[c].todo
  BY DEF ActivateJob, PutJob, Ends, Idle, In, users, IInv, TypeOK
<1>2. /\ \A u \in Task \ {t} : job'[u] = job[u]
      /\ raced \subseteq raced'
      /\ \/ job'[t] = job[t]
         \/ status[t] # "scheduled" \/ UnderWay("pause") => t \in raced'
  BY <1>1 DEF AddJob, IInv, TypeOK
<1>3. status[t] # "none" /\ t \notin waits
  BY <1>1 DEF IInv, Untouched
<1>4. Untouched' /\ Waiting'
  BY <1>1, <1>2, <1>3 DEF IInv, Untouched, Waiting
<1>5. Pausing'
  BY <1>1, <1>2 DEF IInv, Pausing, In, UnderWay
<1>6. Paused'
  BY <1>1, <1>2 DEF IInv, Paused
<1> QED BY <1>4, <1>5, <1>6 DEF IInv

(* A request that breaks off leaves its tasks raced.                        *)
LEMMA BreaksInv ==
  ASSUME IInv, TypeOK', NEW c \in Request, Breaks(c)
  PROVE  IInv'
<1>1. /\ UNCHANGED <<status, byHand, waits, job, exec>>
      /\ raced' = raced \cup ctl[c].todo
      /\ ctl'[c] = Idle /\ \A d \in Request \ {c} : ctl'[d] = ctl[d]
  BY DEF Breaks, Ends, users, IInv, TypeOK
<1>2. Untouched' /\ Waiting'
  BY <1>1 DEF IInv, Untouched, Waiting, Idle
<1>3. Pausing'
  BY <1>1 DEF IInv, Pausing, In, Idle
<1>4. Paused'
  BY <1>1 DEF IInv, Paused, Idle
<1> QED BY <1>2, <1>3, <1>4 DEF IInv

LEMMA PauseInv ==
  ASSUME IInv, TypeOK', NEW c \in Request, PauseJobs(c) \/ PauseMark(c)
  PROVE  IInv'
<1>1. CASE PauseJobs(c)
  <2>1. /\ UNCHANGED <<status, byHand, waits, exec, raced>>
        /\ ctl[c].op = "pause" /\ ctl[c].at = "jobs"
        /\ ctl'[c].op = "pause" /\ ctl'[c].at = "mark" /\ ctl'[c].todo = ctl[c].todo
        /\ \A d \in Request \ {c} : ctl'[d] = ctl[d]
    BY <1>1 DEF PauseJobs, GoesOn, users, past, In, IInv, TypeOK
  <2>2. \A t \in Task : job'[t] = "live" \/ job[t] = "none" =>
          job'[t] = job[t] /\ (job'[t] = "live" => t \notin ctl[c].todo)
    BY <1>1 DEF PauseJobs, IInv, TypeOK
  <2>3. Untouched' /\ Waiting'
    BY <2>1, <2>2 DEF IInv, Untouched, Waiting
  <2>4. Pausing'
    BY <2>1, <2>2 DEF IInv, Pausing, In
  <2>5. Paused'
    BY <2>1, <2>2 DEF IInv, Paused
  <2> QED BY <2>3, <2>4, <2>5 DEF IInv
<1>2. CASE PauseMark(c)
  <2>1. /\ UNCHANGED <<job, exec, waits>> /\ raced \subseteq raced'
        /\ ctl[c].op = "pause" /\ ctl[c].at = "mark"
        /\ ctl'[c] = Idle
        /\ \A d \in Request \ {c} : ctl'[d] = ctl[d]
    BY <1>2 DEF PauseMark, Set, Ends, In, IInv, TypeOK
  <2>2. \A t \in Task : IF status[t] = "scheduled"
                        THEN status'[t] = "paused"
                        ELSE status'[t] = status[t] /\ (t \in byHand => t \in byHand')
    BY <1>2 DEF PauseMark, Set, Are, IInv, TypeOK
  <2>3. Untouched' /\ Waiting'
    <3>1. waits \subseteq Task
      BY DEF IInv, TypeOK
    <3> QED BY <2>1, <2>2, <3>1 DEF IInv, Untouched, Waiting, Idle
  <2>4. Pausing'
    BY <2>1, <2>2 DEF IInv, Pausing, In, Idle
  <2>5. \A t \in Task : status[t] = "scheduled" /\ job[t] = "live" => t \in raced
    BY <2>1 DEF IInv, Pausing, In
  <2>6. Paused'
    BY <2>1, <2>2, <2>5 DEF IInv, Paused
  <2> QED BY <2>3, <2>4, <2>6 DEF IInv
<1> QED BY <1>1, <1>2

LEMMA ResumeInv ==
  ASSUME IInv, TypeOK', NEW c \in Request, ResumeJobs(c) \/ ResumeMark(c)
  PROVE  IInv'
<1>1. CASE ResumeJobs(c)
  <2>1. /\ UNCHANGED <<status, byHand, waits, exec>> /\ ctl[c].op = "resume"
        /\ ctl'[c].op = "resume" /\ ctl'[c].todo = ctl[c].todo
        /\ \A d \in Request \ {c} : ctl'[d] = ctl[d]
        /\ raced \subseteq raced' /\ (UnderWay("pause") => ctl[c].todo \subseteq raced')
    BY <1>1 DEF ResumeJobs, GoesOn, In, users, IInv, TypeOK
  <2>2. \A t \in Task \ ctl[c].todo : job'[t] = job[t]
    BY <1>1 DEF ResumeJobs, Late, IInv, TypeOK
  <2>3. Untouched' /\ Waiting'
    BY <2>1, <2>2 DEF IInv, Untouched, Waiting
  <2>4. Pausing'
    BY <2>1, <2>2 DEF IInv, Pausing, In, UnderWay
  <2>5. Paused'
    BY <2>1, <2>2 DEF IInv, Paused
  <2> QED BY <2>3, <2>4, <2>5 DEF IInv
<1>2. CASE ResumeMark(c)
  <2>1. /\ UNCHANGED <<job, exec, waits>> /\ ctl[c].op = "resume" /\ ctl'[c] = Idle
        /\ \A d \in Request \ {c} : ctl'[d] = ctl[d]
        /\ raced \subseteq raced' /\ (UnderWay("pause") => Are("paused") \subseteq raced')
    BY <1>2 DEF ResumeMark, Set, Ends, In, IInv, TypeOK
  <2>2. \A t \in Task :
          /\ status'[t] # "paused"
          /\ status[t] # "paused" =>
               status'[t] = status[t] /\ (t \in byHand => t \in byHand')
    BY <1>2 DEF ResumeMark, Set, Are, IInv, TypeOK
  <2>3. \A t \in Task : status[t] = "paused" => status'[t] = "scheduled"
    BY <1>2 DEF ResumeMark, Set, Are, IInv, TypeOK
  <2>4. Untouched' /\ Waiting'
    <3>1. waits \subseteq Task
      BY DEF IInv, TypeOK
    <3> QED BY <2>1, <2>2, <2>3, <3>1 DEF IInv, Untouched, Waiting, Idle
  <2>5. Pausing'
    BY <2>1, <2>2 DEF IInv, Pausing, In, Are, UnderWay, Idle
  <2>6. Paused'
    BY <2>2 DEF Paused
  <2> QED BY <2>4, <2>5, <2>6 DEF IInv
<1> QED BY <1>1, <1>2

LEMMA EndInv ==
  ASSUME IInv, TypeOK', NEW c \in Request, EndActivation(c)
  PROVE  IInv'
<1>1. /\ UNCHANGED <<status, byHand, waits, job, exec, raced>> /\ ctl[c].op = "activate"
      /\ ctl'[c] = Idle /\ \A d \in Request \ {c} : ctl'[d] = ctl[d]
  BY DEF EndActivation, Ends, users, past, In, IInv, TypeOK
<1>2. Untouched' /\ Waiting'
  BY <1>1 DEF IInv, Untouched, Waiting, Idle
<1>3. Pausing' /\ Paused'
  BY <1>1 DEF IInv, Pausing, Paused, In, Idle
<1> QED BY <1>2, <1>3 DEF IInv

-----------------------------------------------------------------------------
(* Executions, the scheduler, restarts.                                     *)

(* An execution that goes on marks its task, and touches no job.            *)
LEMMA GoInv ==
  ASSUME IInv, TypeOK', NEW e \in Exec,
         Go(e) \/ LogFails(e) \/ GateFails(e) \/ \E t \in Task : Execute(e, t)
  PROVE  IInv'
<1>1. UNCHANGED <<job, ctl, raced, waits>>
  BY DEF Go, Gate, Block, Start, Work, Log, LogFails, GateFails, Execute, Set, users, past
<1>2. \A t \in Task : \/ status'[t] = status[t] /\ (t \in byHand => t \in byHand')
                      \/ status'[t] \in {"in_progress", "awaiting_connection",
                                         "completed", "failed"}
  BY DEF Go, Gate, Block, Start, Work, Log, LogFails, GateFails, Execute, Set, users,
     IInv, TypeOK
<1>3. Untouched' /\ Waiting'
  <2>1. waits \subseteq Task
    BY DEF IInv, TypeOK
  <2> QED BY <1>1, <1>2, <2>1 DEF IInv, Untouched, Waiting
<1>4. Pausing'
  BY <1>1, <1>2 DEF IInv, Pausing, In
<1>5. Paused'
  BY <1>1, <1>2 DEF IInv, Paused
<1> QED BY <1>3, <1>4, <1>5 DEF IInv

(* The scheduler takes jobs away and adds none.                             *)
LEMMA DueInv ==
  ASSUME IInv, TypeOK', NEW t \in Task, Due(t) \/ Overdue(t)
  PROVE  IInv'
<1>1. UNCHANGED <<status, byHand, waits, ctl, raced>>
  BY DEF Due, Fire, Skip, Overdue, users, past
<1>2. \A u \in Task : job'[u] = job[u] \/ (job[u] # "none" /\ job'[u] # "live")
  BY DEF Due, Fire, Skip, Overdue, IInv, TypeOK
<1>3. Untouched' /\ Waiting'
  BY <1>1, <1>2 DEF IInv, Untouched, Waiting
<1>4. Pausing' /\ Paused'
  BY <1>1, <1>2 DEF IInv, Pausing, Paused, In
<1> QED BY <1>3, <1>4 DEF IInv

LEMMA RestartInv ==
  ASSUME IInv, TypeOK', Restart
  PROVE  IInv'
<1>1. /\ UNCHANGED <<status, waits>>
      /\ \A t \in Task : job'[t] = "none"
      /\ \A c \in Request : ctl'[c] = Idle
      /\ \A e \in Exec : exec'[e] = Resting
  BY DEF Restart, users
<1> QED BY <1>1 DEF IInv, Untouched, Waiting, Pausing, Paused, Idle

LEMMA NextInv ==
  ASSUME IInv, [Next]_vars
  PROVE  IInv'
<1>1. TypeOK'
  BY TypeStep DEF IInv
<1>2. ASSUME NEW c \in Request, Ask(c) \/ Proceed(c)
      PROVE  IInv'
  <2>1. CASE Ask(c)
    BY <1>1, <2>1, ActivateInv, FindInv, PutInv DEF Ask
  <2>2. CASE PutJob(c)
    BY <1>1, <2>2, AddJobInv DEF PutJob, IInv, TypeOK, Control
  <2>3. CASE Proceed(c) /\ ~PutJob(c)
    BY <1>1, <2>3, AddJobInv, EndInv, PauseInv, ResumeInv DEF Proceed
  <2> QED BY <1>2, <2>1, <2>2, <2>3
<1>3. CASE UNCHANGED vars
  BY <1>1, <1>3 DEF IInv, Untouched, Waiting, Pausing, Paused, In, vars, users, past
<1>4. ASSUME NEW e \in Exec,
             Go(e) \/ LogFails(e) \/ GateFails(e) \/ \E t \in Task : Execute(e, t)
      PROVE  IInv'
  BY <1>1, <1>4, GoInv
<1>5. ASSUME NEW t \in Task, Due(t) \/ Overdue(t)
      PROVE  IInv'
  BY <1>1, <1>5, DueInv
<1>6. CASE Restart
  BY <1>1, <1>6, RestartInv
<1>7. ASSUME NEW c \in Request, Breaks(c)
      PROVE  IInv'
  BY <1>1, <1>7, BreaksInv
<1>8. ASSUME NEW new \in SUBSET Task, ActivateFails(new)
      PROVE  IInv'
  <2>1. PICK waiting \in SUBSET new : Insert(new, waiting)
    BY <1>8 DEF ActivateFails
  <2>2. UNCHANGED <<job, exec, raced>> /\ \A c \in Request : ctl'[c] = ctl[c]
    BY <1>8 DEF ActivateFails
  <2> QED BY <1>1, <2>1, <2>2, InsertInv
<1> QED BY <1>2, <1>3, <1>4, <1>5, <1>6, <1>7, <1>8 DEF Next

LEMMA AlwaysInv == Spec => []IInv /\ [][Next]_vars
<1> QED BY InitInv, NextInv, PTL DEF Spec

-----------------------------------------------------------------------------
(* Theorems.                                                                *)

(* Types: statuses, jobs, requests and executions hold what their           *)
(* definitions say.                                                         *)
THEOREM TypeCorrect == Spec => []TypeOK
<1>1. IInv => TypeOK
  BY DEF IInv
<1> QED BY <1>1, AlwaysInv, PTL

(* Pausing a plan stops its tasks: the scheduler starts a paused one only   *)
(* by hand, by a race, or while a resumption is under way.                  *)
THEOREM AlwaysStaysPaused == Spec => StaysPaused
<1>1. IInv => \A t \in Task : Fires(t) /\ status[t] = "paused" =>
                t \in byHand \cup raced \/ UnderWay("resume")
  BY DEF IInv, Paused, Fires, UnderWay
<1> QED BY <1>1, AlwaysInv, PTL DEF StaysPaused

(* A task created to wait for a person is never started by the scheduler    *)
(* before a user has set it to scheduled, or to paused.                     *)
THEOREM AlwaysWaitsForPerson == Spec => WaitsForPerson
<1>1. IInv => \A t \in waits : ~Fires(t)
  BY DEF IInv, TypeOK, Untouched, Fires
<1> QED BY <1>1, AlwaysInv, PTL DEF WaitsForPerson
=============================================================================
