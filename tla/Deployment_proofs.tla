--------------------------- MODULE Deployment_proofs ---------------------------
(***************************************************************************)
(* Proofs about Deployment, for any services and any bounds.                *)
(***************************************************************************)
EXTENDS Deployment, TLAPS

(* The deployment under way is the newest.  Its record says running, or      *)
(* succeeded once that could not be saved; it has an outcome when only its  *)
(* record is left to save, and keeps that one while it is rolled back.      *)
Outcome == IF run.phase = "save" THEN run.end \in {"succeeded", "failed", "rolled_back"}
           ELSE \/ run.end = "none"
                \/ run.phase = "undo" /\ run.end = "succeeded" /\ run.dep \in unsaved
Current ==
  /\ run.phase = "idle" <=> run.dep = 0
  /\ run.phase # "idle" =>
       /\ run.dep = last
       /\ \/ rec[run.dep].status = "running"
          \/ rec[run.dep].status = "succeeded" /\ run.dep \in unsaved
  /\ Outcome

(* Nothing is known of what has not been started.                           *)
Unknown ==
  \A d \in Dep :
    /\ d > last => /\ rec[d].status = "none" /\ job[d] = "none" /\ seen[d] = "none"
                   /\ cp[d] = "none" /\ follow[d] = "no"
    /\ seen[d] \in {"none", "succeeded", "failed"}

(* Whoever tells how a deployment ended is right, or soon will be, or was    *)
(* cut off, unless it is a success that could not be saved.                 *)
Good(d)   == rec[d].status = "succeeded" \/ (d = run.dep /\ run.end = "succeeded") \/ d \in cut
Failed(d) == rec[d].status # "succeeded" /\ (d = run.dep => run.end \in {"failed", "rolled_back"})
Truth(d) ==
  /\ "succeeded" \in {job[d], seen[d]} => Good(d)
  /\ "failed" \in {job[d], seen[d], cp[d]} => Failed(d)
  /\ cp[d] = "succeeded" => Good(d) /\ (rec[d].status = "succeeded" \/ d \in unread)
  /\ cp[d] = "rolled_back" => rec[d].status = "rolled_back"
Truthful == \A d \in Dep \ unsaved : Truth(d)

(* What the deployment under way has done to the site so far.               *)
Settled(s, image) == running[s] = image /\ tag[s] = image
Progress ==
  /\ run.phase \in {"retag", "up"} =>
       \A s \in Service \ run.todo :
         /\ tag[s] = Target(s)
         /\ run.phase = "retag" => running[s] = tag[s]
  /\ run.phase = "check" \/ (run.phase = "save" /\ run.end = "succeeded") =>
       \A s \in Service : Settled(s, Target(s))
  /\ run.phase = "check" => run.todo = {}
  /\ run.phase = "undo" => \A s \in Recorded \ run.todo : Settled(s, rec[Me].prev[s])
  /\ run.end = "rolled_back" => \A s \in Recorded : Settled(s, rec[Me].prev[s])

IInv ==
  /\ TypeOK /\ Current /\ Unknown /\ Truthful /\ RunningIsRun /\ Progress
  /\ RecordTellsWhatRuns

-----------------------------------------------------------------------------
(* Numbers and types.                                                       *)

LEMMA DepFacts ==
  /\ MaxDep \in Nat /\ Dep \subseteq Nat \ {0} /\ Image = 0..MaxDep + 1
  /\ Absent \in Image /\ Base \in Image /\ Dep \subseteq Image /\ Absent \notin Dep
BY DeploymentAssumption DEF Dep, Image, Absent, Base

LEMMA FailType ==
  ASSUME TypeOK, Fail \/ UNCHANGED fails
  PROVE  fails' \in 0..MaxFail
BY DeploymentAssumption DEF Fail, TypeOK

LEMMA Under ==
  ASSUME TypeOK, Current, run.phase # "idle"
  PROVE  /\ Me \in Dep /\ Me = last /\ rec[Me] \in Record
         /\ rec[Me].status # "running" => rec[Me].status = "succeeded" /\ Me \in unsaved
         /\ \A s \in Service : Target(s) \in Image /\ rec[Me].prev[s] \in Image
<1>1. /\ Me \in 0..MaxDep /\ Me # 0 /\ Me = last
      /\ rec[Me].status # "running" => rec[Me].status = "succeeded" /\ Me \in unsaved
  BY DEF TypeOK, Current, Me
<1>2. Me \in Dep
  BY <1>1, DeploymentAssumption DEF Dep
<1>3. rec[Me] \in Record
  BY <1>2 DEF TypeOK
<1>4. rec[Me].goal \in Images /\ rec[Me].prev \in Images
  BY <1>3 DEF Record
<1> QED BY <1>1, <1>2, <1>3, <1>4, DepFacts DEF Target, Images

-----------------------------------------------------------------------------
(* A deployment begins.                                                     *)

LEMMA StartInv ==
  ASSUME IInv, NEW rollback \in BOOLEAN, NEW goal \in Images, Start(rollback, goal)
  PROVE  IInv'
<1> DEFINE d == last + 1
           new == [status |-> "running", rollback |-> rollback,
                   prev |-> [s \in Service |-> Absent], goal |-> goal]
<1>0. TypeOK /\ Current /\ Unknown /\ Truthful /\ RunningIsRun /\ Progress
  BY DEF IInv
<1>1. d \in Dep /\ d # 0 /\ last' = d /\ d > last /\ \A e \in Dep : e > d => e > last
  BY <1>0, DeploymentAssumption DEF Start, Dep, TypeOK
<1>2. /\ rec' = [rec EXCEPT ![d] = new]
      /\ job' = [job EXCEPT ![d] = "running"]
      /\ run' = [dep |-> d, phase |-> "images", todo |-> Service, end |-> "none"]
      /\ run.phase = "idle"
      /\ UNCHANGED <<site, seen, crashes, past>>
  BY DEF Start
<1>3. /\ \/ cp' = [cp EXCEPT ![d] = "running"] /\ follow' = [follow EXCEPT ![d] = "wait"]
         \/ UNCHANGED <<cp, follow>>
      /\ Fail \/ UNCHANGED fails
  BY DEF Start
<1>4. new \in Record
  <2>1. [s \in Service |-> Absent] \in Images
    BY DepFacts DEF Images
  <2> QED BY <2>1 DEF Record, RecStatus
<1>5. /\ rec' \in [Dep -> Record] /\ job' \in [Dep -> JobStatus]
      /\ rec'[d] = new /\ job'[d] = "running"
      /\ \A e \in Dep \ {d} : rec'[e] = rec[e] /\ job'[e] = job[e]
  <2> HIDE DEF new, d
  <2>1. "running" \in JobStatus
    BY DEF JobStatus
  <2> QED BY <1>0, <1>1, <1>2, <1>4, <2>1 DEF TypeOK
<1>6. /\ cp' \in [Dep -> RecStatus \cup {"unknown"}]
      /\ follow' \in [Dep -> {"no", "wait", "fetch", "done"}]
      /\ cp'[d] # "succeeded"
      /\ \A e \in Dep \ {d} : cp'[e] = cp[e] /\ follow'[e] = follow[e]
  <2>1. cp[d] = "none"
    BY <1>0, <1>1 DEF Unknown
  <2> HIDE DEF d
  <2> QED BY <1>0, <1>1, <1>3, <2>1 DEF TypeOK, RecStatus
<1>7. /\ run'.dep = d /\ run'.phase = "images" /\ run'.end = "none" /\ run.dep = 0
      /\ run.end = "none"
  BY <1>0, <1>2 DEF Current, Outcome
<1>8. TypeOK'
  <2>1. fails' \in 0..MaxFail
    BY <1>0, <1>3, FailType
  <2>2. run' \in [dep : 0..MaxDep, phase : Phase, todo : SUBSET Service, end : RecStatus]
    BY <1>1, <1>2, DeploymentAssumption DEF Dep, Phase, RecStatus
  <2>3. last' \in 0..MaxDep
    BY <1>1, DeploymentAssumption DEF Dep
  <2> HIDE DEF d, new
  <2> QED BY <1>0, <1>2, <1>5, <1>6, <2>1, <2>2, <2>3 DEF TypeOK, site, past
<1> HIDE DEF d
<1>9. Current'
  BY <1>1, <1>5, <1>7 DEF Current, Outcome
<1>10. Unknown'
  <2>1. \A e \in Dep : e > last' => e # d /\ e > last
    BY <1>1, DepFacts
  <2> QED BY <1>0, <1>2, <1>5, <1>6, <2>1 DEF Unknown
<1>11. Truthful'
  <2>1. seen[d] = "none" /\ cp[d] = "none"
    BY <1>0, <1>1 DEF Unknown
  <2>2. ASSUME NEW e \in Dep \ unsaved, e = d PROVE Truth(e)'
    <3>1. seen'[e] = "none" /\ job'[e] = "running" /\ rec'[e].status = "running"
      BY <1>2, <1>5, <2>1, <2>2
    <3>2. cp'[e] \in {"none", "running"}
      BY <1>0, <1>3, <2>1, <2>2 DEF TypeOK
    <3> QED BY <3>1, <3>2 DEF Truth
  <2>3. ASSUME NEW e \in Dep \ unsaved, e # d PROVE Truth(e)'
    <3>1. Truth(e)
      BY <1>0, <2>3 DEF Truthful
    <3>2. e # run.dep /\ e # run'.dep
      BY <1>7, <2>3, DepFacts
    <3> QED BY <1>2, <1>5, <1>6, <1>7, <2>3, <3>1, <3>2 DEF Truth, Good, Failed, past
  <2> QED BY <1>2, <2>2, <2>3 DEF Truthful, past
<1>12. RunningIsRun'
  <2>1. ASSUME NEW e \in Dep, rec'[e].status = "running"
        PROVE  e = run'.dep \/ e \in cut'
    <3>1. CASE e = d
      BY <1>7, <3>1
    <3>2. CASE e # d
      <4>1. e # run.dep
        BY <1>7, DepFacts
      <4> QED BY <1>0, <1>2, <1>5, <2>1, <3>2, <4>1 DEF RunningIsRun, past
    <3> QED BY <3>1, <3>2
  <2> QED BY <2>1 DEF RunningIsRun
<1>13. Progress'
  BY <1>7 DEF Progress
<1>14. RecordTellsWhatRuns'
  BY <1>7 DEF RecordTellsWhatRuns, Newest
<1> QED BY <1>8, <1>9, <1>10, <1>11, <1>12, <1>13, <1>14 DEF IInv

-----------------------------------------------------------------------------
(* Steps of the deployment under way that leave its record's status.        *)

(* What such a step owes: types of what it writes, the outcome it leaves,    *)
(* and Progress.  The rest follows.                                         *)
LEMMA StepInv ==
  ASSUME IInv, TypeOK', run.phase # "idle", run'.phase # "idle", run'.dep = run.dep,
         Outcome', run.end \notin {"failed", "rolled_back"},
         run.end = "succeeded" => run'.end = "succeeded" \/ Me \in unsaved',
         \A d \in Dep \ {Me} : rec'[d] = rec[d] /\ job'[d] = job[d],
         \/ rec'[Me].status = rec[Me].status
         \/ rec'[Me].status = "succeeded" /\ Me \in unsaved',
         \/ job'[Me] = job[Me]
         \/ job'[Me] = "succeeded" /\ run'.end = "succeeded"
         \/ job'[Me] = "failed" /\ run'.end \in {"failed", "rolled_back"},
         unsaved \subseteq unsaved', unsaved' \subseteq unsaved \cup {Me},
         UNCHANGED <<last, plane, cut, unread>>, Progress'
  PROVE  IInv'
<1>0. TypeOK /\ Current /\ Unknown /\ Truthful /\ RunningIsRun
  BY DEF IInv
<1>1. /\ Me \in Dep /\ Me = last /\ Me = run.dep
      /\ rec[Me].status # "running" => rec[Me].status = "succeeded" /\ Me \in unsaved
  BY <1>0, Under DEF Me
<1>2. Current'
  BY <1>0, <1>1 DEF Current
<1>3. Unknown'
  <2>1. \A d \in Dep : d > last => d # Me
    BY <1>1, DepFacts
  <2> QED BY <1>0, <2>1 DEF Unknown, plane
<1>4. Truthful'
  <2>1. ASSUME NEW d \in Dep \ unsaved', d # Me PROVE Truth(d)'
    <3>1. Truth(d)
      BY <1>0, <2>1 DEF Truthful
    <3> QED BY <1>1, <2>1, <3>1 DEF Truth, Good, Failed, plane
  <2>2. ASSUME Me \notin unsaved' PROVE Truth(Me)'
    <3>1. Truth(Me) /\ rec[Me].status = "running" /\ rec'[Me].status = "running"
      BY <1>0, <1>1, <2>2 DEF Truthful
    <3>2. "failed" \notin {job[Me], seen[Me], cp[Me]}
      BY <1>1, <3>1 DEF Truth, Failed
    <3>3. Me' = Me /\ (Good(Me) => Good(Me)')
      BY <1>1, <2>2, <3>1 DEF Good, Me
    <3>4. "succeeded" \in {job'[Me], seen'[Me]} => Good(Me)'
      BY <1>1, <3>1, <3>3 DEF Truth, Good, plane
    <3>5. "failed" \in {job'[Me], seen'[Me], cp'[Me]} => Failed(Me)'
      BY <1>1, <3>1, <3>2, <3>3 DEF Failed, plane
    <3>6. /\ cp'[Me] = "succeeded" => Good(Me)' /\ Me \in unread'
          /\ cp'[Me] # "rolled_back"
      BY <3>1, <3>3 DEF Truth, plane
    <3> QED BY <3>3, <3>4, <3>5, <3>6 DEF Truth
  <2> QED BY <2>1, <2>2, <1>1 DEF Truthful, Me
<1>5. RunningIsRun'
  BY <1>0, <1>1 DEF RunningIsRun, Me
<1>6. RecordTellsWhatRuns'
  BY DEF RecordTellsWhatRuns, Newest
<1> QED BY <1>2, <1>3, <1>4, <1>5, <1>6 DEF IInv

LEMMA ForwardInv ==
  ASSUME IInv, RecordImages \/ Up \/ Pass \/ (\E s \in Service : Retag(s))
  PROVE  IInv'
<1>0. TypeOK /\ Current /\ Progress
  BY DEF IInv
<1>1. run.phase # "idle" /\ run.phase \in {"images", "retag", "up", "check"}
  BY DEF RecordImages, Up, Pass, Retag
<1>2. /\ Me \in Dep /\ Me = last /\ rec[Me] \in Record
      /\ \A s \in Service : Target(s) \in Image
  BY <1>0, <1>1, Under
<1>3. run.end = "none" /\ run \in [dep : 0..MaxDep, phase : Phase, todo : SUBSET Service,
                                   end : RecStatus]
      /\ running \in [Service -> Image] /\ tag \in [Service -> Image]
  BY <1>0, <1>1 DEF Current, Outcome, TypeOK, Images
<1>4. CASE RecordImages
  <2>1. PICK missed \in SUBSET Service :
          /\ IF missed = {} THEN UNCHANGED fails ELSE Fail
          /\ rec' = [rec EXCEPT
               ![Me].prev = [s \in Service |->
                              IF s \notin missed /\ running[s] # Absent
                                 /\ (s = First \/ ~rec[Me].rollback)
                              THEN running[s] ELSE Absent],
               ![Me].goal = [s \in Service |-> IF s \notin missed /\ running[s] # Absent
                                              THEN rec[Me].goal[s] ELSE Absent]]
    BY <1>2, <1>4 DEF RecordImages, TypeOK
  <2> DEFINE prev == [s \in Service |-> IF s \notin missed /\ running[s] # Absent
                                            /\ (s = First \/ ~rec[Me].rollback)
                                         THEN running[s] ELSE Absent]
             goal == [s \in Service |-> IF s \notin missed /\ running[s] # Absent
                                         THEN rec[Me].goal[s] ELSE Absent]
  <2>2. /\ rec' = [rec EXCEPT ![Me].prev = prev, ![Me].goal = goal]
        /\ run' = [run EXCEPT !.phase = "retag", !.todo = Service]
        /\ UNCHANGED <<site, last, job, plane, crashes, past>>
    BY <1>4, <2>1 DEF RecordImages, Phases
  <2>3. prev \in Images /\ goal \in Images
    BY <1>2, <1>3, DepFacts DEF Images, Record
  <2>4. fails' \in 0..MaxFail
    BY <1>0, <2>1, FailType
  <2> HIDE DEF prev, goal
  <2>5. /\ rec' \in [Dep -> Record]
        /\ rec'[Me].status = rec[Me].status
        /\ \A d \in Dep \ {Me} : rec'[d] = rec[d]
    BY <1>0, <1>2, <2>2, <2>3 DEF TypeOK, Record
  <2>6. /\ run'.dep = run.dep /\ run'.phase = "retag" /\ run'.todo = Service
        /\ run'.end = "none"
        /\ run' \in [dep : 0..MaxDep, phase : Phase, todo : SUBSET Service, end : RecStatus]
    BY <1>3, <2>2 DEF Phase
  <2>7. TypeOK'
    BY <1>0, <2>2, <2>4, <2>5, <2>6 DEF TypeOK, site, plane, past
  <2>8. Progress' /\ Outcome'
    BY <2>6 DEF Progress, Outcome
  <2> QED BY <1>1, <1>3, <2>2, <2>5, <2>6, <2>7, <2>8, StepInv DEF past
<1>5. ASSUME NEW s \in Service, Retag(s) PROVE IInv'
  <2>1. /\ run.phase = "retag" /\ s \in run.todo
        /\ tag' = [tag EXCEPT ![s] = Target(s)]
        /\ run' = [run EXCEPT !.phase = "up", !.todo = run.todo \ {s}]
        /\ UNCHANGED <<running, last, rec, job, plane, fails, crashes, past>>
    BY <1>5 DEF Retag
  <2>2. /\ run'.dep = run.dep /\ run'.phase = "up" /\ run'.todo = run.todo \ {s}
        /\ run'.end = "none"
        /\ run' \in [dep : 0..MaxDep, phase : Phase, todo : SUBSET Service, end : RecStatus]
    BY <1>3, <2>1 DEF Phase
  <2>3. /\ tag' \in [Service -> Image] /\ tag'[s] = Target(s)
        /\ \A t \in Service \ {s} : tag'[t] = tag[t]
    BY <1>2, <1>3, <2>1
  <2>4. TypeOK' /\ Outcome'
    BY <1>0, <2>1, <2>2, <2>3 DEF TypeOK, Outcome, plane, past, Images
  <2>5. \A t \in Service : Target(t)' = Target(t)
    BY <2>1, <2>2 DEF Target, Me
  <2>6. Progress'
    <3>1. \A t \in Service \ run'.todo : tag'[t] = Target(t)'
      BY <1>0, <2>1, <2>2, <2>3, <2>5 DEF Progress
    <3> QED BY <2>2, <3>1 DEF Progress
  <2> QED BY <1>1, <1>3, <2>1, <2>2, <2>4, <2>6, StepInv DEF past
<1>6. CASE Up
  <2>1. /\ run.phase = "up"
        /\ running' = [s \in Service |-> IF s \in run.todo THEN running[s] ELSE tag[s]]
        /\ run' = [run EXCEPT !.phase = IF run.todo = {} THEN "check" ELSE "retag",
                              !.todo = run.todo]
        /\ UNCHANGED <<tag, last, rec, job, plane, fails, crashes, past>>
    BY <1>6 DEF Up, Phases
  <2>2. /\ run'.dep = run.dep /\ run'.todo = run.todo /\ run'.end = "none"
        /\ run'.phase = IF run.todo = {} THEN "check" ELSE "retag"
        /\ run' \in [dep : 0..MaxDep, phase : Phase, todo : SUBSET Service, end : RecStatus]
    BY <1>3, <2>1 DEF Phase
  <2>3. /\ running' \in [Service -> Image]
        /\ \A t \in Service \ run.todo : running'[t] = tag[t]
    BY <1>3, <2>1
  <2>4. TypeOK' /\ Outcome'
    BY <1>0, <2>1, <2>2, <2>3 DEF TypeOK, Outcome, plane, past, Images
  <2>5. \A t \in Service : Target(t)' = Target(t)
    BY <2>1, <2>2 DEF Target, Me
  <2>6. \A t \in Service \ run.todo : tag[t] = Target(t)
    BY <1>0, <2>1 DEF Progress
  <2>7. Progress'
    BY ZenonT(30), <2>1, <2>2, <2>3, <2>5, <2>6 DEF Progress, Settled
  <2> QED BY <1>1, <1>3, <2>1, <2>2, <2>4, <2>7, StepInv DEF past
<1>7. CASE Pass
  <2>1. /\ run.phase = "check"
        /\ job' = [job EXCEPT ![Me] = "succeeded"]
        /\ run' = [run EXCEPT !.phase = "save", !.end = "succeeded"]
        /\ UNCHANGED <<site, last, rec, plane, fails, crashes, past>>
    BY <1>7 DEF Pass
  <2>2. /\ run'.dep = run.dep /\ run'.phase = "save" /\ run'.end = "succeeded"
        /\ run' \in [dep : 0..MaxDep, phase : Phase, todo : SUBSET Service, end : RecStatus]
    BY <1>3, <2>1 DEF Phase, RecStatus
  <2>3. /\ job' \in [Dep -> JobStatus]
        /\ \A d \in Dep \ {Me} : job'[d] = job[d]
    BY <1>0, <2>1 DEF TypeOK, JobStatus
  <2>4. TypeOK' /\ Outcome'
    BY <1>0, <2>1, <2>2, <2>3 DEF TypeOK, Outcome, site, plane, past
  <2>5. \A t \in Service : Settled(t, Target(t))'
    <3>1. \A t \in Service : Target(t)' = Target(t)
      BY <2>1, <2>2 DEF Target, Me
    <3> QED BY <1>0, <2>1, <3>1 DEF Progress, Settled, site
  <2>6. Progress'
    BY <2>2, <2>5 DEF Progress
  <2>7. job'[Me] = "succeeded"
    BY <1>0, <1>2, <2>1 DEF TypeOK
  <2> QED BY <1>1, <1>3, <2>1, <2>2, <2>3, <2>4, <2>6, <2>7, StepInv DEF past
<1> QED BY <1>4, <1>5, <1>6, <1>7

(* A failing step ends the job, or begins to undo.                          *)
LEMMA EndJobFacts ==
  ASSUME TypeOK, Me \in Dep, NEW status \in {"failed", "rolled_back"}, EndJob(status)
  PROVE  /\ job' \in [Dep -> JobStatus] /\ job'[Me] = "failed"
         /\ \A d \in Dep \ {Me} : job'[d] = job[d]
         /\ run'.dep = run.dep /\ run'.phase = "save" /\ run'.end = status
         /\ run' \in [dep : 0..MaxDep, phase : Phase, todo : SUBSET Service, end : RecStatus]
         /\ Outcome' /\ (status = "failed" => Progress')
BY DEF EndJob, TypeOK, JobStatus, Phase, RecStatus, Outcome, Progress

LEMMA FailingInv ==
  ASSUME IInv, StepFails
  PROVE  IInv'
<1>0. TypeOK /\ Current /\ Progress
  BY DEF IInv
<1>1. run.phase # "idle" /\ run.phase \in {"images", "retag", "up", "check"}
  BY DEF StepFails
<1>2. Me \in Dep /\ run.end = "none"
  BY <1>0, <1>1, Under DEF Current, Outcome
<1>3. running \in [Service -> Image] /\ tag \in [Service -> Image]
  BY <1>0 DEF TypeOK, Images
<1>4. /\ UNCHANGED <<tag, last, rec, plane, crashes, past>>
      /\ running' \in {running, [s \in Service |->
                         IF run.phase = "up" /\ s \notin run.todo THEN tag[s]
                                                                 ELSE running[s]]}
  BY DEF StepFails
<1>5. running' \in [Service -> Image] /\ fails' \in 0..MaxFail
  <2>1. fails' \in 0..MaxFail
    BY <1>0, FailType DEF StepFails
  <2> QED BY <1>3, <1>4, <2>1
<1>6. CASE EndJob("failed")
  <2>1. /\ job' \in [Dep -> JobStatus] /\ job'[Me] = "failed"
        /\ \A d \in Dep \ {Me} : job'[d] = job[d]
        /\ run'.dep = run.dep /\ run'.phase = "save" /\ run'.end = "failed"
        /\ run' \in [dep : 0..MaxDep, phase : Phase, todo : SUBSET Service, end : RecStatus]
        /\ Outcome' /\ Progress'
    BY <1>0, <1>2, <1>6, EndJobFacts
  <2>2. TypeOK'
    BY <1>0, <1>4, <1>5, <2>1 DEF TypeOK, plane, past, Images
  <2> QED BY <1>1, <1>2, <1>4, <2>1, <2>2, StepInv DEF past
<1>7. CASE Phases("undo", Recorded) /\ UNCHANGED job
  <2>1. Recorded \subseteq Service
    BY DEF Recorded
  <2>2. /\ run'.dep = run.dep /\ run'.phase = "undo" /\ run'.end = "none"
        /\ run'.todo = Recorded
        /\ run' \in [dep : 0..MaxDep, phase : Phase, todo : SUBSET Service, end : RecStatus]
    BY <1>0, <1>2, <1>7, <2>1 DEF Phases, TypeOK, Phase
  <2>3. TypeOK' /\ Outcome'
    BY <1>0, <1>4, <1>5, <1>7, <2>2 DEF TypeOK, Outcome, plane, past, Images
  <2>4. Recorded' = Recorded
    BY <1>4, <2>2 DEF Recorded, Me
  <2>5. Progress'
    BY <2>2, <2>4 DEF Progress
  <2> QED BY <1>1, <1>2, <1>4, <1>7, <2>2, <2>3, <2>5, StepInv DEF past
<1> QED BY <1>6, <1>7 DEF StepFails

LEMMA NoTargetInv ==
  ASSUME IInv, NEW s \in Service, NoTarget(s)
  PROVE  IInv'
<1>0. TypeOK /\ Current
  BY DEF IInv
<1>1. /\ run.phase # "idle" /\ run.phase = "retag" /\ EndJob("failed")
      /\ UNCHANGED <<site, last, rec, plane, fails, crashes, past>>
  BY DEF NoTarget
<1>2. Me \in Dep /\ run.end = "none"
  BY <1>0, <1>1, Under DEF Current, Outcome
<1>3. /\ job' \in [Dep -> JobStatus] /\ job'[Me] = "failed"
      /\ \A d \in Dep \ {Me} : job'[d] = job[d]
      /\ run'.dep = run.dep /\ run'.phase = "save" /\ run'.end = "failed"
      /\ run' \in [dep : 0..MaxDep, phase : Phase, todo : SUBSET Service, end : RecStatus]
      /\ Outcome' /\ Progress'
  BY <1>0, <1>1, <1>2, EndJobFacts
<1>4. TypeOK'
  BY <1>0, <1>1, <1>3 DEF TypeOK, site, plane, past
<1> QED BY <1>1, <1>2, <1>3, <1>4, StepInv DEF past

(* What the steps of an automatic rollback save.                            *)
LEMMA SavedFacts ==
  ASSUME TypeOK, Outcome, Me \in Dep, run.phase = "undo", rec' \in {rec, Remembered}
  PROVE  /\ rec' \in [Dep -> Record] /\ rec'[Me].prev = rec[Me].prev
         /\ rec'[Me].rollback = rec[Me].rollback /\ rec'[Me].goal = rec[Me].goal
         /\ \A d \in Dep \ {Me} : rec'[d] = rec[d]
         /\ \/ rec'[Me].status = rec[Me].status
            \/ rec'[Me].status = "succeeded" /\ Me \in unsaved
<1>1. CASE rec' = rec
  BY <1>1 DEF TypeOK
<1>2. CASE run.end = "succeeded" /\ rec' = [rec EXCEPT ![Me].status = "succeeded"]
  BY <1>2 DEF TypeOK, Record, RecStatus, Outcome, Me
<1> QED BY <1>1, <1>2 DEF Remembered

LEMMA UndoInv ==
  ASSUME IInv, Undone \/ \E s \in Service : Undo(s) \/ UndoFails(s)
  PROVE  IInv'
<1>0. TypeOK /\ Current /\ Progress /\ Outcome
  BY DEF IInv, Current
<1>1. run.phase = "undo" /\ run.phase # "idle"
  BY DEF Undone, Undo, UndoFails
<1>2. /\ Me \in Dep /\ run.end \notin {"failed", "rolled_back"}
      /\ run.end = "succeeded" => Me \in unsaved
      /\ \A s \in Service : rec[Me].prev[s] \in Image
  BY <1>0, <1>1, Under DEF Outcome, Me
<1>3. running \in [Service -> Image] /\ tag \in [Service -> Image]
  BY <1>0 DEF TypeOK, Images
<1>4. ASSUME NEW s \in Service, Undo(s) PROVE IInv'
  <2>1. /\ s \in run.todo
        /\ tag' = [tag EXCEPT ![s] = rec[Me].prev[s]]
        /\ running' = [running EXCEPT ![s] = rec[Me].prev[s]]
        /\ run' = [run EXCEPT !.todo = run.todo \ {s}]
        /\ rec' \in {rec, Remembered}
        /\ UNCHANGED <<last, job, plane, fails, crashes, past>>
    BY <1>4 DEF Undo
  <2>2. /\ run'.dep = run.dep /\ run'.phase = "undo" /\ run'.end = run.end
        /\ run'.todo = run.todo \ {s}
        /\ run' \in [dep : 0..MaxDep, phase : Phase, todo : SUBSET Service, end : RecStatus]
    BY <1>0, <1>1, <2>1 DEF TypeOK
  <2>3. /\ tag' \in [Service -> Image] /\ running' \in [Service -> Image]
        /\ tag'[s] = rec[Me].prev[s] /\ running'[s] = rec[Me].prev[s]
        /\ \A t \in Service \ {s} : tag'[t] = tag[t] /\ running'[t] = running[t]
    BY <1>2, <1>3, <2>1
  <2>4. /\ rec' \in [Dep -> Record] /\ rec'[Me].prev = rec[Me].prev
        /\ \A d \in Dep \ {Me} : rec'[d] = rec[d]
        /\ \/ rec'[Me].status = rec[Me].status
           \/ rec'[Me].status = "succeeded" /\ Me \in unsaved
    BY <1>0, <1>1, <1>2, <2>1, SavedFacts
  <2>5. TypeOK' /\ Outcome'
    BY <1>0, <1>1, <2>1, <2>2, <2>3, <2>4 DEF TypeOK, Outcome, plane, past, Images
  <2>6. Recorded' = Recorded /\ rec'[Me'].prev = rec[Me].prev
    BY <2>2, <2>4 DEF Recorded, Me
  <2>7. \A t \in Recorded \ run'.todo : Settled(t, rec[Me].prev[t])'
    <3>1. Recorded \subseteq Service
      BY DEF Recorded
    <3>2. \A t \in Recorded \ run.todo : Settled(t, rec[Me].prev[t])
      BY <1>0, <1>1 DEF Progress
    <3> QED BY <2>2, <2>3, <2>6, <3>1, <3>2 DEF Settled
  <2>8. Progress'
    BY <1>2, <2>2, <2>6, <2>7 DEF Progress
  <2> QED BY <1>1, <1>2, <2>1, <2>2, <2>4, <2>5, <2>8, StepInv DEF past
<1>5. ASSUME NEW s \in Service, UndoFails(s) PROVE IInv'
  <2>1. /\ tag' \in {tag, [tag EXCEPT ![s] = rec[Me].prev[s]]}
        /\ running' \in {running, [running EXCEPT ![s] = tag'[s]]}
        /\ rec' \in {rec, Remembered}
        /\ EndJob("failed")
        /\ UNCHANGED <<last, plane, crashes, past>>
    BY <1>5 DEF UndoFails
  <2>2. tag' \in [Service -> Image]
    BY <1>2, <1>3, <2>1
  <2>3. running' \in [Service -> Image] /\ fails' \in 0..MaxFail
    <3>1. fails' \in 0..MaxFail
      BY <1>0, <1>5, FailType DEF UndoFails
    <3> QED BY <1>3, <2>1, <2>2, <3>1
  <2>4. /\ job' \in [Dep -> JobStatus] /\ job'[Me] = "failed"
        /\ \A d \in Dep \ {Me} : job'[d] = job[d]
        /\ run'.dep = run.dep /\ run'.phase = "save" /\ run'.end = "failed"
        /\ run' \in [dep : 0..MaxDep, phase : Phase, todo : SUBSET Service, end : RecStatus]
        /\ Outcome' /\ Progress'
    BY <1>0, <1>2, <2>1, EndJobFacts
  <2>5. /\ rec' \in [Dep -> Record]
        /\ \A d \in Dep \ {Me} : rec'[d] = rec[d]
        /\ \/ rec'[Me].status = rec[Me].status
           \/ rec'[Me].status = "succeeded" /\ Me \in unsaved
    BY <1>0, <1>1, <1>2, <2>1, SavedFacts
  <2>6. TypeOK'
    BY <1>0, <2>1, <2>2, <2>3, <2>4, <2>5 DEF TypeOK, plane, past, Images
  <2> QED BY <1>1, <1>2, <2>1, <2>4, <2>5, <2>6, StepInv DEF past
<1>6. CASE Undone
  <2>1. /\ run.todo = {} /\ EndJob("rolled_back")
        /\ UNCHANGED <<site, last, rec, plane, fails, crashes, past>>
    BY <1>6 DEF Undone
  <2>2. /\ job' \in [Dep -> JobStatus] /\ job'[Me] = "failed"
        /\ \A d \in Dep \ {Me} : job'[d] = job[d]
        /\ run'.dep = run.dep /\ run'.phase = "save" /\ run'.end = "rolled_back"
        /\ run' \in [dep : 0..MaxDep, phase : Phase, todo : SUBSET Service, end : RecStatus]
        /\ Outcome'
    BY <1>0, <1>2, <2>1, EndJobFacts
  <2>3. TypeOK'
    BY <1>0, <2>1, <2>2 DEF TypeOK, site, plane, past
  <2>4. Recorded' = Recorded /\ rec'[Me'] = rec[Me]
    BY <2>1, <2>2 DEF Recorded, Me
  <2>5. \A t \in Recorded : Settled(t, rec[Me].prev[t])'
    <3>1. \A t \in Recorded : Settled(t, rec[Me].prev[t])
      BY <1>0, <1>1, <2>1 DEF Progress
    <3> QED BY <2>1, <2>4, <3>1 DEF Settled, site
  <2>6. Progress'
    BY <2>2, <2>4, <2>5 DEF Progress
  <2> QED BY <1>1, <1>2, <2>1, <2>2, <2>3, <2>6, StepInv DEF past
<1> QED BY <1>4, <1>5, <1>6

-----------------------------------------------------------------------------
(* The record is saved, or is not; the bridge stops.                        *)

(* When the deployment under way is over: what is left to show.             *)
LEMMA OverInv ==
  ASSUME IInv, TypeOK', run' = NoRun, UNCHANGED <<last, plane, site, unsaved, unread>>,
         \A d \in Dep : job'[d] \in {job[d], "gone"},
         \A d \in Dep : job[d] = "none" => job'[d] = "none",
         \A d \in Dep \ {Me} : rec'[d] = rec[d],
         cut \subseteq cut',
         Me \in Dep => \/ rec'[Me].status = run.end /\ run.phase = "save"
                       \/ Me \in cut' /\ rec'[Me].status = rec[Me].status,
         RecordTellsWhatRuns'
  PROVE  IInv'
<1>0. TypeOK /\ Current /\ Unknown /\ Truthful /\ RunningIsRun
  BY DEF IInv
<1>1. run'.phase = "idle" /\ run'.dep = 0 /\ run'.end = "none"
  BY DEF NoRun
<1>2. Current' /\ Progress'
  BY <1>1 DEF Current, Outcome, Progress
<1>3. Me \in Dep => /\ Me = last
                    /\ rec[Me].status # "running" => Me \in unsaved
  <2>1. Me \in Dep => run.phase # "idle"
    BY <1>0, DepFacts DEF Current, Me
  <2> QED BY <1>0, <2>1, Under
<1>4. Unknown'
  <2>1. \A d \in Dep : d > last => d # Me
    BY <1>3, DepFacts
  <2>2. \A d \in Dep : d > last => job'[d] = "none"
    BY <1>0, <2>1 DEF Unknown
  <2> QED BY <1>0, <2>1, <2>2 DEF Unknown, plane
<1>5. Truthful'
  <2>1. ASSUME NEW d \in Dep \ unsaved, d # Me PROVE Truth(d)'
    <3>1. Truth(d) /\ rec'[d] = rec[d] /\ job'[d] \in {job[d], "gone"}
      BY <1>0, <2>1 DEF Truthful
    <3>2. (Good(d) => Good(d)') /\ (Failed(d) => Failed(d)')
      BY <1>1, <2>1, <3>1, DepFacts DEF Good, Failed, Me
    <3> QED BY <3>1, <3>2 DEF Truth, plane
  <2>2. ASSUME Me \in Dep, Me \notin unsaved
        PROVE  /\ "succeeded" \in {job'[Me], seen'[Me]} =>
                    rec'[Me].status = "succeeded" \/ Me \in cut'
               /\ "failed" \in {job'[Me], seen'[Me], cp'[Me]} => rec'[Me].status # "succeeded"
               /\ cp'[Me] = "succeeded" =>
                    /\ rec'[Me].status = "succeeded" \/ Me \in cut'
                    /\ Me \in unread
               /\ cp'[Me] # "rolled_back"
    <3>1. Truth(Me) /\ rec[Me].status = "running" /\ job'[Me] \in {job[Me], "gone"}
      BY <1>0, <1>3, <2>2 DEF Truthful
    <3>2. Good(Me) => rec'[Me].status = "succeeded" \/ Me \in cut'
      BY <2>2, <3>1 DEF Good, Me
    <3>3. Failed(Me) => rec'[Me].status # "succeeded"
      BY <2>2, <3>1 DEF Failed, Me
    <3> QED BY <3>1, <3>2, <3>3 DEF Truth, plane
  <2>3. ASSUME NEW d \in Dep \ unsaved, d = Me PROVE Truth(d)'
    <3>1. d # run'.dep
      BY <1>1, DepFacts
    <3> QED BY <2>2, <2>3, <3>1 DEF Truth, Good, Failed
  <2> QED BY <2>1, <2>3 DEF Truthful
<1>6. RunningIsRun'
  <2>1. Me \in Dep => rec'[Me].status # "running" \/ Me \in cut'
    BY <1>0 DEF Current, Outcome
  <2> QED BY <1>0, <2>1 DEF RunningIsRun, Me
<1> QED BY <1>2, <1>4, <1>5, <1>6 DEF IInv

LEMMA SaveRecordInv ==
  ASSUME IInv, SaveRecord
  PROVE  IInv'
<1>0. TypeOK /\ Current /\ Progress
  BY DEF IInv
<1>1. /\ run.phase = "save" /\ run' = NoRun
      /\ rec' = [rec EXCEPT ![Me].status = run.end]
      /\ UNCHANGED <<site, last, job, plane, fails, crashes, past>>
  BY DEF SaveRecord
<1>2. /\ Me \in Dep /\ Me = last /\ rec[Me] \in Record
      /\ run.end \in {"succeeded", "failed", "rolled_back"}
  BY <1>0, <1>1, Under DEF Current, Outcome
<1>3. /\ rec' \in [Dep -> Record]
      /\ rec'[Me].status = run.end /\ rec'[Me].rollback = rec[Me].rollback
      /\ rec'[Me].prev = rec[Me].prev /\ rec'[Me].goal = rec[Me].goal
      /\ \A d \in Dep \ {Me} : rec'[d] = rec[d]
  BY <1>0, <1>1, <1>2 DEF TypeOK, Record, RecStatus
<1>4. TypeOK'
  <2>1. NoRun \in [dep : 0..MaxDep, phase : Phase, todo : SUBSET Service, end : RecStatus]
    BY DeploymentAssumption DEF NoRun, Phase, RecStatus
  <2> QED BY <1>0, <1>1, <1>3, <2>1 DEF TypeOK, site, plane, past
<1>5. RecordTellsWhatRuns'
  <2>1. last' = Me /\ site' = site
    BY <1>1, <1>2
  <2>2. run.end = "succeeded" =>
          \A s \in Service : running[s] = Target(s) /\ tag[s] = Target(s)
    BY <1>0, <1>1 DEF Progress, Settled
  <2>3. run.end = "rolled_back" =>
          \A s \in Service : rec[Me].prev[s] # Absent =>
            running[s] = rec[Me].prev[s] /\ tag[s] = rec[Me].prev[s]
    BY <1>0 DEF Progress, Settled, Recorded
  <2> QED BY <1>2, <1>3, <2>1, <2>2, <2>3 DEF RecordTellsWhatRuns, Target, site
<1> QED BY <1>1, <1>2, <1>3, <1>4, <1>5, OverInv DEF past

(* Nothing is told of a newest record that was cut off.                     *)
LEMMA CutTells ==
  ASSUME TypeOK, Current, Me # 0, Me \in cut', UNCHANGED <<last, rec, unsaved>>
  PROVE  RecordTellsWhatRuns'
<1>1. last = Me /\ (rec[last].status = "running" \/ last \in unsaved)
  BY DEF Current, Me
<1> QED BY <1>1 DEF RecordTellsWhatRuns

LEMMA SaveFailsInv ==
  ASSUME IInv, SaveFails
  PROVE  IInv'
<1>0. TypeOK /\ Current /\ Progress
  BY DEF IInv
<1>1. /\ run.phase = "save" /\ UNCHANGED <<site, last, rec, plane, crashes, unread>>
  BY DEF SaveFails
<1>2. /\ Me \in Dep /\ Me # 0 /\ run.end \in {"succeeded", "failed", "rolled_back"}
  BY <1>0, <1>1, Under, DepFacts DEF Current, Outcome
<1>3. fails' \in 0..MaxFail
  BY <1>0, FailType DEF SaveFails
<1>4. CASE run' = NoRun /\ cut' = cut \cup {Me} /\ UNCHANGED <<job, unsaved>>
  <2>1. NoRun \in [dep : 0..MaxDep, phase : Phase, todo : SUBSET Service, end : RecStatus]
    BY DeploymentAssumption DEF NoRun, Phase, RecStatus
  <2>2. TypeOK'
    BY <1>0, <1>1, <1>2, <1>3, <1>4, <2>1 DEF TypeOK, site, plane
  <2>3. RecordTellsWhatRuns'
    BY <1>0, <1>1, <1>2, <1>4, CutTells
  <2> QED BY <1>1, <1>4, <2>2, <2>3, OverInv
<1>5. ASSUME run.end = "succeeded", unsaved' = unsaved \cup {Me}, UNCHANGED cut
      PROVE  IInv'
  <2>1. CASE EndJob("failed")
    <3>1. /\ job' \in [Dep -> JobStatus] /\ job'[Me] = "failed"
          /\ \A d \in Dep \ {Me} : job'[d] = job[d]
          /\ run'.dep = run.dep /\ run'.phase = "save" /\ run'.end = "failed"
          /\ run' \in [dep : 0..MaxDep, phase : Phase, todo : SUBSET Service, end : RecStatus]
          /\ Outcome' /\ Progress'
      BY <1>0, <1>2, <2>1, EndJobFacts
    <3>2. TypeOK'
      BY <1>0, <1>1, <1>2, <1>3, <1>5, <3>1 DEF TypeOK, site, plane
    <3> QED BY <1>1, <1>5, <3>1, <3>2, StepInv
  <2>2. CASE Phases("undo", Recorded) /\ UNCHANGED job
    <3>1. Recorded \subseteq Service
      BY DEF Recorded
    <3>2. /\ run'.dep = run.dep /\ run'.phase = "undo" /\ run'.end = "succeeded"
          /\ run'.todo = Recorded
          /\ run' \in [dep : 0..MaxDep, phase : Phase, todo : SUBSET Service, end : RecStatus]
      BY <1>0, <1>5, <2>2, <3>1 DEF Phases, TypeOK, Phase
    <3>3. TypeOK' /\ Outcome'
      BY <1>0, <1>1, <1>2, <1>3, <1>5, <2>2, <3>2 DEF TypeOK, Outcome, site, plane, Me
    <3>4. Recorded' = Recorded
      BY <1>1, <3>2 DEF Recorded, Me
    <3>5. Progress'
      BY <3>2, <3>4 DEF Progress
    <3> QED BY <1>1, <1>5, <2>2, <3>2, <3>3, <3>5, StepInv
  <2> QED BY <1>5, <2>1, <2>2 DEF SaveFails
<1> QED BY <1>4, <1>5 DEF SaveFails

LEMMA BridgeRestartInv ==
  ASSUME IInv, BridgeRestart
  PROVE  IInv'
<1>0. TypeOK /\ Current
  BY DEF IInv
<1>1. /\ run' = NoRun /\ cut' = IF Me # 0 THEN cut \cup {Me} ELSE cut
      /\ UNCHANGED <<site, last, rec, plane, fails, unsaved, unread>>
      /\ job' \in {[d \in Dep |-> IF job[d] = "running" THEN "gone" ELSE job[d]],
                   [d \in Dep |-> IF job[d] = "running" \/ (d = Me /\ job[d] # "none")
                                    THEN "gone" ELSE job[d]]}
  BY DEF BridgeRestart
<1>2. Me \in 0..MaxDep /\ (Me # 0 => Me \in Dep)
  BY <1>0, DeploymentAssumption DEF TypeOK, Me, Dep
<1>3. /\ job' \in [Dep -> JobStatus]
      /\ \A d \in Dep : job'[d] \in {job[d], "gone"}
      /\ \A d \in Dep : job[d] = "none" => job'[d] = "none"
  BY <1>0, <1>1 DEF TypeOK, JobStatus
<1>4. TypeOK'
  <2>1. NoRun \in [dep : 0..MaxDep, phase : Phase, todo : SUBSET Service, end : RecStatus]
    BY DeploymentAssumption DEF NoRun, Phase, RecStatus
  <2>2. cut' \subseteq Dep
    BY <1>0, <1>1, <1>2 DEF TypeOK
  <2>3. crashes' \in 0..MaxCrash
    BY <1>0, DeploymentAssumption DEF BridgeRestart, TypeOK
  <2> QED BY <1>0, <1>1, <1>3, <2>1, <2>2, <2>3 DEF TypeOK, site, plane
<1>5. RecordTellsWhatRuns'
  <2>1. CASE Me # 0
    BY <1>0, <1>1, <2>1, CutTells
  <2>2. CASE Me = 0
    <3>1. run.phase = "idle"
      BY <1>0, <2>2 DEF Current, Me
    <3> QED BY <1>1, <3>1 DEF IInv, RecordTellsWhatRuns, Newest, site
  <2> QED BY <2>1, <2>2
<1>6. Me \in Dep => Me # 0
  BY DepFacts
<1> QED BY <1>1, <1>3, <1>4, <1>5, <1>6, OverInv

-----------------------------------------------------------------------------
(* The follower.                                                            *)

LEMMA FollowInv ==
  ASSUME IInv,
         PlaneRestart \/ \E d \in Dep : Watch(d) \/ ContactLost(d) \/ FetchFails(d) \/ FollowerDies(d)
  PROVE  IInv'
<1>0. TypeOK /\ Current /\ Unknown /\ Truthful /\ RunningIsRun /\ Progress
      /\ RecordTellsWhatRuns
  BY DEF IInv
<1>1. UNCHANGED <<site, last, rec, job, run, cut, unsaved>> /\ unread \subseteq unread'
  BY DEF PlaneRestart, Watch, JobEnded, JobGone, Fetch, ContactLost, FetchFails, FollowerDies,
         past
<1>2. (Current /\ RunningIsRun /\ RecordTellsWhatRuns)'
  BY <1>0, <1>1 DEF Current, Outcome, RunningIsRun, RecordTellsWhatRuns, Newest, site
<1>3. Progress'
  BY <1>0, <1>1 DEF Progress, Settled, Target, Recorded, Me, site
<1>4. \A d \in Dep : (Good(d)' <=> Good(d)) /\ (Failed(d)' <=> Failed(d))
  BY <1>1 DEF Good, Failed
<1>5. fails' \in 0..MaxFail /\ crashes' \in 0..MaxCrash
  <2>1. fails' \in 0..MaxFail
    BY <1>0, FailType DEF PlaneRestart, Watch, JobEnded, JobGone, Fetch, ContactLost, FetchFails,
           FollowerDies
  <2>2. crashes' \in 0..MaxCrash
    BY <1>0, DeploymentAssumption
       DEF PlaneRestart, Watch, JobEnded, JobGone, Fetch, ContactLost, FetchFails,
           FollowerDies, TypeOK, past
  <2> QED BY <2>1, <2>2
\* what is left to show of what a follower writes
<1>6. ASSUME plane' \in [Dep -> RecStatus \cup {"unknown"}] \X
                        [Dep -> {"no", "wait", "fetch", "done"}] \X [Dep -> JobStatus],
             Unknown', Truthful', unread' \subseteq Dep
      PROVE  IInv'
  BY <1>0, <1>1, <1>2, <1>3, <1>5, <1>6 DEF IInv, TypeOK, plane, site
\* one who only stops, or reads the job
<1>7. ASSUME NEW d \in Dep, JobEnded(d) PROVE IInv'
  <2>1. /\ job[d] \in {"succeeded", "failed"} /\ follow[d] = "wait"
        /\ follow' = [follow EXCEPT ![d] = "fetch"]
        /\ seen' = [seen EXCEPT ![d] = job[d]]
        /\ UNCHANGED <<cp, unread>>
    BY <1>7 DEF JobEnded, past
  <2>2. /\ follow' \in [Dep -> {"no", "wait", "fetch", "done"}] /\ seen' \in [Dep -> JobStatus]
        /\ seen'[d] = job[d] /\ follow'[d] = "fetch"
        /\ \A e \in Dep \ {d} : seen'[e] = seen[e] /\ follow'[e] = follow[e]
    BY <1>0, <2>1 DEF TypeOK
  <2>3. Unknown'
    <3>1. ~(d > last)
      BY <1>0, <2>1 DEF Unknown
    <3> QED BY <1>0, <1>1, <2>1, <2>2, <3>1 DEF Unknown
  <2>4. ASSUME NEW e \in Dep \ unsaved PROVE Truth(e)'
    <3>1. Truth(e)
      BY <1>0 DEF Truthful
    <3>2. seen'[e] \in {seen[e], job[e]}
      BY <2>2
    <3> QED BY <1>1, <1>4, <2>1, <3>1, <3>2 DEF Truth
  <2>5. Truthful'
    BY <1>1, <2>4 DEF Truthful
  <2> QED BY <1>0, <1>6, <2>1, <2>2, <2>3, <2>5 DEF TypeOK, plane
<1>8. ASSUME PlaneRestart \/ \E d \in Dep : FollowerDies(d) PROVE IInv'
  <2>1. /\ follow' \in [Dep -> {"no", "wait", "fetch", "done"}]
        /\ \A e \in Dep : follow[e] = "no" => follow'[e] = "no"
        /\ UNCHANGED <<cp, seen, unread>>
    BY <1>0, <1>8 DEF PlaneRestart, FollowerDies, TypeOK, past
  <2>2. Unknown'
    BY <1>0, <1>1, <2>1 DEF Unknown
  <2>3. Truthful'
    BY <1>0, <1>1, <1>4, <2>1 DEF Truthful, Truth
  <2> QED BY <1>0, <1>6, <2>1, <2>2, <2>3 DEF TypeOK, plane
\* one who reports a status
<1>9. ASSUME NEW d \in Dep, NEW status \in RecStatus \cup {"unknown"}, Report(d, status),
             UNCHANGED seen, follow[d] \in {"wait", "fetch"}, unread' \subseteq Dep,
             d \notin unsaved =>
               /\ status = "succeeded" => Good(d) /\ (rec[d].status = "succeeded" \/ d \in unread')
               /\ status = "failed" => Failed(d)
               /\ status = "rolled_back" => rec[d].status = "rolled_back"
      PROVE  IInv'
  <2>1. /\ cp' \in [Dep -> RecStatus \cup {"unknown"}]
        /\ follow' \in [Dep -> {"no", "wait", "fetch", "done"}]
        /\ cp'[d] = status
        /\ \A e \in Dep \ {d} : cp'[e] = cp[e] /\ follow'[e] = follow[e]
    BY <1>0, <1>9 DEF Report, TypeOK
  <2>2. Unknown'
    <3>1. ~(d > last)
      BY <1>0, <1>9 DEF Unknown
    <3> QED BY <1>0, <1>1, <1>9, <2>1, <3>1 DEF Unknown
  <2>3. Truthful'
    <3>1. ASSUME NEW e \in Dep \ unsaved, e # d PROVE Truth(e)'
      <4>1. Truth(e)
        BY <1>0, <3>1 DEF Truthful
      <4> QED BY <1>1, <1>4, <1>9, <2>1, <3>1, <4>1 DEF Truth
    <3>2. ASSUME d \notin unsaved PROVE Truth(d)'
      <4>1. Truth(d)
        BY <1>0, <3>2 DEF Truthful
      <4> QED BY <1>1, <1>4, <1>9, <2>1, <3>2, <4>1 DEF Truth
    <3> QED BY <1>1, <3>1, <3>2 DEF Truthful
  <2> QED BY <1>0, <1>6, <1>9, <2>1, <2>2, <2>3 DEF TypeOK, plane
<1>10. ASSUME NEW d \in Dep, JobGone(d) \/ ContactLost(d) PROVE IInv'
  <2>1. Report(d, "unknown") /\ UNCHANGED <<seen, unread>> /\ follow[d] = "wait"
    BY <1>10 DEF JobGone, ContactLost, past
  <2> QED BY <1>0, <1>9, <2>1 DEF TypeOK
<1>11. ASSUME NEW d \in Dep, Fetch(d) PROVE IInv'
  <2>1. /\ Report(d, rec[d].status) /\ UNCHANGED <<seen, unread>> /\ follow[d] = "fetch"
        /\ rec[d].status \in RecStatus
    BY <1>0, <1>11 DEF Fetch, TypeOK, Record, past
  <2>2. rec[d].status \in {"failed", "rolled_back"} => d # run.dep
    BY <1>0, DepFacts DEF Current
  <2> QED BY <1>0, <1>9, <2>1, <2>2 DEF Good, Failed, TypeOK
<1>12. ASSUME NEW d \in Dep, FetchFails(d) PROVE IInv'
  <2>1. /\ Report(d, seen[d]) /\ UNCHANGED seen /\ unread' = unread \cup {d}
        /\ follow[d] = "fetch" /\ seen[d] \in {"none", "succeeded", "failed"}
    BY <1>0, <1>12 DEF FetchFails, Unknown
  <2>2. d \notin unsaved => Truth(d)
    BY <1>0 DEF Truthful
  <2> QED BY <1>0, <1>9, <2>1, <2>2 DEF Truth, TypeOK, RecStatus
<1> QED BY <1>7, <1>8, <1>10, <1>11, <1>12 DEF Watch

-----------------------------------------------------------------------------
(* The invariant, and what follows from it.                                 *)

LEMMA InitInv == Init => IInv
<1> SUFFICES ASSUME Init PROVE IInv
  OBVIOUS
<1>1. run.phase = "idle" /\ run.dep = 0 /\ run.end = "none"
  BY DEF Init, NoRun
<1>2. \A d \in Dep : /\ rec[d].status = "none" /\ job[d] = "none" /\ seen[d] = "none"
                     /\ cp[d] = "none" /\ follow[d] = "no"
  BY DEF Init
<1>3. TypeOK
  <2>1. [s \in Service |-> Absent] \in Images /\ running \in Images /\ tag \in Images
    BY DepFacts DEF Init, Images
  <2>2. rec \in [Dep -> Record]
    BY <2>1 DEF Init, Record, RecStatus
  <2>3. run \in [dep : 0..MaxDep, phase : Phase, todo : SUBSET Service, end : RecStatus]
    BY DeploymentAssumption DEF Init, NoRun, Phase, RecStatus
  <2>4. /\ last \in 0..MaxDep /\ fails \in 0..MaxFail /\ crashes \in 0..MaxCrash
        /\ cut \subseteq Dep /\ unsaved \subseteq Dep /\ unread \subseteq Dep
    BY DeploymentAssumption DEF Init
  <2>5. /\ job \in [Dep -> JobStatus] /\ seen \in [Dep -> JobStatus]
        /\ cp \in [Dep -> RecStatus \cup {"unknown"}]
        /\ follow \in [Dep -> {"no", "wait", "fetch", "done"}]
    BY DEF Init, JobStatus, RecStatus
  <2> QED BY <2>1, <2>2, <2>3, <2>4, <2>5 DEF TypeOK
<1>4. RecordTellsWhatRuns
  BY DEF Init, RecordTellsWhatRuns, Newest
<1> QED BY <1>1, <1>2, <1>3, <1>4
     DEF IInv, Current, Outcome, Unknown, Truthful, Truth, RunningIsRun, Progress

LEMMA NextInv == IInv /\ [Next]_vars => IInv'
<1> SUFFICES ASSUME IInv, [Next]_vars PROVE IInv'
  OBVIOUS
<1>1. CASE Deploy
  <2>1. [s \in Service |-> Absent] \in Images
    BY DepFacts DEF Images
  <2> QED BY <1>1, <2>1, StartInv DEF Deploy
<1>2. ASSUME NEW d \in Dep, Rollback(d) PROVE IInv'
  <2>1. rec[d].prev \in Images
    BY DEF IInv, TypeOK, Record
  <2> QED BY <1>2, <2>1, StartInv DEF Rollback
<1>3. CASE UNCHANGED vars
  <2>1. UNCHANGED <<running, tag, last, rec, job, run, cp, follow, seen, fails, crashes, cut,
                    unsaved, unread>>
    BY <1>3 DEF vars, site, plane, past
  <2> QED BY <2>1 DEF IInv, TypeOK, Current, Outcome, Unknown, Truthful, Truth, Good, Failed,
           RunningIsRun, Progress, Settled, Target, Recorded, Me, RecordTellsWhatRuns, Newest
<1> QED
  BY <1>1, <1>2, <1>3, ForwardInv, FailingInv, NoTargetInv, UndoInv, SaveRecordInv, SaveFailsInv,
     BridgeRestartInv, FollowInv DEF Next, Step

LEMMA Inductive == Spec => []IInv
<1> QED BY InitInv, NextInv, PTL DEF Spec

(* Every variable keeps its type.                                           *)
THEOREM TypeCorrect == Spec => []TypeOK
<1>1. IInv => TypeOK
  BY DEF IInv
<1> QED BY <1>1, Inductive, PTL

(* execute and its automatic rollback: whatever fails on the way, a record  *)
(* that says succeeded or rolled back tells which images run, and which a   *)
(* recreated container would get, but for a success that could not be saved *)
(* and whose rollback was cut off.                                          *)
THEOREM RecordsTellWhatRuns == Spec => []RecordTellsWhatRuns
<1>1. IInv => RecordTellsWhatRuns
  BY DEF IInv
<1> QED BY <1>1, Inductive, PTL

(* _follow_deployment: the end of a deployment in the control plane's       *)
(* history is the end the bridge recorded, but for a follower that could    *)
(* not get the record, and a success that the bridge could not save.        *)
THEOREM HistoryIsAlwaysTrue == Spec => []HistoryIsTrue
<1>1. IInv => HistoryIsTrue
  BY DEF IInv, Truthful, Truth, Good, Failed, HistoryIsTrue
<1> QED BY <1>1, Inductive, PTL

(* execute: no failing step leaves a record at running behind.              *)
THEOREM RunningAlwaysRuns == Spec => []RunningIsRun
<1>1. IInv => RunningIsRun
  BY DEF IInv
<1> QED BY <1>1, Inductive, PTL
=============================================================================
