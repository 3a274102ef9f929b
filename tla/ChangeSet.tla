------------------------------ MODULE ChangeSet ------------------------------
(***************************************************************************)
(* The control plane's change-set pipeline                                 *)
(*                                                                         *)
(*   plan -> validate -> submit -> review -> apply -> (roll back)          *)
(*                                                                         *)
(* for one change set.  Every request is a coroutine: it reads the         *)
(* document, checks it, waits (for the bridge, for the database) and then  *)
(* writes with _save, which succeeds only if the status is still one of    *)
(* those it expects.  Between the read and the write other requests run,   *)
(* so a slot keeps the document it saw.  The apply and the rollback on the *)
(* bridge go over a network that loses requests and delivers them late;    *)
(* the bridge itself is atomic here (BridgeEngine shows that it is) and    *)
(* remembers the answer to each idempotency key.                           *)
(***************************************************************************)
EXTENDS Naturals, FiniteSets

CONSTANTS
  Slot,         \* coroutines that can be under way at the same time
  User,         \* people; each may edit, review and apply
  Policy,       \* the actor of an automatic approval
  Content,      \* what the site can hold; also what operations can write
  Refused,      \* operations the bridge finds invalid
  Reason,       \* why a rollback is asked for
  NoDiff,       \* the empty diff: nothing to change, or no valid plan
  Creator,      \* the user who creates the change set
  First,        \* the operations it is created with
  SelfApproval, \* the site is not production and its policy allows it
  AutoApply,    \* the site's auto-apply policy matches this change set
  MustValidate, \* it has file operations, and the policy wants them validated
  EarlyAccess,  \* others find the draft before create has planned it
  MaxRequest,   \* bound: requests made after the change set was created
  MaxRev,       \* bound: revisions of the site
  MaxOther,     \* bound: changes of the site or its settings by anyone else
  MaxLoss,      \* bound: requests or answers lost, or too late
  MaxCrash      \* bound: restarts of the control plane, and coroutines that
                \* die of an error nothing catches

ASSUME ChangeSetAssumption ==
  /\ Policy \notin User /\ Creator \in User
  /\ First \in Content /\ Refused \subseteq Content
  /\ NoDiff \notin [from : Content, to : Content]
  /\ {SelfApproval, AutoApply, MustValidate, EarlyAccess} \subseteq BOOLEAN
  /\ {MaxRequest, MaxRev, MaxOther, MaxLoss, MaxCrash} \subseteq Nat

VARIABLES
  cs,       \* the document of the change set in db.changesets
  req,      \* req[q]: the request or background task in slot q
  site,     \* the site: its files and its current revision
  writes,   \* writes are enabled for the site
  filed,    \* db.revisions: the revisions on file
  wire,     \* requests on their way to the bridge
  answers,  \* the bridge's idempotency store
  budget,   \* what is left of the bounds
  hands,    \* history: users who created, edited or submitted while nobody
            \* else was about to edit, submit or approve
  granted   \* history: diffs that were approved

vars == <<cs, req, site, writes, filed, wire, answers, budget, hands, granted>>

Status == {"draft", "planned", "plan_failed", "validating", "validated",
           "validation_failed", "pending_approval", "approved", "rejected",
           "applying", "applied", "apply_failed", "rolled_back", "cancelled"}
EDITABLE_STATES == {"draft", "planned", "plan_failed", "validation_failed",
                    "rejected"}
TERMINAL_STATES == {"applied", "rolled_back", "cancelled"}
PRE_APPLY_CANCELLABLE ==
  {"draft", "planned", "plan_failed", "validating", "validated",
   "validation_failed", "pending_approval", "approved", "rejected"}
Replannable == EDITABLE_STATES \cup
               {"validated", "pending_approval", "approved", "apply_failed"}
Validatable == {"planned", "validated", "validation_failed", "pending_approval"}

Actor == User \cup {Policy}
Rev   == 0..MaxRev    \* 0 is null: no revision
Diff  == [from : Content, to : Content] \cup {NoDiff}

Plan       == [valid : BOOLEAN, diff : Diff, base : Rev]
Validation == [ok : BOOLEAN, diff : Diff]
Approval   == [by : Actor, diff : Diff]
NoPlan       == [valid |-> FALSE, diff |-> NoDiff, base |-> 0]
NoValidation == [ok |-> FALSE, diff |-> NoDiff]

Document == [status : Status, operations : Content, authors : SUBSET User,
             submitted_by : Actor, plan : Plan, validation : Validation,
             approvals : SUBSET Approval, revision : Rev]

Why == Reason \cup {""}    \* "": the request is no rollback

\* What the bridge is asked, and what it answers.  The idempotency key of an
\* apply is its diff, that of a rollback the revision it undoes.
Apply    == [op : {"apply"}, diff : Diff, operations : Content, base : Rev]
Rollback == [op : {"rollback"}, revision : Rev, reason : Why]
Answer   == [to : Apply \cup Rollback, ok : BOOLEAN, revision : Rev]

\* Where a coroutine waits: what it does next.
Step == {"idle", "plan_new", "create", "update", "retitle", "reread", "plan",
         "replan", "validate", "run", "verdict", "submit", "submit_auto",
         "auto", "auto_approve", "auto_apply", "approve", "reject", "apply",
         "applying", "record", "finish", "fail", "rolling_back", "mark",
         "insert", "close", "cancel"}
Request == [at : Step, by : Actor, operations : Content, saw : Document,
            plan : Plan, revision : Rev, reason : Why]

Filed  == [revision : Rev, kind : {"apply", "rollback"},
           status : {"applied", "reverted"}]
Budget == [request : 0..MaxRequest, other : 0..MaxOther, loss : 0..MaxLoss,
           crash : 0..MaxCrash]

TypeOK ==
  /\ cs \in Document
  /\ req \in [Slot -> Request]
  /\ site \in [content : Content, revision : Rev]
  /\ writes \in BOOLEAN
  /\ filed \subseteq Filed
  /\ wire \subseteq Apply \cup Rollback
  /\ answers \subseteq Answer
  /\ budget \in Budget
  /\ hands \subseteq User
  /\ granted \subseteq Diff

-----------------------------------------------------------------------------
(* Reading and saving the document.                                        *)

Draft == [status |-> "draft", operations |-> First, authors |-> {Creator},
          submitted_by |-> Policy, plan |-> NoPlan, validation |-> NoValidation,
          approvals |-> {}, revision |-> 0]

NoRequest == [at |-> "idle", by |-> Policy, operations |-> First,
              saw |-> Draft, plan |-> NoPlan, revision |-> 0, reason |-> ""]

\* A request arrives and reads the document; what it checks is in the action
\* that starts it, and r holds what it will use of the document later.  It
\* cannot know the id of a change set that is being created unless it lists
\* the drafts.
Arrive(q, r) ==
  /\ req[q].at = "idle"
  /\ budget.request > 0
  /\ EarlyAccess \/ \A s \in Slot : req[s].at \notin {"plan_new", "create"}
  /\ req' = [req EXCEPT ![q] = r]
  /\ budget' = [budget EXCEPT !.request = @ - 1]

Go(q, step) ==
  req' = [req EXCEPT ![q] = IF step = "idle" THEN NoRequest
                            ELSE [@ EXCEPT !.at = step]]

Lost == budget.loss > 0 /\ budget' = [budget EXCEPT !.loss = @ - 1]

Broken == budget.crash > 0 /\ budget' = [budget EXCEPT !.crash = @ - 1]

\* Bug: writes whatever the status is by now.
SaveAnyway(q, expected, doc, step) == cs' = doc /\ Go(q, step)

\* _save: the write happens if the status is one of those expected, else the
\* request ends with 409.
Save(q, expected, doc, step) ==
  IF cs.status \in expected THEN cs' = doc /\ Go(q, step)
                            ELSE UNCHANGED cs /\ Go(q, "idle")

\* The coroutines that add to the authors or that have looked at them.
Signing == {"update", "retitle", "submit", "submit_auto"}

\* Bookkeeping: the user signs, and no other coroutine has read the authors
\* before and is still to use them.
Sign(q, done) ==
  hands' = IF done /\ \A s \in Slot \ {q} : req[s].at \notin Signing \cup {"approve"}
           THEN hands \cup {req[q].by} ELSE hands

-----------------------------------------------------------------------------
(* Planning: create, update, re-plan.                                      *)

DiffOf(a, b) == IF a = b THEN NoDiff ELSE [from |-> a, to |-> b]

\* What the bridge answers to POST /changesets/plan now.
PlanOf(o) ==
  IF o \in Refused THEN NoPlan
  ELSE [valid |-> TRUE, diff |-> DiffOf(site.content, o),
        base |-> site.revision]

PlanStatus(p) == IF p.valid THEN "planned" ELSE "plan_failed"

\* The bridge plans for a create or for a re-plan.
ReadPlan(q) ==
  /\ req[q].at \in {"plan_new", "plan"}
  /\ req' = [req EXCEPT
       ![q].plan = PlanOf(req[q].operations),
       ![q].at = IF req[q].at = "plan_new" THEN "create" ELSE "replan"]
  /\ UNCHANGED <<cs, site, writes, filed, wire, answers, budget, hands, granted>>

\* The bridge cannot be reached: the request fails.
NoPlanRead(q) ==
  /\ req[q].at \in {"plan_new", "plan"}
  /\ Lost /\ Go(q, "idle")
  /\ UNCHANGED <<cs, site, writes, filed, wire, answers, hands, granted>>

\* create_changeset saves its plan whatever the status is by now.
Create(q) ==
  /\ req[q].at = "create"
  /\ Save(q, Status, [cs EXCEPT !.plan = req[q].plan,
                                !.status = PlanStatus(req[q].plan)], "idle")
  /\ UNCHANGED <<site, writes, filed, wire, answers, budget, hands, granted>>

\* A title alone (retitle) leaves the operations as they are.
StartUpdate(q, u, o) ==
  /\ cs.status \in EDITABLE_STATES
  /\ \/ Arrive(q, [NoRequest EXCEPT !.at = "update", !.by = u,
                      !.operations = o, !.saw.authors = cs.authors])
     \/ Arrive(q, [NoRequest EXCEPT !.at = "retitle", !.by = u,
                      !.saw.authors = cs.authors])
  /\ UNCHANGED <<cs, site, writes, filed, wire, answers, hands, granted>>

\* Bug: whoever edits is not added to the authors.
UpdateUnsigned(q) ==
  /\ req[q].at \in {"update", "retitle"}
  /\ Save(q, EDITABLE_STATES,
          [cs EXCEPT !.operations = IF req[q].at = "update"
                                    THEN req[q].operations ELSE @], "reread")
  /\ Sign(q, req[q].at = "update" /\ cs.status \in EDITABLE_STATES)
  /\ UNCHANGED <<site, writes, filed, wire, answers, budget, granted>>

\* The authors written are those seen at the start and the user.
Update(q) ==
  /\ req[q].at \in {"update", "retitle"}
  /\ Save(q, EDITABLE_STATES,
          [cs EXCEPT !.operations = IF req[q].at = "update"
                                    THEN req[q].operations ELSE @,
                     !.authors = req[q].saw.authors \cup {req[q].by}], "reread")
  /\ Sign(q, req[q].at = "update" /\ cs.status \in EDITABLE_STATES)
  /\ UNCHANGED <<site, writes, filed, wire, answers, budget, granted>>

Replanning == [NoRequest EXCEPT !.at = "plan", !.operations = cs.operations,
                                !.saw.status = cs.status, !.saw.plan = cs.plan]

\* An update goes on as a re-plan, which reads the document again.
Reread(q) ==
  /\ req[q].at = "reread"
  /\ IF cs.status \in Replannable
     THEN req' = [req EXCEPT ![q] = Replanning]
     ELSE Go(q, "idle")
  /\ UNCHANGED <<cs, site, writes, filed, wire, answers, budget, hands, granted>>

StartReplan(q) ==
  /\ cs.status \in Replannable
  /\ Arrive(q, Replanning)
  /\ UNCHANGED <<cs, site, writes, filed, wire, answers, hands, granted>>

\* Bug: a different diff keeps the approvals and the validation.
ReplanKeeping(q) ==
  /\ req[q].at = "replan"
  /\ Save(q, {req[q].saw.status},
          [cs EXCEPT !.plan = req[q].plan,
                     !.status = PlanStatus(req[q].plan)], "idle")
  /\ UNCHANGED <<site, writes, filed, wire, answers, budget, hands, granted>>

\* Bug: writes whatever became of the change set while the bridge planned.
ReplanAnyway(q) ==
  /\ req[q].at = "replan"
  /\ Save(q, Status, [cs EXCEPT !.plan = req[q].plan,
                                !.status = PlanStatus(req[q].plan)], "idle")
  /\ UNCHANGED <<site, writes, filed, wire, answers, budget, hands, granted>>

\* A different diff than the one seen discards approvals and validation.
Replan(q) ==
  LET same == req[q].plan.diff = req[q].saw.plan.diff IN
  /\ req[q].at = "replan"
  /\ Save(q, {req[q].saw.status},
          [cs EXCEPT !.plan = req[q].plan,
                     !.status = PlanStatus(req[q].plan),
                     !.approvals  = IF same THEN @ ELSE {},
                     !.validation = IF same THEN @ ELSE NoValidation], "idle")
  /\ UNCHANGED <<site, writes, filed, wire, answers, budget, hands, granted>>

-----------------------------------------------------------------------------
(* Validation: a job on the bridge, watched by a background task.          *)

StartValidation(q) ==
  /\ cs.plan.valid
  /\ Arrive(q, [NoRequest EXCEPT !.at = "validate"])
  /\ UNCHANGED <<cs, site, writes, filed, wire, answers, hands, granted>>

Validate(q) ==
  /\ req[q].at = "validate"
  /\ Save(q, Validatable, [cs EXCEPT !.status = "validating"], "run")
  /\ UNCHANGED <<site, writes, filed, wire, answers, budget, hands, granted>>

\* The task reads the document whose operations it has validated.
RunValidation(q) ==
  /\ req[q].at = "run"
  /\ req' = [req EXCEPT ![q].at = "verdict", ![q].saw.plan = cs.plan]
  /\ UNCHANGED <<cs, site, writes, filed, wire, answers, budget, hands, granted>>

\* Bug: a job that cannot be watched is forgotten.
VerdictIfOk(q, ok) ==
  /\ req[q].at = "verdict"
  /\ IF ok THEN Save(q, {"validating"}, [cs EXCEPT !.status = "validated"], "idle")
           ELSE UNCHANGED cs /\ Go(q, "idle")
  /\ UNCHANGED <<site, writes, filed, wire, answers, budget, hands, granted>>

\* The job ends, or it cannot be started or watched (FALSE).
Verdict(q, ok) ==
  /\ req[q].at = "verdict"
  /\ Save(q, {"validating"},
          [cs EXCEPT !.status = IF ok THEN "validated" ELSE "validation_failed",
                     !.validation = [ok |-> ok, diff |-> req[q].saw.plan.diff]],
          "idle")
  /\ UNCHANGED <<site, writes, filed, wire, answers, budget, hands, granted>>

-----------------------------------------------------------------------------
(* Submitting, reviewing, cancelling.                                      *)

StartSubmit(q, u) ==
  /\ cs.plan.valid
  /\ Arrive(q, [NoRequest EXCEPT
       !.at = IF AutoApply /\ writes THEN "submit_auto" ELSE "submit",
       !.by = u, !.saw.authors = cs.authors])
  /\ UNCHANGED <<cs, site, writes, filed, wire, answers, hands, granted>>

Submit(q) ==
  /\ req[q].at \in {"submit", "submit_auto"}
  /\ Save(q, {"planned", "validated"},
          [cs EXCEPT !.status = "pending_approval",
                     !.authors = req[q].saw.authors \cup {req[q].by},
                     !.submitted_by = req[q].by],
          IF req[q].at = "submit_auto" THEN "auto" ELSE "idle")
  /\ Sign(q, cs.status \in {"planned", "validated"})
  /\ UNCHANGED <<site, writes, filed, wire, answers, budget, granted>>

\* The site's policy stands in for the reviewer, then for the deployer.
ReadSubmitted(q) ==
  /\ req[q].at = "auto"
  /\ IF cs.plan.valid
     THEN req' = [req EXCEPT ![q].at = "auto_approve", ![q].saw.plan = cs.plan]
     ELSE Go(q, "idle")
  /\ UNCHANGED <<cs, site, writes, filed, wire, answers, budget, hands, granted>>

Grant(d) == granted' = IF cs.status = "pending_approval"
                       THEN granted \cup {d} ELSE granted

AutoApprove(q) ==
  LET d == req[q].saw.plan.diff IN
  /\ req[q].at = "auto_approve"
  /\ Save(q, {"pending_approval"},
          [cs EXCEPT !.status = "approved",
                     !.approvals = {[by |-> Policy, diff |-> d]}], "auto_apply")
  /\ Grant(d)
  /\ UNCHANGED <<site, writes, filed, wire, answers, budget, hands>>

\* The validation that is on record is a pass of this very diff.
Validated(d) == d.validation.ok /\ d.validation.diff = d.plan.diff

\* The status is left for the save to check.
StartApprove(q, u) ==
  /\ MustValidate => Validated(cs)
  /\ u \in cs.authors \cup {cs.submitted_by} => SelfApproval
  /\ Arrive(q, [NoRequest EXCEPT !.at = "approve", !.by = u,
                   !.saw.plan = cs.plan, !.saw.approvals = cs.approvals])
  /\ UNCHANGED <<cs, site, writes, filed, wire, answers, hands, granted>>

\* The approval is of the diff, and is added to the approvals, seen before.
Approve(q) ==
  LET d == req[q].saw.plan.diff IN
  /\ req[q].at = "approve"
  /\ Save(q, {"pending_approval"},
          [cs EXCEPT !.status = "approved",
                     !.approvals = req[q].saw.approvals \cup
                                   {[by |-> req[q].by, diff |-> d]}], "idle")
  /\ Grant(d)
  /\ UNCHANGED <<site, writes, filed, wire, answers, budget, hands>>

StartReject(q) ==
  /\ Arrive(q, [NoRequest EXCEPT !.at = "reject",
                   !.saw.approvals = cs.approvals])
  /\ UNCHANGED <<cs, site, writes, filed, wire, answers, hands, granted>>

\* Only approvals are kept in the model's approvals.
Reject(q) ==
  /\ req[q].at = "reject"
  /\ Save(q, {"pending_approval"},
          [cs EXCEPT !.status = "rejected",
                     !.approvals = req[q].saw.approvals], "idle")
  /\ UNCHANGED <<site, writes, filed, wire, answers, budget, hands, granted>>

\* cancel checks nothing before its save.
StartCancel(q) ==
  /\ Arrive(q, [NoRequest EXCEPT !.at = "cancel"])
  /\ UNCHANGED <<cs, site, writes, filed, wire, answers, hands, granted>>

Cancel(q) ==
  /\ req[q].at = "cancel"
  /\ Save(q, PRE_APPLY_CANCELLABLE, [cs EXCEPT !.status = "cancelled"], "idle")
  /\ UNCHANGED <<site, writes, filed, wire, answers, budget, hands, granted>>

-----------------------------------------------------------------------------
(* Applying.                                                               *)

\* Bug: any approval will do.
MayApplyAny ==
  cs.status = "approved" /\ cs.approvals # {} /\ writes /\ cs.plan.valid

\* What start_apply requires of the document it reads.
MayApply ==
  /\ cs.status = "approved"
  /\ \E a \in cs.approvals : a.diff = cs.plan.diff
  /\ writes
  /\ cs.plan.valid

StartApply(q) ==
  /\ MayApply
  /\ Arrive(q, [NoRequest EXCEPT !.at = "apply"])
  /\ UNCHANGED <<cs, site, writes, filed, wire, answers, hands, granted>>

ReadAutoApproved(q) ==
  /\ req[q].at = "auto_apply"
  /\ Go(q, IF MayApply THEN "apply" ELSE "idle")
  /\ UNCHANGED <<cs, site, writes, filed, wire, answers, budget, hands, granted>>

ApplyCall(d) == [op |-> "apply", diff |-> d.plan.diff,
                 operations |-> d.operations, base |-> d.plan.base]

\* Bug: the status is not checked again.
BeginAnyway(q) ==
  /\ req[q].at = "apply"
  /\ cs' = [cs EXCEPT !.status = "applying"]
  /\ req' = [req EXCEPT ![q] =
       [NoRequest EXCEPT !.at = "applying", !.saw.plan = cs.plan,
                         !.saw.operations = cs.operations]]
  /\ wire' = wire \cup {ApplyCall(cs)}
  /\ UNCHANGED <<site, writes, filed, answers, budget, hands, granted>>

\* The task applies the document that its own save returned.
BeginApply(q) ==
  /\ req[q].at = "apply"
  /\ IF cs.status = "approved"
     THEN /\ cs' = [cs EXCEPT !.status = "applying"]
          /\ req' = [req EXCEPT ![q] =
               [NoRequest EXCEPT !.at = "applying", !.saw.plan = cs.plan,
                                 !.saw.operations = cs.operations]]
          /\ wire' = wire \cup {ApplyCall(cs)}
     ELSE Go(q, "idle") /\ UNCHANGED <<cs, wire>>
  /\ UNCHANGED <<site, writes, filed, answers, budget, hands, granted>>

\* The status is written and the document cannot be read again: there is no
\* task, and nobody calls the bridge.
BeginBreaks(q) ==
  /\ req[q].at = "apply" /\ cs.status = "approved"
  /\ Broken
  /\ cs' = [cs EXCEPT !.status = "applying"] /\ Go(q, "idle")
  /\ UNCHANGED <<site, writes, filed, wire, answers, hands, granted>>

\* The call of the task in slot q.
Call(q) ==
  IF req[q].at = "applying" THEN ApplyCall(req[q].saw)
  ELSE [op |-> "rollback", revision |-> req[q].saw.revision,
        reason |-> req[q].reason]

SameKey(m, n) ==
  /\ m.op = n.op
  /\ IF m.op = "apply" THEN m.diff = n.diff ELSE m.revision = n.revision

Replies(m) == {a \in answers : SameKey(a.to, m)}

\* The bridge has answered: with the stored answer if the request is the one
\* stored, with IDEMPOTENCY_MISMATCH if it is not.
HearBack(q, a) ==
  /\ req[q].at \in {"applying", "rolling_back"}
  /\ Call(q) \notin wire /\ a \in Replies(Call(q))
  /\ IF a.to = Call(q) /\ a.ok
     THEN req' = [req EXCEPT ![q].revision = a.revision,
            ![q].at = IF @ = "applying" THEN "record" ELSE "mark"]
     ELSE Go(q, IF req[q].at = "applying" THEN "fail" ELSE "idle")
  /\ UNCHANGED <<cs, site, writes, filed, wire, answers, budget, hands, granted>>

\* The client sends the call again, with the same key.
Retry(q) ==
  /\ req[q].at \in {"applying", "rolling_back"}
  /\ Lost /\ wire' = wire \cup {Call(q)}
  /\ UNCHANGED <<cs, req, site, writes, filed, answers, hands, granted>>

\* Bug: a timeout is taken for success.
GiveUpAsDone(q) ==
  /\ req[q].at \in {"applying", "rolling_back"}
  /\ Lost
  /\ Go(q, IF req[q].at = "applying" THEN "fail" ELSE "mark")
  /\ UNCHANGED <<cs, site, writes, filed, wire, answers, hands, granted>>

\* The client gives up, also on a call that is still to be executed.
GiveUp(q) ==
  /\ req[q].at \in {"applying", "rolling_back"}
  /\ \/ Call(q) \notin wire /\ Replies(Call(q)) = {} /\ UNCHANGED budget
     \/ Lost
  /\ Go(q, IF req[q].at = "applying" THEN "fail" ELSE "idle")
  /\ UNCHANGED <<cs, site, writes, filed, wire, answers, hands, granted>>

\* Bug: the status changes first.
SkipRecord(q) ==
  /\ req[q].at = "record"
  /\ cs' = [cs EXCEPT !.status = "applied", !.revision = req[q].revision]
  /\ Go(q, "finish")
  /\ UNCHANGED <<site, writes, filed, wire, answers, budget, hands, granted>>

\* The revision is put on file before the status changes.
Record(q) ==
  /\ req[q].at = "record"
  /\ filed' = filed \cup {[revision |-> req[q].revision, kind |-> "apply",
                           status |-> "applied"]}
  /\ Go(q, "finish")
  /\ UNCHANGED <<cs, site, writes, wire, answers, budget, hands, granted>>

\* The database refuses: the change set fails with INTERNAL.
RecordFails(q) ==
  /\ req[q].at \in {"record", "finish"}
  /\ Lost /\ Go(q, "fail")
  /\ UNCHANGED <<cs, site, writes, filed, wire, answers, hands, granted>>

Finish(q) ==
  /\ req[q].at = "finish"
  /\ Save(q, {"applying"}, [cs EXCEPT !.status = "applied",
                                      !.revision = req[q].revision], "idle")
  /\ UNCHANGED <<site, writes, filed, wire, answers, budget, hands, granted>>

\* Bug: the error is reported but not saved.
FailUnsaved(q) ==
  /\ req[q].at = "fail"
  /\ Go(q, "idle")
  /\ UNCHANGED <<cs, site, writes, filed, wire, answers, budget, hands, granted>>

\* Any error of the call or of the database ends as apply_failed.
Fail(q) ==
  /\ req[q].at = "fail"
  /\ Save(q, {"applying"},
          [cs EXCEPT !.status = "apply_failed", !.revision = 0], "idle")
  /\ UNCHANGED <<site, writes, filed, wire, answers, budget, hands, granted>>

-----------------------------------------------------------------------------
(* Rolling back.                                                           *)

\* The reason is part of the call, not of its key: whoever asks again for
\* another reason is refused.
StartRollback(q, why) ==
  /\ cs.status = "applied" /\ cs.revision # 0
  /\ Arrive(q, [NoRequest EXCEPT !.at = "rolling_back", !.reason = why,
                   !.saw.revision = cs.revision])
  /\ wire' = wire \cup
       {[op |-> "rollback", revision |-> cs.revision, reason |-> why]}
  /\ UNCHANGED <<cs, site, writes, filed, answers, hands, granted>>

MarkReverted(q) ==
  /\ req[q].at = "mark"
  /\ filed' = {IF f.revision = req[q].saw.revision
               THEN [f EXCEPT !.status = "reverted"] ELSE f : f \in filed}
  /\ Go(q, "insert")
  /\ UNCHANGED <<cs, site, writes, wire, answers, budget, hands, granted>>

InsertRollback(q) ==
  /\ req[q].at = "insert"
  /\ filed' = filed \cup {[revision |-> req[q].revision, kind |-> "rollback",
                           status |-> "applied"]}
  /\ Go(q, "close")
  /\ UNCHANGED <<cs, site, writes, wire, answers, budget, hands, granted>>

Close(q) ==
  /\ req[q].at = "close"
  /\ Save(q, {"applied"}, [cs EXCEPT !.status = "rolled_back"], "idle")
  /\ UNCHANGED <<site, writes, filed, wire, answers, budget, hands, granted>>

\* A request or a task dies of an error it does not catch (of the database,
\* or a connection reset), also while it reports another one: nothing takes
\* its place.  Only the task that applies catches everything.
Dies(q) ==
  /\ req[q].at \notin {"idle", "applying", "record", "finish"}
  /\ Broken /\ Go(q, "idle")
  /\ UNCHANGED <<cs, site, writes, filed, wire, answers, hands, granted>>

-----------------------------------------------------------------------------
(* The bridge: each key is executed once, and its answer kept.             *)

Take(m) == m \in wire /\ wire' = wire \ {m}

Keep(m, ok, r) ==
  answers' = answers \cup {[to |-> m, ok |-> ok, revision |-> r]}

\* The revision and the diff are still those that were planned.
Current(m) ==
  /\ m.base \in {0, site.revision}
  /\ m.operations \notin Refused
  /\ DiffOf(site.content, m.operations) = m.diff

ExecuteApply(m) ==
  /\ m.op = "apply" /\ Current(m) /\ Replies(m) = {}
  /\ site.revision < MaxRev
  /\ Take(m) /\ Keep(m, TRUE, site.revision + 1)
  /\ site' = [content |-> m.operations, revision |-> site.revision + 1]
  /\ UNCHANGED <<cs, req, writes, filed, budget, hands, granted>>

\* The files are still as revision a left them.
ExecuteRollback(m, a) ==
  /\ m.op = "rollback" /\ Replies(m) = {}
  /\ a.ok /\ a.to.op = "apply" /\ a.revision = m.revision
  /\ site.content = a.to.operations
  /\ site.revision < MaxRev
  /\ Take(m) /\ Keep(m, TRUE, site.revision + 1)
  /\ site' = [content  |-> IF a.to.diff = NoDiff THEN site.content
                                                 ELSE a.to.diff.from,
              revision |-> site.revision + 1]
  /\ UNCHANGED <<cs, req, writes, filed, budget, hands, granted>>

\* A stale plan, or a change that fails its verification and is undone; the
\* failure is kept as well.
Refuse(m) ==
  /\ Replies(m) = {}
  /\ Take(m) /\ Keep(m, FALSE, 0)
  /\ UNCHANGED <<cs, req, site, writes, filed, budget, hands, granted>>

\* The key was used before: nothing is executed.
Replay(m) ==
  /\ Replies(m) # {} /\ Take(m)
  /\ UNCHANGED <<cs, req, site, writes, filed, answers, budget, hands, granted>>

\* The call does not arrive, or finds the site locked.
Lose(m) ==
  /\ Take(m) /\ Lost
  /\ UNCHANGED <<cs, req, site, writes, filed, answers, hands, granted>>

-----------------------------------------------------------------------------
(* The surroundings.                                                       *)

\* Another change set (r is a new revision) or an edit by hand; a revision
\* may also leave the files this change set touches as they are.
OtherChange(c, r) ==
  /\ budget.other > 0
  /\ r \in {site.revision, site.revision + 1} \cap Rev
  /\ <<c, r>> # <<site.content, site.revision>>
  /\ site' = [content |-> c, revision |-> r]
  /\ budget' = [budget EXCEPT !.other = @ - 1]
  /\ UNCHANGED <<cs, req, writes, filed, wire, answers, hands, granted>>

ToggleWrites ==
  /\ budget.other > 0
  /\ writes' = ~writes
  /\ budget' = [budget EXCEPT !.other = @ - 1]
  /\ UNCHANGED <<cs, req, site, filed, wire, answers, hands, granted>>

\* The control plane restarts: its coroutines are gone, nothing resumes them.
Crash ==
  /\ Broken
  /\ \E q \in Slot : req[q].at # "idle"
  /\ req' = [q \in Slot |-> NoRequest]
  /\ UNCHANGED <<cs, site, writes, filed, wire, answers, hands, granted>>

-----------------------------------------------------------------------------
\* create_changeset has inserted the draft and asks the bridge for its plan.
Init ==
  /\ cs = Draft
  /\ \E q \in Slot : req = [s \in Slot |->
       IF s = q THEN [NoRequest EXCEPT !.at = "plan_new"] ELSE NoRequest]
  /\ \E c \in Content : site = [content |-> c, revision |-> 0]
  /\ writes = TRUE
  /\ filed = {} /\ wire = {} /\ answers = {}
  /\ budget = [request |-> MaxRequest, other |-> MaxOther, loss |-> MaxLoss,
               crash |-> MaxCrash]
  /\ hands = {Creator} /\ granted = {}

Arrival(q) ==
  \/ \E u \in User : \/ \E o \in Content : StartUpdate(q, u, o)
                     \/ StartSubmit(q, u) \/ StartApprove(q, u)
  \/ StartReplan(q) \/ StartValidation(q) \/ StartReject(q) \/ StartCancel(q)
  \/ StartApply(q)  \/ \E why \in Reason : StartRollback(q, why)

Plans(q) ==
  ReadPlan(q) \/ NoPlanRead(q) \/ Create(q) \/ Update(q) \/ Reread(q) \/ Replan(q)

Validates(q) ==
  Validate(q) \/ RunValidation(q) \/ \E ok \in BOOLEAN : Verdict(q, ok)

Reviews(q) ==
  \/ Submit(q)  \/ ReadSubmitted(q) \/ AutoApprove(q)
  \/ Approve(q) \/ Reject(q)        \/ Cancel(q)

Applies(q) ==
  \/ ReadAutoApproved(q) \/ BeginApply(q) \/ BeginBreaks(q)
  \/ Record(q) \/ RecordFails(q) \/ Finish(q) \/ Fail(q)

RollsBack(q) == MarkReverted(q) \/ InsertRollback(q) \/ Close(q)

Hears(q) == GiveUp(q) \/ Retry(q) \/ \E a \in answers : HearBack(q, a)

Proceed(q) ==
  \/ Plans(q) \/ Validates(q) \/ Reviews(q) \/ Applies(q) \/ RollsBack(q)
  \/ Hears(q) \/ Dies(q)

Bridge(m) ==
  \/ ExecuteApply(m) \/ Refuse(m) \/ Replay(m) \/ Lose(m)
  \/ \E a \in answers : ExecuteRollback(m, a)

Others ==
  \/ \E c \in Content, r \in Rev : OtherChange(c, r)
  \/ ToggleWrites
  \/ Crash

Next ==
  \/ \E q \in Slot : Arrival(q) \/ Proceed(q)
  \/ \E m \in wire : Bridge(m)
  \/ Others

Spec == Init /\ [][Next]_vars

\* A coroutine that can go on does, and the bridge works off its requests.
Fairness ==
  /\ \A q \in Slot : WF_vars(Proceed(q))
  /\ WF_vars(\E m \in wire : Bridge(m))

FairSpec == Spec /\ Fairness

-----------------------------------------------------------------------------
(* Properties.                                                             *)

Tasks == {q \in Slot : req[q].at \in {"applying", "record", "finish", "fail"}}

\* "Two concurrent transitions cannot both succeed (e.g. double apply)": at
\* most one task applies the change set, and while one does the status says so.
OneApplier ==
  \A q \in Tasks : cs.status = "applying" /\ Tasks = {q}

\* "An applied change set always has its revision on file", also after a
\* crash, and the bridge has made that revision from the operations that the
\* change set still holds; one rolled back has its revision marked reverted.
AppliedHasRevision ==
  cs.status \in {"applied", "rolled_back"} =>
    /\ \E f \in filed : /\ f.revision = cs.revision /\ f.kind = "apply"
                        /\ cs.status = "rolled_back" => f.status = "reverted"
    /\ \E a \in answers : /\ a.ok /\ a.to = ApplyCall(cs)
                          /\ a.revision = cs.revision

\* "rolled_back" is said only of a change set that the bridge has undone.
RolledBackIsUndone ==
  cs.status = "rolled_back" =>
    \E a \in answers :
      a.ok /\ a.to.op = "rollback" /\ a.to.revision = cs.revision

\* Nothing this change set did to the site was without an approval of that
\* exact diff, and what it did was that diff.
OnlyApproved ==
  \A a \in answers : a.ok /\ a.to.op = "apply" /\ a.to.diff # NoDiff =>
    a.to.diff \in granted

\* The approvals on record are for the plan on record: another diff discards
\* them.
ApprovalsAreCurrent == \A a \in cs.approvals : a.diff = cs.plan.diff

\* Where nobody may approve their own work, nobody approves a change set that
\* they created, edited or submitted, whatever other requests race.  The
\* authors are read, extended and written back, so two that overlap lose a
\* name: those who signed while another edit, submission or approval was under
\* way are not among the hands.
FourEyes ==
  [][\A q \in Slot :
       /\ req[q].at = "approve" /\ req'[q].at # "approve"
       /\ cs.status # "approved" /\ cs'.status = "approved"
       => req[q].by \notin hands]_vars

\* create_changeset's second write expects no status (line 223): whatever the
\* change set has become meanwhile, it is planned again.
CreateWrites == \E q \in Slot : req[q].at = "create" /\ req'[q].at = "idle"

\* A change set that is cancelled or rolled back stays so, and one that is
\* applied can only be rolled back, unless the request that created it was
\* still waiting for its first plan.
TerminalIsFinal ==
  [][cs.status \in TERMINAL_STATES =>
       \/ cs'.status = cs.status
       \/ cs.status = "applied" /\ cs'.status = "rolled_back"
       \/ CreateWrites]_vars

\* Only the task that applies a change set ends the applying, with the same
\* exception.
ApplyingIsOwned ==
  [][cs.status = "applying" /\ cs'.status # "applying" =>
       (\E q \in Tasks : req'[q].at = "idle") \/ CreateWrites]_vars

\* "Never leave a change set stuck in 'applying'": whatever is lost or answered
\* late.  It is stuck for good when the control plane restarts, or when the
\* database fails in start_apply's second read or while the failure itself is
\* written down.
ApplyingEnds ==
  cs.status = "applying" ~> cs.status # "applying" \/ budget.crash < MaxCrash

\* Nor is one stuck in 'validating', with the same exceptions and those of
\* _run_job, which catches no reset connection and no database error.
ValidatingEnds ==
  cs.status = "validating" ~> cs.status # "validating" \/ budget.crash < MaxCrash

\* A change set that was planned again and approved again is not refused for
\* having been applied with another base revision before.
ReplannedIsAccepted ==
  \A q \in Slot :
    req[q].at = "applying" /\ Current(Call(q)) =>
      \A a \in Replies(Call(q)) : a.to = Call(q)

=============================================================================
