--------------------------- MODULE ChangeSet_proofs ---------------------------
(***************************************************************************)
(* Proofs about ChangeSet, for any number of coroutines, people and        *)
(* contents, any policy and any bounds on losses and crashes.              *)
(***************************************************************************)
EXTENDS ChangeSet, TLAPS

(* Nobody finds a change set before its creation has ended.                 *)
Hidden == EarlyAccess = FALSE

At(q, S) == req[q].at \in S

(* A draft that is being created is touched by nobody else.                 *)
Alone ==
  \A q \in Slot : At(q, {"plan_new", "create"}) =>
    /\ cs.status = "draft"
    /\ \A s \in Slot \ {q} : req[s].at = "idle"

(* A re-plan was begun in a status that allows it.                          *)
Seen == \A q \in Slot : At(q, {"plan", "replan"}) => req[q].saw.status \in Replannable

(* Only people edit and submit.                                             *)
Signed  == \A q \in Slot : At(q, Signing) => req[q].by \in User

(* What a task applies is what the document holds; what it records, the     *)
(* bridge has answered, and is on file before the status changes.           *)
Answered(call, r) == \E a \in answers : a.ok /\ a.to = call /\ a.revision = r
OnFile(r) == \E f \in filed : f.revision = r /\ f.kind = "apply"
Applier ==
  \A q \in Slot :
    /\ At(q, {"applying", "record", "finish"}) =>
         req[q].saw.plan = cs.plan /\ req[q].saw.operations = cs.operations
    /\ At(q, {"record", "finish"}) => Answered(ApplyCall(req[q].saw), req[q].revision)
    /\ At(q, {"finish"}) => OnFile(req[q].revision)

(* A rollback is of the applied revision, which stays the applied one; it   *)
(* is marked when the bridge has answered, and closed when it is marked.    *)
Undone(r) == \E a \in answers : a.ok /\ a.to.op = "rollback" /\ a.to.revision = r
Reverted(r) ==
  \E f \in filed : f.revision = r /\ f.kind = "apply" /\ f.status = "reverted"
Undoer ==
  \A q \in Slot :
    /\ At(q, {"rolling_back", "mark", "insert", "close"}) =>
         cs.status \in {"applied", "rolled_back"} /\ req[q].saw.revision = cs.revision
    /\ At(q, {"mark", "insert", "close"}) => Undone(req[q].saw.revision)
    /\ At(q, {"insert", "close"}) => Reverted(req[q].saw.revision)

(* Types, and what needs no more than types.                                *)
TInv == TypeOK /\ Seen /\ Signed

IInv ==
  /\ TInv /\ Alone /\ OneApplier /\ Applier /\ Undoer
  /\ AppliedHasRevision /\ RolledBackIsUndone

(* What a step may do to the status.                                        *)
Lawful ==
  /\ cs.status \in TERMINAL_STATES =>
       \/ cs'.status = cs.status
       \/ cs.status = "applied" /\ cs'.status = "rolled_back"
       \/ CreateWrites
  /\ cs.status = "applying" /\ cs'.status # "applying" =>
       (\E q \in Tasks : req'[q].at = "idle") \/ CreateWrites

(* What every step does: it keeps TInv and is lawful; it keeps IInv too, if *)
(* nobody finds the draft early.                                            *)
Kept == TInv' /\ Lawful /\ (Hidden /\ IInv => IInv')

-----------------------------------------------------------------------------
(* Types.                                                                   *)

LEMMA RevFacts == 0 \in Rev /\ Rev \subseteq Nat /\ NoDiff \in Diff
BY ChangeSetAssumption DEF Rev, Diff

LEMMA PlanFacts == NoPlan \in Plan /\ NoValidation \in Validation
BY RevFacts DEF NoPlan, Plan, NoValidation, Validation

LEMMA DraftType == Draft \in Document
<1>1. First \in Content /\ Creator \in User /\ Policy \in Actor
  BY ChangeSetAssumption DEF Actor
<1> QED BY <1>1, RevFacts, PlanFacts DEF Draft, Document, Status

LEMMA NoRequestType == NoRequest \in Request
<1>1. First \in Content /\ Policy \in Actor
  BY ChangeSetAssumption DEF Actor
<1> QED BY <1>1, RevFacts, PlanFacts, DraftType DEF NoRequest, Request, Step, Why

(* Before anything has happened, and after a restart.                       *)
LEMMA IdleAt ==
  /\ NoRequest.at = "idle" /\ [NoRequest EXCEPT !.at = "plan_new"].at = "plan_new"
  /\ Init => \A s \in Slot : req[s].at \in {"plan_new", "idle"}
  /\ Crash => /\ UNCHANGED <<cs, wire, answers, hands, granted>>
              /\ \A s \in Slot : req'[s].at = "idle"
<1>1. NoRequest.at = "idle" /\ [NoRequest EXCEPT !.at = "plan_new"].at = "plan_new"
  BY NoRequestType DEF Request, NoRequest
<1>2. Init => \A s \in Slot : req[s].at \in {"plan_new", "idle"}
  BY <1>1 DEF Init
<1>3. Crash => /\ UNCHANGED <<cs, wire, answers, hands, granted>>
               /\ \A s \in Slot : req'[s].at = "idle"
  BY <1>1 DEF Crash
<1> QED BY <1>1, <1>2, <1>3

LEMMA GoType ==
  ASSUME TypeOK, NEW q \in Slot, NEW step \in Step, Go(q, step)
  PROVE  /\ req' \in [Slot -> Request] /\ req'[q].at = step
         /\ \A s \in Slot \ {q} : req'[s] = req[s]
         /\ step # "idle" => req'[q] = [req[q] EXCEPT !.at = step]
<1>1. NoRequest.at = "idle"
  BY DEF NoRequest
<1>2. [req[q] EXCEPT !.at = step] \in Request
  BY DEF TypeOK, Request
<1>3. [req[q] EXCEPT !.at = step].at = step
  BY DEF TypeOK, Request
<1> QED BY <1>1, <1>2, <1>3, NoRequestType DEF Go, TypeOK

LEMMA SaveType ==
  ASSUME TypeOK, NEW q \in Slot, NEW E, NEW doc \in Document, NEW step \in Step,
         Save(q, E, doc, step)
  PROVE  /\ cs' \in Document /\ req' \in [Slot -> Request]
         /\ \A s \in Slot \ {q} : req'[s] = req[s]
         /\ \/ cs.status \in E /\ cs' = doc /\ req'[q].at = step
            \/ cs' = cs /\ req'[q].at = "idle"
<1>1. "idle" \in Step
  BY DEF Step
<1>2. CASE cs.status \in E
  BY <1>2, GoType DEF Save
<1>3. CASE cs.status \notin E
  BY <1>1, <1>3, GoType DEF Save, TypeOK
<1> QED BY <1>2, <1>3

LEMMA ArriveType ==
  ASSUME TypeOK, NEW q \in Slot, NEW r \in Request, Arrive(q, r)
  PROVE  /\ req' \in [Slot -> Request] /\ req'[q] = r
         /\ \A s \in Slot \ {q} : req'[s] = req[s]
         /\ budget' \in Budget
         /\ req[q].at = "idle"
<1>1. budget' \in Budget
  BY ChangeSetAssumption DEF Arrive, TypeOK, Budget
<1> QED BY <1>1 DEF Arrive, TypeOK

LEMMA LostType ==
  ASSUME TypeOK, Lost
  PROVE  budget' \in Budget
BY ChangeSetAssumption DEF Lost, TypeOK, Budget

-----------------------------------------------------------------------------
(* Most steps neither apply nor roll back: they leave what is on file and   *)
(* what the bridge has answered alone, and change a status that is neither  *)
(* final nor "applying", if any.                                            *)

Working == {"applying", "record", "finish", "fail"}
Undoing == {"rolling_back", "mark", "insert", "close"}
Settled == {"applying", "applied", "rolled_back"}

LEMMA QuietInv ==
  ASSUME TInv, TypeOK', NEW q \in Slot,
         \A s \in Slot \ {q} : req'[s] = req[s],
         UNCHANGED <<filed, answers>>,
         ~At(q, Working),
         req'[q].at \notin Working \cup Undoing \cup {"plan_new"},
         req'[q].at = "create" => req[q].at = "plan_new" /\ cs' = cs,
         req'[q].at \in {"plan", "replan"} => req'[q].saw.status \in Replannable,
         req'[q].at \in Signing => req'[q].by \in User,
         Hidden => req[q].at # "idle" \/ \A s \in Slot : ~At(s, {"plan_new", "create"}),
         \/ cs' = cs
         \/ /\ cs.status \notin TERMINAL_STATES \cup {"applying"}
            /\ cs'.status \notin Settled
  PROVE  Kept
<1>1. TInv'
  BY DEF TInv, Seen, Signed, At
<1>2. Lawful
  BY DEF Lawful
<1>3. ASSUME Hidden, IInv
      PROVE  IInv'
  <2>0. Alone /\ OneApplier /\ Applier /\ Undoer
        /\ AppliedHasRevision /\ RolledBackIsUndone
    BY <1>3 DEF IInv
  <2>1. Alone'
    <3>1. ASSUME NEW s \in Slot, At(s, {"plan_new", "create"})'
          PROVE  cs'.status = "draft" /\ \A r \in Slot \ {s} : req'[r].at = "idle"
      <4>1. CASE s = q
        BY <1>3, <2>0, <3>1, <4>1 DEF Alone, At
      <4>2. CASE s # q
        BY <1>3, <2>0, <3>1, <4>2 DEF Alone, At
      <4> QED BY <4>1, <4>2
    <3> QED BY <3>1 DEF Alone
  <2>3. Tasks' = Tasks
    BY DEF Tasks, At, Working
  <2>4. OneApplier' /\ (cs.status = "applying" => cs' = cs)
    BY <2>0, <2>3 DEF OneApplier, Settled, TERMINAL_STATES
  <2>5. Applier'
    <3>1. \A s \in Slot : At(s, Working) => cs' = cs
      BY <2>0 DEF OneApplier, Tasks, At, Working, Settled
    <3> QED BY <2>0, <3>1 DEF Applier, At, Working, Answered, OnFile
  <2>6. Undoer'
    <3>1. \A s \in Slot : At(s, Undoing) => cs' = cs
      BY <2>0 DEF Undoer, At, Undoing, TERMINAL_STATES
    <3> QED BY <2>0, <3>1 DEF Undoer, At, Undoing, Undone, Reverted
  <2>7. AppliedHasRevision' /\ RolledBackIsUndone'
    BY <2>0 DEF AppliedHasRevision, RolledBackIsUndone, Settled
  <2> QED BY <1>1, <2>1, <2>4, <2>5, <2>6, <2>7 DEF IInv
<1> QED BY <1>1, <1>2, <1>3 DEF Kept

(* A request that arrives, but for a rollback.                              *)
LEMMA ArrivalInv ==
  ASSUME TInv, NEW q \in Slot, NEW r \in Request, Arrive(q, r),
         UNCHANGED <<cs, site, writes, filed, wire, answers, hands, granted>>,
         r.at \notin Working \cup Undoing \cup {"plan_new", "create", "replan"},
         r.at = "plan" => r.saw.status \in Replannable,
         r.at \in Signing => r.by \in User
  PROVE  Kept
<1>0. TypeOK
  BY DEF TInv
<1>1. /\ req' \in [Slot -> Request] /\ req'[q] = r
      /\ \A s \in Slot \ {q} : req'[s] = req[s]
      /\ budget' \in Budget /\ req[q].at = "idle"
  BY <1>0, ArriveType
<1>2. TypeOK'
  BY <1>0, <1>1 DEF TypeOK
<1>3. Hidden => \A s \in Slot : ~At(s, {"plan_new", "create"})
  BY DEF Arrive, Hidden, At
<1>4. ~At(q, Working)
  BY <1>1 DEF At, Working
<1> QED BY <1>1, <1>2, <1>3, <1>4, QuietInv

(* A quiet step of a coroutine that ends in a save, or in a move alone.     *)
LEMMA QuietSave ==
  ASSUME TInv, NEW q \in Slot, NEW E, NEW doc \in Document, NEW step \in Step,
         Save(q, E, doc, step),
         UNCHANGED <<site, writes, filed, wire, answers, budget>>,
         hands' \subseteq User, granted' \subseteq Diff,
         ~At(q, Working), req[q].at # "idle",
         step \notin Working \cup Undoing \cup Signing
                     \cup {"plan_new", "create", "plan", "replan"},
         cs.status \in E => /\ cs.status \notin TERMINAL_STATES \cup {"applying"}
                            /\ doc.status \notin Settled
  PROVE  Kept
<1>0. TypeOK
  BY DEF TInv
<1>1. /\ cs' \in Document /\ req' \in [Slot -> Request]
      /\ \A s \in Slot \ {q} : req'[s] = req[s]
      /\ \/ cs.status \in E /\ cs' = doc /\ req'[q].at = step
         \/ cs' = cs /\ req'[q].at = "idle"
  BY <1>0, SaveType
<1>2. TypeOK'
  BY <1>0, <1>1 DEF TypeOK
<1>3. req'[q].at \notin Working \cup Undoing \cup Signing
                        \cup {"plan_new", "create", "plan", "replan"}
  BY <1>1 DEF Working, Undoing, Signing
<1> QED BY <1>1, <1>2, <1>3, QuietInv

LEMMA QuietMove ==
  ASSUME TInv, NEW q \in Slot, req' \in [Slot -> Request],
         \A s \in Slot \ {q} : req'[s] = req[s],
         UNCHANGED <<cs, site, writes, filed, wire, answers, hands, granted>>,
         budget' \in Budget,
         ~At(q, Working), req[q].at # "idle",
         req'[q].at \notin Working \cup Undoing \cup Signing \cup {"plan_new"},
         req'[q].at = "create" => req[q].at = "plan_new",
         req'[q].at \in {"plan", "replan"} => req'[q].saw.status \in Replannable
  PROVE  Kept
<1>1. TypeOK'
  BY DEF TInv, TypeOK
<1> QED BY <1>1, QuietInv

(* A coroutine that ends without a word.                                    *)
LEMMA EndsInv ==
  ASSUME TInv, NEW q \in Slot, Go(q, "idle"),
         UNCHANGED <<cs, site, writes, filed, wire, answers, hands, granted>>,
         budget' \in Budget
  PROVE  Kept
<1>0. TypeOK /\ "idle" \in Step
  BY DEF TInv, Step
<1>1. /\ req' \in [Slot -> Request] /\ req'[q].at = "idle"
      /\ \A s \in Slot \ {q} : req'[s] = req[s]
  BY <1>0, GoType
<1>2. TInv'
  BY <1>1 DEF TInv, TypeOK, Seen, Signed, Signing, At
<1>3. Lawful
  BY DEF Lawful
<1>4. ASSUME Hidden, IInv
      PROVE  IInv'
  <2>0. Alone /\ OneApplier /\ Applier /\ Undoer
        /\ AppliedHasRevision /\ RolledBackIsUndone
    BY <1>4 DEF IInv
  <2>1. Alone'
    BY <1>1, <2>0 DEF Alone, At
  <2>2. Tasks' \subseteq Tasks
    BY <1>1 DEF Tasks
  <2>3. OneApplier'
    BY <2>0, <2>2 DEF OneApplier
  <2>4. Applier' /\ Undoer'
    BY <1>1, <2>0 DEF Applier, Undoer, At, Answered, OnFile, Undone, Reverted
  <2>5. AppliedHasRevision' /\ RolledBackIsUndone'
    BY <2>0 DEF AppliedHasRevision, RolledBackIsUndone
  <2> QED BY <1>2, <2>1, <2>3, <2>4, <2>5 DEF IInv
<1> QED BY <1>2, <1>3, <1>4 DEF Kept

-----------------------------------------------------------------------------
(* Requests that arrive.                                                    *)

(* What a request keeps of the document is what the document holds.         *)
LEMMA SawType ==
  ASSUME TypeOK
  PROVE  /\ NoRequest.saw \in Document
         /\ [NoRequest.saw EXCEPT !.authors = cs.authors] \in Document
         /\ [NoRequest.saw EXCEPT !.approvals = cs.approvals] \in Document
         /\ [NoRequest.saw EXCEPT !.plan = cs.plan] \in Document
         /\ [[NoRequest.saw EXCEPT !.plan = cs.plan]
               EXCEPT !.approvals = cs.approvals] \in Document
         /\ [[NoRequest.saw EXCEPT !.status = cs.status]
               EXCEPT !.plan = cs.plan] \in Document
<1>1. NoRequest.saw \in Document /\ cs \in Document
  BY NoRequestType DEF Request, TypeOK
<1> QED BY <1>1 DEF Document

LEMMA ReplanningType ==
  ASSUME TypeOK
  PROVE  /\ Replanning \in Request
         /\ Replanning.at = "plan" /\ Replanning.saw.status = cs.status
<1>1. NoRequest \in Request /\ cs.operations \in Content /\ "plan" \in Step
  BY NoRequestType DEF TypeOK, Document, Step
<1>2. [[NoRequest.saw EXCEPT !.status = cs.status] EXCEPT !.plan = cs.plan] \in Document
  BY SawType
<1>3. [[NoRequest.saw EXCEPT !.status = cs.status] EXCEPT !.plan = cs.plan].status
        = cs.status
  BY NoRequestType DEF Request, Document
<1> QED BY <1>1, <1>2, <1>3 DEF Replanning, Request

LEMMA UpdateArrives ==
  ASSUME TInv, NEW q \in Slot, NEW u \in User, NEW o \in Content,
         StartUpdate(q, u, o)
  PROVE  Kept
<1>0. TypeOK /\ NoRequest \in Request /\ u \in Actor
      /\ {"update", "retitle"} \subseteq Step
  BY NoRequestType DEF TInv, Actor, Step
<1>1. [NoRequest.saw EXCEPT !.authors = cs.authors] \in Document
  BY <1>0, SawType
<1> DEFINE r1 == [NoRequest EXCEPT !.at = "update", !.by = u, !.operations = o,
                                   !.saw.authors = cs.authors]
           r2 == [NoRequest EXCEPT !.at = "retitle", !.by = u,
                                   !.saw.authors = cs.authors]
<1>2. /\ r1 \in Request /\ r1.at = "update" /\ r1.by = u
      /\ r2 \in Request /\ r2.at = "retitle" /\ r2.by = u
  BY <1>0, <1>1 DEF Request
<1>3. \E r \in {r1, r2} : Arrive(q, r)
  BY DEF StartUpdate
<1> HIDE DEF r1, r2
<1>4. PICK r \in {r1, r2} : Arrive(q, r)
  BY <1>3
<1>5. r \in Request /\ r.at \in {"update", "retitle"} /\ r.by \in User
  BY <1>2
<1>6. UNCHANGED <<cs, site, writes, filed, wire, answers, hands, granted>>
  BY DEF StartUpdate
<1>7. r.at \notin Working \cup Undoing \cup {"plan_new", "create", "plan", "replan"}
  BY <1>5 DEF Working, Undoing
<1> QED BY <1>4, <1>5, <1>6, <1>7, ArrivalInv

LEMMA SubmitArrives ==
  ASSUME TInv, NEW q \in Slot, NEW u \in User, StartSubmit(q, u)
  PROVE  Kept
<1>0. TypeOK /\ NoRequest \in Request /\ u \in Actor
      /\ {"submit", "submit_auto"} \subseteq Step
  BY NoRequestType DEF TInv, Actor, Step
<1>1. [NoRequest.saw EXCEPT !.authors = cs.authors] \in Document
  BY <1>0, SawType
<1> DEFINE at == IF AutoApply /\ writes THEN "submit_auto" ELSE "submit"
           r == [NoRequest EXCEPT !.at = at, !.by = u, !.saw.authors = cs.authors]
<1>2. at \in {"submit", "submit_auto"}
  OBVIOUS
<1>3. Arrive(q, r)
  BY DEF StartSubmit
<1> HIDE DEF at
<1>4. r \in Request /\ r.at = at /\ r.by = u
  BY <1>0, <1>1, <1>2 DEF Request
<1>6. UNCHANGED <<cs, site, writes, filed, wire, answers, hands, granted>>
  BY DEF StartSubmit
<1>7. r.at \notin Working \cup Undoing \cup {"plan_new", "create", "plan", "replan"}
  BY <1>2, <1>4 DEF Working, Undoing
<1> HIDE DEF r
<1> QED BY <1>3, <1>4, <1>6, <1>7, ArrivalInv

LEMMA ApproveArrives ==
  ASSUME TInv, NEW q \in Slot, NEW u \in User, StartApprove(q, u)
  PROVE  Kept
<1>0. TypeOK /\ NoRequest \in Request /\ u \in Actor /\ "approve" \in Step
  BY NoRequestType DEF TInv, Actor, Step
<1>1. [[NoRequest.saw EXCEPT !.plan = cs.plan]
         EXCEPT !.approvals = cs.approvals] \in Document
  BY <1>0, SawType
<1> DEFINE r == [NoRequest EXCEPT !.at = "approve", !.by = u,
                   !.saw.plan = cs.plan, !.saw.approvals = cs.approvals]
<1>3. Arrive(q, r)
  BY DEF StartApprove
<1>4. r \in Request /\ r.at = "approve"
  BY <1>0, <1>1 DEF Request
<1>6. UNCHANGED <<cs, site, writes, filed, wire, answers, hands, granted>>
  BY DEF StartApprove
<1>7. r.at \notin Working \cup Undoing \cup Signing
                       \cup {"plan_new", "create", "plan", "replan"}
  BY <1>4 DEF Working, Undoing, Signing
<1> HIDE DEF r
<1> QED BY <1>3, <1>4, <1>6, <1>7, ArrivalInv

LEMMA RejectArrives ==
  ASSUME TInv, NEW q \in Slot, StartReject(q)
  PROVE  Kept
<1>0. TypeOK /\ NoRequest \in Request /\ "reject" \in Step
  BY NoRequestType DEF TInv, Step
<1>1. [NoRequest.saw EXCEPT !.approvals = cs.approvals] \in Document
  BY <1>0, SawType
<1> DEFINE r == [NoRequest EXCEPT !.at = "reject", !.saw.approvals = cs.approvals]
<1>3. Arrive(q, r)
  BY DEF StartReject
<1>4. r \in Request /\ r.at = "reject"
  BY <1>0, <1>1 DEF Request
<1>6. UNCHANGED <<cs, site, writes, filed, wire, answers, hands, granted>>
  BY DEF StartReject
<1>7. r.at \notin Working \cup Undoing \cup Signing
                       \cup {"plan_new", "create", "plan", "replan"}
  BY <1>4 DEF Working, Undoing, Signing
<1> HIDE DEF r
<1> QED BY <1>3, <1>4, <1>6, <1>7, ArrivalInv

LEMMA ReplanArrives ==
  ASSUME TInv, NEW q \in Slot, StartReplan(q)
  PROVE  Kept
<1>0. TypeOK
  BY DEF TInv
<1>1. /\ Replanning \in Request
      /\ Replanning.at = "plan" /\ Replanning.saw.status \in Replannable
  BY <1>0, ReplanningType DEF StartReplan
<1>2. Replanning.at \notin Working \cup Undoing \cup Signing
                            \cup {"plan_new", "create", "replan"}
  BY <1>1 DEF Working, Undoing, Signing
<1> QED BY <1>1, <1>2, ArrivalInv DEF StartReplan

(* Those that keep nothing.                                                 *)
LEMMA PlainArrives ==
  ASSUME TInv, NEW q \in Slot,
         StartValidation(q) \/ StartCancel(q) \/ StartApply(q)
  PROVE  Kept
<1>1. PICK step \in {"validate", "cancel", "apply"} :
        Arrive(q, [NoRequest EXCEPT !.at = step])
  BY DEF StartValidation, StartCancel, StartApply
<1>2. /\ [NoRequest EXCEPT !.at = step] \in Request
      /\ [NoRequest EXCEPT !.at = step].at = step
  BY NoRequestType DEF Request, Step
<1>3. step \notin Working \cup Undoing \cup Signing
                  \cup {"plan_new", "create", "plan", "replan"}
  BY DEF Working, Undoing, Signing
<1>4. UNCHANGED <<cs, site, writes, filed, wire, answers, hands, granted>>
  BY DEF StartValidation, StartCancel, StartApply
<1> QED BY <1>1, <1>2, <1>3, <1>4, ArrivalInv

-----------------------------------------------------------------------------
(* Planning, validation and review.                                         *)

LEMMA QuietSteps ==
  /\ {"idle", "reread", "run", "verdict", "auto", "auto_approve", "auto_apply",
      "apply", "create", "plan", "replan"} \subseteq Step
  /\ \A x \in {"idle", "reread", "run", "verdict", "auto", "auto_approve",
               "auto_apply", "apply"} :
       x \notin Working \cup Undoing \cup Signing
                 \cup {"plan_new", "create", "plan", "replan"}
BY DEF Step, Working, Undoing, Signing

LEMMA PlanOfType ==
  ASSUME TypeOK, NEW o \in Content
  PROVE  PlanOf(o) \in Plan
BY PlanFacts DEF PlanOf, Plan, DiffOf, Diff, TypeOK

LEMMA ReadPlanInv ==
  ASSUME TInv, NEW q \in Slot, ReadPlan(q)
  PROVE  Kept
<1>0. TypeOK /\ Seen
  BY DEF TInv
<1> DEFINE p == PlanOf(req[q].operations)
           to == IF req[q].at = "plan_new" THEN "create" ELSE "replan"
<1>1. p \in Plan
  BY <1>0, PlanOfType DEF TypeOK, Request
<1>2. req[q].at \in {"plan_new", "plan"}
      /\ req' = [req EXCEPT ![q] = [[@ EXCEPT !.plan = p] EXCEPT !.at = to]]
  BY DEF ReadPlan
<1>3. to \in Step /\ (to = "create" => req[q].at = "plan_new")
      /\ (to # "create" => to = "replan" /\ req[q].at = "plan")
  BY <1>2 DEF Step
<1> HIDE DEF p, to
<1>4. /\ req' \in [Slot -> Request] /\ req'[q].at = to /\ req'[q].saw = req[q].saw
      /\ \A s \in Slot \ {q} : req'[s] = req[s]
  BY <1>0, <1>1, <1>2, <1>3 DEF TypeOK, Request
<1>5. req'[q].at \notin Working \cup Undoing \cup Signing \cup {"plan_new"}
  BY <1>3, <1>4 DEF Working, Undoing, Signing
<1>6. ~At(q, Working) /\ req[q].at # "idle"
  BY <1>2 DEF At, Working
<1>7. req'[q].at \in {"plan", "replan"} => req'[q].saw.status \in Replannable
  BY <1>0, <1>3, <1>4 DEF Seen, At
<1>8. UNCHANGED <<cs, site, writes, filed, wire, answers, hands, granted>>
      /\ budget' \in Budget
  BY <1>0 DEF ReadPlan, TypeOK
<1> QED BY <1>3, <1>4, <1>5, <1>6, <1>7, <1>8, QuietMove

LEMMA NoPlanReadInv ==
  ASSUME TInv, NEW q \in Slot, NoPlanRead(q)
  PROVE  Kept
BY LostType, EndsInv DEF TInv, NoPlanRead

(* The document with another status and one more field.                     *)
LEMMA StatusDoc ==
  ASSUME NEW doc \in Document, NEW status \in Status
  PROVE  /\ [doc EXCEPT !.status = status] \in Document
         /\ [doc EXCEPT !.status = status].status = status
BY DEF Document

(* The one save that expects no status.                                     *)
LEMMA CreateInv ==
  ASSUME TInv, NEW q \in Slot, Create(q)
  PROVE  Kept
<1>0. TypeOK /\ cs \in Document /\ "idle" \in Step
  BY DEF TInv, TypeOK, Step
<1>1. req[q].plan \in Plan
  BY <1>0 DEF TypeOK, Request
<1>2. PlanStatus(req[q].plan) \in {"planned", "plan_failed"}
  BY DEF PlanStatus
<1> DEFINE doc == [cs EXCEPT !.plan = req[q].plan, !.status = PlanStatus(req[q].plan)]
<1>3. doc \in Document /\ doc.status \in {"planned", "plan_failed"}
  BY <1>0, <1>1, <1>2 DEF Document, Status
<1>4. Save(q, Status, doc, "idle") /\ req[q].at = "create"
      /\ UNCHANGED <<site, writes, filed, wire, answers, budget, hands, granted>>
  BY DEF Create
<1> HIDE DEF doc
<1>5. /\ cs' \in Document /\ req' \in [Slot -> Request] /\ req'[q].at = "idle"
      /\ \A s \in Slot \ {q} : req'[s] = req[s]
      /\ cs' = doc \/ cs' = cs
  BY <1>0, <1>3, <1>4, SaveType
<1>6. TInv'
  BY <1>0, <1>4, <1>5 DEF TInv, TypeOK, Seen, Signed, Signing, At
<1>7. Lawful
  BY <1>4, <1>5 DEF Lawful, CreateWrites
<1>8. ASSUME Hidden, IInv
      PROVE  IInv'
  <2>1. cs.status = "draft" /\ \A s \in Slot \ {q} : req[s].at = "idle"
    BY <1>4, <1>8 DEF IInv, Alone, At
  <2>2. \A s \in Slot : req'[s].at = "idle"
    BY <1>5, <2>1
  <2>3. cs'.status \in {"draft", "planned", "plan_failed"}
    BY <1>3, <1>5, <2>1
  <2> QED BY <1>6, <2>2, <2>3 DEF IInv, Alone, OneApplier, Tasks, Applier, Undoer, At,
                  AppliedHasRevision, RolledBackIsUndone
<1> QED BY <1>6, <1>7, <1>8 DEF Kept

LEMMA UpdateInv ==
  ASSUME TInv, NEW q \in Slot, Update(q)
  PROVE  Kept
<1>0. TypeOK /\ Signed /\ cs \in Document /\ req[q] \in Request
  BY DEF TInv, TypeOK
<1> DEFINE ops  == IF req[q].at = "update" THEN req[q].operations ELSE cs.operations
           auth == req[q].saw.authors \cup {req[q].by}
           doc  == [cs EXCEPT !.operations = ops, !.authors = auth]
<1>1. req[q].by \in User /\ req[q].at # "idle" /\ ~At(q, Working)
  BY <1>0 DEF Update, Signed, Signing, At, Working
<1>2. ops \in Content /\ auth \subseteq User
  BY <1>0, <1>1 DEF Request, Document
<1>3. Save(q, EDITABLE_STATES, doc, "reread")
  BY DEF Update
<1> HIDE DEF ops, auth
<1>4. doc \in Document /\ doc.status = cs.status
  BY <1>0, <1>2 DEF Document
<1> HIDE DEF doc
<1>5. cs.status \in EDITABLE_STATES =>
        cs.status \notin TERMINAL_STATES \cup {"applying"} /\ doc.status \notin Settled
  BY <1>4 DEF EDITABLE_STATES, TERMINAL_STATES, Settled
<1>6. UNCHANGED <<site, writes, filed, wire, answers, budget>>
      /\ hands' \subseteq User /\ granted' \subseteq Diff
  BY <1>0, <1>1 DEF Update, Sign, TypeOK
<1> QED BY <1>1, <1>3, <1>4, <1>5, <1>6, QuietSteps, QuietSave

LEMMA RereadInv ==
  ASSUME TInv, NEW q \in Slot, Reread(q)
  PROVE  Kept
<1>0. TypeOK /\ budget' \in Budget
  BY DEF TInv, TypeOK, Reread
<1>1. ~At(q, Working) /\ req[q].at # "idle"
      /\ UNCHANGED <<cs, site, writes, filed, wire, answers, hands, granted>>
  BY DEF Reread, At, Working
<1>2. CASE cs.status \in Replannable
  <2>1. /\ Replanning \in Request
        /\ Replanning.at = "plan" /\ Replanning.saw.status \in Replannable
    BY <1>0, <1>2, ReplanningType
  <2>2. req' = [req EXCEPT ![q] = Replanning]
    BY <1>2 DEF Reread
  <2>3. /\ req' \in [Slot -> Request] /\ req'[q] = Replanning
        /\ \A s \in Slot \ {q} : req'[s] = req[s]
    BY <1>0, <2>1, <2>2 DEF TypeOK
  <2>4. req'[q].at \notin Working \cup Undoing \cup Signing \cup {"plan_new"}
    BY <2>1, <2>3 DEF Working, Undoing, Signing
  <2> QED BY <1>0, <1>1, <2>1, <2>3, <2>4, QuietMove
<1>3. CASE cs.status \notin Replannable
  <2>1. /\ req' \in [Slot -> Request] /\ req'[q].at = "idle"
        /\ \A s \in Slot \ {q} : req'[s] = req[s]
    BY <1>0, <1>3, QuietSteps, GoType DEF Reread
  <2> QED BY <1>0, <1>1, <2>1, QuietSteps, QuietMove
<1> QED BY <1>2, <1>3

LEMMA ReplanInv ==
  ASSUME TInv, NEW q \in Slot, Replan(q)
  PROVE  Kept
<1>0. TypeOK /\ Seen /\ cs \in Document /\ req[q].plan \in Plan
  BY DEF TInv, TypeOK, Request
<1> DEFINE same == req[q].plan.diff = req[q].saw.plan.diff
           appr == IF same THEN cs.approvals ELSE {}
           vali == IF same THEN cs.validation ELSE NoValidation
           doc  == [cs EXCEPT !.plan = req[q].plan,
                              !.status = PlanStatus(req[q].plan),
                              !.approvals = appr, !.validation = vali]
<1>1. req[q].at = "replan" /\ req[q].saw.status \in Replannable
  BY <1>0 DEF Replan, Seen, At
<1>2. appr \subseteq Approval /\ vali \in Validation
  BY <1>0, PlanFacts DEF Document
<1>3. Save(q, {req[q].saw.status}, doc, "idle")
  BY DEF Replan
<1> HIDE DEF appr, vali
<1>4. PlanStatus(req[q].plan) \in {"planned", "plan_failed"}
  BY DEF PlanStatus
<1>5. doc \in Document /\ doc.status \in {"planned", "plan_failed"}
  BY <1>0, <1>2, <1>4 DEF Document, Status
<1> HIDE DEF doc
<1>6. cs.status \in {req[q].saw.status} =>
        cs.status \notin TERMINAL_STATES \cup {"applying"} /\ doc.status \notin Settled
  BY <1>1, <1>5 DEF Replannable, EDITABLE_STATES, TERMINAL_STATES, Settled
<1>7. UNCHANGED <<site, writes, filed, wire, answers, budget>>
      /\ hands' \subseteq User /\ granted' \subseteq Diff
      /\ ~At(q, Working) /\ req[q].at # "idle"
  BY <1>0, <1>1 DEF Replan, TypeOK, At, Working
<1> QED BY <1>3, <1>5, <1>6, <1>7, QuietSteps, QuietSave

-----------------------------------------------------------------------------
(* Validation and review.                                                   *)

(* The statuses a quiet save may start from and lead to.                    *)
LEMMA QuietStatus ==
  /\ \A x \in EDITABLE_STATES \cup PRE_APPLY_CANCELLABLE \cup Validatable :
       x \notin TERMINAL_STATES \cup {"applying"}
  /\ \A x \in {"validating", "validated", "validation_failed", "pending_approval",
               "approved", "rejected", "cancelled"} : x \in Status \ Settled
  /\ {"validating", "planned", "validated", "pending_approval"}
       \subseteq PRE_APPLY_CANCELLABLE
BY DEF EDITABLE_STATES, PRE_APPLY_CANCELLABLE, Validatable, TERMINAL_STATES,
       Status, Settled

LEMMA ValidateInv ==
  ASSUME TInv, NEW q \in Slot, Validate(q)
  PROVE  Kept
<1>0. TypeOK /\ cs \in Document
  BY DEF TInv, TypeOK
<1> DEFINE doc == [cs EXCEPT !.status = "validating"]
<1>1. doc \in Document /\ doc.status = "validating"
  BY <1>0, QuietStatus, StatusDoc
<1>2. Save(q, Validatable, doc, "run")
  BY DEF Validate
<1> HIDE DEF doc
<1>3. UNCHANGED <<site, writes, filed, wire, answers, budget>>
      /\ hands' \subseteq User /\ granted' \subseteq Diff
      /\ ~At(q, Working) /\ req[q].at # "idle"
  BY <1>0 DEF Validate, TypeOK, At, Working
<1> QED BY <1>1, <1>2, <1>3, QuietStatus, QuietSteps, QuietSave

LEMMA RunValidationInv ==
  ASSUME TInv, NEW q \in Slot, RunValidation(q)
  PROVE  Kept
<1>0. TypeOK /\ cs.plan \in Plan /\ req[q] \in Request
  BY DEF TInv, TypeOK, Document
<1>1. req' = [req EXCEPT ![q] = [[@ EXCEPT !.at = "verdict"] EXCEPT !.saw.plan = cs.plan]]
  BY DEF RunValidation
<1>2. [req[q].saw EXCEPT !.plan = cs.plan] \in Document
  BY <1>0 DEF Request, Document
<1>3. /\ req' \in [Slot -> Request] /\ req'[q].at = "verdict"
      /\ \A s \in Slot \ {q} : req'[s] = req[s]
  BY <1>0, <1>1, <1>2, QuietSteps DEF TypeOK, Request
<1>4. /\ UNCHANGED <<cs, site, writes, filed, wire, answers, hands, granted>>
      /\ budget' \in Budget /\ ~At(q, Working) /\ req[q].at # "idle"
  BY <1>0 DEF RunValidation, TypeOK, At, Working
<1> QED BY <1>3, <1>4, QuietSteps, QuietMove

LEMMA VerdictInv ==
  ASSUME TInv, NEW q \in Slot, NEW ok \in BOOLEAN, Verdict(q, ok)
  PROVE  Kept
<1>0. TypeOK /\ cs \in Document /\ req[q].saw.plan.diff \in Diff
  BY DEF TInv, TypeOK, Request, Document, Plan
<1> DEFINE st  == IF ok THEN "validated" ELSE "validation_failed"
           v   == [ok |-> ok, diff |-> req[q].saw.plan.diff]
           doc == [cs EXCEPT !.status = st, !.validation = v]
<1>1. v \in Validation /\ st \in {"validated", "validation_failed"}
  BY <1>0 DEF Validation
<1>2. Save(q, {"validating"}, doc, "idle")
  BY DEF Verdict
<1> HIDE DEF st, v
<1>3. doc \in Document /\ doc.status = st /\ st \in Status \ Settled
  BY <1>0, <1>1, QuietStatus DEF Document
<1> HIDE DEF doc
<1>4. UNCHANGED <<site, writes, filed, wire, answers, budget>>
      /\ hands' \subseteq User /\ granted' \subseteq Diff
      /\ ~At(q, Working) /\ req[q].at # "idle"
  BY <1>0 DEF Verdict, TypeOK, At, Working
<1> QED BY <1>2, <1>3, <1>4, QuietStatus, QuietSteps, QuietSave

LEMMA SubmitInv ==
  ASSUME TInv, NEW q \in Slot, Submit(q)
  PROVE  Kept
<1>0. TypeOK /\ Signed /\ cs \in Document /\ req[q] \in Request
  BY DEF TInv, TypeOK
<1> DEFINE auth == req[q].saw.authors \cup {req[q].by}
           doc  == [cs EXCEPT !.status = "pending_approval", !.authors = auth,
                              !.submitted_by = req[q].by]
           to   == IF req[q].at = "submit_auto" THEN "auto" ELSE "idle"
<1>1. req[q].by \in User /\ req[q].at # "idle" /\ ~At(q, Working)
  BY <1>0 DEF Submit, Signed, Signing, At, Working
<1>2. auth \subseteq User /\ req[q].by \in Actor
  BY <1>0, <1>1 DEF Request, Document
<1>3. Save(q, {"planned", "validated"}, doc, to) /\ to \in {"auto", "idle"}
  BY DEF Submit
<1> HIDE DEF auth, to
<1>4. doc \in Document /\ doc.status = "pending_approval"
  BY <1>0, <1>2, QuietStatus DEF Document
<1> HIDE DEF doc
<1>5. UNCHANGED <<site, writes, filed, wire, answers, budget>>
      /\ hands' \subseteq User /\ granted' \subseteq Diff
  BY <1>0, <1>1 DEF Submit, Sign, TypeOK
<1> QED BY <1>1, <1>3, <1>4, <1>5, QuietStatus, QuietSteps, QuietSave

LEMMA ReadSubmittedInv ==
  ASSUME TInv, NEW q \in Slot, ReadSubmitted(q)
  PROVE  Kept
<1>0. TypeOK /\ cs.plan \in Plan /\ req[q] \in Request
  BY DEF TInv, TypeOK, Document
<1>1. /\ UNCHANGED <<cs, site, writes, filed, wire, answers, hands, granted>>
      /\ budget' \in Budget /\ ~At(q, Working) /\ req[q].at # "idle"
  BY <1>0 DEF ReadSubmitted, TypeOK, At, Working
<1>2. CASE cs.plan.valid
  <2>1. req' = [req EXCEPT ![q] = [[@ EXCEPT !.at = "auto_approve"]
                                      EXCEPT !.saw.plan = cs.plan]]
    BY <1>2 DEF ReadSubmitted
  <2>2. [req[q].saw EXCEPT !.plan = cs.plan] \in Document
    BY <1>0 DEF Request, Document
  <2>3. /\ req' \in [Slot -> Request] /\ req'[q].at = "auto_approve"
        /\ \A s \in Slot \ {q} : req'[s] = req[s]
    BY <1>0, <2>1, <2>2, QuietSteps DEF TypeOK, Request
  <2> QED BY <1>1, <2>3, QuietSteps, QuietMove
<1>3. CASE ~cs.plan.valid
  <2>1. /\ req' \in [Slot -> Request] /\ req'[q].at = "idle"
        /\ \A s \in Slot \ {q} : req'[s] = req[s]
    BY <1>0, <1>3, QuietSteps, GoType DEF ReadSubmitted
  <2> QED BY <1>1, <2>1, QuietSteps, QuietMove
<1> QED BY <1>2, <1>3

LEMMA GrantType ==
  ASSUME TypeOK, NEW d \in Diff, Grant(d)
  PROVE  granted' \subseteq Diff
BY DEF Grant, TypeOK

LEMMA AutoApproveInv ==
  ASSUME TInv, NEW q \in Slot, AutoApprove(q)
  PROVE  Kept
<1>0. TypeOK /\ cs \in Document /\ req[q].saw.plan.diff \in Diff
  BY DEF TInv, TypeOK, Request, Document, Plan
<1> DEFINE appr == {[by |-> Policy, diff |-> req[q].saw.plan.diff]}
           doc  == [cs EXCEPT !.status = "approved", !.approvals = appr]
<1>1. appr \subseteq Approval
  BY <1>0 DEF Approval, Actor
<1>2. Save(q, {"pending_approval"}, doc, "auto_apply")
  BY DEF AutoApprove
<1> HIDE DEF appr
<1>3. doc \in Document /\ doc.status = "approved"
  BY <1>0, <1>1, QuietStatus DEF Document
<1> HIDE DEF doc
<1>4. UNCHANGED <<site, writes, filed, wire, answers, budget>>
      /\ hands' \subseteq User /\ granted' \subseteq Diff
      /\ ~At(q, Working) /\ req[q].at # "idle"
  BY <1>0, GrantType DEF AutoApprove, TypeOK, At, Working
<1> QED BY <1>2, <1>3, <1>4, QuietStatus, QuietSteps, QuietSave

LEMMA ApproveInv ==
  ASSUME TInv, NEW q \in Slot, Approve(q)
  PROVE  Kept
<1>0. TypeOK /\ cs \in Document /\ req[q] \in Request
      /\ req[q].saw.plan.diff \in Diff
  BY DEF TInv, TypeOK, Request, Document, Plan
<1> DEFINE appr == req[q].saw.approvals \cup
                     {[by |-> req[q].by, diff |-> req[q].saw.plan.diff]}
           doc  == [cs EXCEPT !.status = "approved", !.approvals = appr]
<1>1. appr \subseteq Approval
  BY <1>0 DEF Approval, Request, Document
<1>2. Save(q, {"pending_approval"}, doc, "idle")
  BY DEF Approve
<1> HIDE DEF appr
<1>3. doc \in Document /\ doc.status = "approved"
  BY <1>0, <1>1, QuietStatus DEF Document
<1> HIDE DEF doc
<1>4. UNCHANGED <<site, writes, filed, wire, answers, budget>>
      /\ hands' \subseteq User /\ granted' \subseteq Diff
      /\ ~At(q, Working) /\ req[q].at # "idle"
  BY <1>0, GrantType DEF Approve, TypeOK, At, Working
<1> QED BY <1>2, <1>3, <1>4, QuietStatus, QuietSteps, QuietSave

LEMMA RejectInv ==
  ASSUME TInv, NEW q \in Slot, Reject(q)
  PROVE  Kept
<1>0. TypeOK /\ cs \in Document /\ req[q].saw \in Document
  BY DEF TInv, TypeOK, Request
<1> DEFINE doc == [cs EXCEPT !.status = "rejected", !.approvals = req[q].saw.approvals]
<1>1. doc \in Document /\ doc.status = "rejected"
  BY <1>0, QuietStatus DEF Document
<1>2. Save(q, {"pending_approval"}, doc, "idle")
  BY DEF Reject
<1> HIDE DEF doc
<1>3. UNCHANGED <<site, writes, filed, wire, answers, budget>>
      /\ hands' \subseteq User /\ granted' \subseteq Diff
      /\ ~At(q, Working) /\ req[q].at # "idle"
  BY <1>0 DEF Reject, TypeOK, At, Working
<1> QED BY <1>1, <1>2, <1>3, QuietStatus, QuietSteps, QuietSave

LEMMA CancelInv ==
  ASSUME TInv, NEW q \in Slot, Cancel(q)
  PROVE  Kept
<1>0. TypeOK /\ cs \in Document
  BY DEF TInv, TypeOK
<1> DEFINE doc == [cs EXCEPT !.status = "cancelled"]
<1>1. doc \in Document /\ doc.status = "cancelled"
  BY <1>0, QuietStatus, StatusDoc
<1>2. Save(q, PRE_APPLY_CANCELLABLE, doc, "idle")
  BY DEF Cancel
<1> HIDE DEF doc
<1>3. UNCHANGED <<site, writes, filed, wire, answers, budget>>
      /\ hands' \subseteq User /\ granted' \subseteq Diff
      /\ ~At(q, Working) /\ req[q].at # "idle"
  BY <1>0 DEF Cancel, TypeOK, At, Working
<1> QED BY <1>1, <1>2, <1>3, QuietStatus, QuietSteps, QuietSave

LEMMA ReadAutoApprovedInv ==
  ASSUME TInv, NEW q \in Slot, ReadAutoApproved(q)
  PROVE  Kept
<1>0. TypeOK
  BY DEF TInv
<1>1. PICK step \in {"apply", "idle"} : Go(q, step)
  BY DEF ReadAutoApproved
<1>2. /\ req' \in [Slot -> Request] /\ req'[q].at = step
      /\ \A s \in Slot \ {q} : req'[s] = req[s]
  BY <1>0, <1>1, QuietSteps, GoType
<1>3. /\ UNCHANGED <<cs, site, writes, filed, wire, answers, hands, granted>>
      /\ budget' \in Budget /\ ~At(q, Working) /\ req[q].at # "idle"
  BY <1>0 DEF ReadAutoApproved, TypeOK, At, Working
<1> QED BY <1>2, <1>3, QuietSteps, QuietMove

-----------------------------------------------------------------------------
(* Applying.                                                                *)

LEMMA CallType ==
  ASSUME NEW d \in Document
  PROVE  ApplyCall(d) \in Apply
BY DEF ApplyCall, Apply, Document, Plan

(* Who applies, or rolls back, is not creating, and what is in either state *)
(* says so.                                                                 *)
LEMMA TaskFacts ==
  ASSUME IInv, NEW q \in Slot
  PROVE  /\ At(q, Working) => cs.status = "applying" /\ Tasks = {q}
         /\ At(q, Undoing) => /\ cs.status \in {"applied", "rolled_back"}
                              /\ req[q].saw.revision = cs.revision
         /\ cs.status # "draft" => \A s \in Slot : ~At(s, {"plan_new", "create"})
         /\ cs.status # "applying" => \A s \in Slot : ~At(s, Working)
         /\ cs.status \notin {"applied", "rolled_back"} => \A s \in Slot : ~At(s, Undoing)
BY DEF IInv, OneApplier, Tasks, Undoer, Alone, At, Working, Undoing

(* A move of the task that applies.                                         *)
LEMMA WorkMove ==
  ASSUME TInv, TypeOK', NEW q \in Slot, At(q, Working),
         \A s \in Slot \ {q} : req'[s] = req[s],
         UNCHANGED <<cs, answers>>, filed \subseteq filed',
         req'[q].at \in Working, req'[q].saw = req[q].saw,
         req'[q].at # "fail" => req[q].at # "fail",
         IInv /\ req'[q].at \in {"record", "finish"} =>
           Answered(ApplyCall(req[q].saw), req'[q].revision),
         req'[q].at = "finish" => OnFile(req[q].revision)'
  PROVE  Kept
<1>1. TInv'
  BY DEF TInv, Seen, Signed, Signing, At, Working
<1>2. Lawful
  BY DEF Lawful
<1>3. ASSUME Hidden, IInv
      PROVE  IInv'
  <2>0. Applier /\ Undoer
    BY <1>3 DEF IInv
  <2>1. cs.status = "applying" /\ Tasks = {q}
    BY <1>3, TaskFacts
  <2>2. \A s \in Slot : ~At(s, {"plan_new", "create"}) /\ ~At(s, Undoing)
    BY <1>3, <2>1, TaskFacts
  <2>3. Alone'
    BY <2>2 DEF Alone, At, Working
  <2>4. Tasks' = {q}
    BY <2>1 DEF Tasks, Working
  <2>5. OneApplier'
    BY <2>1, <2>4 DEF OneApplier
  <2>6. Applier'
    <3>1. ASSUME NEW s \in Slot \ {q} PROVE req'[s].at \notin Working
      BY <2>1, <3>1 DEF Tasks, Working
    <3>2. req'[q].at # "fail" =>
            req[q].saw.plan = cs.plan /\ req[q].saw.operations = cs.operations
      BY <2>0 DEF Applier, At, Working
    <3>3. \A c, r : Answered(c, r)' <=> Answered(c, r)
      BY DEF Answered
    <3>4. ApplyCall(req[q].saw)' = ApplyCall(req[q].saw)
      BY DEF ApplyCall
    <3> QED BY <1>3, <3>1, <3>2, <3>3, <3>4 DEF Applier, At, Working
  <2>7. Undoer'
    BY <2>2 DEF Undoer, At, Working, Undoing
  <2>8. (AppliedHasRevision /\ RolledBackIsUndone)'
    BY <2>1 DEF AppliedHasRevision, RolledBackIsUndone
  <2> QED BY <1>1, <2>3, <2>5, <2>6, <2>7, <2>8 DEF IInv
<1> QED BY <1>1, <1>2, <1>3 DEF Kept

(* A change set that is approved is applied by nobody, and by nobody else.  *)
LEMMA Unapplied ==
  ASSUME IInv, cs.status = "approved"
  PROVE  \A s \in Slot :
           ~At(s, {"plan_new", "create"}) /\ ~At(s, Undoing) /\ ~At(s, Working)
BY TaskFacts

LEMMA BeginApplyInv ==
  ASSUME TInv, NEW q \in Slot, BeginApply(q)
  PROVE  Kept
<1>0. TypeOK /\ Seen /\ Signed /\ cs \in Document
  BY DEF TInv, TypeOK
<1>1. req[q].at = "apply"
  BY DEF BeginApply
<1>2. CASE cs.status = "approved"
  <2> DEFINE r == [NoRequest EXCEPT !.at = "applying", !.saw.plan = cs.plan,
                                    !.saw.operations = cs.operations]
  <2>1. /\ cs' = [cs EXCEPT !.status = "applying"]
        /\ req' = [req EXCEPT ![q] = r]
        /\ wire' = wire \cup {ApplyCall(cs)}
        /\ UNCHANGED <<site, writes, filed, answers, budget, hands, granted>>
    BY <1>2 DEF BeginApply
  <2>2. /\ cs' \in Document /\ cs'.status = "applying" /\ cs'.plan = cs.plan
        /\ cs'.operations = cs.operations
    BY <1>0, <2>1 DEF Document, Status
  <2>3. /\ r \in Request /\ r.at = "applying" /\ r.saw.plan = cs.plan
        /\ r.saw.operations = cs.operations
    <3>1. /\ NoRequest.saw \in Document /\ cs.plan \in Plan /\ cs.operations \in Content
          /\ NoRequest \in Request /\ "applying" \in Step
      BY <1>0, NoRequestType DEF Request, Document, Step
    <3>2. /\ [[NoRequest.saw EXCEPT !.plan = cs.plan]
                EXCEPT !.operations = cs.operations] \in Document
          /\ [[NoRequest.saw EXCEPT !.plan = cs.plan]
                EXCEPT !.operations = cs.operations].plan = cs.plan
          /\ [[NoRequest.saw EXCEPT !.plan = cs.plan]
                EXCEPT !.operations = cs.operations].operations = cs.operations
      BY <3>1 DEF Document
    <3> QED BY <3>1, <3>2 DEF Request
  <2> HIDE DEF r
  <2>4. /\ req' \in [Slot -> Request] /\ req'[q] = r
        /\ \A s \in Slot \ {q} : req'[s] = req[s]
    BY <1>0, <2>1, <2>3 DEF TypeOK
  <2>5. TypeOK'
    BY <1>0, <2>1, <2>2, <2>4, CallType DEF TypeOK
  <2>6. TInv' /\ Lawful
    BY <1>0, <1>2, <2>3, <2>4, <2>5
       DEF TInv, Seen, Signed, Signing, At, Lawful, TERMINAL_STATES
  <2>7. ASSUME Hidden, IInv
        PROVE  IInv'
    <3>1. \A s \in Slot :
            ~At(s, {"plan_new", "create"}) /\ ~At(s, Undoing) /\ ~At(s, Working)
      BY <1>2, <2>7, Unapplied
    <3>2. Alone'
      BY <2>3, <2>4, <3>1 DEF Alone, At
    <3>3. Tasks' = {q}
      BY <2>3, <2>4, <3>1 DEF Tasks, At, Working
    <3>4. OneApplier'
      BY <2>2, <3>3 DEF OneApplier
    <3>5. Applier'
      <4>1. \A s \in Slot \ {q} : req'[s].at \notin {"applying", "record", "finish"}
        BY <2>4, <3>1 DEF At, Working
      <4>2. req'[q].at = "applying" /\ req'[q].saw.plan = cs'.plan
            /\ req'[q].saw.operations = cs'.operations
        BY <2>2, <2>3, <2>4
      <4> QED BY <4>1, <4>2 DEF Applier, At
    <3>6. Undoer'
      BY <2>3, <2>4, <3>1 DEF Undoer, At, Undoing
    <3>7. (AppliedHasRevision /\ RolledBackIsUndone)'
      BY <2>2 DEF AppliedHasRevision, RolledBackIsUndone
    <3> QED BY <2>6, <3>2, <3>4, <3>5, <3>6, <3>7 DEF IInv
  <2> QED BY <2>6, <2>7 DEF Kept
<1>3. CASE cs.status # "approved"
  BY <1>0, <1>3, EndsInv DEF BeginApply, TypeOK
<1> QED BY <1>2, <1>3

LEMMA BrokenType ==
  ASSUME TypeOK, Broken
  PROVE  budget' \in Budget
BY ChangeSetAssumption DEF Broken, TypeOK, Budget

LEMMA BeginBreaksInv ==
  ASSUME TInv, NEW q \in Slot, BeginBreaks(q)
  PROVE  Kept
<1>0. TypeOK /\ Seen /\ Signed /\ cs \in Document /\ "idle" \in Step
  BY DEF TInv, TypeOK, Step
<1>1. /\ cs.status = "approved" /\ Go(q, "idle")
      /\ cs' = [cs EXCEPT !.status = "applying"]
      /\ UNCHANGED <<site, writes, filed, wire, answers, hands, granted>>
      /\ budget' \in Budget
  BY <1>0, BrokenType DEF BeginBreaks
<1>2. cs' \in Document /\ cs'.status = "applying"
  BY <1>0, <1>1 DEF Document, Status
<1>3. /\ req' \in [Slot -> Request] /\ req'[q].at = "idle"
      /\ \A s \in Slot \ {q} : req'[s] = req[s]
  BY <1>0, <1>1, GoType
<1>4. TypeOK'
  BY <1>0, <1>1, <1>2, <1>3 DEF TypeOK
<1>5. TInv' /\ Lawful
  BY <1>0, <1>1, <1>3, <1>4 DEF TInv, Seen, Signed, Signing, At, Lawful, TERMINAL_STATES
<1>6. ASSUME Hidden, IInv
      PROVE  IInv'
  <2>1. \A s \in Slot :
          ~At(s, {"plan_new", "create"}) /\ ~At(s, Undoing) /\ ~At(s, Working)
    BY <1>1, <1>6, Unapplied
  <2>2. \A s \in Slot : req'[s].at \notin Working \cup Undoing \cup {"plan_new", "create"}
    BY <1>3, <2>1 DEF At, Working, Undoing
  <2>3. Alone' /\ OneApplier' /\ Applier' /\ Undoer'
    BY <2>2 DEF Alone, OneApplier, Tasks, Applier, Undoer, At, Working, Undoing
  <2>4. (AppliedHasRevision /\ RolledBackIsUndone)'
    BY <1>2 DEF AppliedHasRevision, RolledBackIsUndone
  <2> QED BY <1>5, <2>3, <2>4 DEF IInv
<1> QED BY <1>5, <1>6 DEF Kept

LEMMA RecordInv ==
  ASSUME TInv, NEW q \in Slot, Record(q)
  PROVE  Kept
<1>0. TypeOK /\ req[q].revision \in Rev
  BY DEF TInv, TypeOK, Request
<1> DEFINE f == [revision |-> req[q].revision, kind |-> "apply", status |-> "applied"]
<1>1. /\ req[q].at = "record" /\ Go(q, "finish") /\ filed' = filed \cup {f}
      /\ UNCHANGED <<cs, site, writes, wire, answers, budget, hands, granted>>
  BY DEF Record
<1>2. "finish" \in Step /\ "finish" # "idle"
  BY DEF Step
<1>3. /\ req' \in [Slot -> Request] /\ req'[q] = [req[q] EXCEPT !.at = "finish"]
      /\ \A s \in Slot \ {q} : req'[s] = req[s]
  BY <1>0, <1>1, <1>2, GoType
<1>4. /\ req'[q].at = "finish" /\ req'[q].saw = req[q].saw
      /\ req'[q].revision = req[q].revision
  BY <1>0, <1>3 DEF TypeOK, Request
<1>5. f \in Filed
  BY <1>0 DEF Filed
<1>6. TypeOK'
  BY <1>0, <1>1, <1>3, <1>5 DEF TypeOK
<1>7. OnFile(req[q].revision)'
  <2>1. f \in filed' /\ f.revision = req'[q].revision /\ f.kind = "apply"
    BY <1>1, <1>4
  <2> HIDE DEF f
  <2> QED BY <2>1 DEF OnFile
<1>8. IInv => Answered(ApplyCall(req[q].saw), req'[q].revision)
  BY <1>1, <1>4 DEF IInv, Applier, At
<1>9. At(q, Working) /\ req'[q].at \in Working /\ filed \subseteq filed'
  BY <1>1, <1>4 DEF At, Working
<1> QED BY <1>1, <1>3, <1>4, <1>6, <1>7, <1>8, <1>9, WorkMove

LEMMA FailingInv ==
  ASSUME TInv, NEW q \in Slot, Go(q, "fail"), At(q, Working),
         UNCHANGED <<cs, site, writes, filed, wire, answers, hands, granted>>,
         budget' \in Budget
  PROVE  Kept
<1>0. TypeOK /\ "fail" \in Step
  BY DEF TInv, Step
<1>1. /\ req' \in [Slot -> Request] /\ req'[q] = [req[q] EXCEPT !.at = "fail"]
      /\ \A s \in Slot \ {q} : req'[s] = req[s]
  BY <1>0, GoType
<1>2. req'[q].at = "fail" /\ req'[q].saw = req[q].saw
  BY <1>0, <1>1 DEF TypeOK, Request
<1>3. TypeOK'
  BY <1>0, <1>1 DEF TypeOK
<1>4. req'[q].at \in Working /\ filed \subseteq filed'
  BY <1>2 DEF Working
<1> QED BY <1>1, <1>2, <1>3, <1>4, WorkMove

LEMMA RecordFailsInv ==
  ASSUME TInv, NEW q \in Slot, RecordFails(q)
  PROVE  Kept
<1>1. budget' \in Budget
  BY LostType DEF TInv, RecordFails
<1>2. At(q, Working)
  BY DEF RecordFails, At, Working
<1> QED BY <1>1, <1>2, FailingInv DEF RecordFails

-----------------------------------------------------------------------------
(* The end of an apply.                                                     *)

(* The task writes the outcome and ends: nobody applies any more.           *)
LEMMA WorkEnds ==
  ASSUME TInv, NEW q \in Slot, NEW doc \in Document, Save(q, {"applying"}, doc, "idle"),
         At(q, Working),
         UNCHANGED <<site, writes, filed, wire, answers, budget, hands, granted>>,
         IInv => ((AppliedHasRevision /\ RolledBackIsUndone)' \/ cs' = cs)
  PROVE  Kept
<1>0. TypeOK /\ Seen /\ Signed /\ "idle" \in Step
  BY DEF TInv, Step
<1>1. /\ cs' \in Document /\ req' \in [Slot -> Request] /\ req'[q].at = "idle"
      /\ \A s \in Slot \ {q} : req'[s] = req[s]
      /\ cs.status = "applying" \/ cs' = cs
  BY <1>0, SaveType
<1>2. TypeOK'
  BY <1>0, <1>1 DEF TypeOK
<1>3. TInv'
  BY <1>0, <1>1, <1>2 DEF TInv, Seen, Signed, Signing, At
<1>4. Lawful
  BY <1>1 DEF Lawful, TERMINAL_STATES, Tasks, At, Working
<1>5. ASSUME Hidden, IInv
      PROVE  IInv'
  <2>1. cs.status = "applying" /\ Tasks = {q}
    BY <1>5, TaskFacts
  <2>2. \A s \in Slot : ~At(s, {"plan_new", "create"}) /\ ~At(s, Undoing)
    BY <1>5, <2>1, TaskFacts
  <2>3. \A s \in Slot : req'[s].at \notin Working \cup Undoing \cup {"plan_new", "create"}
    BY <1>1, <2>1, <2>2 DEF Tasks, At, Working, Undoing
  <2>4. Alone' /\ OneApplier' /\ Applier' /\ Undoer'
    BY <2>3 DEF Alone, OneApplier, Tasks, Applier, Undoer, At, Working, Undoing
  <2>5. (AppliedHasRevision /\ RolledBackIsUndone)'
    BY <1>5, <2>1 DEF AppliedHasRevision, RolledBackIsUndone
  <2> QED BY <1>3, <2>4, <2>5 DEF IInv
<1> QED BY <1>3, <1>4, <1>5 DEF Kept

LEMMA FinishInv ==
  ASSUME TInv, NEW q \in Slot, Finish(q)
  PROVE  Kept
<1>0. TypeOK /\ cs \in Document /\ req[q].revision \in Rev
  BY DEF TInv, TypeOK, Request
<1> DEFINE doc == [cs EXCEPT !.status = "applied", !.revision = req[q].revision]
<1>1. /\ doc \in Document /\ doc.status = "applied" /\ doc.revision = req[q].revision
      /\ doc.plan = cs.plan /\ doc.operations = cs.operations
  BY <1>0 DEF Document, Status
<1>2. /\ Save(q, {"applying"}, doc, "idle") /\ At(q, {"finish"}) /\ At(q, Working)
      /\ UNCHANGED <<site, writes, filed, wire, answers, budget, hands, granted>>
  BY DEF Finish, At, Working
<1> HIDE DEF doc
<1>3. ASSUME IInv, cs' = doc
      PROVE  (AppliedHasRevision /\ RolledBackIsUndone)'
  <2>1. OnFile(req[q].revision) /\ Answered(ApplyCall(req[q].saw), req[q].revision)
        /\ req[q].saw.plan = cs.plan /\ req[q].saw.operations = cs.operations
    BY <1>2, <1>3 DEF IInv, Applier, At
  <2>2. ApplyCall(cs') = ApplyCall(req[q].saw)
    BY <1>1, <1>3, <2>1 DEF ApplyCall
  <2>3. cs'.status = "applied" /\ cs'.revision = req[q].revision
    BY <1>1, <1>3
  <2>4. AppliedHasRevision'
    BY <1>2, <2>1, <2>2, <2>3 DEF AppliedHasRevision, OnFile, Answered
  <2> QED BY <2>3, <2>4 DEF RolledBackIsUndone
<1>4. cs' = doc \/ cs' = cs
  BY <1>2 DEF Save
<1> QED BY <1>1, <1>2, <1>3, <1>4, WorkEnds

LEMMA FailInv ==
  ASSUME TInv, NEW q \in Slot, Fail(q)
  PROVE  Kept
<1>0. TypeOK /\ cs \in Document
  BY DEF TInv, TypeOK
<1> DEFINE doc == [cs EXCEPT !.status = "apply_failed", !.revision = 0]
<1>1. doc \in Document /\ doc.status = "apply_failed"
  BY <1>0, RevFacts DEF Document, Status
<1>2. /\ Save(q, {"applying"}, doc, "idle") /\ At(q, Working)
      /\ UNCHANGED <<site, writes, filed, wire, answers, budget, hands, granted>>
  BY DEF Fail, At, Working
<1> HIDE DEF doc
<1>3. cs' = doc \/ cs' = cs
  BY <1>2 DEF Save
<1>4. (AppliedHasRevision /\ RolledBackIsUndone)' \/ cs' = cs
  BY <1>1, <1>3 DEF AppliedHasRevision, RolledBackIsUndone
<1> QED BY <1>1, <1>2, <1>4, WorkEnds

-----------------------------------------------------------------------------
(* Rolling back.                                                            *)

LEMMA UndoMove ==
  ASSUME TInv, TypeOK', NEW q \in Slot, ~At(q, Working),
         \A s \in Slot \ {q} : req'[s] = req[s],
         UNCHANGED <<cs, answers>>,
         \A r : (OnFile(r) => OnFile(r)') /\ (Reverted(r) => Reverted(r)'),
         req'[q].at \in Undoing,
         IInv => /\ cs.status \in {"applied", "rolled_back"}
                 /\ req'[q].saw.revision = cs.revision
                 /\ req'[q].at # "rolling_back" => Undone(cs.revision)
                 /\ req'[q].at \in {"insert", "close"} => Reverted(cs.revision)'
  PROVE  Kept
<1>1. TInv'
  BY DEF TInv, Seen, Signed, Signing, At, Undoing
<1>2. Lawful
  BY DEF Lawful
<1>3. ASSUME Hidden, IInv
      PROVE  IInv'
  <2>0. /\ Undoer /\ AppliedHasRevision /\ RolledBackIsUndone
        /\ cs.status \in {"applied", "rolled_back"}
    BY <1>3 DEF IInv
  <2>1. \A s \in Slot : ~At(s, {"plan_new", "create"}) /\ ~At(s, Working)
    BY <1>3, <2>0, TaskFacts
  <2>2. \A s \in Slot : req'[s].at \notin {"plan_new", "create"} \cup Working
    BY <2>1 DEF At, Working, Undoing
  <2>3. Alone' /\ OneApplier' /\ Applier'
    BY <2>2 DEF Alone, OneApplier, Applier, Tasks, At, Working
  <2>4. Undoer'
    <3>1. ASSUME NEW s \in Slot, req'[s].at \in Undoing
          PROVE  /\ req'[s].saw.revision = cs.revision
                 /\ req'[s].at # "rolling_back" => Undone(cs.revision)
                 /\ req'[s].at \in {"insert", "close"} => Reverted(cs.revision)'
      <4>1. CASE s = q
        BY <1>3, <4>1
      <4>2. CASE s # q
        BY <2>0, <3>1, <4>2 DEF Undoer, At, Undoing
      <4> QED BY <4>1, <4>2
    <3>2. \A r : Undone(r)' <=> Undone(r)
      BY DEF Undone
    <3> QED BY <2>0, <3>1, <3>2 DEF Undoer, At, Undoing
  <2>5. AppliedHasRevision'
    <3>1. /\ OnFile(cs.revision) /\ Answered(ApplyCall(cs), cs.revision)
          /\ cs.status = "rolled_back" => Reverted(cs.revision)
      BY <2>0 DEF AppliedHasRevision, OnFile, Reverted, Answered
    <3>2. /\ OnFile(cs.revision)' /\ Answered(ApplyCall(cs), cs.revision)'
          /\ cs.status = "rolled_back" => Reverted(cs.revision)'
      BY <3>1 DEF Answered, ApplyCall
    <3> QED BY <3>2 DEF AppliedHasRevision, OnFile, Reverted, Answered
  <2>6. RolledBackIsUndone'
    BY <2>0 DEF RolledBackIsUndone
  <2> QED BY <1>1, <2>3, <2>4, <2>5, <2>6 DEF IInv
<1> QED BY <1>1, <1>2, <1>3 DEF Kept

LEMMA StartRollbackInv ==
  ASSUME TInv, NEW q \in Slot, NEW why \in Reason, StartRollback(q, why)
  PROVE  Kept
<1>0. TypeOK /\ cs.revision \in Rev /\ NoRequest \in Request /\ "rolling_back" \in Step
      /\ why \in Why
  BY NoRequestType DEF TInv, TypeOK, Document, Step, Why
<1> DEFINE r == [NoRequest EXCEPT !.at = "rolling_back", !.reason = why,
                                  !.saw.revision = cs.revision]
           m == [op |-> "rollback", revision |-> cs.revision, reason |-> why]
<1>1. /\ cs.status = "applied" /\ Arrive(q, r) /\ wire' = wire \cup {m}
      /\ UNCHANGED <<cs, site, writes, filed, answers, hands, granted>>
  BY DEF StartRollback
<1>2. /\ r \in Request /\ r.at = "rolling_back" /\ r.saw.revision = cs.revision
  <2>1. /\ [NoRequest.saw EXCEPT !.revision = cs.revision] \in Document
        /\ [NoRequest.saw EXCEPT !.revision = cs.revision].revision = cs.revision
    BY <1>0 DEF Request, Document
  <2> QED BY <1>0, <2>1 DEF Request
<1> HIDE DEF r
<1>3. /\ req' \in [Slot -> Request] /\ req'[q] = r
      /\ \A s \in Slot \ {q} : req'[s] = req[s]
      /\ budget' \in Budget /\ req[q].at = "idle"
  BY <1>0, <1>1, <1>2, ArriveType
<1>4. m \in Rollback
  BY <1>0 DEF Rollback
<1>5. TypeOK'
  BY <1>0, <1>1, <1>3, <1>4 DEF TypeOK
<1>6. ~At(q, Working)
  BY <1>3 DEF At, Working
<1>7. \A x : (OnFile(x) => OnFile(x)') /\ (Reverted(x) => Reverted(x)')
  BY <1>1 DEF OnFile, Reverted
<1>8. req'[q].at = "rolling_back" /\ req'[q].at \in Undoing
  BY <1>2, <1>3 DEF Undoing
<1> QED BY <1>1, <1>2, <1>3, <1>5, <1>6, <1>7, <1>8, UndoMove

LEMMA HearBackInv ==
  ASSUME TInv, NEW q \in Slot, NEW a \in answers, HearBack(q, a)
  PROVE  Kept
<1>0. TypeOK /\ a \in Answer /\ a.revision \in Rev /\ req[q] \in Request
  BY DEF TInv, TypeOK, Answer
<1>1. /\ req[q].at \in {"applying", "rolling_back"}
      /\ UNCHANGED <<cs, site, writes, filed, wire, answers, budget, hands, granted>>
      /\ budget' \in Budget
  BY <1>0 DEF HearBack, TypeOK
<1>2. CASE a.to = Call(q) /\ a.ok
  <2> DEFINE to == IF req[q].at = "applying" THEN "record" ELSE "mark"
  <2>1. req' = [req EXCEPT ![q] = [[@ EXCEPT !.revision = a.revision] EXCEPT !.at = to]]
    BY <1>0, <1>2 DEF HearBack, TypeOK, Request
  <2>2. to \in Step
    BY DEF Step
  <2>3. /\ req' \in [Slot -> Request] /\ req'[q].at = to
        /\ req'[q].saw = req[q].saw /\ req'[q].revision = a.revision
        /\ \A s \in Slot \ {q} : req'[s] = req[s]
    BY <1>0, <2>1, <2>2 DEF TypeOK, Request
  <2>4. TypeOK'
    BY <1>0, <1>1, <2>3 DEF TypeOK
  <2>5. CASE req[q].at = "applying"
    <3>1. req'[q].at = "record" /\ At(q, Working) /\ req'[q].at \in Working
      BY <2>3, <2>5 DEF At, Working
    <3>2. Answered(ApplyCall(req[q].saw), req'[q].revision)
      BY <1>2, <2>3, <2>5 DEF Answered, Call
    <3>3. filed \subseteq filed' /\ UNCHANGED <<cs, answers>>
      BY <1>1
    <3> QED BY <2>3, <2>4, <2>5, <3>1, <3>2, <3>3, WorkMove
  <2>6. CASE req[q].at = "rolling_back"
    <3>1. req'[q].at = "mark" /\ At(q, Undoing) /\ ~At(q, Working)
          /\ req'[q].at \in Undoing
      BY <2>3, <2>6 DEF At, Working, Undoing
    <3>2. ASSUME IInv
          PROVE  /\ cs.status \in {"applied", "rolled_back"}
                 /\ req'[q].saw.revision = cs.revision /\ Undone(cs.revision)
      <4>1. cs.status \in {"applied", "rolled_back"} /\ req[q].saw.revision = cs.revision
        BY <3>1, <3>2, TaskFacts
      <4>2. a.ok /\ a.to.op = "rollback" /\ a.to.revision = cs.revision
        BY <1>2, <2>6, <4>1 DEF Call
      <4> QED BY <2>3, <4>1, <4>2 DEF Undone
    <3>4. \A x : (OnFile(x) => OnFile(x)') /\ (Reverted(x) => Reverted(x)')
      BY <1>1 DEF OnFile, Reverted
    <3> QED BY <1>1, <2>3, <2>4, <3>1, <3>2, <3>4, UndoMove
  <2> QED BY <1>1, <2>5, <2>6
<1>3. CASE ~(a.to = Call(q) /\ a.ok)
  <2>1. CASE req[q].at = "applying"
    BY <1>1, <1>3, <2>1, FailingInv DEF HearBack, At, Working
  <2>2. CASE req[q].at = "rolling_back"
    BY <1>1, <1>3, <2>2, EndsInv DEF HearBack
  <2> QED BY <1>1, <2>1, <2>2
<1> QED BY <1>2, <1>3

LEMMA GiveUpInv ==
  ASSUME TInv, NEW q \in Slot, GiveUp(q)
  PROVE  Kept
<1>0. TypeOK
  BY DEF TInv
<1>1. /\ req[q].at \in {"applying", "rolling_back"}
      /\ UNCHANGED <<cs, site, writes, filed, wire, answers, hands, granted>>
  BY DEF GiveUp
<1>2. budget' \in Budget
  BY <1>0, LostType DEF GiveUp, TypeOK
<1>3. CASE req[q].at = "applying"
  BY <1>1, <1>2, <1>3, FailingInv DEF GiveUp, At, Working
<1>4. CASE req[q].at = "rolling_back"
  BY <1>1, <1>2, <1>4, EndsInv DEF GiveUp
<1> QED BY <1>1, <1>3, <1>4

LEMMA DiesInv ==
  ASSUME TInv, NEW q \in Slot, Dies(q)
  PROVE  Kept
BY BrokenType, EndsInv DEF TInv, Dies

(* The revision is on file by the time it is rolled back, and is marked.    *)
LEMMA MarkRevertedInv ==
  ASSUME TInv, NEW q \in Slot, MarkReverted(q)
  PROVE  Kept
<1>0. TypeOK /\ "insert" \in Step
  BY DEF TInv, Step
<1> DEFINE Mark(f) == IF f.revision = req[q].saw.revision
                        THEN [f EXCEPT !.status = "reverted"] ELSE f
<1>1. /\ req[q].at = "mark" /\ Go(q, "insert") /\ filed' = {Mark(f) : f \in filed}
      /\ UNCHANGED <<cs, site, writes, wire, answers, budget, hands, granted>>
  BY DEF MarkReverted
<1>2. At(q, Undoing) /\ ~At(q, Working)
  BY <1>1 DEF At, Undoing, Working
<1>3. IInv => /\ cs.status \in {"applied", "rolled_back"}
              /\ req[q].saw.revision = cs.revision /\ Undone(cs.revision)
  BY <1>1, <1>2, TaskFacts DEF IInv, Undoer, At
<1>4. \A f \in filed :
        /\ Mark(f) \in Filed /\ Mark(f).revision = f.revision /\ Mark(f).kind = f.kind
        /\ f.status = "reverted" => Mark(f).status = "reverted"
        /\ f.revision = req[q].saw.revision => Mark(f).status = "reverted"
  BY <1>0 DEF TypeOK, Filed
<1>5. \A f \in filed : Mark(f) \in filed'
  BY <1>1
<1>6. filed' \subseteq Filed
  BY <1>1, <1>4
<1> HIDE DEF Mark
<1>7. /\ req' \in [Slot -> Request] /\ req'[q] = [req[q] EXCEPT !.at = "insert"]
      /\ \A s \in Slot \ {q} : req'[s] = req[s]
  BY <1>0, <1>1, GoType
<1>8. req'[q].at = "insert" /\ req'[q].saw = req[q].saw /\ req'[q].at \in Undoing
  BY <1>0, <1>7 DEF TypeOK, Request, Undoing
<1>9. TypeOK'
  BY <1>0, <1>1, <1>6, <1>7 DEF TypeOK
<1>10. \A x : (OnFile(x) => OnFile(x)') /\ (Reverted(x) => Reverted(x)')
  BY <1>4, <1>5 DEF OnFile, Reverted
<1>11. ASSUME IInv
       PROVE  Reverted(cs.revision)'
  <2>1. PICK f \in filed : f.revision = cs.revision /\ f.kind = "apply"
    BY <1>3, <1>11 DEF IInv, AppliedHasRevision
  <2>2. /\ Mark(f) \in filed' /\ Mark(f).revision = cs'.revision
        /\ Mark(f).kind = "apply" /\ Mark(f).status = "reverted"
    BY <1>1, <1>3, <1>4, <1>5, <1>11, <2>1
  <2> QED BY <2>2 DEF Reverted
<1> QED BY <1>1, <1>2, <1>3, <1>7, <1>8, <1>9, <1>10, <1>11, UndoMove

LEMMA InsertRollbackInv ==
  ASSUME TInv, NEW q \in Slot, InsertRollback(q)
  PROVE  Kept
<1>0. TypeOK /\ "close" \in Step /\ req[q].revision \in Rev
  BY DEF TInv, Step, TypeOK, Request
<1> DEFINE f == [revision |-> req[q].revision, kind |-> "rollback", status |-> "applied"]
<1>1. /\ req[q].at = "insert" /\ Go(q, "close") /\ filed' = filed \cup {f}
      /\ UNCHANGED <<cs, site, writes, wire, answers, budget, hands, granted>>
  BY DEF InsertRollback
<1>2. At(q, Undoing) /\ ~At(q, Working)
  BY <1>1 DEF At, Undoing, Working
<1>3. IInv => /\ cs.status \in {"applied", "rolled_back"}
              /\ req[q].saw.revision = cs.revision
              /\ Undone(cs.revision) /\ Reverted(cs.revision)
  BY <1>1, <1>2, TaskFacts DEF IInv, Undoer, At
<1>4. f \in Filed
  BY <1>0 DEF Filed
<1> HIDE DEF f
<1>7. /\ req' \in [Slot -> Request] /\ req'[q] = [req[q] EXCEPT !.at = "close"]
      /\ \A s \in Slot \ {q} : req'[s] = req[s]
  BY <1>0, <1>1, GoType
<1>8. req'[q].at = "close" /\ req'[q].saw = req[q].saw /\ req'[q].at \in Undoing
  BY <1>0, <1>7 DEF TypeOK, Request, Undoing
<1>9. TypeOK'
  BY <1>0, <1>1, <1>4, <1>7 DEF TypeOK
<1>10. \A x : (OnFile(x) => OnFile(x)') /\ (Reverted(x) => Reverted(x)')
  BY <1>1 DEF OnFile, Reverted
<1>11. IInv => Reverted(cs.revision)'
  BY <1>1, <1>3 DEF Reverted
<1> QED BY <1>1, <1>2, <1>3, <1>7, <1>8, <1>9, <1>10, <1>11, UndoMove

LEMMA CloseInv ==
  ASSUME TInv, NEW q \in Slot, Close(q)
  PROVE  Kept
<1>0. TypeOK /\ Seen /\ Signed /\ cs \in Document /\ "idle" \in Step
  BY DEF TInv, TypeOK, Step
<1> DEFINE doc == [cs EXCEPT !.status = "rolled_back"]
<1>1. /\ doc \in Document /\ doc.status = "rolled_back" /\ doc.revision = cs.revision
      /\ doc.plan = cs.plan /\ doc.operations = cs.operations
  BY <1>0 DEF Document, Status
<1>2. /\ Save(q, {"applied"}, doc, "idle") /\ At(q, {"close"}) /\ At(q, Undoing)
      /\ UNCHANGED <<site, writes, filed, wire, answers, budget, hands, granted>>
  BY DEF Close, At, Undoing
<1>3. CASE cs.status # "applied"
  <2>1. Go(q, "idle") /\ UNCHANGED cs
    BY <1>2, <1>3 DEF Save
  <2> QED BY <1>0, <1>2, <2>1, EndsInv DEF TypeOK
<1>4. CASE cs.status = "applied"
  <2>1. cs' = doc /\ Go(q, "idle")
    BY <1>2, <1>4 DEF Save
  <2>2. /\ req' \in [Slot -> Request] /\ req'[q].at = "idle"
        /\ \A s \in Slot \ {q} : req'[s] = req[s]
    BY <1>0, <2>1, GoType
  <2> HIDE DEF doc
  <2>3. TypeOK'
    BY <1>0, <1>1, <1>2, <2>1, <2>2 DEF TypeOK
  <2>4. TInv' /\ Lawful
    BY <1>0, <1>1, <1>4, <2>1, <2>2, <2>3 DEF TInv, Seen, Signed, Signing, At, Lawful
  <2>5. ASSUME Hidden, IInv
        PROVE  IInv'
    <3>0. /\ Undoer /\ AppliedHasRevision /\ req[q].saw.revision = cs.revision
          /\ Undone(cs.revision) /\ Reverted(cs.revision)
      BY <1>2, <2>5, TaskFacts DEF IInv, Undoer, At
    <3>1. \A s \in Slot : ~At(s, {"plan_new", "create"}) /\ ~At(s, Working)
      BY <1>4, <2>5, TaskFacts
    <3>2. \A s \in Slot : req'[s].at \notin {"plan_new", "create"} \cup Working
      BY <2>2, <3>1 DEF At, Working
    <3>3. Alone' /\ OneApplier' /\ Applier'
      BY <3>2 DEF Alone, OneApplier, Applier, Tasks, At, Working
    <3>4. cs'.status = "rolled_back" /\ cs'.revision = cs.revision
      BY <1>1, <2>1
    <3>5. Undoer'
      <4>1. ASSUME NEW s \in Slot, req'[s].at \in Undoing
            PROVE  s # q
        BY <2>2, <4>1 DEF Undoing
      <4> QED BY <1>2, <2>2, <3>0, <3>4, <4>1 DEF Undoer, At, Undoing, Undone, Reverted
    <3>6. AppliedHasRevision'
      <4>1. Answered(ApplyCall(cs), cs.revision)
        BY <1>4, <3>0 DEF AppliedHasRevision, Answered
      <4>2. ApplyCall(cs') = ApplyCall(cs)
        BY <1>1, <2>1 DEF ApplyCall
      <4> QED BY <1>2, <3>0, <3>4, <4>1, <4>2 DEF AppliedHasRevision, Answered, Reverted
    <3>7. RolledBackIsUndone'
      BY <1>2, <3>0, <3>4 DEF RolledBackIsUndone, Undone
    <3> QED BY <2>4, <3>3, <3>5, <3>6, <3>7 DEF IInv
  <2> QED BY <2>4, <2>5 DEF Kept
<1> QED BY <1>3, <1>4

-----------------------------------------------------------------------------
(* The bridge and everybody else.                                           *)

(* Neither the document nor a coroutine moves, and answers are kept.        *)
LEMMA StillInv ==
  ASSUME TInv, TypeOK', UNCHANGED <<cs, req, filed>>, answers \subseteq answers'
  PROVE  Kept
<1>1. TInv'
  BY DEF TInv, Seen, Signed, At
<1>2. Lawful
  BY DEF Lawful
<1>3. ASSUME Hidden, IInv
      PROVE  IInv'
  <2>0. Alone /\ OneApplier /\ Applier /\ Undoer
        /\ AppliedHasRevision /\ RolledBackIsUndone
    BY <1>3 DEF IInv
  <2>1. Alone' /\ OneApplier'
    BY <2>0 DEF Alone, At, OneApplier, Tasks
  <2>2. \A c, r : Answered(c, r) => Answered(c, r)'
    BY DEF Answered
  <2>3. Applier'
    BY <2>0, <2>2 DEF Applier, At, OnFile, ApplyCall
  <2>4. Undoer'
    <3>1. \A r : Undone(r) => Undone(r)'
      BY DEF Undone
    <3> QED BY <2>0, <3>1 DEF Undoer, At, Reverted
  <2>5. (AppliedHasRevision /\ RolledBackIsUndone)'
    BY <2>0 DEF AppliedHasRevision, RolledBackIsUndone, ApplyCall
  <2> QED BY <1>1, <2>1, <2>3, <2>4, <2>5 DEF IInv
<1> QED BY <1>1, <1>2, <1>3 DEF Kept

LEMMA RetryInv ==
  ASSUME TInv, NEW q \in Slot, Retry(q)
  PROVE  Kept
<1>0. TypeOK /\ req[q].saw \in Document /\ req[q].saw.revision \in Rev
      /\ req[q].reason \in Why
  BY DEF TInv, TypeOK, Request, Document
<1>1. Call(q) \in Apply \cup Rollback
  BY <1>0, CallType DEF Call, Rollback
<1>2. budget' \in Budget
  BY <1>0, LostType DEF Retry
<1>3. TypeOK'
  BY <1>0, <1>1, <1>2 DEF Retry, TypeOK
<1> QED BY <1>3, StillInv DEF Retry

LEMMA KeepType ==
  ASSUME TypeOK, NEW m \in wire, NEW ok \in BOOLEAN, NEW r \in Rev, Keep(m, ok, r)
  PROVE  answers' \subseteq Answer /\ answers \subseteq answers'
BY DEF Keep, TypeOK, Answer

LEMMA NextRevision ==
  ASSUME TypeOK, site.revision < MaxRev
  PROVE  site.revision + 1 \in Rev
BY ChangeSetAssumption DEF TypeOK, Rev

LEMMA BridgeInv ==
  ASSUME TInv, NEW m \in wire, Bridge(m)
  PROVE  Kept
<1>0. TypeOK /\ m \in Apply \cup Rollback
  BY DEF TInv, TypeOK
<1>1. CASE ExecuteApply(m)
  <2>1. m \in Apply /\ m.operations \in Content
    BY <1>0, <1>1 DEF ExecuteApply, Apply, Rollback
  <2>2. site.revision + 1 \in Rev
    BY <1>0, <1>1, NextRevision DEF ExecuteApply
  <2>3. answers' \subseteq Answer /\ answers \subseteq answers'
    BY <1>0, <1>1, <2>2, KeepType DEF ExecuteApply
  <2>4. TypeOK'
    BY <1>0, <1>1, <2>1, <2>2, <2>3 DEF ExecuteApply, Take, TypeOK
  <2> QED BY <1>1, <2>3, <2>4, StillInv DEF ExecuteApply
<1>2. ASSUME NEW a \in answers, ExecuteRollback(m, a)
      PROVE  Kept
  <2>1. a.to \in Apply /\ a.to.diff \in Diff
    BY <1>0, <1>2 DEF ExecuteRollback, TypeOK, Answer, Apply, Rollback
  <2>2. a.to.diff # NoDiff => a.to.diff.from \in Content
    BY <2>1 DEF Diff
  <2>3. site.revision + 1 \in Rev
    BY <1>0, <1>2, NextRevision DEF ExecuteRollback
  <2>4. answers' \subseteq Answer /\ answers \subseteq answers'
    BY <1>0, <1>2, <2>3, KeepType DEF ExecuteRollback
  <2>5. site' \in [content : Content, revision : Rev]
    BY <1>0, <1>2, <2>2, <2>3 DEF ExecuteRollback, TypeOK
  <2>6. TypeOK'
    BY <1>0, <1>2, <2>4, <2>5 DEF ExecuteRollback, Take, TypeOK
  <2> QED BY <1>2, <2>4, <2>6, StillInv DEF ExecuteRollback
<1>3. CASE Refuse(m)
  <2>1. answers' \subseteq Answer /\ answers \subseteq answers'
    BY <1>0, <1>3, RevFacts, KeepType DEF Refuse
  <2>2. TypeOK'
    BY <1>0, <1>3, <2>1 DEF Refuse, Take, TypeOK
  <2> QED BY <1>3, <2>1, <2>2, StillInv DEF Refuse
<1>4. CASE Replay(m)
  <2>1. TypeOK'
    BY <1>0, <1>4 DEF Replay, Take, TypeOK
  <2> QED BY <1>4, <2>1, StillInv DEF Replay
<1>5. CASE Lose(m)
  <2>1. budget' \in Budget
    BY <1>0, <1>5, LostType DEF Lose
  <2>2. TypeOK'
    BY <1>0, <1>5, <2>1 DEF Lose, Take, TypeOK
  <2> QED BY <1>5, <2>2, StillInv DEF Lose
<1> QED BY <1>1, <1>2, <1>3, <1>4, <1>5 DEF Bridge

LEMMA OthersInv ==
  ASSUME TInv, Others
  PROVE  Kept
<1>0. TypeOK
  BY DEF TInv
<1>1. budget' \in Budget
  BY <1>0, ChangeSetAssumption
     DEF Others, OtherChange, ToggleWrites, Crash, Broken, TypeOK, Budget
<1>2. ASSUME NEW c \in Content, NEW r \in Rev, OtherChange(c, r)
      PROVE  Kept
  <2>1. TypeOK'
    BY <1>0, <1>1, <1>2 DEF OtherChange, TypeOK
  <2> QED BY <1>2, <2>1, StillInv DEF OtherChange
<1>3. CASE ToggleWrites
  <2>1. TypeOK'
    BY <1>0, <1>1, <1>3 DEF ToggleWrites, TypeOK
  <2> QED BY <1>3, <2>1, StillInv DEF ToggleWrites
<1>4. CASE Crash
  <2>1. /\ UNCHANGED <<cs, site, writes, filed, wire, answers, hands, granted>>
        /\ req' = [q \in Slot |-> NoRequest]
    BY <1>4 DEF Crash
  <2>2. TypeOK'
    BY <1>0, <1>1, <2>1, NoRequestType DEF TypeOK
  <2>3. \A q \in Slot : req'[q].at = "idle"
    BY <2>1 DEF NoRequest
  <2>4. TInv' /\ Lawful
    BY <2>1, <2>2, <2>3 DEF TInv, Seen, Signed, Signing, At, Lawful
  <2>5. ASSUME Hidden, IInv
        PROVE  IInv'
    <3>1. Alone' /\ OneApplier' /\ Applier' /\ Undoer'
      BY <2>3 DEF Alone, OneApplier, Tasks, Applier, Undoer, At
    <3>2. (AppliedHasRevision /\ RolledBackIsUndone)'
      BY <2>1, <2>5 DEF IInv, AppliedHasRevision, RolledBackIsUndone
    <3> QED BY <2>4, <3>1, <3>2 DEF IInv
  <2> QED BY <2>4, <2>5 DEF Kept
<1> QED BY <1>2, <1>3, <1>4 DEF Others

-----------------------------------------------------------------------------
(* All together.                                                            *)

LEMMA InitInv == Init => IInv
<1> SUFFICES ASSUME Init PROVE IInv
  OBVIOUS
<1>1. PICK q \in Slot : req = [s \in Slot |->
        IF s = q THEN [NoRequest EXCEPT !.at = "plan_new"] ELSE NoRequest]
  BY DEF Init
<1>2. /\ [NoRequest EXCEPT !.at = "plan_new"] \in Request
      /\ [NoRequest EXCEPT !.at = "plan_new"].at = "plan_new"
      /\ NoRequest.at = "idle"
  BY NoRequestType DEF Request, Step, NoRequest
<1>3. /\ req \in [Slot -> Request] /\ req[q].at = "plan_new"
      /\ \A s \in Slot \ {q} : req[s].at = "idle"
  BY <1>1, <1>2, NoRequestType
<1>4. cs \in Document /\ cs.status = "draft"
  BY DraftType DEF Init, Draft
<1>5. budget \in Budget
  BY ChangeSetAssumption DEF Init, Budget
<1>6. site \in [content : Content, revision : Rev] /\ hands \subseteq User
  BY RevFacts, ChangeSetAssumption DEF Init
<1>7. TypeOK
  BY <1>3, <1>4, <1>5, <1>6 DEF TypeOK, Init
<1>8. Alone
  BY <1>3, <1>4 DEF Alone, At
<1>9. \A s \in Slot : req[s].at \notin Working \cup Undoing \cup Signing \cup {"plan", "replan"}
  BY <1>3 DEF Working, Undoing, Signing
<1>10. Seen /\ Signed /\ Applier /\ Undoer
  BY <1>9 DEF Seen, Signed, Applier, Undoer, At, Working, Undoing
<1>11. OneApplier
  BY <1>9 DEF OneApplier, Tasks, Working
<1>12. AppliedHasRevision /\ RolledBackIsUndone
  BY <1>4 DEF AppliedHasRevision, RolledBackIsUndone
<1> QED BY <1>7, <1>8, <1>10, <1>11, <1>12 DEF IInv, TInv

LEMMA NextInv ==
  ASSUME TInv, Next
  PROVE  Kept
<1>1. ASSUME NEW q \in Slot, Arrival(q) PROVE Kept
  <2>1. ASSUME NEW u \in User, NEW o \in Content, StartUpdate(q, u, o)
        PROVE  Kept
    BY <2>1, UpdateArrives
  <2>2. ASSUME NEW u \in User, StartSubmit(q, u) \/ StartApprove(q, u)
        PROVE  Kept
    BY <2>2, SubmitArrives, ApproveArrives
  <2>3. ASSUME \/ StartReplan(q) \/ StartValidation(q) \/ StartReject(q)
               \/ StartCancel(q) \/ StartApply(q)
               \/ \E why \in Reason : StartRollback(q, why)
        PROVE  Kept
    BY <2>3, ReplanArrives, PlainArrives, RejectArrives, StartRollbackInv
  <2> QED BY <1>1, <2>1, <2>2, <2>3 DEF Arrival
<1>2. ASSUME NEW q \in Slot, Proceed(q) PROVE Kept
  <2>1. CASE Plans(q)
    BY <2>1, ReadPlanInv, NoPlanReadInv, CreateInv, UpdateInv, RereadInv, ReplanInv
       DEF Plans
  <2>2. CASE Validates(q)
    BY <2>2, ValidateInv, RunValidationInv, VerdictInv DEF Validates
  <2>3. CASE Reviews(q)
    BY <2>3, SubmitInv, ReadSubmittedInv, AutoApproveInv, ApproveInv, RejectInv, CancelInv
       DEF Reviews
  <2>4. CASE Applies(q)
    BY <2>4, ReadAutoApprovedInv, BeginApplyInv, BeginBreaksInv, RecordInv,
       RecordFailsInv, FinishInv, FailInv DEF Applies
  <2>5. CASE RollsBack(q)
    BY <2>5, MarkRevertedInv, InsertRollbackInv, CloseInv DEF RollsBack
  <2>6. CASE Hears(q)
    BY <2>6, GiveUpInv, RetryInv, HearBackInv DEF Hears
  <2>7. CASE Dies(q)
    BY <2>7, DiesInv
  <2> QED BY <1>2, <2>1, <2>2, <2>3, <2>4, <2>5, <2>6, <2>7 DEF Proceed
<1>3. ASSUME NEW m \in wire, Bridge(m) PROVE Kept
  BY <1>3, BridgeInv
<1>4. CASE Others
  BY <1>4, OthersInv
<1> QED BY <1>1, <1>2, <1>3, <1>4 DEF Next

LEMMA StepInv ==
  ASSUME TInv, [Next]_vars
  PROVE  Kept
<1>1. CASE UNCHANGED vars
  <2>1. TypeOK' /\ UNCHANGED <<cs, req, filed, answers>>
    BY <1>1 DEF TInv, TypeOK, vars
  <2> QED BY <2>1, StillInv
<1> QED BY <1>1, NextInv

LEMMA AlwaysTyped == Spec => []TInv /\ [][Next]_vars
<1>1. Init => TInv
  BY InitInv DEF IInv
<1>2. TInv /\ [Next]_vars => TInv'
  BY StepInv DEF Kept
<1> QED BY <1>1, <1>2, PTL DEF Spec

LEMMA AlwaysInv ==
  ASSUME Hidden
  PROVE  Spec => []IInv /\ [][Next]_vars
<1>1. IInv /\ [Next]_vars => IInv'
  BY StepInv DEF IInv, Kept
<1> QED BY InitInv, <1>1, PTL DEF Spec

(* Types: the document, the coroutines, the wire and the answers hold what  *)
(* their definitions say.                                                   *)
THEOREM TypeCorrect == Spec => []TypeOK
<1>1. TInv => TypeOK
  BY DEF TInv
<1> QED BY <1>1, AlwaysTyped, PTL

(* However many requests race, at most one task applies a change set, and   *)
(* while one does the status says so.                                       *)
THEOREM AlwaysOneApplier ==
  ASSUME Hidden
  PROVE  Spec => []OneApplier
<1>1. IInv => OneApplier
  BY DEF IInv
<1> QED BY <1>1, AlwaysInv, PTL

(* An applied change set has its revision on file, made by the bridge from  *)
(* the operations it still holds, whatever is lost, repeated or crashes.    *)
THEOREM AppliedAlwaysHasRevision ==
  ASSUME Hidden
  PROVE  Spec => []AppliedHasRevision
<1>1. IInv => AppliedHasRevision
  BY DEF IInv
<1> QED BY <1>1, AlwaysInv, PTL

(* "rolled_back" is said only of a change set that the bridge has undone.   *)
THEOREM RolledBackIsAlwaysUndone ==
  ASSUME Hidden
  PROVE  Spec => []RolledBackIsUndone
<1>1. IInv => RolledBackIsUndone
  BY DEF IInv
<1> QED BY <1>1, AlwaysInv, PTL

(* However old what it has read, no request takes a change set out of a     *)
(* final status, but for the roll-back of an applied one and for the write  *)
(* with which create_changeset ends, also when others find the draft before *)
(* that.                                                                    *)
THEOREM TerminalStaysFinal == Spec => TerminalIsFinal
<1>1. TInv /\ [Next]_vars =>
        (cs.status \in TERMINAL_STATES =>
           \/ cs'.status = cs.status
           \/ cs.status = "applied" /\ cs'.status = "rolled_back"
           \/ CreateWrites)
  BY StepInv DEF Kept, Lawful
<1> QED BY <1>1, AlwaysTyped, PTL DEF TerminalIsFinal

(* Only the task that applies a change set ends the applying, with the same *)
(* exception.                                                               *)
THEOREM ApplyingIsAlwaysOwned == Spec => ApplyingIsOwned
<1>1. TInv /\ [Next]_vars =>
        (cs.status = "applying" /\ cs'.status # "applying" =>
           (\E q \in Tasks : req'[q].at = "idle") \/ CreateWrites)
  BY StepInv DEF Kept, Lawful
<1> QED BY <1>1, AlwaysTyped, PTL DEF ApplyingIsOwned

-----------------------------------------------------------------------------
(* Reviews.  An approval is worth what its diff is worth: the plan it was   *)
(* given for must still be the one on record.  Nothing in the code sees to  *)
(* that while a review and a re-plan overlap; as long as they do not,       *)
(* nothing else gets in the way, however many other requests race.          *)

Calm ==
  \A q, r \in Slot :
    q # r /\ At(q, {"approve", "auto_approve", "reject"}) => ~At(r, {"plan", "replan"})

Granted(d) == d \in granted

(* What a coroutine saw still holds, or matters no more.                    *)
Mindful(q) ==
  /\ At(q, {"plan_new", "create"}) => cs.approvals = {}
  /\ At(q, {"plan", "replan"}) =>
       cs.approvals = {} \/ req[q].saw.plan.diff = cs.plan.diff
  /\ At(q, {"approve", "auto_approve"}) => req[q].saw.plan.diff = cs.plan.diff
  /\ At(q, {"approve", "reject"}) =>
       \A a \in req[q].saw.approvals : a.diff = cs.plan.diff /\ Granted(a.diff)
  /\ At(q, {"applying"}) => Granted(req[q].saw.plan.diff)

(* An approval on record was given for the diff on record, and a change set *)
(* is approved only with such a diff.                                       *)
Backed ==
  /\ \A a \in cs.approvals : Granted(a.diff)
  /\ cs.status = "approved" => Granted(cs.plan.diff)

(* So is every diff the bridge was asked to apply.                          *)
Sent ==
  /\ \A m \in wire : m.op = "apply" => Granted(m.diff)
  /\ \A a \in answers : a.to.op = "apply" => Granted(a.to.diff)

RInv == (\A q \in Slot : Mindful(q)) /\ ApprovalsAreCurrent /\ Backed /\ Sent

(* What most steps of a coroutine leave alone.                              *)
Minded == {"plan_new", "create", "plan", "replan", "approve", "auto_approve",
           "reject", "applying"}
Plain(q) ==
  /\ \A s \in Slot \ {q} : req'[s] = req[s]
  /\ cs'.plan = cs.plan /\ cs'.approvals = cs.approvals
  /\ cs'.status = "approved" => cs.status = "approved"
  /\ UNCHANGED <<granted, answers>>
  /\ \A m \in wire' \ wire : m.op = "rollback"
  /\ req'[q].at \notin Minded

(* Nor do they edit or submit, or begin to.                                 *)
Unsigned(q) ==
  /\ cs'.authors = cs.authors /\ cs'.submitted_by = cs.submitted_by /\ UNCHANGED hands
  /\ cs'.status = "pending_approval" => cs.status = "pending_approval"
  /\ req'[q].at \notin Signing \cup {"approve"}

LEMMA SaveEffect ==
  ASSUME TypeOK, NEW q \in Slot, NEW E, NEW doc, NEW step \in Step, Save(q, E, doc, step)
  PROVE  /\ \A s \in Slot \ {q} : req'[s] = req[s]
         /\ \/ cs.status \in E /\ cs' = doc /\ req'[q].at = step
            \/ cs.status \notin E /\ cs' = cs /\ req'[q].at = "idle"
<1>1. "idle" \in Step
  BY DEF Step
<1> QED BY <1>1, GoType DEF Save

LEMMA PlainArrivals ==
  ASSUME TypeOK, NEW q \in Slot,
         \/ StartValidation(q) \/ StartCancel(q) \/ StartApply(q)
         \/ \E why \in Reason : StartRollback(q, why)
  PROVE  Plain(q) /\ Unsigned(q)
<1>1. NoRequest \in Request
  BY NoRequestType
<1>2. PICK r \in Request :
        r.at \in {"validate", "cancel", "apply", "rolling_back"} /\ Arrive(q, r)
  <2>1. CASE StartValidation(q) \/ StartCancel(q) \/ StartApply(q)
    <3>1. PICK step \in {"validate", "cancel", "apply"} :
            Arrive(q, [NoRequest EXCEPT !.at = step])
      BY <2>1 DEF StartValidation, StartCancel, StartApply
    <3>2. /\ [NoRequest EXCEPT !.at = step] \in Request
          /\ [NoRequest EXCEPT !.at = step].at = step
      BY <1>1 DEF Request, Step
    <3> QED BY <3>1, <3>2
  <2>2. ASSUME NEW why \in Reason, StartRollback(q, why)
        PROVE  \E r \in Request :
                 r.at \in {"validate", "cancel", "apply", "rolling_back"} /\ Arrive(q, r)
    <3>0. why \in Why
      BY DEF Why
    <3> DEFINE r == [NoRequest EXCEPT !.at = "rolling_back", !.reason = why,
                        !.saw.revision = cs.revision]
    <3>1. [NoRequest.saw EXCEPT !.revision = cs.revision] \in Document
      BY <1>1 DEF Request, Document, TypeOK
    <3>2. r \in Request /\ r.at = "rolling_back"
      BY <1>1, <3>0, <3>1 DEF Request, Step
    <3>3. Arrive(q, r)
      BY <2>2 DEF StartRollback
    <3> HIDE DEF r
    <3> QED BY <3>2, <3>3
  <2> QED BY <2>1, <2>2
<1>3. req'[q] = r /\ \A s \in Slot \ {q} : req'[s] = req[s]
  BY <1>2, ArriveType
<1>4. /\ UNCHANGED <<cs, answers, hands, granted>>
      /\ \A m \in wire' \ wire : m.op = "rollback"
  <2>1. ASSUME NEW why \in Reason, StartRollback(q, why)
        PROVE  /\ UNCHANGED <<cs, answers, hands, granted>>
               /\ \A m \in wire' \ wire : m.op = "rollback"
    <3> DEFINE m == [op |-> "rollback", revision |-> cs.revision, reason |-> why]
    <3>1. m.op = "rollback"
      OBVIOUS
    <3>2. wire' = wire \cup {m} /\ UNCHANGED <<cs, answers, hands, granted>>
      BY <2>1, Zenon DEF StartRollback
    <3> HIDE DEF m
    <3> QED BY <3>1, <3>2
  <2>2. CASE StartValidation(q) \/ StartCancel(q) \/ StartApply(q)
    BY <2>2 DEF StartValidation, StartCancel, StartApply
  <2> QED BY <2>1, <2>2
<1> QED BY <1>2, <1>3, <1>4 DEF Plain, Unsigned, Minded, Signing

(* Steps that move on without writing the document.                         *)
LEMMA PlainMoves ==
  ASSUME TypeOK, NEW q \in Slot,
         \/ NoPlanRead(q) \/ RunValidation(q) \/ ReadAutoApproved(q) \/ Record(q)
         \/ RecordFails(q) \/ MarkReverted(q) \/ InsertRollback(q) \/ Dies(q)
         \/ GiveUp(q) \/ \E a \in answers : HearBack(q, a)
  PROVE  Plain(q) /\ Unsigned(q)
<1>0. UNCHANGED <<cs, wire, answers, hands, granted>>
  BY DEF NoPlanRead, RunValidation, ReadAutoApproved, Record, RecordFails, MarkReverted,
     InsertRollback, Dies, GiveUp, HearBack
<1> DEFINE Ends == {"idle", "verdict", "apply", "finish", "fail", "insert", "close",
                    "record", "mark"}
<1>1. Ends \subseteq Step /\ \A x \in Ends : x \notin Minded \cup Signing
  BY DEF Step, Minded, Signing
<1>2. (\A s \in Slot \ {q} : req'[s] = req[s]) /\ req'[q].at \in Ends
  <2>1. ASSUME NEW step \in Ends, Go(q, step)
        PROVE  (\A s \in Slot \ {q} : req'[s] = req[s]) /\ req'[q].at \in Ends
    BY <1>1, <2>1, GoType
  <2>2. CASE \/ NoPlanRead(q) \/ ReadAutoApproved(q) \/ Record(q) \/ RecordFails(q)
             \/ MarkReverted(q) \/ InsertRollback(q) \/ Dies(q) \/ GiveUp(q)
    <3>1. \E step \in Ends : Go(q, step)
      <4>1. CASE ReadAutoApproved(q) \/ GiveUp(q)
        BY <4>1 DEF ReadAutoApproved, GiveUp
      <4> QED BY <2>2, <4>1 DEF NoPlanRead, Record, RecordFails, MarkReverted,
                 InsertRollback, Dies
    <3> QED BY <2>1, <3>1
  <2>3. CASE RunValidation(q)
    BY <2>3 DEF RunValidation, TypeOK, Request
  <2>4. ASSUME NEW a \in answers, HearBack(q, a)
        PROVE  (\A s \in Slot \ {q} : req'[s] = req[s]) /\ req'[q].at \in Ends
    <3>1. CASE a.to = Call(q) /\ a.ok
      BY <2>4, <3>1 DEF HearBack, TypeOK, Request
    <3>2. CASE ~(a.to = Call(q) /\ a.ok)
      <4>1. \E step \in Ends : Go(q, step)
        BY <2>4, <3>2 DEF HearBack
      <4> QED BY <2>1, <4>1
    <3> QED BY <3>1, <3>2
  <2> QED BY <2>2, <2>3, <2>4
<1>3. req'[q].at \notin Minded \cup Signing /\ "approve" \in Minded
  BY <1>1, <1>2 DEF Minded
<1> QED BY <1>0, <1>2, <1>3 DEF Plain, Unsigned

(* Steps that save another status, or what no approval is about.            *)
LEMMA PlainSaves ==
  ASSUME TypeOK, NEW q \in Slot,
         \/ Validate(q) \/ (\E ok \in BOOLEAN : Verdict(q, ok)) \/ Cancel(q)
         \/ Finish(q) \/ Fail(q) \/ Close(q)
  PROVE  Plain(q) /\ Unsigned(q)
<1> DEFINE Same(doc) ==
      /\ doc.plan = cs.plan /\ doc.approvals = cs.approvals
      /\ doc.authors = cs.authors /\ doc.submitted_by = cs.submitted_by
      /\ doc.status \notin {"approved", "pending_approval"}
<1>0. cs \in Document
  BY DEF TypeOK
<1>1. UNCHANGED <<wire, answers, hands, granted>>
  <2>1. ASSUME NEW ok \in BOOLEAN, Verdict(q, ok)
        PROVE  UNCHANGED <<wire, answers, hands, granted>>
    BY <2>1 DEF Verdict
  <2> QED BY <2>1 DEF Validate, Cancel, Finish, Fail, Close
<1>2. \E E, doc : \E step \in {"run", "idle"} : Save(q, E, doc, step) /\ Same(doc)
  <2>1. CASE Validate(q)
    <3> DEFINE doc == [cs EXCEPT !.status = "validating"]
    <3>1. Same(doc) /\ Save(q, Validatable, doc, "run")
      BY <1>0, <2>1 DEF Validate, Document
    <3> QED BY <3>1
  <2>2. ASSUME NEW ok \in BOOLEAN, Verdict(q, ok)
        PROVE  \E E, doc : \E step \in {"run", "idle"} : Save(q, E, doc, step) /\ Same(doc)
    <3> DEFINE st  == IF ok THEN "validated" ELSE "validation_failed"
               v   == [ok |-> ok, diff |-> req[q].saw.plan.diff]
               doc == [cs EXCEPT !.status = st, !.validation = v]
    <3>1. st \notin {"approved", "pending_approval"} /\ Save(q, {"validating"}, doc, "idle")
      BY <2>2 DEF Verdict
    <3> HIDE DEF st, v
    <3>2. Same(doc)
      BY <1>0, <3>1 DEF Document
    <3> QED BY <3>1, <3>2
  <2>3. CASE Cancel(q)
    <3> DEFINE doc == [cs EXCEPT !.status = "cancelled"]
    <3>1. Same(doc) /\ Save(q, PRE_APPLY_CANCELLABLE, doc, "idle")
      BY <1>0, <2>3 DEF Cancel, Document
    <3> QED BY <3>1
  <2>4. CASE Finish(q)
    <3> DEFINE doc == [cs EXCEPT !.status = "applied", !.revision = req[q].revision]
    <3>1. Same(doc) /\ Save(q, {"applying"}, doc, "idle")
      BY <1>0, <2>4 DEF Finish, Document
    <3> QED BY <3>1
  <2>5. CASE Fail(q)
    <3> DEFINE doc == [cs EXCEPT !.status = "apply_failed", !.revision = 0]
    <3>1. Same(doc) /\ Save(q, {"applying"}, doc, "idle")
      BY <1>0, <2>5 DEF Fail, Document
    <3> QED BY <3>1
  <2>6. CASE Close(q)
    <3> DEFINE doc == [cs EXCEPT !.status = "rolled_back"]
    <3>1. Same(doc) /\ Save(q, {"applied"}, doc, "idle")
      BY <1>0, <2>6 DEF Close, Document
    <3> QED BY <3>1
  <2> QED BY <2>1, <2>2, <2>3, <2>4, <2>5, <2>6
<1>3. PICK E, doc, step : step \in {"run", "idle"} /\ Save(q, E, doc, step) /\ Same(doc)
  BY <1>2
<1>4. step \in Step /\ {"run", "idle"} \cap (Minded \cup Signing) = {}
  BY <1>3 DEF Step, Minded, Signing
<1>5. /\ \A s \in Slot \ {q} : req'[s] = req[s]
      /\ cs' \in {doc, cs} /\ req'[q].at \in {"run", "idle"}
  BY <1>3, <1>4, SaveEffect
<1>6. req'[q].at \notin Minded \cup Signing \cup {"approve"}
  BY <1>4, <1>5 DEF Minded
<1> QED BY <1>1, <1>3, <1>5, <1>6 DEF Plain, Unsigned

LEMMA BrokenPlain ==
  ASSUME TypeOK, NEW q \in Slot, BeginBreaks(q)
  PROVE  Plain(q) /\ Unsigned(q)
<1>0. cs \in Document /\ "idle" \in Step /\ "idle" \notin Minded \cup Signing \cup {"approve"}
  BY DEF TypeOK, Step, Minded, Signing
<1>1. /\ cs' = [cs EXCEPT !.status = "applying"] /\ Go(q, "idle")
      /\ UNCHANGED <<wire, answers, hands, granted>>
  BY DEF BeginBreaks
<1>2. req'[q].at = "idle" /\ \A s \in Slot \ {q} : req'[s] = req[s]
  BY <1>0, <1>1, GoType
<1>3. /\ cs'.status = "applying" /\ cs'.plan = cs.plan /\ cs'.approvals = cs.approvals
      /\ cs'.authors = cs.authors /\ cs'.submitted_by = cs.submitted_by
  BY <1>0, <1>1 DEF Document
<1> QED BY <1>0, <1>1, <1>2, <1>3 DEF Plain, Unsigned

-----------------------------------------------------------------------------
(* Reviews that no re-plan overlaps: each step keeps RInv.                  *)

LEMMA PlainReview ==
  ASSUME RInv, NEW q \in Slot, Plain(q)
  PROVE  RInv'
<1>1. \A s \in Slot : Mindful(s)'
  <2>1. ASSUME NEW s \in Slot PROVE Mindful(s)'
    <3>1. CASE s = q
      BY <3>1 DEF Plain, Mindful, Minded, At
    <3>2. CASE s # q
      BY <3>2 DEF RInv, Plain, Mindful, At, Granted
    <3> QED BY <3>1, <3>2
  <2> QED BY <2>1
<1>2. ApprovalsAreCurrent'
  BY DEF RInv, Plain, ApprovalsAreCurrent
<1>3. Backed' /\ Sent'
  BY DEF RInv, Plain, Backed, Sent, Granted
<1> QED BY <1>1, <1>2, <1>3 DEF RInv

(* A coroutine that reads: the document stays as it is.                     *)
LEMMA ReadReview ==
  ASSUME RInv, NEW q \in Slot, \A s \in Slot \ {q} : req'[s] = req[s],
         UNCHANGED <<cs, wire, answers, granted>>, Mindful(q)'
  PROVE  RInv'
<1>1. \A s \in Slot : Mindful(s)'
  BY DEF RInv, Mindful, At, Granted
<1>2. (ApprovalsAreCurrent /\ Backed /\ Sent)'
  BY DEF RInv, ApprovalsAreCurrent, Backed, Sent, Granted
<1> QED BY <1>1, <1>2 DEF RInv

LEMMA IdleMindful ==
  ASSUME NEW q \in Slot, req'[q].at \notin Minded
  PROVE  Mindful(q)'
BY DEF Mindful, Minded, At

LEMMA ArrivalReview ==
  ASSUME RInv, TypeOK, NEW q \in Slot,
         \/ \E u \in User : \/ \E o \in Content : StartUpdate(q, u, o)
                            \/ StartSubmit(q, u) \/ StartApprove(q, u)
         \/ StartReplan(q) \/ StartReject(q)
  PROVE  RInv'
<1>0. NoRequest \in Request /\ ApprovalsAreCurrent /\ Backed /\ cs \in Document
  BY NoRequestType DEF RInv, TypeOK
<1>1. UNCHANGED <<cs, wire, answers, granted>>
  BY DEF StartUpdate, StartSubmit, StartApprove, StartReplan, StartReject
<1>2. ASSUME NEW r \in Request, Arrive(q, r), r.at \notin Minded
      PROVE  RInv'
  BY <1>1, <1>2, ArriveType, IdleMindful, ReadReview
<1>3. ASSUME NEW u \in User, NEW o \in Content, StartUpdate(q, u, o)
      PROVE  RInv'
  <2> DEFINE r1 == [NoRequest EXCEPT !.at = "update", !.by = u, !.operations = o,
                                     !.saw.authors = cs.authors]
             r2 == [NoRequest EXCEPT !.at = "retitle", !.by = u,
                                     !.saw.authors = cs.authors]
  <2>1. [NoRequest.saw EXCEPT !.authors = cs.authors] \in Document
    BY SawType
  <2>2. r1 \in Request /\ r2 \in Request /\ {r1.at, r2.at} \cap Minded = {}
    BY <1>0, <2>1 DEF Request, Step, Actor, Minded
  <2>3. Arrive(q, r1) \/ Arrive(q, r2)
    BY <1>3 DEF StartUpdate
  <2> HIDE DEF r1, r2
  <2> QED BY <1>2, <2>2, <2>3
<1>4. ASSUME NEW u \in User, StartSubmit(q, u)
      PROVE  RInv'
  <2> DEFINE at == IF AutoApply /\ writes THEN "submit_auto" ELSE "submit"
             r == [NoRequest EXCEPT !.at = at, !.by = u, !.saw.authors = cs.authors]
  <2>1. [NoRequest.saw EXCEPT !.authors = cs.authors] \in Document
    BY SawType
  <2>2. at \in Step /\ at \notin Minded
    BY DEF Step, Minded
  <2>3. Arrive(q, r)
    BY <1>4 DEF StartSubmit
  <2> HIDE DEF at
  <2>4. r \in Request /\ r.at = at
    BY <1>0, <2>1, <2>2 DEF Request, Actor
  <2> HIDE DEF r
  <2> QED BY <1>2, <2>2, <2>3, <2>4
<1>5. ASSUME NEW u \in User, StartApprove(q, u)
      PROVE  RInv'
  <2> DEFINE saw == [[NoRequest.saw EXCEPT !.plan = cs.plan]
                        EXCEPT !.approvals = cs.approvals]
             r == [NoRequest EXCEPT !.at = "approve", !.by = u,
                     !.saw.plan = cs.plan, !.saw.approvals = cs.approvals]
  <2>1. saw \in Document /\ saw.plan = cs.plan /\ saw.approvals = cs.approvals
    BY <1>0, SawType DEF Request, Document
  <2>2. r \in Request /\ r.at = "approve" /\ r.saw = saw
    BY <1>0, <2>1 DEF Request, Step, Actor
  <2>3. Arrive(q, r)
    BY <1>5 DEF StartApprove
  <2> HIDE DEF r, saw
  <2>4. Mindful(q)'
    BY <1>0, <1>1, <2>1, <2>2, <2>3, ArriveType
       DEF Mindful, At, ApprovalsAreCurrent, Backed, Granted
  <2> QED BY <1>1, <2>2, <2>3, <2>4, ArriveType, ReadReview
<1>6. CASE StartReject(q)
  <2> DEFINE saw == [NoRequest.saw EXCEPT !.approvals = cs.approvals]
             r == [NoRequest EXCEPT !.at = "reject", !.saw.approvals = cs.approvals]
  <2>1. saw \in Document /\ saw.approvals = cs.approvals
    BY <1>0, SawType DEF Request, Document
  <2>2. r \in Request /\ r.at = "reject" /\ r.saw = saw
    BY <1>0, <2>1 DEF Request, Step, Actor
  <2>3. Arrive(q, r)
    BY <1>6 DEF StartReject
  <2> HIDE DEF r, saw
  <2>4. Mindful(q)'
    BY <1>0, <1>1, <2>1, <2>2, <2>3, ArriveType
       DEF Mindful, At, ApprovalsAreCurrent, Backed, Granted
  <2> QED BY <1>1, <2>2, <2>3, <2>4, ArriveType, ReadReview
<1>7. CASE StartReplan(q)
  <2>1. /\ Replanning \in Request /\ Replanning.at = "plan"
        /\ Replanning.saw.plan = cs.plan
    <3>1. [[NoRequest.saw EXCEPT !.status = cs.status] EXCEPT !.plan = cs.plan].plan
            = cs.plan
      BY <1>0 DEF Request, Document
    <3> QED BY <1>0, <3>1, ReplanningType DEF Replanning, Request
  <2>2. Arrive(q, Replanning)
    BY <1>7 DEF StartReplan
  <2>3. Mindful(q)'
    BY <1>1, <2>1, <2>2, ArriveType DEF Mindful, At
  <2> QED BY <1>1, <2>1, <2>2, <2>3, ArriveType, ReadReview
<1> QED BY <1>3, <1>4, <1>5, <1>6, <1>7

LEMMA PlanReview ==
  ASSUME RInv, TypeOK, NEW q \in Slot, ReadPlan(q) \/ Reread(q) \/ ReadSubmitted(q)
  PROVE  RInv'
<1>0. UNCHANGED <<cs, wire, answers, granted>> /\ Mindful(q) /\ req[q] \in Request
      /\ cs \in Document
  BY DEF ReadPlan, Reread, ReadSubmitted, RInv, TypeOK
<1>1. CASE ReadPlan(q)
  <2> DEFINE p  == PlanOf(req[q].operations)
             to == IF req[q].at = "plan_new" THEN "create" ELSE "replan"
  <2>1. req[q].at \in {"plan_new", "plan"}
        /\ req' = [req EXCEPT ![q] = [[@ EXCEPT !.plan = p] EXCEPT !.at = to]]
    BY <1>1 DEF ReadPlan
  <2>2. /\ to = "create" => req[q].at = "plan_new"
        /\ to # "create" => to = "replan" /\ req[q].at = "plan"
    BY <2>1
  <2> HIDE DEF p, to
  <2>3. /\ req'[q].at = to /\ req'[q].saw = req[q].saw
        /\ \A s \in Slot \ {q} : req'[s] = req[s]
    BY <2>1 DEF TypeOK, Request
  <2>4. Mindful(q)'
    BY <1>0, <2>2, <2>3 DEF Mindful, At
  <2> QED BY <1>0, <2>3, <2>4, ReadReview
<1>2. CASE Reread(q)
  <2>1. CASE cs.status \in Replannable
    <3>1. /\ Replanning \in Request /\ Replanning.at = "plan"
          /\ Replanning.saw.plan = cs.plan
      <4>1. [[NoRequest.saw EXCEPT !.status = cs.status] EXCEPT !.plan = cs.plan].plan
              = cs.plan
        BY <1>0, NoRequestType DEF Request, Document
      <4> QED BY <4>1, NoRequestType, ReplanningType DEF Replanning, Request
    <3>2. req'[q] = Replanning /\ \A s \in Slot \ {q} : req'[s] = req[s]
      BY <1>2, <2>1 DEF Reread, TypeOK
    <3>3. Mindful(q)'
      BY <1>0, <3>1, <3>2 DEF Mindful, At
    <3> QED BY <1>0, <3>2, <3>3, ReadReview
  <2>2. CASE cs.status \notin Replannable
    <3>1. req'[q].at = "idle" /\ \A s \in Slot \ {q} : req'[s] = req[s]
      BY <1>2, <2>2, QuietSteps, GoType DEF Reread
    <3>2. Mindful(q)'
      BY <3>1, IdleMindful DEF Minded
    <3> QED BY <1>0, <3>1, <3>2, ReadReview
  <2> QED BY <2>1, <2>2
<1>3. CASE ReadSubmitted(q)
  <2>1. CASE cs.plan.valid
    <3> DEFINE saw == [req[q].saw EXCEPT !.plan = cs.plan]
    <3>1. saw.plan = cs.plan
      BY <1>0 DEF Request, Document
    <3>2. req' = [req EXCEPT ![q] = [[@ EXCEPT !.at = "auto_approve"]
                                        EXCEPT !.saw.plan = cs.plan]]
      BY <1>3, <2>1 DEF ReadSubmitted
    <3>3. /\ req'[q].at = "auto_approve" /\ req'[q].saw = saw
          /\ \A s \in Slot \ {q} : req'[s] = req[s]
      BY <1>0, <3>2 DEF TypeOK, Request
    <3> HIDE DEF saw
    <3>4. Mindful(q)'
      BY <1>0, <3>1, <3>3 DEF Mindful, At
    <3> QED BY <1>0, <3>3, <3>4, ReadReview
  <2>2. CASE ~cs.plan.valid
    <3>1. req'[q].at = "idle" /\ \A s \in Slot \ {q} : req'[s] = req[s]
      BY <1>3, <2>2, QuietSteps, GoType DEF ReadSubmitted
    <3>2. Mindful(q)'
      BY <3>1, IdleMindful DEF Minded
    <3> QED BY <1>0, <3>1, <3>2, ReadReview
  <2> QED BY <2>1, <2>2
<1> QED BY <1>1, <1>2, <1>3

-----------------------------------------------------------------------------
(* Those that save.                                                         *)

LEMMA SignedPlain ==
  ASSUME TypeOK, NEW q \in Slot, Update(q) \/ Submit(q)
  PROVE  Plain(q)
<1>0. cs \in Document /\ UNCHANGED <<wire, answers, granted>>
  BY DEF TypeOK, Update, Submit
<1>1. {"reread", "auto", "idle"} \subseteq Step /\ {"reread", "auto", "idle"} \cap Minded = {}
  BY DEF Step, Minded
<1>2. CASE Update(q)
  <2> DEFINE ops  == IF req[q].at = "update" THEN req[q].operations ELSE cs.operations
             auth == req[q].saw.authors \cup {req[q].by}
             doc  == [cs EXCEPT !.operations = ops, !.authors = auth]
  <2>1. Save(q, EDITABLE_STATES, doc, "reread")
    BY <1>2 DEF Update
  <2> HIDE DEF ops, auth
  <2>2. doc.plan = cs.plan /\ doc.approvals = cs.approvals /\ doc.status = cs.status
    BY <1>0 DEF Document
  <2> HIDE DEF doc
  <2> QED BY <1>0, <1>1, <2>1, <2>2, SaveEffect DEF Plain
<1>3. CASE Submit(q)
  <2> DEFINE auth == req[q].saw.authors \cup {req[q].by}
             doc  == [cs EXCEPT !.status = "pending_approval", !.authors = auth,
                                !.submitted_by = req[q].by]
             to   == IF req[q].at = "submit_auto" THEN "auto" ELSE "idle"
  <2>1. Save(q, {"planned", "validated"}, doc, to) /\ to \in {"auto", "idle"}
    BY <1>3 DEF Submit
  <2> HIDE DEF auth, to
  <2>2. doc.plan = cs.plan /\ doc.approvals = cs.approvals /\ doc.status # "approved"
    BY <1>0 DEF Document
  <2> HIDE DEF doc
  <2> QED BY <1>0, <1>1, <2>1, <2>2, SaveEffect DEF Plain
<1> QED BY <1>2, <1>3

LEMMA CreateReview ==
  ASSUME RInv, IInv, NEW q \in Slot, Create(q)
  PROVE  RInv'
<1>0. /\ TypeOK /\ cs \in Document /\ cs.approvals = {} /\ "idle" \in Step
      /\ \A s \in Slot \ {q} : req[s].at = "idle"
      /\ UNCHANGED <<wire, answers, granted>> /\ Sent
  BY DEF IInv, TInv, RInv, TypeOK, Alone, At, Mindful, Create, Step
<1> DEFINE doc == [cs EXCEPT !.plan = req[q].plan, !.status = PlanStatus(req[q].plan)]
<1>1. doc.approvals = {} /\ doc.status # "approved"
  BY <1>0 DEF Document, PlanStatus
<1>2. Save(q, Status, doc, "idle") /\ cs.status \in Status
  BY <1>0 DEF Create, Document
<1> HIDE DEF doc
<1>3. cs' = doc /\ \A s \in Slot : req'[s].at = "idle"
  BY <1>0, <1>2, SaveEffect
<1>4. \A s \in Slot : Mindful(s)'
  BY <1>3, IdleMindful DEF Minded
<1>5. (ApprovalsAreCurrent /\ Backed /\ Sent)'
  BY <1>0, <1>1, <1>3 DEF ApprovalsAreCurrent, Backed, Sent, Granted
<1> QED BY <1>4, <1>5 DEF RInv

(* Nobody reviews meanwhile, so an approval that is kept is for this diff.  *)
LEMMA ReplanReview ==
  ASSUME Calm, RInv, IInv, NEW q \in Slot, Replan(q)
  PROVE  RInv'
<1>0. /\ TypeOK /\ cs \in Document /\ req[q].at = "replan" /\ "idle" \in Step
      /\ UNCHANGED <<wire, answers, granted>> /\ Sent /\ Backed /\ ApprovalsAreCurrent
  BY DEF IInv, TInv, RInv, TypeOK, Replan, Step
<1> DEFINE same == req[q].plan.diff = req[q].saw.plan.diff
           appr == IF same THEN cs.approvals ELSE {}
           vali == IF same THEN cs.validation ELSE NoValidation
           doc  == [cs EXCEPT !.plan = req[q].plan,
                              !.status = PlanStatus(req[q].plan),
                              !.approvals = appr, !.validation = vali]
<1>1. appr = {} \/ (appr = cs.approvals /\ req[q].plan.diff = cs.plan.diff)
  BY <1>0 DEF RInv, Mindful, At
<1>2. Save(q, {req[q].saw.status}, doc, "idle")
  BY DEF Replan
<1> HIDE DEF same, appr, vali
<1>3. doc.plan = req[q].plan /\ doc.approvals = appr /\ doc.status # "approved"
  BY <1>0 DEF Document, PlanStatus
<1> HIDE DEF doc
<1>4. /\ \A s \in Slot \ {q} : req'[s] = req[s]
      /\ req'[q].at = "idle" /\ cs' \in {doc, cs}
  BY <1>0, <1>2, SaveEffect
<1>5. ASSUME NEW s \in Slot \ {q} PROVE Mindful(s)'
  <2>1. ~At(s, {"approve", "auto_approve", "reject"}) /\ ~At(s, {"plan_new", "create"})
    BY <1>0 DEF Calm, IInv, Alone, At
  <2>2. Mindful(s) /\ req'[s] = req[s]
    BY <1>4 DEF RInv
  <2> QED BY <1>0, <1>1, <1>3, <1>4, <2>1, <2>2 DEF Mindful, At, Granted
<1>6. Mindful(q)'
  BY <1>4, IdleMindful DEF Minded
<1>7. (ApprovalsAreCurrent /\ Backed /\ Sent)'
  BY <1>0, <1>1, <1>3, <1>4 DEF ApprovalsAreCurrent, Backed, Sent, Granted
<1> QED BY <1>5, <1>6, <1>7 DEF RInv

(* A review is of the plan on record: no re-plan is under way.              *)
LEMMA ReviewReview ==
  ASSUME Calm, RInv, IInv, NEW q \in Slot, AutoApprove(q) \/ Approve(q) \/ Reject(q)
  PROVE  RInv'
<1> DEFINE d == req[q].saw.plan.diff
<1>0. /\ TypeOK /\ cs \in Document /\ At(q, {"approve", "auto_approve", "reject"})
      /\ UNCHANGED <<wire, answers>> /\ Sent /\ Backed /\ ApprovalsAreCurrent
      /\ {"auto_apply", "idle"} \subseteq Step /\ {"auto_apply", "idle"} \cap Minded = {}
      /\ Mindful(q)
  BY DEF IInv, TInv, RInv, TypeOK, AutoApprove, Approve, Reject, At, Step, Minded
<1>1. /\ granted \subseteq granted'
      /\ ~Reject(q) /\ cs.status = "pending_approval" => d \in granted'
  BY DEF AutoApprove, Approve, Reject, Grant
<1>2. ~Reject(q) => d = cs.plan.diff
  BY <1>0 DEF AutoApprove, Approve, Mindful, At
<1> DEFINE Fit(doc) ==
      /\ doc.plan = cs.plan
      /\ \A a \in doc.approvals : \/ a.diff = cs.plan.diff /\ Granted(a.diff)
                                  \/ ~Reject(q) /\ a.diff = d
      /\ doc.status = "approved" => ~Reject(q)
<1>3. \E doc : \E step \in {"auto_apply", "idle"} :
        Save(q, {"pending_approval"}, doc, step) /\ Fit(doc)
  <2>1. CASE AutoApprove(q)
    <3> DEFINE appr == {[by |-> Policy, diff |-> d]}
               doc  == [cs EXCEPT !.status = "approved", !.approvals = appr]
    <3>1. /\ Save(q, {"pending_approval"}, doc, "auto_apply")
          /\ ~Reject(q) /\ \A a \in appr : a.diff = d
      BY <2>1 DEF AutoApprove, Reject
    <3> HIDE DEF appr
    <3>2. doc.plan = cs.plan /\ doc.approvals = appr
      BY <1>0 DEF Document
    <3> HIDE DEF doc
    <3> QED BY <3>1, <3>2
  <2>2. CASE Approve(q)
    <3> DEFINE appr == req[q].saw.approvals \cup {[by |-> req[q].by, diff |-> d]}
               doc  == [cs EXCEPT !.status = "approved", !.approvals = appr]
    <3>1. /\ Save(q, {"pending_approval"}, doc, "idle")
          /\ ~Reject(q) /\ \A a \in appr : a \in req[q].saw.approvals \/ a.diff = d
      BY <2>2 DEF Approve, Reject
    <3>2. \A a \in req[q].saw.approvals : a.diff = cs.plan.diff /\ Granted(a.diff)
      BY <1>0, <2>2 DEF Approve, Mindful, At
    <3> HIDE DEF appr
    <3>3. doc.plan = cs.plan /\ doc.approvals = appr
      BY <1>0 DEF Document
    <3> HIDE DEF doc
    <3> QED BY <3>1, <3>2, <3>3
  <2>3. CASE Reject(q)
    <3> DEFINE appr == req[q].saw.approvals
               doc  == [cs EXCEPT !.status = "rejected", !.approvals = appr]
    <3>1. Save(q, {"pending_approval"}, doc, "idle")
      BY <2>3 DEF Reject
    <3>2. \A a \in appr : a.diff = cs.plan.diff /\ Granted(a.diff)
      BY <1>0, <2>3 DEF Reject, Mindful, At
    <3> HIDE DEF appr
    <3>3. doc.plan = cs.plan /\ doc.approvals = appr /\ doc.status = "rejected"
      BY <1>0 DEF Document
    <3> HIDE DEF doc
    <3> QED BY <2>3, <3>1, <3>2, <3>3
  <2> QED BY <2>1, <2>2, <2>3
<1>4. PICK doc, step :
        /\ step \in {"auto_apply", "idle"}
        /\ Save(q, {"pending_approval"}, doc, step) /\ Fit(doc)
  BY <1>3
<1> HIDE DEF d
<1>5. /\ \A s \in Slot \ {q} : req'[s] = req[s]
      /\ req'[q].at \notin Minded
      /\ \/ cs.status = "pending_approval" /\ cs' = doc
         \/ cs' = cs
  BY <1>0, <1>4, SaveEffect
<1>6. ASSUME NEW s \in Slot \ {q} PROVE Mindful(s)'
  <2>1. ~At(s, {"plan", "replan"}) /\ ~At(s, {"plan_new", "create"})
    <3>1. req[q].at # "idle"
      BY <1>0 DEF At
    <3> QED BY <1>0, <3>1 DEF Calm, IInv, Alone, At
  <2>2. Mindful(s) /\ req'[s] = req[s] /\ cs'.plan = cs.plan
    BY <1>4, <1>5 DEF RInv
  <2> QED BY <1>1, <2>1, <2>2 DEF Mindful, At, Granted
<1>7. Mindful(q)'
  BY <1>5, IdleMindful
<1>8. ApprovalsAreCurrent'
  BY <1>0, <1>2, <1>4, <1>5 DEF ApprovalsAreCurrent
<1>9. Backed' /\ Sent'
  BY <1>0, <1>1, <1>2, <1>4, <1>5 DEF Backed, Sent, Granted
<1> QED BY <1>6, <1>7, <1>8, <1>9 DEF RInv

(* An apply goes out with the approved diff, and is sent again as it was.   *)
LEMMA ApplyReview ==
  ASSUME RInv, IInv, NEW q \in Slot, BeginApply(q) \/ Retry(q)
  PROVE  RInv'
<1>0. TypeOK /\ cs \in Document /\ Backed /\ Sent /\ ApprovalsAreCurrent
  BY DEF IInv, TInv, RInv, TypeOK
<1>1. CASE BeginApply(q) /\ cs.status = "approved"
  <2> DEFINE saw == [[NoRequest.saw EXCEPT !.plan = cs.plan]
                        EXCEPT !.operations = cs.operations]
             r == [NoRequest EXCEPT !.at = "applying", !.saw.plan = cs.plan,
                                    !.saw.operations = cs.operations]
  <2>1. /\ cs' = [cs EXCEPT !.status = "applying"]
        /\ req' = [req EXCEPT ![q] = r]
        /\ wire' = wire \cup {ApplyCall(cs)}
        /\ UNCHANGED <<answers, granted>>
    BY <1>1 DEF BeginApply
  <2>2. cs'.plan = cs.plan /\ cs'.approvals = cs.approvals /\ cs'.status # "approved"
    BY <1>0, <2>1 DEF Document
  <2>3. saw.plan = cs.plan
    BY NoRequestType DEF Request, Document
  <2>4. r.at = "applying" /\ r.saw = saw
    BY NoRequestType DEF Request
  <2> HIDE DEF r, saw
  <2>5. req'[q] = r /\ \A s \in Slot \ {q} : req'[s] = req[s]
    BY <1>0, <2>1 DEF TypeOK
  <2>6. Granted(cs.plan.diff)
    BY <1>0, <1>1 DEF Backed
  <2>7. \A s \in Slot : Mindful(s)'
    <3>1. Mindful(q)'
      BY <2>1, <2>3, <2>4, <2>5, <2>6 DEF Mindful, At, Granted
    <3>2. ASSUME NEW s \in Slot \ {q} PROVE Mindful(s)'
      BY <2>1, <2>2, <2>5 DEF RInv, Mindful, At, Granted
    <3> QED BY <3>1, <3>2
  <2>8. (ApprovalsAreCurrent /\ Backed)'
    BY <1>0, <2>1, <2>2 DEF ApprovalsAreCurrent, Backed, Granted
  <2>9. Sent'
    BY <1>0, <2>1, <2>6 DEF Sent, Granted, ApplyCall
  <2> QED BY <2>7, <2>8, <2>9 DEF RInv
<1>2. CASE BeginApply(q) /\ cs.status # "approved"
  <2>1. req'[q].at = "idle" /\ \A s \in Slot \ {q} : req'[s] = req[s]
    BY <1>0, <1>2, QuietSteps, GoType DEF BeginApply
  <2>2. Mindful(q)' /\ UNCHANGED <<cs, wire, answers, granted>>
    BY <1>2, <2>1, IdleMindful DEF BeginApply, Minded
  <2> QED BY <2>1, <2>2, ReadReview
<1>3. CASE Retry(q)
  <2>1. UNCHANGED <<cs, req, answers, granted>> /\ wire' = wire \cup {Call(q)}
    BY <1>3 DEF Retry
  <2>2. Call(q).op = "apply" => Granted(Call(q).diff)
    BY DEF Call, ApplyCall, RInv, Mindful, At
  <2>3. \A s \in Slot : Mindful(s)'
    BY <2>1 DEF RInv, Mindful, At, Granted
  <2>4. (ApprovalsAreCurrent /\ Backed /\ Sent)'
    BY <1>0, <2>1, <2>2 DEF ApprovalsAreCurrent, Backed, Sent, Granted
  <2> QED BY <2>3, <2>4 DEF RInv
<1> QED BY <1>1, <1>2, <1>3

LEMMA BridgeReview ==
  ASSUME RInv, NEW m \in wire, Bridge(m)
  PROVE  RInv'
<1>1. /\ UNCHANGED <<cs, req, granted>> /\ wire' \subseteq wire
      /\ \A a \in answers' \ answers : a.to = m
  <2>1. ASSUME NEW a \in answers, ExecuteRollback(m, a)
        PROVE  /\ UNCHANGED <<cs, req, granted>> /\ wire' \subseteq wire
               /\ \A b \in answers' \ answers : b.to = m
    BY <2>1 DEF ExecuteRollback, Take, Keep
  <2>2. CASE ExecuteApply(m) \/ Refuse(m) \/ Replay(m) \/ Lose(m)
    BY <2>2 DEF ExecuteApply, Refuse, Replay, Lose, Take, Keep
  <2> QED BY <2>1, <2>2 DEF Bridge
<1>2. \A s \in Slot : Mindful(s)'
  BY <1>1 DEF RInv, Mindful, At, Granted
<1>3. (ApprovalsAreCurrent /\ Backed /\ Sent)'
  BY <1>1 DEF RInv, ApprovalsAreCurrent, Backed, Sent, Granted
<1> QED BY <1>2, <1>3 DEF RInv

LEMMA OthersReview ==
  ASSUME RInv, Others \/ UNCHANGED vars
  PROVE  RInv'
<1>1. UNCHANGED <<cs, wire, answers, granted>>
  BY IdleAt DEF Others, OtherChange, ToggleWrites, vars
<1>2. UNCHANGED req \/ \A s \in Slot : req'[s].at = "idle"
  BY IdleAt DEF Others, OtherChange, ToggleWrites, vars
<1>3. \A s \in Slot : Mindful(s)'
  <2>1. CASE UNCHANGED req
    BY <1>1, <2>1 DEF RInv, Mindful, At, Granted
  <2>2. CASE \A s \in Slot : req'[s].at = "idle"
    BY <2>2, IdleMindful DEF Minded
  <2> QED BY <1>2, <2>1, <2>2
<1>4. (ApprovalsAreCurrent /\ Backed /\ Sent)'
  BY <1>1 DEF RInv, ApprovalsAreCurrent, Backed, Sent, Granted
<1> QED BY <1>3, <1>4 DEF RInv

LEMMA InitReview == Init => RInv
<1> SUFFICES ASSUME Init PROVE RInv
  OBVIOUS
<1>1. cs.approvals = {} /\ cs.status = "draft" /\ wire = {} /\ answers = {}
  BY DEF Init, Draft
<1>2. \A s \in Slot : req[s].at \in {"plan_new", "idle"}
  BY IdleAt
<1>3. \A s \in Slot : Mindful(s)
  BY <1>1, <1>2 DEF Mindful, At
<1> QED BY <1>1, <1>3 DEF RInv, ApprovalsAreCurrent, Backed, Sent

LEMMA NextReview ==
  ASSUME Calm, IInv, RInv, [Next]_vars
  PROVE  RInv'
<1>0. TypeOK
  BY DEF IInv, TInv
<1>1. ASSUME NEW q \in Slot, Arrival(q) PROVE RInv'
  <2>1. CASE \/ StartValidation(q) \/ StartCancel(q) \/ StartApply(q)
             \/ \E why \in Reason : StartRollback(q, why)
    BY <1>0, <2>1, PlainArrivals, PlainReview
  <2> QED BY <1>0, <1>1, <2>1, ArrivalReview DEF Arrival
<1>2. ASSUME NEW q \in Slot, Proceed(q) PROVE RInv'
  <2>1. CASE Plans(q)
    BY <1>0, <2>1, PlainMoves, SignedPlain, PlainReview, PlanReview, CreateReview,
       ReplanReview DEF Plans
  <2>2. CASE Validates(q)
    BY <1>0, <2>2, PlainMoves, PlainSaves, PlainReview DEF Validates
  <2>3. CASE Reviews(q)
    BY <1>0, <2>3, SignedPlain, PlainSaves, PlainReview, PlanReview, ReviewReview
       DEF Reviews
  <2>4. CASE Applies(q)
    BY <1>0, <2>4, PlainMoves, PlainSaves, BrokenPlain, PlainReview, ApplyReview
       DEF Applies
  <2>5. CASE RollsBack(q)
    BY <1>0, <2>5, PlainMoves, PlainSaves, PlainReview DEF RollsBack
  <2>6. CASE Hears(q)
    BY <1>0, <2>6, PlainMoves, PlainReview, ApplyReview DEF Hears
  <2>7. CASE Dies(q)
    BY <1>0, <2>7, PlainMoves, PlainReview
  <2> QED BY <1>2, <2>1, <2>2, <2>3, <2>4, <2>5, <2>6, <2>7 DEF Proceed
<1>3. ASSUME NEW m \in wire, Bridge(m) PROVE RInv'
  BY <1>3, BridgeReview
<1> QED BY <1>1, <1>2, <1>3, OthersReview DEF Next

LEMMA AlwaysReviewed ==
  ASSUME Hidden
  PROVE  Spec /\ []Calm => []RInv
<1>1. IInv /\ RInv /\ Calm /\ [Next]_vars => RInv'
  BY NextReview
<1> QED BY InitReview, <1>1, AlwaysInv, PTL DEF Spec

(* Nothing is applied that was not approved as it is, whatever is edited,   *)
(* retried or lost, as long as no re-plan overlaps a review.                *)
THEOREM OnlyApprovedIfCalm ==
  ASSUME Hidden
  PROVE  Spec /\ []Calm => []OnlyApproved
<1>1. RInv => OnlyApproved
  BY DEF RInv, Sent, OnlyApproved, Granted
<1> QED BY <1>1, AlwaysReviewed, PTL

(* The approvals on record are for the plan on record, as long as no        *)
(* re-plan overlaps a review.                                               *)
THEOREM ApprovalsAreCurrentIfCalm ==
  ASSUME Hidden
  PROVE  Spec /\ []Calm => []ApprovalsAreCurrent
<1>1. RInv => ApprovalsAreCurrent
  BY DEF RInv
<1> QED BY <1>1, AlwaysReviewed, PTL

-----------------------------------------------------------------------------
(* Four eyes.  An update and a submit write the authors they saw, and an    *)
(* approval checks those it saw.  A name is lost or missed only when two of *)
(* them overlap; whoever signed alone is known to every later one.          *)

Honest(q) ==
  /\ At(q, Signing) => hands \subseteq req[q].saw.authors
  /\ At(q, {"approve"}) => req[q].by \notin hands

HInv == hands \subseteq cs.authors /\ \A q \in Slot : Honest(q)

(* Steps that leave the authors alone.                                      *)
LEMMA QuietHonest ==
  ASSUME HInv, NEW q \in Slot,
         \A s \in Slot \ {q} : req'[s] = req[s],
         cs'.authors = cs.authors, UNCHANGED hands,
         req'[q].at \notin Signing \cup {"approve"} \/ Honest(q)'
  PROVE  HInv'
<1>1. ASSUME NEW s \in Slot PROVE Honest(s)'
  <2>1. CASE s = q
    BY <2>1 DEF Honest, At
  <2>2. CASE s # q
    BY <2>2 DEF HInv, Honest, At
  <2> QED BY <2>1, <2>2
<1> QED BY <1>1 DEF HInv

LEMMA PlainHonest ==
  ASSUME HInv, NEW q \in Slot, Plain(q), Unsigned(q)
  PROVE  HInv'
BY QuietHonest DEF Plain, Unsigned

LEMMA ArrivalHonest ==
  ASSUME SelfApproval = FALSE, HInv, TypeOK, NEW q \in Slot,
         \/ \E u \in User : \/ \E o \in Content : StartUpdate(q, u, o)
                            \/ StartSubmit(q, u) \/ StartApprove(q, u)
         \/ StartReplan(q) \/ StartReject(q)
  PROVE  HInv'
<1>0. NoRequest \in Request /\ cs \in Document
  BY NoRequestType DEF TypeOK
<1>1. UNCHANGED <<cs, hands>>
  BY DEF StartUpdate, StartSubmit, StartApprove, StartReplan, StartReject
<1>2. ASSUME NEW r \in Request, Arrive(q, r),
             r.at \notin Signing \cup {"approve"} \/ Honest(q)'
      PROVE  HInv'
  BY <1>1, <1>2, ArriveType, QuietHonest
<1>3. ASSUME NEW u \in User, NEW o \in Content, StartUpdate(q, u, o)
      PROVE  HInv'
  <2> DEFINE saw == [NoRequest.saw EXCEPT !.authors = cs.authors]
             r1 == [NoRequest EXCEPT !.at = "update", !.by = u, !.operations = o,
                                     !.saw.authors = cs.authors]
             r2 == [NoRequest EXCEPT !.at = "retitle", !.by = u,
                                     !.saw.authors = cs.authors]
  <2>1. saw \in Document /\ saw.authors = cs.authors
    BY <1>0, SawType DEF Request, Document
  <2>2. /\ r1 \in Request /\ r1.at = "update" /\ r1.saw = saw
        /\ r2 \in Request /\ r2.at = "retitle" /\ r2.saw = saw
    BY <1>0, <2>1 DEF Request, Step, Actor
  <2>3. PICK r \in {r1, r2} : Arrive(q, r)
    BY <1>3 DEF StartUpdate
  <2> HIDE DEF r1, r2, saw
  <2>4. r \in Request /\ r.at \in {"update", "retitle"} /\ r.saw.authors = cs.authors
    BY <2>1, <2>2
  <2>5. Honest(q)'
    BY <1>0, <1>1, <2>3, <2>4, ArriveType DEF HInv, Honest, At
  <2> QED BY <1>2, <2>3, <2>4, <2>5
<1>4. ASSUME NEW u \in User, StartSubmit(q, u)
      PROVE  HInv'
  <2> DEFINE at  == IF AutoApply /\ writes THEN "submit_auto" ELSE "submit"
             saw == [NoRequest.saw EXCEPT !.authors = cs.authors]
             r == [NoRequest EXCEPT !.at = at, !.by = u, !.saw.authors = cs.authors]
  <2>1. saw \in Document /\ saw.authors = cs.authors
    BY <1>0, SawType DEF Request, Document
  <2>2. at \in Step /\ at # "approve"
    BY DEF Step
  <2>3. Arrive(q, r)
    BY <1>4 DEF StartSubmit
  <2> HIDE DEF at
  <2>4. r \in Request /\ r.at = at /\ r.saw = saw
    BY <1>0, <2>1, <2>2 DEF Request, Actor
  <2> HIDE DEF r, saw
  <2>5. Honest(q)'
    BY <1>0, <1>1, <2>1, <2>2, <2>3, <2>4, ArriveType DEF HInv, Honest, At
  <2> QED BY <1>2, <2>3, <2>4, <2>5
<1>5. ASSUME NEW u \in User, StartApprove(q, u)
      PROVE  HInv'
  <2> DEFINE saw == [[NoRequest.saw EXCEPT !.plan = cs.plan]
                        EXCEPT !.approvals = cs.approvals]
             r == [NoRequest EXCEPT !.at = "approve", !.by = u,
                     !.saw.plan = cs.plan, !.saw.approvals = cs.approvals]
  <2>1. saw \in Document /\ saw.approvals = cs.approvals
    BY <1>0, SawType DEF Request, Document
  <2>2. r \in Request /\ r.at = "approve" /\ r.saw = saw /\ r.by = u
    BY <1>0, <2>1 DEF Request, Step, Actor
  <2>3. Arrive(q, r) /\ u \notin cs.authors
    BY <1>5 DEF StartApprove
  <2> HIDE DEF r, saw
  <2>4. u \notin hands
    BY <2>3 DEF HInv
  <2>5. Honest(q)'
    BY <1>1, <2>1, <2>2, <2>3, <2>4, ArriveType DEF Honest, At, Signing
  <2> QED BY <1>2, <2>2, <2>3, <2>5
<1>6. CASE StartReject(q)
  <2> DEFINE r == [NoRequest EXCEPT !.at = "reject", !.saw.approvals = cs.approvals]
  <2>1. [NoRequest.saw EXCEPT !.approvals = cs.approvals] \in Document
    BY SawType
  <2>2. r \in Request /\ r.at \notin Signing \cup {"approve"}
    BY <1>0, <2>1 DEF Request, Step, Signing
  <2>3. Arrive(q, r)
    BY <1>6 DEF StartReject
  <2> HIDE DEF r
  <2> QED BY <1>1, <1>2, <2>2, <2>3
<1>7. CASE StartReplan(q)
  <2>1. Replanning.at \notin Signing \cup {"approve"}
    BY ReplanningType DEF Signing
  <2>2. Replanning \in Request /\ Arrive(q, Replanning)
    BY <1>7, ReplanningType DEF StartReplan
  <2> QED BY <1>1, <1>2, <2>1, <2>2
<1> QED BY <1>1, <1>3, <1>4, <1>5, <1>6, <1>7

LEMMA PlanHonest ==
  ASSUME HInv, TypeOK, NEW q \in Slot,
         \/ ReadPlan(q) \/ Create(q) \/ Reread(q) \/ Replan(q) \/ ReadSubmitted(q)
  PROVE  HInv'
<1>0. cs \in Document /\ UNCHANGED hands /\ {"idle", "create", "replan"} \subseteq Step
      /\ {"idle", "create", "replan", "auto_approve", "plan"}
           \cap (Signing \cup {"approve"}) = {}
  BY DEF TypeOK, ReadPlan, Create, Reread, Replan, ReadSubmitted, Step, Signing
<1>1. /\ cs' = cs \/ ( /\ cs'.authors = cs.authors
                       /\ cs'.status \in {"planned", "plan_failed"} )
      /\ \A s \in Slot \ {q} : req'[s] = req[s]
      /\ req'[q].at \in {"idle", "create", "replan", "auto_approve", "plan"}
  <2>1. CASE ReadPlan(q)
    <3> DEFINE p  == PlanOf(req[q].operations)
               to == IF req[q].at = "plan_new" THEN "create" ELSE "replan"
    <3>1. req' = [req EXCEPT ![q] = [[@ EXCEPT !.plan = p] EXCEPT !.at = to]]
          /\ UNCHANGED cs /\ to \in {"create", "replan"}
      BY <2>1 DEF ReadPlan
    <3> HIDE DEF p, to
    <3> QED BY <3>1 DEF TypeOK, Request
  <2>2. CASE Create(q)
    <3> DEFINE doc == [cs EXCEPT !.plan = req[q].plan,
                                 !.status = PlanStatus(req[q].plan)]
    <3>1. Save(q, Status, doc, "idle")
      BY <2>2 DEF Create
    <3>2. doc.authors = cs.authors /\ doc.status \in {"planned", "plan_failed"}
      BY <1>0 DEF Document, PlanStatus
    <3> HIDE DEF doc
    <3> QED BY <1>0, <3>1, <3>2, SaveEffect
  <2>3. CASE Reread(q)
    <3>1. CASE cs.status \in Replannable
      BY <2>3, <3>1, ReplanningType DEF Reread, TypeOK
    <3>2. CASE cs.status \notin Replannable
      BY <1>0, <2>3, <3>2, GoType DEF Reread
    <3> QED BY <3>1, <3>2
  <2>4. CASE Replan(q)
    <3> DEFINE same == req[q].plan.diff = req[q].saw.plan.diff
               appr == IF same THEN cs.approvals ELSE {}
               vali == IF same THEN cs.validation ELSE NoValidation
               doc  == [cs EXCEPT !.plan = req[q].plan,
                                  !.status = PlanStatus(req[q].plan),
                                  !.approvals = appr, !.validation = vali]
    <3>1. Save(q, {req[q].saw.status}, doc, "idle")
      BY <2>4 DEF Replan
    <3> HIDE DEF same, appr, vali
    <3>2. doc.authors = cs.authors /\ doc.status \in {"planned", "plan_failed"}
      BY <1>0 DEF Document, PlanStatus
    <3> HIDE DEF doc
    <3> QED BY <1>0, <3>1, <3>2, SaveEffect
  <2>5. CASE ReadSubmitted(q)
    <3>1. CASE cs.plan.valid
      BY <2>5, <3>1 DEF ReadSubmitted, TypeOK, Request
    <3>2. CASE ~cs.plan.valid
      BY <1>0, <2>5, <3>2, GoType DEF ReadSubmitted
    <3> QED BY <3>1, <3>2
  <2> QED BY <2>1, <2>2, <2>3, <2>4, <2>5
<1> QED BY <1>0, <1>1, QuietHonest

(* Whoever signs alone is added to the hands, and then nobody else has read *)
(* the authors before.                                                      *)
LEMMA SignHonest ==
  ASSUME TInv, HInv, NEW q \in Slot, Update(q) \/ Submit(q)
  PROVE  HInv'
<1>0. /\ TypeOK /\ cs \in Document /\ At(q, Signing) /\ Honest(q)
      /\ {"reread", "auto", "idle"} \subseteq Step
      /\ {"reread", "auto", "idle"} \cap (Signing \cup {"approve"}) = {}
  BY DEF TInv, TypeOK, Update, Submit, At, Signing, HInv, Step
<1> DEFINE auth == req[q].saw.authors \cup {req[q].by}
<1>1. hands \cup {req[q].by} \subseteq auth
  BY <1>0 DEF Honest
<1>2. Plain(q)
  BY <1>0, SignedPlain
<1>3. cs'.authors = auth \/ (cs'.authors = cs.authors /\ hands' = hands)
  <2>1. CASE Update(q)
    <3> DEFINE ops  == IF req[q].at = "update" THEN req[q].operations ELSE cs.operations
               doc  == [cs EXCEPT !.operations = ops, !.authors = auth]
    <3>1. Save(q, EDITABLE_STATES, doc, "reread")
          /\ (cs.status \notin EDITABLE_STATES => hands' = hands)
      BY <2>1 DEF Update, Sign
    <3> HIDE DEF ops, auth
    <3>2. doc.authors = auth
      BY <1>0 DEF Document
    <3> HIDE DEF doc
    <3> QED BY <1>0, <3>1, <3>2, SaveEffect
  <2>2. CASE Submit(q)
    <3> DEFINE doc  == [cs EXCEPT !.status = "pending_approval", !.authors = auth,
                                  !.submitted_by = req[q].by]
               to   == IF req[q].at = "submit_auto" THEN "auto" ELSE "idle"
    <3>1. /\ Save(q, {"planned", "validated"}, doc, to) /\ to \in {"auto", "idle"}
          /\ cs.status \notin {"planned", "validated"} => hands' = hands
      BY <2>2 DEF Submit, Sign
    <3> HIDE DEF to, auth
    <3>2. doc.authors = auth
      BY <1>0 DEF Document
    <3> HIDE DEF doc
    <3> QED BY <1>0, <3>1, <3>2, SaveEffect
  <2> QED BY <2>1, <2>2
<1>4. \/ hands' = hands
      \/ /\ hands' = hands \cup {req[q].by}
         /\ \A s \in Slot \ {q} : ~At(s, Signing \cup {"approve"})
  BY DEF Update, Submit, Sign, At
<1>5. hands' \subseteq cs'.authors
  BY <1>1, <1>3, <1>4 DEF HInv
<1>6. req'[q].at \in {"reread", "auto", "idle"}
  <2>1. CASE Update(q)
    BY <1>0, <2>1, SaveEffect DEF Update
  <2>2. CASE Submit(q)
    <3>1. \E E, doc : \E step \in {"auto", "idle"} : Save(q, E, doc, step)
      BY <2>2 DEF Submit
    <3> QED BY <1>0, <3>1, SaveEffect
  <2> QED BY <2>1, <2>2
<1>7. ASSUME NEW s \in Slot PROVE Honest(s)'
  <2>1. CASE s = q
    BY <1>0, <1>6, <2>1 DEF Honest, At
  <2>2. CASE s # q
    BY <1>2, <1>4, <2>2 DEF HInv, Honest, At, Plain
  <2> QED BY <2>1, <2>2
<1> QED BY <1>5, <1>7 DEF HInv

LEMMA ReviewHonest ==
  ASSUME TInv, HInv, NEW q \in Slot, AutoApprove(q) \/ Approve(q) \/ Reject(q)
  PROVE  HInv'
<1>0. /\ TypeOK /\ cs \in Document /\ UNCHANGED hands
      /\ {"auto_apply", "idle"} \subseteq Step
      /\ {"auto_apply", "idle"} \cap (Signing \cup {"approve"}) = {}
  BY DEF TInv, TypeOK, AutoApprove, Approve, Reject, Step, Signing
<1>1. \E E, doc : \E step \in {"auto_apply", "idle"} :
        Save(q, E, doc, step) /\ doc.authors = cs.authors
  <2> DEFINE Doc(st, appr) == [cs EXCEPT !.status = st, !.approvals = appr]
  <2>1. \E st, appr : \E step \in {"auto_apply", "idle"} :
          Save(q, {"pending_approval"}, Doc(st, appr), step)
    <3>1. CASE AutoApprove(q)
      BY <3>1 DEF AutoApprove
    <3>2. CASE Approve(q)
      BY <3>2 DEF Approve
    <3>3. CASE Reject(q)
      BY <3>3 DEF Reject
    <3> QED BY <3>1, <3>2, <3>3
  <2>2. \A st, appr : Doc(st, appr).authors = cs.authors
    BY <1>0 DEF Document
  <2> HIDE DEF Doc
  <2> QED BY <2>1, <2>2
<1>2. PICK E, doc, step :
        /\ step \in {"auto_apply", "idle"}
        /\ Save(q, E, doc, step) /\ doc.authors = cs.authors
  BY <1>1
<1>3. /\ \A s \in Slot \ {q} : req'[s] = req[s]
      /\ req'[q].at \in {"auto_apply", "idle"} /\ cs'.authors = cs.authors
  BY <1>0, <1>2, SaveEffect
<1> QED BY <1>0, <1>3, QuietHonest

LEMMA StillHonest ==
  ASSUME HInv, UNCHANGED <<cs, hands>>,
         UNCHANGED req \/ \A s \in Slot : req'[s].at = "idle"
  PROVE  HInv'
<1>1. ASSUME NEW s \in Slot PROVE Honest(s)'
  BY DEF HInv, Honest, At, Signing
<1> QED BY <1>1 DEF HInv

LEMMA BeginHonest ==
  ASSUME TInv, HInv, NEW q \in Slot, BeginApply(q)
  PROVE  HInv'
<1>0. TypeOK /\ cs \in Document /\ UNCHANGED hands
  BY DEF TInv, TypeOK, BeginApply
<1>1. CASE cs.status = "approved"
  <2> DEFINE r == [NoRequest EXCEPT !.at = "applying", !.saw.plan = cs.plan,
                                    !.saw.operations = cs.operations]
  <2>1. cs' = [cs EXCEPT !.status = "applying"] /\ req' = [req EXCEPT ![q] = r]
    BY <1>1 DEF BeginApply
  <2>2. cs'.authors = cs.authors /\ cs'.status = "applying"
    BY <1>0, <2>1 DEF Document
  <2>3. r.at \notin Signing \cup {"approve"}
    BY NoRequestType DEF Request, Signing
  <2> HIDE DEF r
  <2>4. req'[q] = r /\ \A s \in Slot \ {q} : req'[s] = req[s]
    BY <1>0, <2>1 DEF TypeOK
  <2> QED BY <1>0, <2>2, <2>3, <2>4, QuietHonest
<1>2. CASE cs.status # "approved"
  <2>1. req'[q].at = "idle" /\ (\A s \in Slot \ {q} : req'[s] = req[s]) /\ UNCHANGED cs
    BY <1>0, <1>2, QuietSteps, GoType DEF BeginApply
  <2>2. req'[q].at \notin Signing \cup {"approve"}
    BY <2>1 DEF Signing
  <2> QED BY <1>0, <2>1, <2>2, QuietHonest
<1> QED BY <1>1, <1>2

LEMMA InitHonest == Init => HInv
<1> SUFFICES ASSUME Init PROVE HInv
  OBVIOUS
<1>1. hands \subseteq cs.authors
  BY DEF Init, Draft
<1>2. \A s \in Slot : req[s].at \in {"plan_new", "idle"}
  BY IdleAt
<1> QED BY <1>1, <1>2 DEF HInv, Honest, At, Signing

LEMMA NextHonest ==
  ASSUME SelfApproval = FALSE, TInv, HInv, [Next]_vars
  PROVE  HInv'
<1>0. TypeOK
  BY DEF TInv
<1>1. ASSUME NEW q \in Slot, Arrival(q) PROVE HInv'
  <2>1. CASE \/ StartValidation(q) \/ StartCancel(q) \/ StartApply(q)
             \/ \E why \in Reason : StartRollback(q, why)
    BY <1>0, <2>1, PlainArrivals, PlainHonest
  <2> QED BY <1>0, <1>1, <2>1, ArrivalHonest DEF Arrival
<1>2. ASSUME NEW q \in Slot, Proceed(q) PROVE HInv'
  <2>1. CASE Plans(q)
    BY <1>0, <2>1, PlainMoves, PlainHonest, PlanHonest, SignHonest DEF Plans
  <2>2. CASE Validates(q)
    BY <1>0, <2>2, PlainMoves, PlainSaves, PlainHonest DEF Validates
  <2>3. CASE Reviews(q)
    BY <1>0, <2>3, PlainSaves, PlainHonest, PlanHonest, SignHonest, ReviewHonest
       DEF Reviews
  <2>4. CASE Applies(q)
    BY <1>0, <2>4, PlainMoves, PlainSaves, BrokenPlain, PlainHonest, BeginHonest
       DEF Applies
  <2>5. CASE RollsBack(q)
    BY <1>0, <2>5, PlainMoves, PlainSaves, PlainHonest DEF RollsBack
  <2>6. CASE Hears(q)
    <3>1. CASE Retry(q)
      BY <3>1, StillHonest DEF Retry
    <3> QED BY <1>0, <2>6, <3>1, PlainMoves, PlainHonest DEF Hears
  <2>7. CASE Dies(q)
    BY <1>0, <2>7, PlainMoves, PlainHonest
  <2> QED BY <1>2, <2>1, <2>2, <2>3, <2>4, <2>5, <2>6, <2>7 DEF Proceed
<1>3. ASSUME NEW m \in wire, Bridge(m) PROVE HInv'
  <2>1. UNCHANGED <<cs, req, hands>>
    BY <1>3 DEF Bridge, ExecuteApply, ExecuteRollback, Refuse, Replay, Lose
  <2> QED BY <2>1, StillHonest
<1>4. CASE Others \/ UNCHANGED vars
  <2>1. /\ UNCHANGED <<cs, hands>>
        /\ UNCHANGED req \/ \A s \in Slot : req'[s].at = "idle"
    BY <1>4, IdleAt DEF Others, OtherChange, ToggleWrites, vars
  <2> QED BY <2>1, StillHonest
<1> QED BY <1>1, <1>2, <1>3, <1>4 DEF Next

(* Where nobody may approve their own work, nobody approves a change set    *)
(* that they wrote, edited or submitted, whatever races, with the one       *)
(* exception that FourEyes names: a signature that overlapped another one   *)
(* or an approval.                                                          *)
THEOREM FourEyesAlways ==
  ASSUME SelfApproval = FALSE
  PROVE  Spec => FourEyes
<1>1. TInv /\ HInv /\ [Next]_vars => HInv'
  BY NextHonest
<1>2. HInv => \A q \in Slot :
        /\ req[q].at = "approve" /\ req'[q].at # "approve"
        /\ cs.status # "approved" /\ cs'.status = "approved"
        => req[q].by \notin hands
  BY DEF HInv, Honest, At
<1> QED BY InitHonest, <1>1, <1>2, AlwaysTyped, PTL DEF Spec, FourEyes

=============================================================================
