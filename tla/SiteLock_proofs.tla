---------------------------- MODULE SiteLock_proofs ----------------------------
(***************************************************************************)
(* Proofs about SiteLock, for any processes and any number of requests and *)
(* of troubles.                                                            *)
(***************************************************************************)
EXTENDS SiteLock, TLAPS

Waiting(q) == st[q] \in {"queued", "left"} \/ Inside(q)
InQueue(q) == \E i \in 1..Len(Mine(q)) : Mine(q)[i] = q

(* Whoever waits is in the chain of its process; who is past the mutex is   *)
(* its head.                                                                *)
Chain ==
  \A q \in Req : /\ Waiting(q) => InQueue(q)
                 /\ Inside(q) => q = Head(Mine(q))

(* Who is inside a suspended process has slept; the dead are done.          *)
Sleepers ==
  /\ \A q \in Req : Inside(q) /\ ~Awake(q) => q \in slept
  /\ \A q \in dead : st[q] = "done"

(* The states from the creation of the own file on.                         *)
Past(q) == Holding(q) \/ st[q] \in {"leave", "done"}

(* The file's writer has created it; it is written while its writer runs,   *)
(* abandoned only by the dead and the failed, and fresh unless its writer   *)
(* has slept.                                                               *)
Written ==
  \A q \in Req : file.by = q =>
    /\ Past(q)
    /\ st[q] \in {"run", "release", "unlink"} => file.full
    /\ st[q] \in {"leave", "done"} => q \in dead \cup failed
    /\ Holding(q) /\ q \notin slept => file.age = "fresh"

(* A verdict names a file whose writer is no holder, or has slept.          *)
Verdicts ==
  \A q, r \in Req : judged[r] = q => Past(q) /\ (Holding(q) => q \in slept)

IInv == TypeOK /\ Chain /\ Sleepers /\ Written /\ Verdicts

-----------------------------------------------------------------------------
(* The steps of a request.                                                  *)

LEMMA ReqFacts == Req \subseteq Nat /\ NoReq \notin Req
BY LockAssumption DEF Req, NoReq

LEMMA GoSt ==
  ASSUME TypeOK, NEW q \in Req, NEW s \in Step, Go(q, s)
  PROVE  st' \in [Req -> Step] /\ st'[q] = s /\ \A r \in Req \ {q} : st'[r] = st[r]
BY DEF Go, TypeOK

(* The chain after q has gone on without leaving it.                        *)
LEMMA MoveChain ==
  ASSUME TypeOK, Chain, NEW q \in Req, NEW s \in Step, Go(q, s),
         UNCHANGED <<queue, home>>, Waiting(q),
         s \in {"queued", "left"} \/ q = Head(Mine(q))
  PROVE  Chain'
<1>1. st'[q] = s /\ \A r \in Req \ {q} : st'[r] = st[r]
  BY GoSt
<1>2. \A r \in Req : Mine(r)' = Mine(r)
  BY DEF Mine
<1>3. \A r \in Req : InQueue(r)' <=> InQueue(r)
  BY <1>2 DEF InQueue
<1>4. InQueue(q)
  BY DEF Chain
<1>5. \A r \in Req \ {q} : (Waiting(r)' <=> Waiting(r)) /\ (Inside(r)' <=> Inside(r))
  BY <1>1 DEF Waiting, Inside
<1>6. Inside(q)' => q = Head(Mine(q))
  BY <1>1 DEF Inside
<1> QED BY <1>2, <1>3, <1>4, <1>5, <1>6 DEF Chain

(* The chain after its head q has left it.                                  *)
LEMMA PopChain ==
  ASSUME TypeOK, Chain, NEW q \in Req, Go(q, "done"), home' = home,
         Waiting(q), q = Head(Mine(q)),
         queue' = [queue EXCEPT ![home[q]] = Tail(@)]
  PROVE  Chain' /\ queue' \in [Proc -> Seq(Req)]
<1>1. st'[q] = "done" /\ \A r \in Req \ {q} : st'[r] = st[r]
  BY GoSt DEF Step
<1>2. home[q] \in Proc /\ queue[home[q]] \in Seq(Req) /\ queue[home[q]] # <<>>
  BY DEF TypeOK, Chain, InQueue, Mine
<1>3. Tail(queue[home[q]]) \in Seq(Req)
  BY <1>2
<1>4. queue' \in [Proc -> Seq(Req)]
  BY <1>3 DEF TypeOK
<1>5. ASSUME NEW r \in Req, Waiting(r)'
      PROVE  InQueue(r)' /\ (Inside(r)' => r = Head(Mine(r))')
  <2>1. r # q /\ Waiting(r) /\ (Inside(r)' <=> Inside(r))
    BY <1>1, <1>5 DEF Waiting, Inside
  <2>2. CASE home[r] # home[q]
    <3>1. Mine(r)' = Mine(r)
      BY <2>2 DEF Mine, TypeOK
    <3> QED BY <2>1, <3>1 DEF Chain, InQueue
  <2>3. CASE home[r] = home[q]
    <3>1. Mine(r) = queue[home[q]] /\ Mine(r)' = Tail(queue[home[q]])
      BY <1>2, <2>3 DEF Mine, TypeOK
    <3>2. ~Inside(r)
      BY <2>1, <3>1 DEF Chain, Mine
    <3>3. PICK i \in 1..Len(queue[home[q]]) : queue[home[q]][i] = r
      BY <2>1, <3>1 DEF Chain, InQueue
    <3>4. i # 1
      BY <1>2, <2>1, <3>3 DEF Mine
    <3>5. /\ i - 1 \in 1..Len(Tail(queue[home[q]]))
          /\ Tail(queue[home[q]])[i - 1] = r
      BY <1>2, <3>3, <3>4
    <3> QED BY <2>1, <3>1, <3>2, <3>5 DEF InQueue
  <2> QED BY <2>2, <2>3
<1>6. \A r \in Req : Inside(r)' => Waiting(r)'
  BY DEF Waiting
<1> QED BY <1>4, <1>5, <1>6 DEF Chain

LEMMA AskChain ==
  ASSUME TypeOK, Chain, NEW q \in Req, Ask(q)
  PROVE  Chain' /\ queue' \in [Proc -> Seq(Req)]
<1>1. st'[q] = "queued" /\ \A r \in Req \ {q} : st'[r] = st[r]
  BY GoSt DEF Ask, Step
<1>2. home[q] \in Proc /\ queue[home[q]] \in Seq(Req) /\ home' = home
  BY DEF TypeOK, Ask
<1>3. queue' = [queue EXCEPT ![home[q]] = Append(queue[home[q]], q)]
  BY DEF Ask
<1>4. Append(queue[home[q]], q) \in Seq(Req)
  BY <1>2
<1>5. queue' \in [Proc -> Seq(Req)]
  BY <1>3, <1>4 DEF TypeOK
<1>6. Mine(q)' = Append(Mine(q), q)
  BY <1>2, <1>3 DEF Mine, TypeOK
<1>7. InQueue(q)' /\ ~Inside(q)'
  <2>1. /\ Len(Mine(q)) + 1 \in 1..Len(Append(Mine(q), q))
        /\ Append(Mine(q), q)[Len(Mine(q)) + 1] = q
    BY <1>2 DEF Mine
  <2> QED BY <1>1, <1>6, <2>1 DEF InQueue, Inside
<1>8. ASSUME NEW r \in Req \ {q}, Waiting(r)'
      PROVE  InQueue(r)' /\ (Inside(r)' => r = Head(Mine(r))')
  <2>1. Waiting(r) /\ (Inside(r)' <=> Inside(r)) /\ InQueue(r)
    BY <1>1, <1>8 DEF Waiting, Inside, Chain
  <2>2. CASE home[r] # home[q]
    <3>1. Mine(r)' = Mine(r)
      BY <1>2, <1>3, <2>2 DEF Mine, TypeOK
    <3> QED BY <2>1, <3>1 DEF Chain, InQueue
  <2>3. CASE home[r] = home[q]
    <3>1. Mine(r) = queue[home[q]] /\ Mine(r)' = Append(queue[home[q]], q)
      BY <1>2, <1>3, <2>3 DEF Mine, TypeOK
    <3>2. PICK i \in 1..Len(queue[home[q]]) : queue[home[q]][i] = r
      BY <2>1, <3>1 DEF InQueue
    <3>3. /\ i \in 1..Len(Append(queue[home[q]], q))
          /\ Append(queue[home[q]], q)[i] = r
      BY <1>2, <3>2
    <3>4. Head(Append(queue[home[q]], q)) = Head(queue[home[q]])
      BY <1>2, <3>2
    <3> QED BY <2>1, <3>1, <3>3, <3>4 DEF InQueue, Chain
  <2> QED BY <2>2, <2>3
<1>9. \A r \in Req : Inside(r)' => Waiting(r)'
  BY DEF Waiting
<1> QED BY <1>5, <1>7, <1>8, <1>9 DEF Chain

-----------------------------------------------------------------------------
(* Types and the chain, one step per group of actions.                      *)

LEMMA ActChain ==
  ASSUME TypeOK, Chain, NEW q \in Req, Act(q)
  PROVE  TypeOK' /\ Chain'
<1>0. /\ home[q] \in Proc /\ file \in File /\ st \in [Req -> Step]
  BY DEF TypeOK
<1>1. CASE Ask(q)
  <2>1. st' \in [Req -> Step]
    BY <1>1, GoSt DEF Ask, Step
  <2> QED BY <1>1, <2>1, AskChain DEF Ask, TypeOK
<1>2. CASE PassOn(q) \/ Leave(q)
  <2>1. Waiting(q) /\ q = Head(Mine(q))
    BY <1>2 DEF PassOn, Leave, Waiting, Inside, Chain
  <2>2. Chain' /\ queue' \in [Proc -> Seq(Req)]
    BY <1>2, <2>1, PopChain DEF PassOn, Leave
  <2>3. st' \in [Req -> Step]
    BY <1>2, GoSt DEF PassOn, Leave, Step
  <2> QED BY <1>2, <2>2, <2>3 DEF PassOn, Leave, TypeOK
<1>3. CASE Enter(q)
  <2>1. Chain' /\ st' \in [Req -> Step]
    BY <1>3, MoveChain, GoSt DEF Enter, Waiting, Step
  <2> QED BY <1>3, <2>1 DEF Enter, TypeOK
<1>4. CASE TimeOut(q)
  <2>1. Chain' /\ st' \in [Req -> Step]
    BY <1>4, MoveChain, GoSt DEF TimeOut, Waiting, Step
  <2> QED BY <1>4, <2>1 DEF TimeOut, TypeOK
<1>5. ASSUME NEW s \in Step, Go(q, s), Inside(q), UNCHANGED <<queue, home>>
      PROVE  Chain' /\ st' \in [Req -> Step]
  <2>1. Waiting(q) /\ q = Head(Mine(q))
    BY <1>5 DEF Waiting, Chain
  <2> QED BY <1>5, <2>1, MoveChain, GoSt
<1>6. CASE Create(q)
  <2>1. Chain' /\ st' \in [Req -> Step]
    BY <1>5, <1>6 DEF Create, Inside, Step
  <2>2. file' \in File
    <3>1. [by |-> q, full |-> FALSE, age |-> "fresh"] \in File
      BY DEF File, Age
    <3> QED BY <1>0, <1>6, <3>1 DEF Create
  <2> QED BY <1>6, <2>1, <2>2 DEF Create, TypeOK
<1>7. CASE Write(q)
  <2>1. Chain' /\ st' \in [Req -> Step]
    BY <1>5, <1>7 DEF Write, Inside, Step
  <2>2. file' \in File
    <3>1. [file EXCEPT !.full = TRUE, !.age = "fresh"] \in File
      BY <1>0 DEF File, Age
    <3> QED BY <1>0, <1>7, <3>1 DEF Write
  <2> QED BY <1>7, <2>1, <2>2 DEF Write, TypeOK
<1>8. CASE FailWrite(q) \/ FailUnlink(q)
  <2>1. Chain' /\ st' \in [Req -> Step]
    BY <1>5, <1>8 DEF FailWrite, FailUnlink, Inside, Step
  <2>2. trouble' \in 0..MaxTrouble
    BY <1>8, LockAssumption DEF FailWrite, FailUnlink, Trouble, TypeOK
  <2> QED BY <1>8, <2>1, <2>2 DEF FailWrite, FailUnlink, TypeOK
<1>9. CASE JudgeStale(q)
  <2>1. Chain' /\ st' \in [Req -> Step]
    BY <1>5, <1>9 DEF JudgeStale, Inside, Step
  <2>2. judged' \in [Req -> Req \cup {NoReq}]
    BY <1>0, <1>9 DEF JudgeStale, File, TypeOK
  <2> QED BY <1>9, <2>1, <2>2 DEF JudgeStale, TypeOK
<1>10. CASE Retry(q) \/ GiveUp(q) \/ Finish(q) \/ ReadToken(q)
  <2>1. Chain' /\ st' \in [Req -> Step]
    BY <1>5, <1>10 DEF Retry, GiveUp, Finish, ReadToken, Inside, Step
  <2> QED BY <1>10, <2>1 DEF Retry, GiveUp, Finish, ReadToken, TypeOK
<1>11. CASE Remove(q) \/ Unlink(q)
  <2>1. Chain' /\ st' \in [Req -> Step]
    BY <1>5, <1>11 DEF Remove, Unlink, Inside, Step
  <2>2. NoFile \in File
    BY DEF NoFile, File, Age
  <2> QED BY <1>11, <2>1, <2>2 DEF Remove, Unlink, TypeOK
<1>12. CASE Beat(q)
  <2>1. file' \in File
    BY <1>0, <1>12 DEF Beat, File, Age
  <2>2. Chain'
    BY <1>12 DEF Beat, Chain, Waiting, Inside, InQueue, Mine
  <2> QED BY <1>12, <2>1, <2>2 DEF Beat, TypeOK
<1> QED
  BY <1>1, <1>2, <1>3, <1>4, <1>6, <1>7, <1>8, <1>9, <1>10, <1>11, <1>12
  DEF Act, Work

LEMMA OtherChain ==
  ASSUME TypeOK, Chain,
         (\E p \in Proc : Suspend(p) \/ Resume(p) \/ Crash(p)) \/ Pass \/ UNCHANGED vars
  PROVE  TypeOK' /\ Chain'
<1>1. CASE UNCHANGED <<st, queue, home>>
  <2>1. Chain'
    BY <1>1 DEF Chain, Waiting, Inside, InQueue, Mine
  <2>2. CASE \E p \in Proc : Suspend(p) \/ Resume(p)
    <3>1. trouble' \in 0..MaxTrouble
      BY <2>2, LockAssumption DEF Suspend, Resume, Trouble, TypeOK
    <3> QED BY <2>1, <2>2, <3>1 DEF Suspend, Resume, TypeOK
  <2>3. CASE Pass
    <3>1. file' \in File
      BY <2>3 DEF Pass, File, Age, TypeOK
    <3> QED BY <2>1, <2>3, <3>1 DEF Pass, TypeOK
  <2>4. CASE UNCHANGED vars
    BY <2>1, <2>4 DEF vars, TypeOK
  <2>5. ASSUME NEW p \in Proc, Crash(p) PROVE TypeOK'
    <3>1. trouble' \in 0..MaxTrouble
      BY <2>5, LockAssumption DEF Crash, Trouble, TypeOK
    <3>2. dead' \subseteq Req
      BY <2>5 DEF Crash, TypeOK
    <3> QED BY <1>1, <2>5, <3>1, <3>2 DEF Crash, TypeOK
  <2> QED BY <2>1, <2>2, <2>3, <2>4, <2>5
<1>2. ASSUME NEW p \in Proc, Crash(p) PROVE TypeOK' /\ Chain'
  <2>1. trouble' \in 0..MaxTrouble
    BY <1>2, LockAssumption DEF Crash, Trouble, TypeOK
  <2>2. \A q \in Req : st'[q] = IF home[q] = p /\ st[q] \notin {"new", "done"}
                                  THEN "done" ELSE st[q]
    BY <1>2 DEF Crash
  <2>3. st' \in [Req -> Step]
    BY <1>2 DEF Crash, Step, TypeOK
  <2>4. queue' \in [Proc -> Seq(Req)]
    BY <1>2 DEF Crash, TypeOK
  <2>5. dead' \subseteq Req
    BY <1>2 DEF Crash, TypeOK
  <2>6. ASSUME NEW q \in Req, Waiting(q)'
        PROVE  InQueue(q)' /\ (Inside(q)' => q = Head(Mine(q))')
    <3>1. home[q] # p /\ Waiting(q) /\ (Inside(q)' <=> Inside(q))
      BY <2>2, <2>6 DEF Waiting, Inside
    <3>2. Mine(q)' = Mine(q)
      BY <1>2, <3>1 DEF Crash, Mine, TypeOK
    <3> QED BY <3>1, <3>2 DEF Chain, InQueue
  <2>7. \A q \in Req : Inside(q)' => Waiting(q)'
    BY DEF Waiting
  <2>8. Chain'
    BY <2>6, <2>7 DEF Chain
  <2> QED BY <1>2, <2>1, <2>3, <2>4, <2>5, <2>8 DEF Crash, TypeOK
<1> QED BY <1>1, <1>2 DEF Suspend, Resume, Pass, vars

-----------------------------------------------------------------------------
(* Suspension, the file and the verdicts.                                   *)

LEMMA ActFile ==
  ASSUME IInv, NEW q \in Req, Act(q)
  PROVE  (Sleepers /\ Written /\ Verdicts)'
<1>0. TypeOK /\ Sleepers /\ Written /\ Verdicts
  BY DEF IInv
<1>1. UNCHANGED <<home, asleep, slept, dead>> /\ failed \subseteq failed'
  BY DEF Act, Work, Ask, TimeOut, Enter, PassOn, Create, Write, JudgeStale, Retry, Remove,
     Finish, ReadToken, Unlink, Leave, FailWrite, GiveUp, FailUnlink, Beat
<1>2. Awake(q)
  BY DEF Act, Work, Ask, TimeOut, Enter, PassOn, Create, Write, JudgeStale, Retry, Remove,
     Finish, ReadToken, Unlink, Leave, FailWrite, GiveUp, FailUnlink, Beat
<1>3. ASSUME NEW s \in Step, Go(q, s), st[q] # "done" PROVE Sleepers'
  <2>1. st'[q] = s /\ \A r \in Req \ {q} : st'[r] = st[r]
    BY <1>0, <1>3, GoSt
  <2>2. q \notin dead /\ dead \subseteq Req
    BY <1>0, <1>3 DEF Sleepers, TypeOK
  <2> QED BY <1>0, <1>1, <1>2, <2>1, <2>2 DEF Sleepers, Inside, Awake
\* q goes on, the file and the verdicts stay as they are
<1>4. ASSUME NEW s \in Step, Go(q, s), st[q] # "done", UNCHANGED <<file, judged>>,
             Past(q) => s \in {"run", "release", "unlink", "leave", "done"},
             Past(q) /\ s \in {"run", "release", "unlink"} => st[q] \in {"run", "release"},
             file.by = q /\ s \in {"leave", "done"} => q \in failed' \/ st[q] = "leave"
      PROVE  (Sleepers /\ Written /\ Verdicts)'
  <2>1. st'[q] = s /\ \A r \in Req \ {q} : st'[r] = st[r]
    BY <1>0, <1>4, GoSt
  <2>2. Past(q) => Past(q)' /\ (Holding(q)' => Holding(q))
    BY <1>4, <2>1 DEF Past, Holding
  <2>3. \A r \in Req \ {q} : /\ Past(r)' <=> Past(r)
                             /\ Holding(r)' <=> Holding(r)
    BY <2>1 DEF Past, Holding
  <2>4. Written'
    <3>1. ASSUME file.by = q
          PROVE  /\ Past(q)'
                 /\ s \in {"run", "release", "unlink"} => file.full
                 /\ s \in {"leave", "done"} => q \in dead \cup failed'
                 /\ Holding(q)' /\ q \notin slept => file.age = "fresh"
      BY <1>0, <1>1, <1>4, <2>2, <3>1 DEF Written
    <3> QED BY <1>0, <1>1, <1>4, <2>1, <2>3, <3>1 DEF Written
  <2>5. Verdicts'
    BY <1>0, <1>1, <1>4, <2>2, <2>3 DEF Verdicts
  <2> QED BY <1>3, <1>4, <2>4, <2>5
<1>5. CASE Ask(q) \/ Enter(q) \/ TimeOut(q) \/ PassOn(q) \/ Retry(q) \/ GiveUp(q)
  <2>1. ~Past(q) /\ st[q] # "done" /\ file.by # q
    BY <1>0, <1>5 DEF Ask, Enter, TimeOut, PassOn, Retry, GiveUp, Past, Holding, Written
  <2>2. PICK s \in Step : Go(q, s)
    BY <1>5 DEF Ask, Enter, TimeOut, PassOn, Retry, GiveUp, Step
  <2>3. UNCHANGED <<file, judged>>
    BY <1>5 DEF Ask, Enter, TimeOut, PassOn, Retry, GiveUp
  <2> QED BY <1>4, <2>1, <2>2, <2>3
<1>6. CASE Finish(q) \/ Leave(q) \/ FailWrite(q) \/ FailUnlink(q)
  <2>1. UNCHANGED <<file, judged>>
    BY <1>6 DEF Finish, Leave, FailWrite, FailUnlink
  <2>2. CASE Finish(q)
    BY <1>4, <2>1, <2>2 DEF Finish, Step, Past, Holding
  <2>3. CASE Leave(q)
    BY <1>4, <2>1, <2>3 DEF Leave, Step, Past, Holding
  <2>4. CASE FailWrite(q) \/ FailUnlink(q)
    <3>1. /\ st[q] \in {"write", "release", "unlink"} /\ Go(q, "leave")
          /\ q \in failed'
      BY <2>4 DEF FailWrite, FailUnlink
    <3> QED BY <1>4, <2>1, <3>1 DEF Step, Past, Holding
  <2> QED BY <1>6, <2>2, <2>3, <2>4
<1>7. CASE ReadToken(q)
  <2>1. file.by = q => file.full
    BY <1>0, <1>7 DEF ReadToken, Written
  <2> DEFINE s == IF file.by = q /\ file.full THEN "unlink" ELSE "leave"
  <2>2. s \in Step /\ s \in {"unlink", "leave"} /\ (file.by = q => s = "unlink")
    BY <2>1 DEF Step
  <2>3. Go(q, s) /\ st[q] = "release" /\ UNCHANGED <<file, judged>>
    BY <1>7 DEF ReadToken
  <2> HIDE DEF s
  <2> QED BY <1>4, <2>2, <2>3
<1>8. CASE Create(q) /\ file.by # NoReq
  <2>1. st[q] = "create" /\ Go(q, "check") /\ UNCHANGED <<file, judged>>
    BY <1>8 DEF Create
  <2>2. file.by # q
    BY <1>0, <2>1 DEF Written, Past, Holding
  <2> QED BY <1>4, <2>1, <2>2 DEF Step, Past, Holding
<1>9. CASE Create(q) /\ file.by = NoReq
  <2>1. /\ st[q] = "create" /\ Go(q, "write") /\ judged' = judged
        /\ file' = [by |-> q, full |-> FALSE, age |-> "fresh"]
    BY <1>9 DEF Create
  <2>2. st'[q] = "write" /\ \A r \in Req \ {q} : st'[r] = st[r]
    BY <1>0, <2>1, GoSt DEF Step
  <2>3. Sleepers'
    BY <1>3, <2>1 DEF Step
  <2>4. Written'
    BY <2>1, <2>2 DEF Written, Past, Holding
  <2>5. \A r \in Req : judged[r] # q
    BY <1>0, <2>1 DEF Verdicts, Past, Holding
  <2>6. Verdicts'
    BY <1>0, <1>1, <2>1, <2>2, <2>5 DEF Verdicts, Past, Holding
  <2> QED BY <2>3, <2>4, <2>6
<1>10. CASE Write(q)
  <2>1. /\ st[q] = "write" /\ Go(q, "run") /\ judged' = judged
        /\ file' = IF file.by = q THEN [file EXCEPT !.full = TRUE, !.age = "fresh"] ELSE file
    BY <1>10 DEF Write
  <2>2. st'[q] = "run" /\ \A r \in Req \ {q} : st'[r] = st[r]
    BY <1>0, <2>1, GoSt DEF Step
  <2>3. Sleepers'
    BY <1>3, <2>1 DEF Step
  <2>4. ASSUME file.by = q PROVE Written'
    <3>1. file'.by = q /\ file'.full /\ file'.age = "fresh"
      BY <1>0, <2>1, <2>4 DEF TypeOK, File
    <3> QED BY <2>2, <3>1 DEF Written, Past, Holding
  <2>5. ASSUME file.by # q PROVE Written'
    BY <1>0, <1>1, <2>1, <2>2, <2>5 DEF Written, Past, Holding
  <2>6. Verdicts'
    BY <1>0, <1>1, <2>1, <2>2 DEF Verdicts, Past, Holding
  <2> QED BY <2>3, <2>4, <2>5, <2>6
<1>11. CASE JudgeStale(q)
  <2>1. /\ st[q] = "check" /\ Go(q, "remove") /\ file' = file
        /\ judged' = [judged EXCEPT ![q] = file.by]
    BY <1>11 DEF JudgeStale
  <2>2. st'[q] = "remove" /\ \A r \in Req \ {q} : st'[r] = st[r]
    BY <1>0, <2>1, GoSt DEF Step
  <2>3. Sleepers'
    BY <1>3, <2>1 DEF Step
  <2>4. file.by # q
    BY <1>0, <2>1 DEF Written, Past, Holding
  <2>5. Written'
    BY <1>0, <1>1, <2>1, <2>2, <2>4 DEF Written, Past, Holding
  <2>6. ASSUME NEW r \in Req, file.by = r, Holding(r) PROVE r \in slept
    <3>1. Stale \/ (file.full /\ file.by \in dead)
      BY <1>11 DEF JudgeStale
    <3>2. r \notin dead
      BY <1>0, <2>6 DEF Sleepers, Holding
    <3>3. file.age # "fresh"
      BY <2>6, <3>1, <3>2, ReqFacts DEF Stale
    <3> QED BY <1>0, <2>6, <3>3 DEF Written
  <2>7. \A r \in Req : file.by = r => Past(r)
    BY <1>0 DEF Written
  <2>8. \A r, t \in Req : judged'[t] = r => judged[t] = r \/ file.by = r
    BY <1>0, <2>1 DEF TypeOK
  <2>9. ASSUME NEW r \in Req, NEW t \in Req, judged'[t] = r
        PROVE  Past(r)' /\ (Holding(r)' => r \in slept')
    <3>1. Past(r) /\ (Holding(r) => r \in slept)
      BY <1>0, <2>6, <2>7, <2>8, <2>9 DEF Verdicts
    <3>2. r # q
      BY <2>1, <3>1 DEF Past, Holding
    <3> QED BY <1>1, <2>2, <3>1, <3>2 DEF Past, Holding
  <2> QED BY <2>3, <2>5, <2>9 DEF Verdicts
<1>12. CASE Remove(q) \/ Unlink(q)
  <2>1. PICK s \in Step : /\ s \in {"create", "leave"} /\ Go(q, s)
                          /\ s = "leave" <=> st[q] = "unlink"
                          /\ st[q] \in {"remove", "unlink"}
    BY <1>12 DEF Remove, Unlink, Step
  <2>2. st'[q] = s /\ \A r \in Req \ {q} : st'[r] = st[r]
    BY <1>0, <2>1, GoSt
  <2>3. Sleepers'
    BY <1>3, <2>1
  <2>4. file'.by = NoReq /\ judged' = judged
    BY <1>12 DEF Remove, Unlink, NoFile
  <2>5. Written'
    BY <2>4, ReqFacts DEF Written
  <2>6. Verdicts'
    BY <1>0, <1>1, <2>1, <2>2, <2>4 DEF Verdicts, Past, Holding
  <2> QED BY <2>3, <2>5, <2>6
<1>13. CASE Beat(q)
  <2>1. st' = st /\ judged' = judged /\ file' = [file EXCEPT !.age = "fresh"]
    BY <1>13 DEF Beat
  <2>2. file'.by = file.by /\ file'.full = file.full /\ file'.age = "fresh"
    BY <1>0, <2>1 DEF TypeOK, File
  <2> QED BY <1>0, <1>1, <2>1, <2>2
       DEF Sleepers, Inside, Awake, Written, Verdicts, Past, Holding
<1> QED
  BY <1>5, <1>6, <1>7, <1>8, <1>9, <1>10, <1>11, <1>12, <1>13 DEF Act, Work

LEMMA OtherFile ==
  ASSUME IInv,
         (\E p \in Proc : Suspend(p) \/ Resume(p) \/ Crash(p)) \/ Pass \/ UNCHANGED vars
  PROVE  (Sleepers /\ Written /\ Verdicts)'
<1>0. TypeOK /\ Sleepers /\ Written /\ Verdicts
  BY DEF IInv
<1>1. ASSUME NEW p \in Proc, Suspend(p) PROVE (Sleepers /\ Written /\ Verdicts)'
  <2>1. /\ UNCHANGED <<home, st, file, judged, dead, failed>>
        /\ asleep' = asleep \cup {p}
        /\ slept' = slept \cup {q \in Req : home[q] = p /\ Inside(q)}
    BY <1>1 DEF Suspend
  <2>2. Sleepers'
    BY <1>0, <2>1 DEF Sleepers, Inside, Awake
  <2>3. Written' /\ Verdicts'
    BY <1>0, <2>1 DEF Written, Verdicts, Past, Holding
  <2> QED BY <2>2, <2>3
<1>2. ASSUME NEW p \in Proc, Resume(p) PROVE (Sleepers /\ Written /\ Verdicts)'
  BY <1>0, <1>2 DEF Resume, Sleepers, Inside, Awake, Written, Verdicts, Past, Holding
<1>3. ASSUME NEW p \in Proc, Crash(p) PROVE (Sleepers /\ Written /\ Verdicts)'
  <2>1. /\ UNCHANGED <<home, file, judged, asleep, slept, failed>>
        /\ dead' = dead \cup {q \in Req : home[q] = p /\ st[q] \notin {"new", "done"}}
    BY <1>3 DEF Crash
  <2>2. \A q \in Req : IF home[q] = p /\ st[q] \notin {"new", "done"}
                         THEN st'[q] = "done" ELSE st'[q] = st[q]
    BY <1>3 DEF Crash
  <2>3. \A q \in Req : q \in dead' \ dead => st'[q] = "done"
    BY <2>1, <2>2
  <2>4. Sleepers'
    <3>1. dead' \subseteq Req
      BY <1>0, <2>1 DEF TypeOK
    <3>2. \A q \in dead' : st'[q] = "done"
      BY <1>0, <2>2, <2>3, <3>1 DEF Sleepers
    <3> QED BY <1>0, <2>1, <2>2, <3>2 DEF Sleepers, Inside, Awake
  <2>5. \A q \in Req : /\ Holding(q)' => Holding(q) /\ st'[q] = st[q]
                       /\ Past(q) => Past(q)'
                       /\ st'[q] = "leave" => st[q] = "leave"
                       /\ st'[q] = "done" => st[q] = "done" \/ q \in dead'
    BY <2>1, <2>2 DEF Holding, Past
  <2>6. Written'
    BY <1>0, <2>1, <2>2, <2>5 DEF Written
  <2>7. Verdicts'
    BY <1>0, <2>1, <2>5 DEF Verdicts
  <2> QED BY <2>4, <2>6, <2>7
<1>4. CASE Pass
  <2>1. UNCHANGED <<home, st, judged, asleep, slept, dead, failed>>
    BY <1>4 DEF Pass
  <2>2. file'.by = file.by /\ file'.full = file.full
    BY <1>0, <1>4 DEF Pass, TypeOK, File
  <2>3. \A q \in Req : file.by = q /\ Holding(q) => q \in slept
    BY <1>0, <1>4 DEF Pass, Tended, Sleepers, Holding, Inside
  <2>4. Written'
    BY <1>0, <2>1, <2>2, <2>3 DEF Written, Past, Holding
  <2> QED BY <1>0, <2>1, <2>4 DEF Sleepers, Inside, Awake, Verdicts, Past, Holding
<1>5. CASE UNCHANGED vars
  BY <1>0, <1>5 DEF vars, Sleepers, Inside, Awake, Written, Verdicts, Past, Holding
<1> QED BY <1>1, <1>2, <1>3, <1>4, <1>5

-----------------------------------------------------------------------------
(* The invariant, and what follows from it.                                 *)

LEMMA InitInv == Init => IInv
<1> SUFFICES ASSUME Init PROVE IInv
  OBVIOUS
<1>1. TypeOK
  BY LockAssumption DEF Init, TypeOK, Step, NoFile, File, Age
<1>2. \A q \in Req : st[q] = "new"
  BY DEF Init
<1>3. Chain /\ Sleepers
  BY <1>2 DEF Init, Chain, Waiting, Inside, Sleepers
<1>4. Written /\ Verdicts
  BY ReqFacts DEF Init, NoFile, Written, Verdicts
<1> QED BY <1>1, <1>3, <1>4 DEF IInv

LEMMA NextInv == IInv /\ [Next]_vars => IInv'
<1> SUFFICES ASSUME IInv, [Next]_vars PROVE IInv'
  OBVIOUS
<1>1. TypeOK /\ Chain
  BY DEF IInv
<1>2. ASSUME NEW q \in Req, Act(q) PROVE IInv'
  BY <1>1, <1>2, ActChain, ActFile DEF IInv
<1>3. CASE (\E p \in Proc : Suspend(p) \/ Resume(p) \/ Crash(p)) \/ Pass \/ UNCHANGED vars
  BY <1>1, <1>3, OtherChain, OtherFile DEF IInv
<1> QED BY <1>2, <1>3 DEF Next

LEMMA Inductive == Spec => []IInv
<1> QED BY InitInv, NextInv, PTL DEF Spec

(* Every variable keeps its type.                                           *)
THEOREM TypeCorrect == Spec => []TypeOK
<1>1. IInv => TypeOK
  BY DEF IInv
<1> QED BY <1>1, Inductive, PTL

(* withLock, the promise chain: the requests of one process run under the   *)
(* lock one at a time, whatever times out, crashes or happens to the file.  *)
THEOREM AlwaysOneAtATime == Spec => []OneAtATime
<1>1. IInv => OneAtATime
  BY DEF IInv, Chain, OneAtATime, Mine
<1> QED BY <1>1, Inductive, PTL

(* acquireFileLock and its release: a file that outlives its request was    *)
(* left by a crash or by a failed write or removal.                         *)
THEOREM NothingEverLeaks == Spec => []NothingLeaks
<1>1. IInv => NothingLeaks
  BY DEF IInv, TypeOK, File, Written, NothingLeaks
<1> QED BY <1>1, Inductive, PTL

(* isStale: a live file is judged stale only when its writer was suspended. *)
LEMMA WhoIsJudged ==
  ASSUME IInv, Next, NEW q \in Req, judged'[q] # judged[q]
  PROVE  judged'[q] \in {NoReq} \cup slept \cup dead \cup failed
<1>0. TypeOK /\ Sleepers /\ Written
  BY DEF IInv
<1>1. PICK r \in Req : JudgeStale(r)
  BY DEF Next, Act, Work, Ask, TimeOut, Enter, PassOn, Create, Write, Retry, Remove, Finish,
     ReadToken, Unlink, Leave, FailWrite, GiveUp, FailUnlink, Beat, Suspend, Resume, Crash, Pass
<1>2. judged'[q] = file.by
  BY <1>0, <1>1 DEF JudgeStale, TypeOK
<1>3. file.by \in Req \cup {NoReq}
  BY <1>0 DEF TypeOK, File
<1>4. ASSUME file.by \in Req, Holding(file.by) PROVE file.by \in slept
  <2>1. Stale \/ (file.full /\ file.by \in dead)
    BY <1>1 DEF JudgeStale
  <2>2. file.by \notin dead
    BY <1>0, <1>4 DEF Sleepers, Holding
  <2>3. file.age # "fresh"
    BY <1>4, <2>1, <2>2, ReqFacts DEF Stale
  <2> QED BY <1>0, <1>4, <2>3 DEF Written
<1>5. ASSUME file.by \in Req, ~Holding(file.by) PROVE file.by \in dead \cup failed
  BY <1>0, <1>5 DEF Written, Past
<1> QED BY <1>2, <1>3, <1>4, <1>5

THEOREM VerdictsAreSound == Spec => VerdictIsSound
<1>1. IInv /\ [Next]_vars =>
        [\A q \in Req :
           judged'[q] # judged[q] =>
             judged'[q] \in {NoReq} \cup slept \cup dead \cup failed]_vars
  BY WhoIsJudged
<1> QED BY <1>1, Inductive, PTL DEF Spec, VerdictIsSound

(* isStale and the heartbeat: who loses the file while it holds it has been *)
(* suspended, or the remover had looked at another file before.             *)
LEMMA WhoTakes ==
  ASSUME IInv, Next, NEW q \in Req, Holding(q), file.by = q, file'.by # q, ~Unlink(q)
  PROVE  \/ q \in slept
         \/ \E r \in Req \ {q} : \/ st[r] = "remove" /\ judged[r] # q
                                 \/ st[r] = "unlink"
<1>0. TypeOK /\ Verdicts
  BY DEF IInv
<1>1. ASSUME NEW p \in Proc, Suspend(p) \/ Resume(p) \/ Crash(p) PROVE FALSE
  BY <1>1 DEF Suspend, Resume, Crash
<1>2. CASE Pass
  BY <1>0, <1>2 DEF Pass, TypeOK, File
<1>3. ASSUME NEW r \in Req, Act(r)
      PROVE  Remove(r) \/ Unlink(r)
  <2>1. file.by # NoReq
    BY ReqFacts
  <2>2. CASE Write(r)
    BY <1>0, <2>2 DEF Write, TypeOK, File
  <2>3. CASE Beat(r)
    BY <1>0, <2>3 DEF Beat, TypeOK, File
  <2>4. CASE Create(r)
    BY <2>1, <2>4 DEF Create
  <2> QED BY <1>3, <2>2, <2>3, <2>4 DEF Act, Work, Ask, TimeOut, Enter, PassOn, JudgeStale,
           Retry, Finish, ReadToken, Leave, FailWrite, GiveUp, FailUnlink
<1>4. ASSUME NEW r \in Req, Remove(r)
      PROVE  q \in slept \/ (r # q /\ st[r] = "remove" /\ judged[r] # q)
  BY <1>0, <1>4 DEF Remove, Holding, Verdicts
<1>5. ASSUME NEW r \in Req, Unlink(r)
      PROVE  r # q /\ st[r] = "unlink"
  BY <1>5 DEF Unlink
<1> QED BY <1>1, <1>2, <1>3, <1>4, <1>5 DEF Next

THEOREM AlwaysTakenOnlyByRace == Spec => TakenOnlyByRace
<1>1. IInv /\ [Next]_vars =>
        [\A q \in Req :
           Holding(q) /\ file.by = q /\ file'.by # q /\ ~Unlink(q) =>
             \/ q \in slept
             \/ \E r \in Req \ {q} :
                  \/ st[r] = "remove" /\ judged[r] # q
                  \/ st[r] = "unlink"]_vars
  BY WhoTakes
<1> QED BY <1>1, Inductive, PTL DEF Spec, TakenOnlyByRace

-----------------------------------------------------------------------------
(* At most one mutation at a time.  It does not hold in general (Exclusive  *)
(* has a counterexample without any trouble), but it does in two cases.     *)

Running == {q \in Req : st[q] = "run"}
Ideal == INSTANCE Exclusion WITH running <- Running

(* The state directory belongs to one process.                              *)
Alone == \A p, r \in Proc : p = r

(* No holder has been suspended, and who removes a file it judged stale     *)
(* finds that file, or none: nobody was between the look and the removal.   *)
NoRace ==
  /\ \A q \in slept : ~Holding(q)
  /\ \A q \in Req : st[q] = "remove" => file.by \in {judged[q], NoReq}

(* As long as there is no such race, the file is the holder's, from its     *)
(* creation until its removal.                                              *)
Owned == \A q \in Req : Holding(q) => file.by = q

LEMMA OwnedExcludes == Owned => Exclusive
BY DEF Owned, Exclusive, Holding

LEMMA NextOwned ==
  ASSUME IInv, NoRace, Owned, [Next]_vars
  PROVE  Owned'
<1>0. TypeOK /\ Verdicts
  BY DEF IInv
<1>1. ASSUME UNCHANGED file, \A q \in Req : Holding(q)' => Holding(q)
      PROVE  Owned'
  BY <1>1 DEF Owned
<1>2. ASSUME NEW q \in Req, NEW s \in Step, Go(q, s), UNCHANGED file,
             Holding(q) \/ s \notin {"write", "run", "release", "unlink"}
      PROVE  Owned'
  <2>1. st'[q] = s /\ \A r \in Req \ {q} : st'[r] = st[r]
    BY <1>0, <1>2, GoSt
  <2> QED BY <1>1, <1>2, <2>1 DEF Holding
<1>3. ASSUME NEW q \in Req, Create(q) PROVE Owned'
  <2>1. CASE file.by = NoReq
    <3>1. \A r \in Req : ~Holding(r)
      BY <2>1, ReqFacts DEF Owned
    <3>2. file'.by = q /\ \A r \in Req \ {q} : st'[r] = st[r]
      BY <1>0, <1>3, <2>1, GoSt DEF Create, Step
    <3> QED BY <3>1, <3>2 DEF Owned, Holding
  <2>2. CASE file.by # NoReq
    BY <1>2, <1>3, <2>2 DEF Create, Step
  <2> QED BY <2>1, <2>2
<1>4. ASSUME NEW q \in Req, Write(q) PROVE Owned'
  <2>1. file'.by = file.by
    BY <1>0, <1>4 DEF Write, TypeOK, File
  <2>2. \A r \in Req : Holding(r)' => Holding(r)
    BY <1>0, <1>4, GoSt DEF Write, Step, Holding
  <2> QED BY <2>1, <2>2 DEF Owned
\* a verdict is on nobody who holds, and the file is the one judged
<1>5. ASSUME NEW q \in Req, Remove(q) PROVE Owned'
  <2>1. st[q] = "remove" /\ st'[q] = "create" /\ \A r \in Req \ {q} : st'[r] = st[r]
    BY <1>0, <1>5, GoSt DEF Remove, Step
  <2>2. ASSUME NEW r \in Req, Holding(r) PROVE FALSE
    <3>1. file.by = r /\ file.by \in {judged[q], NoReq}
      BY <2>1, <2>2 DEF Owned, NoRace
    <3>2. judged[q] = r
      BY <3>1, ReqFacts
    <3> QED BY <1>0, <2>2, <3>2 DEF Verdicts, NoRace
  <2> QED BY <2>1, <2>2 DEF Owned, Holding
<1>6. ASSUME NEW q \in Req, Unlink(q) PROVE Owned'
  <2>1. st[q] = "unlink" /\ st'[q] = "leave" /\ \A r \in Req \ {q} : st'[r] = st[r]
    BY <1>0, <1>6, GoSt DEF Unlink, Step
  <2>2. \A r \in Req \ {q} : ~Holding(r)
    BY <2>1 DEF Owned, Holding
  <2> QED BY <2>1, <2>2 DEF Owned, Holding
<1>7. ASSUME NEW q \in Req, Beat(q) PROVE Owned'
  BY <1>0, <1>7 DEF Beat, TypeOK, File, Owned, Holding
<1>8. ASSUME NEW q \in Req,
             \/ Ask(q) \/ TimeOut(q) \/ Enter(q) \/ PassOn(q) \/ JudgeStale(q) \/ Retry(q)
             \/ Finish(q) \/ ReadToken(q) \/ Leave(q) \/ FailWrite(q) \/ GiveUp(q)
             \/ FailUnlink(q)
      PROVE  Owned'
  <2>1. CASE Finish(q) \/ ReadToken(q)
    <3>1. \E s \in {"release", "unlink", "leave"} : Go(q, s)
      BY <2>1 DEF Finish, ReadToken
    <3>2. {"release", "unlink", "leave"} \subseteq Step /\ Holding(q) /\ UNCHANGED file
      BY <2>1 DEF Finish, ReadToken, Step, Holding
    <3> QED BY <1>2, <3>1, <3>2
  <2>2. CASE ~(Finish(q) \/ ReadToken(q))
    <3>1. \E s \in {"queued", "create", "done", "left", "remove", "leave"} : Go(q, s)
      BY <1>8, <2>2 DEF Ask, TimeOut, Enter, PassOn, JudgeStale, Retry, Leave, FailWrite,
         GiveUp, FailUnlink
    <3>2. UNCHANGED file
      BY <1>8, <2>2 DEF Ask, TimeOut, Enter, PassOn, JudgeStale, Retry, Leave, FailWrite,
         GiveUp, FailUnlink
    <3>3. PICK s \in {"queued", "create", "done", "left", "remove", "leave"} : Go(q, s)
      BY <3>1
    <3>4. s \in Step /\ s \notin {"write", "run", "release", "unlink"}
      BY DEF Step
    <3> QED BY <1>2, <3>2, <3>3, <3>4
  <2> QED BY <2>1, <2>2
<1>9. ASSUME NEW p \in Proc, Suspend(p) \/ Resume(p) \/ Crash(p) PROVE Owned'
  <2>1. UNCHANGED file
    BY <1>9 DEF Suspend, Resume, Crash
  <2>2. \A q \in Req : Holding(q)' => Holding(q)
    BY <1>9 DEF Suspend, Resume, Crash, Holding
  <2> QED BY <1>1, <2>1, <2>2
<1>10. CASE Pass
  BY <1>0, <1>10 DEF Pass, TypeOK, File, Owned, Holding
<1>11. CASE UNCHANGED vars
  BY <1>1, <1>11 DEF vars, Holding
<1> QED BY <1>3, <1>4, <1>5, <1>6, <1>7, <1>8, <1>9, <1>10, <1>11 DEF Next, Act, Work

LEMMA AlwaysOwned == Spec /\ []NoRace => []Owned
<1>1. Init => Owned
  BY DEF Init, Owned, Holding
<1>2. IInv /\ NoRace /\ Owned /\ [Next]_vars => Owned'
  BY NextOwned
<1> QED BY <1>1, <1>2, Inductive, PTL DEF Spec

(* withLock among any number of processes: mutations exclude each other as  *)
(* long as nobody falls into the gap between looking at the lock file and   *)
(* removing it, and no holder is suspended, whatever crashes or fails.      *)
THEOREM ExclusiveIfNoRace == Spec /\ []NoRace => []Exclusive
<1> QED BY AlwaysOwned, OwnedExcludes, PTL

(* withLock in one process: mutations exclude each other whatever happens   *)
(* to the file, to the process and to those who wait.                       *)
THEOREM ExclusiveInOneProcess ==
  ASSUME Alone
  PROVE  Spec => []Exclusive
<1>1. IInv => Exclusive
  <2> SUFFICES ASSUME IInv PROVE Exclusive
    OBVIOUS
  <2>1. \A q, r \in Req : home[q] = home[r]
    BY DEF IInv, TypeOK, Alone
  <2>2. \A q, r \in Req : Inside(q) /\ Inside(r) => q = r
    BY <2>1 DEF IInv, Chain, Mine
  <2> QED BY <2>2 DEF Exclusive, Inside
<1> QED BY <1>1, Inductive, PTL

(* Where mutations exclude each other, each step of the lock begins one, or *)
(* ends one, or is no step of the ideal lock at all.                        *)
LEMMA IdealStep ==
  ASSUME TypeOK, Exclusive, Exclusive', [Next]_vars
  PROVE  [Ideal!Next]_Running
<1>1. ASSUME NEW q \in Req, NEW s \in Step, Go(q, s)
      PROVE  /\ s = "run" => Running' = Running \cup {q}
             /\ s # "run" => Running' = Running \ {q}
  BY <1>1, GoSt DEF Running
<1>2. ASSUME NEW q \in Req, Write(q) PROVE Ideal!Begin(q)
  <2>1. st[q] = "write" /\ Running' = Running \cup {q}
    BY <1>1, <1>2 DEF Write, Step
  <2>2. q \notin Running /\ q \in Running'
    BY <2>1 DEF Running
  <2>3. \A r \in Running : r = q
    BY <2>1, <2>2 DEF Exclusive, Running
  <2> QED BY <2>1, <2>2, <2>3 DEF Ideal!Begin
<1>3. ASSUME Running' \subseteq Running PROVE Running' = Running \/ Ideal!End
  <2>1. ASSUME NEW q \in Running, q \notin Running' PROVE Running = {q}
    BY <2>1 DEF Exclusive, Running
  <2> QED BY <1>3, <2>1 DEF Ideal!End
<1>4. ASSUME NEW q \in Req, Act(q), ~Write(q) PROVE Running' \subseteq Running
  <2>1. CASE Beat(q)
    BY <2>1 DEF Beat, Running
  <2>2. CASE ~Beat(q)
    <3>1. \E s \in Step \ {"run"} : Go(q, s)
      BY <1>4, <2>2 DEF Act, Work, Ask, TimeOut, Enter, PassOn, Create, JudgeStale, Retry,
         Remove, Finish, ReadToken, Unlink, Leave, FailWrite, GiveUp, FailUnlink, Step
    <3> QED BY <1>1, <3>1
  <2> QED BY <2>1, <2>2
<1>5. ASSUME NEW p \in Proc, Suspend(p) \/ Resume(p) \/ Crash(p)
      PROVE  Running' \subseteq Running
  BY <1>5 DEF Suspend, Resume, Crash, Running
<1>6. ASSUME Pass \/ UNCHANGED vars PROVE Running' = Running
  BY <1>6 DEF Pass, vars, Running
<1> QED BY <1>2, <1>3, <1>4, <1>5, <1>6 DEF Next, Ideal!Next

LEMMA IdealInit == Init => Ideal!Init
BY DEF Init, Ideal!Init, Running

(* The protocol of the lock file implements the lock that the engine is     *)
(* written against, with several processes as long as there is no race ...  *)
THEOREM IdealIfNoRace == Spec /\ []NoRace => Ideal!Spec
<1>1. TypeOK /\ Exclusive /\ Exclusive' /\ [Next]_vars => [Ideal!Next]_Running
  BY IdealStep
<1> QED BY IdealInit, <1>1, TypeCorrect, ExclusiveIfNoRace, PTL DEF Spec, Ideal!Spec

(* ... and with one process without condition.                              *)
THEOREM IdealInOneProcess ==
  ASSUME Alone
  PROVE  Spec => Ideal!Spec
<1>1. TypeOK /\ Exclusive /\ Exclusive' /\ [Next]_vars => [Ideal!Next]_Running
  BY IdealStep
<1> QED BY IdealInit, <1>1, TypeCorrect, ExclusiveInOneProcess, PTL DEF Spec, Ideal!Spec

=============================================================================
