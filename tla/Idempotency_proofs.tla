--------------------------- MODULE Idempotency_proofs ---------------------------
(***************************************************************************)
(* Proofs about Idempotency, for any processes, fingerprints and bounds.    *)
(***************************************************************************)
EXTENDS Idempotency, FiniteSetTheorems, TLAPS

(* Nothing is answered before it is done, and only a handler that has ended *)
(* has an outcome to store.                                                 *)
Order ==
  \A q \in Req : /\ st[q] # "done" => answer[q].kind = "none"
                 /\ q \in final => st[q] \in {"save", "done", "lost"}

(* What a process has in flight or in memory arrived there.                 *)
Places ==
  \A p \in Proc : /\ inflight[p] # None => home[inflight[p]] = p
                  /\ memory[p] # None => home[memory[p]] = p

(* Who waits has joined the same request, in the same process.              *)
Joins ==
  \A q \in Req : st[q] = "wait" =>
    joined[q] \in Req /\ print[joined[q]] = print[q] /\ home[joined[q]] = home[q]

(* An answer names the request it comes from, and fits.                     *)
Fits ==
  \A q \in Req : answer[q].kind # "none" =>
    /\ answer[q].from \in Req
    /\ answer[q].kind \in {"own", "replay", "secret"} => print[answer[q].from] = print[q]
    /\ answer[q].kind = "mismatch" => print[answer[q].from] # print[q]

(* While no record has expired and prune could read them all, a final       *)
(* answer that was given is on disk, and who came after it does not run,    *)
(* unless it could not read that record.                                    *)
Sighted == expired = {} /\ None \notin blind
Ahead   == {"missed", "run", "save"}
Disk ==
  /\ crashes = 0 => blind = {}
  /\ Sighted =>
       /\ \A p \in Proc : pruning[p] = None
       /\ \A q \in final : answer[q].kind = "own" => file # None
       /\ \A q \in late :
            /\ file # None
            /\ q \in blind \/ (st[q] \notin Ahead /\ answer[q].kind # "own")

IInv == TypeOK /\ Order /\ Places /\ Joins /\ Fits /\ Disk

-----------------------------------------------------------------------------
(* The steps of a request.                                                  *)

LEMMA ReqFacts == None \notin Req
BY IdempotencyAssumption DEF Req, None

LEMMA GoSt ==
  ASSUME TypeOK, NEW q \in Req, NEW s \in Step, Go(q, s)
  PROVE  st' \in [Req -> Step] /\ st'[q] = s /\ \A r \in Req \ {q} : st'[r] = st[r]
BY DEF Go, TypeOK

LEMMA TellAnswer ==
  ASSUME TypeOK, NEW q \in Req, NEW kind \in Kind, NEW r \in Req, Tell(q, kind, r)
  PROVE  /\ answer' \in [Req -> Answer]
         /\ answer'[q].kind = kind /\ answer'[q].from = r
         /\ st' \in [Req -> Step] /\ st'[q] = "done"
         /\ \A t \in Req \ {q} : st'[t] = st[t] /\ answer'[t] = answer[t]
<1>1. st' \in [Req -> Step] /\ st'[q] = "done" /\ \A t \in Req \ {q} : st'[t] = st[t]
  BY GoSt DEF Tell, Step
<1>2. answer' = [answer EXCEPT ![q] = [kind |-> kind, from |-> r]]
  BY DEF Tell
<1>3. [kind |-> kind, from |-> r] \in Answer
  BY DEF Answer
<1> QED BY <1>1, <1>2, <1>3 DEF TypeOK

(* A request that is told, of a response that fits, as a replay, a mismatch *)
(* or a secret.                                                             *)
LEMMA TellInv ==
  ASSUME IInv, NEW q \in Req, NEW kind \in {"replay", "mismatch", "secret"}, NEW r \in Req,
         Tell(q, kind, r), st[q] \notin {"done", "save", "lost"},
         kind \in {"replay", "secret"} => print[r] = print[q],
         kind = "mismatch" => print[r] # print[q],
         UNCHANGED <<home, print, joined, store, final, expired, crashes, blind>>,
         late' \in {late, late \cup {q}},
         Sighted /\ q \in late' => file # None
  PROVE  IInv'
<1>0. TypeOK /\ Order /\ Places /\ Joins /\ Fits /\ Disk
  BY DEF IInv
<1>1. /\ answer' \in [Req -> Answer]
      /\ answer'[q].kind = kind /\ answer'[q].from = r
      /\ st' \in [Req -> Step] /\ st'[q] = "done"
      /\ \A t \in Req \ {q} : st'[t] = st[t] /\ answer'[t] = answer[t]
  BY <1>0, TellAnswer DEF Kind
<1>2. TypeOK'
  BY <1>0, <1>1 DEF TypeOK, store
<1>3. Order' /\ Places' /\ Joins'
  BY <1>0, <1>1 DEF Order, Places, Joins, store
<1>4. Fits'
  BY <1>0, <1>1 DEF Fits
<1>5. Disk'
  <2>1. final \subseteq Req /\ late \subseteq Req /\ "done" \notin Ahead
    BY <1>0 DEF TypeOK, Ahead
  <2> QED BY <1>0, <1>1, <2>1 DEF Disk, Sighted, store
<1> QED BY <1>2, <1>3, <1>4, <1>5 DEF IInv

LEMMA ArriveInv ==
  ASSUME IInv, NEW q \in Req, Arrive(q)
  PROVE  IInv'
<1>0. TypeOK /\ Order /\ Places /\ Joins /\ Fits /\ Disk
  BY DEF IInv
<1> DEFINE p == home[q]
<1>1. p \in Proc /\ st[q] = "new" /\ inflight[p] \in Req \cup {None}
      /\ memory[p] \in Req \cup {None}
  BY <1>0 DEF Arrive, TypeOK
<1>2. /\ UNCHANGED <<home, print, store, final, expired, crashes, blind>>
      /\ late' = IF \E r \in final : answer[r].kind = "own" THEN late \cup {q} ELSE late
  BY DEF Arrive
<1>3. late' \in {late, late \cup {q}} /\ late' \subseteq Req
  BY <1>0, <1>2 DEF TypeOK
<1>4. Sighted /\ q \in late' => file # None
  BY <1>0, <1>2 DEF Disk
<1>5. CASE inflight[p] # None /\ print[inflight[p]] # print[q]
           /\ Tell(q, "mismatch", inflight[p]) /\ UNCHANGED joined
  BY <1>1, <1>2, <1>3, <1>4, <1>5, TellInv
<1>6. CASE inflight[p] # None /\ print[inflight[p]] = print[q]
           /\ Tell(q, "replay", inflight[p]) /\ UNCHANGED joined
  <2>1. home[inflight[p]] = home[q]
    BY <1>0, <1>1, <1>6 DEF Places
  <2> QED BY <1>1, <1>2, <1>3, <1>4, <1>6, <2>1, TellInv
<1>7. CASE Kept(memory[p]) /\ Replay(q, memory[p]) /\ UNCHANGED joined
  <2>1. memory[p] \in Req /\ home[memory[p]] = home[q]
    BY <1>0, <1>1, <1>7 DEF Kept, Places
  <2>2. CASE print[memory[p]] = print[q]
    <3>1. Tell(q, "replay", memory[p])
      BY <1>7, <2>2 DEF Replay
    <3> QED BY <1>1, <1>2, <1>3, <1>4, <1>7, <2>1, <2>2, <3>1, TellInv
  <2>3. CASE print[memory[p]] # print[q]
    <3>1. Tell(q, "mismatch", memory[p])
      BY <1>7, <2>3 DEF Replay
    <3> QED BY <1>1, <1>2, <1>3, <1>4, <1>7, <2>1, <2>3, <3>1, TellInv
  <2> QED BY <2>2, <2>3
<1>8. ASSUME NEW s \in {"wait", "load"}, Go(q, s), answer' = answer,
             joined' \in [Req -> Req \cup {None}],
             \A t \in Req \ {q} : joined'[t] = joined[t],
             s = "wait" => /\ joined'[q] \in Req
                           /\ print[joined'[q]] = print[q] /\ home[joined'[q]] = home[q]
      PROVE  IInv'
  <2>1. st' \in [Req -> Step] /\ st'[q] = s /\ \A t \in Req \ {q} : st'[t] = st[t]
    BY <1>0, <1>8, GoSt DEF Step
  <2>2. TypeOK'
    BY <1>0, <1>2, <1>3, <1>8, <2>1 DEF TypeOK, store
  <2>3. Order' /\ Places'
    BY <1>0, <1>1, <1>2, <1>8, <2>1 DEF Order, Places, store
  <2>4. Joins'
    BY <1>0, <1>2, <1>8, <2>1 DEF Joins
  <2>5. Fits'
    BY <1>0, <1>2, <1>8 DEF Fits
  <2>6. answer[q].kind = "none"
    BY <1>0, <1>1 DEF Order
  <2>7. Disk'
    <3>1. final \subseteq Req /\ late \subseteq Req /\ s \notin Ahead
      BY <1>0, <1>8 DEF TypeOK, Ahead
    <3> QED BY <1>0, <1>2, <1>3, <1>4, <1>8, <2>1, <2>6, <3>1 DEF Disk, Sighted, store
  <2> QED BY <2>2, <2>3, <2>4, <2>5, <2>7 DEF IInv
<1>9. CASE inflight[p] # None /\ print[inflight[p]] = print[q] /\ Go(q, "wait")
           /\ joined' = [joined EXCEPT ![q] = inflight[p]] /\ UNCHANGED answer
  <2>1. home[inflight[p]] = home[q]
    BY <1>0, <1>1, <1>9 DEF Places
  <2>2. /\ joined' \in [Req -> Req \cup {None}] /\ joined'[q] = inflight[p]
        /\ \A t \in Req \ {q} : joined'[t] = joined[t]
    BY <1>0, <1>1, <1>9 DEF TypeOK
  <2> QED BY <1>1, <1>8, <1>9, <2>1, <2>2
<1>10. CASE Go(q, "load") /\ UNCHANGED <<joined, answer>>
  BY <1>0, <1>8, <1>10 DEF TypeOK
<1> QED BY <1>5, <1>6, <1>7, <1>9, <1>10 DEF Arrive

LEMMA LoadInv ==
  ASSUME IInv, NEW q \in Req, Load(q) \/ LoadFails(q)
  PROVE  IInv'
<1>0. TypeOK /\ Order /\ Places /\ Joins /\ Fits /\ Disk
  BY DEF IInv
<1>1. /\ st[q] = "load" /\ file \in Req \cup {None}
      /\ UNCHANGED <<home, print, joined, store, final, expired, late>>
  BY <1>0 DEF Load, LoadFails, TypeOK
<1>2. ASSUME UNCHANGED <<crashes, blind>>, file \in Req,
             NEW kind \in {"replay", "mismatch", "secret"}, Tell(q, kind, file),
             kind \in {"replay", "secret"} => print[file] = print[q],
             kind = "mismatch" => print[file] # print[q]
      PROVE  IInv'
  BY <1>0, <1>1, <1>2, ReqFacts, TellInv
<1>3. CASE Load(q) /\ Kept(file)
  <2>1. /\ UNCHANGED <<crashes, blind>> /\ file \in Req
        /\ IF print[file] = print[q] /\ print[q] \in Sensitive
             THEN Tell(q, "secret", file) ELSE Replay(q, file)
    BY <1>1, <1>3 DEF Load, Kept
  <2> QED BY <1>2, <2>1 DEF Replay
<1>4. ASSUME Go(q, "missed"), UNCHANGED answer, crashes' \in 0..MaxCrash,
             blind' \subseteq Req \cup {None}, blind \subseteq blind',
             None \in blind' => None \in blind,
             crashes' = 0 => blind' = {},
             Sighted => q \in blind' \/ q \notin late
      PROVE  IInv'
  <2>1. st' \in [Req -> Step] /\ st'[q] = "missed" /\ \A t \in Req \ {q} : st'[t] = st[t]
    BY <1>0, <1>4, GoSt DEF Step
  <2>2. TypeOK'
    BY <1>0, <1>1, <1>4, <2>1 DEF TypeOK, store
  <2>3. Order' /\ Joins' /\ Fits' /\ Places'
    BY <1>0, <1>1, <1>4, <2>1 DEF Order, Joins, Fits, Places, store
  <2>4. Disk'
    <3>1. final \subseteq Req /\ late \subseteq Req
      BY <1>0 DEF TypeOK
    <3> QED BY <1>0, <1>1, <1>4, <2>1, <3>1 DEF Disk, Sighted, store
  <2> QED BY <2>2, <2>3, <2>4 DEF IInv
<1>5. CASE Load(q) /\ ~Kept(file)
  <2>1. Go(q, "missed") /\ UNCHANGED <<answer, crashes, blind>>
    BY <1>5 DEF Load
  <2>2. Sighted => q \notin late
    BY <1>0, <1>5 DEF Disk, Sighted, Kept
  <2> QED BY <1>0, <1>4, <2>1, <2>2 DEF TypeOK, Disk
<1>6. CASE LoadFails(q)
  <2>1. /\ Go(q, "missed") /\ UNCHANGED answer /\ blind' = blind \cup {q}
        /\ crashes < MaxCrash /\ crashes' = crashes + 1
    BY <1>6 DEF LoadFails
  <2>2. crashes' \in 0..MaxCrash /\ crashes' # 0
    BY <1>0, <2>1, IdempotencyAssumption DEF TypeOK
  <2>3. blind' \subseteq Req \cup {None} /\ (None \in blind' => None \in blind)
    BY <1>0, <2>1, ReqFacts DEF TypeOK
  <2> QED BY <1>4, <2>1, <2>2, <2>3
<1> QED BY <1>3, <1>5, <1>6

LEMMA RegisterInv ==
  ASSUME IInv, NEW q \in Req, Register(q)
  PROVE  IInv'
<1>0. TypeOK /\ Order /\ Places /\ Joins /\ Fits /\ Disk
  BY DEF IInv
<1>1. /\ st[q] = "missed" /\ home[q] \in Proc
      /\ inflight' = [inflight EXCEPT ![home[q]] = q] /\ Go(q, "run")
      /\ UNCHANGED <<home, print, joined, answer, memory, file, final, expired,
                     pruning, crashes, late, blind>>
  BY <1>0 DEF Register, TypeOK
<1>2. st' \in [Req -> Step] /\ st'[q] = "run" /\ \A t \in Req \ {q} : st'[t] = st[t]
  BY <1>0, <1>1, GoSt DEF Step
<1>3. inflight' \in [Proc -> Req \cup {None}]
  BY <1>0, <1>1 DEF TypeOK
<1>4. TypeOK'
  BY <1>0, <1>1, <1>2, <1>3 DEF TypeOK
<1>5. Order' /\ Joins' /\ Fits'
  BY <1>0, <1>1, <1>2 DEF Order, Joins, Fits
<1>6. Places'
  BY <1>0, <1>1 DEF Places, TypeOK
<1>7. Disk'
  <2>1. final \subseteq Req /\ late \subseteq Req /\ "missed" \in Ahead
    BY <1>0 DEF TypeOK, Ahead
  <2> QED BY <1>0, <1>1, <1>2, <2>1 DEF Disk, Sighted
<1> QED BY <1>4, <1>5, <1>6, <1>7 DEF IInv

-----------------------------------------------------------------------------
(* The end of a handler.                                                    *)

(* What Deliver gives whom.                                                 *)
LEMMA Delivered ==
  ASSUME IInv, NEW q \in Req
  PROVE  /\ Deliver(q) \in [Req -> Answer]
         /\ Deliver(q)[q].kind = "own" /\ Deliver(q)[q].from = q
         /\ \A r \in Req \ {q} :
              IF joined[r] = q /\ st[r] = "wait"
                THEN Deliver(q)[r].kind = "replay" /\ Deliver(q)[r].from = q
                ELSE Deliver(q)[r] = answer[r]
<1>1. \A k \in Kind, f \in Req : [kind |-> k, from |-> f] \in Answer
  BY DEF Answer
<1>2. [kind |-> "own", from |-> q] \in Answer /\ [kind |-> "replay", from |-> q] \in Answer
  BY <1>1 DEF Kind
<1> QED BY <1>2 DEF Deliver, IInv, TypeOK

LEMMA EndTransientInv ==
  ASSUME IInv, NEW q \in Req, EndTransient(q)
  PROVE  IInv'
<1>0. TypeOK /\ Order /\ Places /\ Joins /\ Fits /\ Disk
  BY DEF IInv
<1>1. /\ st[q] = "run" /\ answer' = Deliver(q)
      /\ st' = [r \in Req |-> IF r = q \/ r \in Told(q) THEN "done" ELSE st[r]]
      /\ inflight' = [inflight EXCEPT ![home[q]] = None]
      /\ UNCHANGED <<home, print, joined, memory, file, final, expired, pruning,
                     crashes, late, blind>>
  BY DEF EndTransient
<1>2. /\ answer' \in [Req -> Answer]
      /\ answer'[q].kind = "own" /\ answer'[q].from = q
      /\ \A r \in Req \ {q} :
           IF joined[r] = q /\ st[r] = "wait"
             THEN answer'[r].kind = "replay" /\ answer'[r].from = q
             ELSE answer'[r] = answer[r]
  BY <1>1, Delivered
<1>3. /\ st' \in [Req -> Step] /\ st'[q] = "done"
      /\ \A r \in Req \ {q} :
           st'[r] = IF joined[r] = q /\ st[r] = "wait" THEN "done" ELSE st[r]
  BY <1>0, <1>1, <1>2 DEF Told, Step, TypeOK
<1>4. TypeOK'
  BY <1>0, <1>1, <1>2, <1>3 DEF TypeOK
<1>5. Order'
  BY <1>0, <1>1, <1>2, <1>3 DEF Order
<1>6. Places'
  BY <1>0, <1>1 DEF Places, TypeOK
<1>7. Joins'
  BY <1>0, <1>1, <1>3 DEF Joins
<1>8. Fits'
  <2>1. \A r \in Req \ {q} : joined[r] = q /\ st[r] = "wait" =>
          print[q] = print[r] /\ home[q] = home[r]
    BY <1>0 DEF Joins
  <2> QED BY <1>0, <1>1, <1>2, <2>1 DEF Fits
<1>9. Disk'
  <2>1. q \notin final
    BY <1>0, <1>1 DEF Order
  <2>2. Sighted => q \notin late \/ q \in blind
    BY <1>0, <1>1 DEF Disk, Ahead
  <2>3. final \subseteq Req /\ late \subseteq Req /\ "done" \notin Ahead
    BY <1>0 DEF TypeOK, Ahead
  <2> QED BY <1>0, <1>1, <1>2, <1>3, <2>1, <2>2, <2>3 DEF Disk, Sighted
<1> QED BY <1>4, <1>5, <1>6, <1>7, <1>8, <1>9 DEF IInv

LEMMA EndFinalInv ==
  ASSUME IInv, NEW q \in Req, EndFinal(q)
  PROVE  IInv'
<1>0. TypeOK /\ Order /\ Places /\ Joins /\ Fits /\ Disk
  BY DEF IInv
<1>1. /\ st[q] = "run" /\ answer' = [Deliver(q) EXCEPT ![q] = answer[q]]
      /\ final' = final \cup {q}
      /\ st' = [r \in Req |-> IF r = q THEN "save"
                              ELSE IF r \in Told(q) THEN "done" ELSE st[r]]
      /\ memory' = IF print[q] \in Sensitive THEN [memory EXCEPT ![home[q]] = q] ELSE memory
      /\ UNCHANGED <<home, print, joined, inflight, file, expired, pruning,
                     crashes, late, blind>>
  BY DEF EndFinal
<1>2. /\ answer' \in [Req -> Answer] /\ answer'[q] = answer[q]
      /\ \A r \in Req \ {q} :
           IF joined[r] = q /\ st[r] = "wait"
             THEN answer'[r].kind = "replay" /\ answer'[r].from = q
             ELSE answer'[r] = answer[r]
  BY <1>0, <1>1, Delivered DEF TypeOK
<1>3. /\ st' \in [Req -> Step] /\ st'[q] = "save"
      /\ \A r \in Req \ {q} :
           st'[r] = IF joined[r] = q /\ st[r] = "wait" THEN "done" ELSE st[r]
  BY <1>0, <1>1, <1>2 DEF Told, Step, TypeOK
<1>4. answer[q].kind = "none"
  BY <1>0, <1>1 DEF Order
<1>5. memory' \in [Proc -> Req \cup {None}] /\ Places'
  <2>1. home[q] \in Proc
    BY <1>0 DEF TypeOK
  <2> QED BY <1>0, <1>1, <2>1 DEF Places, TypeOK
<1>6. TypeOK'
  BY <1>0, <1>1, <1>2, <1>3, <1>5 DEF TypeOK
<1>7. Order'
  BY <1>0, <1>1, <1>2, <1>3, <1>4 DEF Order
<1>8. Joins'
  BY <1>0, <1>1, <1>3 DEF Joins
<1>9. Fits'
  <2>1. \A r \in Req \ {q} : joined[r] = q /\ st[r] = "wait" =>
          print[q] = print[r] /\ home[q] = home[r]
    BY <1>0 DEF Joins
  <2> QED BY <1>0, <1>1, <1>2, <1>4, <2>1 DEF Fits
<1>10. Disk'
  <2>1. Sighted => q \notin late \/ q \in blind
    BY <1>0, <1>1 DEF Disk, Ahead
  <2>2. final \subseteq Req /\ late \subseteq Req /\ "done" \notin Ahead
    BY <1>0 DEF TypeOK, Ahead
  <2> QED BY <1>0, <1>1, <1>2, <1>3, <1>4, <2>1, <2>2 DEF Disk, Sighted
<1> QED BY <1>5, <1>6, <1>7, <1>8, <1>9, <1>10 DEF IInv

LEMMA SaveInv ==
  ASSUME IInv, NEW q \in Req, Save(q) \/ SaveFails(q)
  PROVE  IInv'
<1>0. TypeOK /\ Order /\ Places /\ Joins /\ Fits /\ Disk
  BY DEF IInv
<1>1. /\ st[q] = "save" /\ inflight' = [inflight EXCEPT ![home[q]] = None]
      /\ UNCHANGED <<home, print, joined, memory, final, expired, pruning, late, blind>>
  BY DEF Save, SaveFails
<1>2. Places' /\ inflight' \in [Proc -> Req \cup {None}]
  BY <1>0, <1>1 DEF Places, TypeOK
<1>3. CASE Save(q)
  <2>1. file' = q /\ crashes' = crashes
    BY <1>3 DEF Save
  <2>2. /\ answer' \in [Req -> Answer]
        /\ answer'[q].kind = "own" /\ answer'[q].from = q
        /\ st' \in [Req -> Step] /\ st'[q] = "done"
        /\ \A t \in Req \ {q} : st'[t] = st[t] /\ answer'[t] = answer[t]
    BY <1>0, <1>3, TellAnswer DEF Save, Kind
  <2>3. TypeOK'
    BY <1>0, <1>1, <1>2, <2>1, <2>2 DEF TypeOK
  <2>4. Order' /\ Joins' /\ Fits'
    BY <1>0, <1>1, <2>2 DEF Order, Joins, Fits
  <2>5. Sighted => q \notin late \/ q \in blind
    BY <1>0, <1>1 DEF Disk, Ahead
  <2>6. Disk'
    <3>1. final \subseteq Req /\ late \subseteq Req /\ file' # None
      BY <1>0, <2>1, ReqFacts DEF TypeOK
    <3> QED BY <1>0, <1>1, <2>1, <2>2, <2>5, <3>1 DEF Disk, Sighted
  <2> QED BY <1>2, <2>3, <2>4, <2>6 DEF IInv
<1>4. CASE SaveFails(q)
  <2>1. file' = file /\ answer' = answer /\ crashes' \in 0..MaxCrash /\ crashes' # 0
    BY <1>0, <1>4, IdempotencyAssumption DEF SaveFails, TypeOK
  <2>2. st' \in [Req -> Step] /\ st'[q] = "lost" /\ \A t \in Req \ {q} : st'[t] = st[t]
    BY <1>0, <1>4, GoSt DEF SaveFails, Step
  <2>3. TypeOK'
    BY <1>0, <1>1, <1>2, <2>1, <2>2 DEF TypeOK
  <2>4. Order' /\ Joins' /\ Fits'
    BY <1>0, <1>1, <2>1, <2>2 DEF Order, Joins, Fits
  <2>5. Disk'
    <3>1. final \subseteq Req /\ late \subseteq Req /\ "lost" \notin Ahead
      BY <1>0 DEF TypeOK, Ahead
    <3> QED BY <1>0, <1>1, <2>1, <2>2, <3>1 DEF Disk, Sighted
  <2> QED BY <1>2, <2>3, <2>4, <2>5 DEF IInv
<1> QED BY <1>3, <1>4

-----------------------------------------------------------------------------
(* Time and crashes.                                                        *)

LEMMA OtherInv ==
  ASSUME IInv, \/ \E q \in Req : Expire(q)
               \/ \E p \in Proc : Prune(p) \/ PruneMisreads(p) \/ PruneRemove(p)
                                     \/ Crash(p)
               \/ UNCHANGED vars
  PROVE  IInv'
<1>0. TypeOK /\ Order /\ Places /\ Joins /\ Fits /\ Disk
  BY DEF IInv
<1>1. ASSUME NEW q \in Req, Expire(q) PROVE IInv'
  <2>1. /\ expired' = expired \cup {q}
        /\ UNCHANGED <<home, print, st, joined, answer, store, final, crashes,
                     late, blind>>
    BY <1>1 DEF Expire
  <2>2. expired' # {} /\ (crashes' = 0 => blind' = {})
    BY <1>0, <2>1 DEF Disk
  <2>3. Disk'
    BY <2>2 DEF Disk, Sighted
  <2> QED BY <1>0, <2>1, <2>3 DEF IInv, TypeOK, Order, Places, Joins, Fits, store
<1>2. ASSUME NEW p \in Proc, Prune(p) PROVE IInv'
  <2>1. /\ pruning' = [pruning EXCEPT ![p] = IF file \in expired THEN file ELSE None]
        /\ memory'  = [memory EXCEPT ![p] = IF memory[p] \in expired THEN None ELSE memory[p]]
        /\ UNCHANGED <<home, print, st, joined, answer, inflight, file, final, expired,
                       crashes, late, blind>>
    BY <1>2 DEF Prune
  <2>2. TypeOK'
    <3>1. memory' \in [Proc -> Req \cup {None}] /\ pruning' \in [Proc -> Req \cup {None}]
      BY <1>0, <2>1 DEF TypeOK
    <3> QED BY <1>0, <2>1, <3>1 DEF TypeOK
  <2>3. Places'
    BY <1>0, <2>1 DEF Places, TypeOK
  <2>4. Disk'
    BY <1>0, <2>1 DEF Disk, Sighted, TypeOK
  <2> QED BY <1>0, <2>1, <2>2, <2>3, <2>4 DEF IInv, Order, Joins, Fits
<1>6. ASSUME NEW p \in Proc, PruneMisreads(p) PROVE IInv'
  <2>1. /\ pruning' = [pruning EXCEPT ![p] = file]
        /\ memory'  = [memory EXCEPT ![p] = IF memory[p] \in expired THEN None ELSE memory[p]]
        /\ crashes < MaxCrash /\ crashes' = crashes + 1 /\ blind' = blind \cup {None}
        /\ UNCHANGED <<home, print, st, joined, answer, inflight, file, final,
                       expired, late>>
    BY <1>6 DEF PruneMisreads
  <2>2. TypeOK'
    <3>1. memory' \in [Proc -> Req \cup {None}] /\ pruning' \in [Proc -> Req \cup {None}]
      BY <1>0, <2>1 DEF TypeOK
    <3>2. crashes' \in 0..MaxCrash
      BY <1>0, <2>1, IdempotencyAssumption DEF TypeOK
    <3> QED BY <1>0, <2>1, <3>1, <3>2 DEF TypeOK
  <2>3. Places'
    BY <1>0, <2>1 DEF Places, TypeOK
  <2>4. crashes' # 0
    BY <1>0, <2>1, IdempotencyAssumption DEF TypeOK
  <2>5. Disk'
    BY <2>1, <2>4 DEF Disk, Sighted
  <2> QED BY <1>0, <2>1, <2>2, <2>3, <2>5 DEF IInv, Order, Joins, Fits
<1>3. ASSUME NEW p \in Proc, PruneRemove(p) PROVE IInv'
  <2>1. /\ pruning[p] # None /\ pruning' = [pruning EXCEPT ![p] = None] /\ file' = None
        /\ UNCHANGED <<home, print, st, joined, answer, inflight, memory, final,
                       expired, crashes, late, blind>>
    BY <1>3 DEF PruneRemove
  <2>2. TypeOK'
    BY <1>0, <2>1 DEF TypeOK
  <2>3. Disk'
    BY <1>0, <2>1 DEF Disk, Sighted
  <2> QED BY <1>0, <2>1, <2>2, <2>3 DEF IInv, Order, Places, Joins, Fits
<1>4. ASSUME NEW p \in Proc, Crash(p) PROVE IInv'
  <2>1. /\ inflight' = [inflight EXCEPT ![p] = None]
        /\ memory'   = [memory EXCEPT ![p] = None]
        /\ pruning'  = [pruning EXCEPT ![p] = None]
        /\ UNCHANGED <<home, print, joined, answer, file, final, expired, late, blind>>
        /\ crashes < MaxCrash /\ crashes' = crashes + 1
    BY <1>4 DEF Crash
  <2>2. \A q \in Req : st'[q] = IF home[q] = p /\ st[q] \notin {"new", "done"}
                                  THEN "lost" ELSE st[q]
    BY <1>4 DEF Crash
  <2>3. TypeOK'
    <3>1. crashes' \in 0..MaxCrash
      BY <1>0, <2>1, IdempotencyAssumption DEF TypeOK
    <3>2. st' \in [Req -> Step]
      BY <1>0, <1>4 DEF Crash, Step, TypeOK
    <3> QED BY <1>0, <2>1, <3>1, <3>2 DEF TypeOK
  <2>4. Order' /\ Joins' /\ Fits'
    BY <1>0, <2>1, <2>2 DEF Order, Joins, Fits
  <2>5. Places'
    BY <1>0, <2>1 DEF Places, TypeOK
  <2>6. Disk'
    <3>1. final \subseteq Req /\ late \subseteq Req /\ "lost" \notin Ahead /\ crashes' # 0
      BY <1>0, <2>1, IdempotencyAssumption DEF TypeOK, Ahead
    <3>2. \A r \in Req : st'[r] \in Ahead => st[r] \in Ahead
      BY <2>2, <3>1
    <3>3. Sighted' => \A r \in Proc : pruning'[r] = None
      BY <1>0, <2>1 DEF Disk, Sighted, TypeOK
    <3> QED BY <1>0, <2>1, <3>1, <3>2, <3>3 DEF Disk, Sighted
  <2> QED BY <2>3, <2>4, <2>5, <2>6 DEF IInv
<1>5. CASE UNCHANGED vars
  BY <1>0, <1>5 DEF vars, store, IInv, TypeOK, Order, Places, Joins, Fits, Disk, Sighted
<1> QED BY <1>1, <1>2, <1>3, <1>4, <1>5, <1>6

-----------------------------------------------------------------------------
(* The invariant, and what follows from it.                                 *)

LEMMA InitInv == Init => IInv
<1> SUFFICES ASSUME Init PROVE IInv
  OBVIOUS
<1>1. TypeOK
  BY IdempotencyAssumption DEF Init, TypeOK, Step, NoAnswer, Answer, Kind
<1>2. \A q \in Req : st[q] = "new" /\ answer[q].kind = "none"
  BY DEF Init, NoAnswer
<1>3. \A p \in Proc : inflight[p] = None /\ memory[p] = None /\ pruning[p] = None
  BY DEF Init
<1>4. final = {} /\ late = {} /\ blind = {}
  BY DEF Init
<1> QED BY <1>1, <1>2, <1>3, <1>4 DEF IInv, Order, Places, Joins, Fits, Disk

LEMMA NextInv == IInv /\ [Next]_vars => IInv'
BY ArriveInv, LoadInv, RegisterInv, EndTransientInv, EndFinalInv, SaveInv, OtherInv DEF Next, Work

LEMMA Inductive == Spec => []IInv
<1> QED BY InitInv, NextInv, PTL DEF Spec

(* Every variable keeps its type.                                           *)
THEOREM TypeCorrect == Spec => []TypeOK
<1>1. IInv => TypeOK
  BY DEF IInv
<1> QED BY <1>1, Inductive, PTL

(* run and load: a request is answered only with a response to the same     *)
(* request, and told of a mismatch only when there is one.                  *)
THEOREM AnswersAlwaysFit == Spec => []AnswersFit
<1>1. IInv => AnswersFit
  BY DEF IInv, Fits, AnswersFit
<1> QED BY <1>1, Inductive, PTL

(* Who may be told a response with a secret: only somebody in the process   *)
(* that has it at hand.                                                     *)
LEMMA SecretStep ==
  ASSUME IInv, [Next]_vars, NEW q \in Req, answer'[q].kind = "replay",
         answer[q].kind = "none", print[q] \in Sensitive
  PROVE  LET r == answer'[q].from
         IN  home[r] = home[q] /\ (memory[home[q]] = r \/ st[r] \in {"run", "save"})
<1>0. TypeOK /\ Order /\ Places /\ Joins /\ Fits /\ home[q] \in Proc
  BY DEF IInv, TypeOK
<1> DEFINE From(r) == answer'[q].from = r /\ home[r] = home[q]
                      /\ (memory[home[q]] = r \/ st[r] \in {"run", "save"})
<1> SUFFICES \E r \in Req : From(r)
  OBVIOUS
<1>1. ASSUME NEW t \in Req, NEW kind \in Kind, NEW r \in Req, Tell(t, kind, r)
      PROVE  q = t /\ kind = "replay" /\ answer'[q].from = r
  BY <1>0, <1>1, TellAnswer
<1>2. ASSUME NEW t \in Req, Arrive(t) PROVE \E r \in Req : From(r)
  <2> DEFINE p == home[t]
  <2>1. /\ p \in Proc /\ {"replay", "mismatch"} \subseteq Kind
        /\ inflight[p] \in Req \cup {None} /\ memory[p] \in Req \cup {None}
    BY <1>0 DEF TypeOK, Kind
  <2>2. CASE inflight[p] # None /\ Tell(t, "mismatch", inflight[p])
    BY <1>1, <2>1, <2>2
  <2>3. CASE /\ inflight[p] # None /\ st[inflight[p]] = "save"
             /\ Tell(t, "replay", inflight[p])
    <3>1. home[inflight[p]] = p
      BY <1>0, <2>1, <2>3 DEF Places
    <3> QED BY <1>1, <2>1, <2>3, <3>1
  <2>4. CASE Kept(memory[p]) /\ Replay(t, memory[p])
    <3>1. memory[p] \in Req /\ home[memory[p]] = p
      BY <1>0, <2>1, <2>4 DEF Places, Kept
    <3>2. PICK kind \in {"replay", "mismatch"} : Tell(t, kind, memory[p])
      BY <2>4 DEF Replay
    <3> QED BY <1>1, <2>1, <3>1, <3>2
  <2>5. CASE UNCHANGED answer
    BY <2>5
  <2> QED BY <1>2, <2>2, <2>3, <2>4, <2>5 DEF Arrive
<1>3. ASSUME NEW t \in Req, Load(t) PROVE \E r \in Req : From(r)
  <2>1. file \in Req \cup {None} /\ {"replay", "mismatch", "secret"} \subseteq Kind
    BY <1>0 DEF TypeOK, Kind
  <2>2. CASE Kept(file)
    <3>1. file \in Req
      BY <2>1, <2>2 DEF Kept
    <3>2. CASE print[file] = print[t] /\ print[t] \in Sensitive
      BY <1>1, <1>3, <2>1, <2>2, <3>1, <3>2 DEF Load
    <3>3. CASE ~(print[file] = print[t] /\ print[t] \in Sensitive)
      <4>1. PICK kind \in {"replay", "mismatch"} :
              Tell(t, kind, file) /\ (kind = "replay" => print[file] = print[t])
        BY <1>3, <2>2, <3>3 DEF Load, Replay
      <4> QED BY <1>1, <2>1, <3>1, <3>3, <4>1
    <3> QED BY <3>2, <3>3
  <2>3. CASE ~Kept(file)
    BY <1>3, <2>3 DEF Load
  <2> QED BY <2>2, <2>3
<1>4. ASSUME NEW t \in Req, EndTransient(t) \/ EndFinal(t) PROVE \E r \in Req : From(r)
  <2>1. st[t] = "run" /\ answer' \in {Deliver(t), [Deliver(t) EXCEPT ![t] = answer[t]]}
    BY <1>4 DEF EndTransient, EndFinal
  <2>2. q # t
    BY <2>1, Delivered
  <2>3. answer'[q] = Deliver(t)[q]
    BY <2>1, <2>2, Delivered
  <2>4. joined[q] = t /\ st[q] = "wait" /\ answer'[q].from = t
    BY <2>2, <2>3, Delivered
  <2>5. home[t] = home[q]
    BY <1>0, <2>4 DEF Joins
  <2> QED BY <2>1, <2>4, <2>5
<1>5. ASSUME NEW t \in Req, Save(t) PROVE FALSE
  <2>1. Tell(t, "own", t) /\ "own" \in Kind
    BY <1>5 DEF Save, Kind
  <2> QED BY <1>1, <2>1
<1>6. CASE UNCHANGED answer
  BY <1>6
<1>7. ASSUME NEW t \in Req, LoadFails(t) \/ Register(t) \/ SaveFails(t) \/ Expire(t)
      PROVE  UNCHANGED answer
  BY <1>7 DEF LoadFails, Register, SaveFails, Expire
<1>8. ASSUME NEW p \in Proc, Prune(p) \/ PruneMisreads(p) \/ PruneRemove(p) \/ Crash(p)
      PROVE  UNCHANGED answer
  BY <1>8 DEF Prune, PruneMisreads, PruneRemove, Crash
<1>9. CASE UNCHANGED vars
  BY <1>6, <1>9 DEF vars
<1> QED BY <1>2, <1>3, <1>4, <1>5, <1>6, <1>7, <1>8, <1>9 DEF Next, Work

(* load and memory: whoever is told a response with a secret again is told  *)
(* by the process whose handler produced it, while that runs or from        *)
(* memory; what another process or one that has restarted finds on disk is  *)
(* not told.                                                                *)
THEOREM SecretsAlwaysStay == Spec => SecretsStayInMemory
<1>1. IInv /\ [Next]_vars =>
        \A q \in Req :
          answer'[q].kind = "replay" /\ answer[q].kind = "none" /\ print[q] \in Sensitive =>
            LET r == answer'[q].from
            IN  home[r] = home[q] /\ (memory[home[q]] = r \/ st[r] \in {"run", "save"})
  BY SecretStep
<1> QED BY <1>1, Inductive, PTL DEF Spec, SecretsStayInMemory

(* save before answer: a handler whose final answer was given does not run  *)
(* again for whoever arrives later, in any process and after any crash,     *)
(* until a record has grown too old, or could not be read by the request    *)
(* itself or by prune.                                                      *)
THEOREM AnsweredNeverRuns == Spec => []AnsweredRunsNoMore
<1>1. IInv => AnsweredRunsNoMore
  BY DEF IInv, Disk, Sighted, Ahead, Ran, AnsweredRunsNoMore
<1> QED BY <1>1, Inductive, PTL

-----------------------------------------------------------------------------
(* Once per key, if no two requests look for the record at one time.        *)

(* While a request reads the record of its key, no other does, and no       *)
(* handler runs in another process.                                         *)
Looking == {"load", "missed"}
Apart ==
  \A q, r \in Req : q # r /\ st[q] \in Looking =>
    st[r] \notin Looking /\ (home[r] # home[q] => st[r] \notin {"run", "save"})

Running == {"run", "save"}
Quiet   == crashes = 0 /\ expired = {}

(* While nothing crashed and nothing expired: who runs is the one in flight *)
(* and runs alone, at most one handler has ended with an outcome to store,  *)
(* it is on disk once it was answered, and nobody runs after it.            *)
OneRun ==
  Quiet =>
    /\ \A q \in Req : st[q] \in Running =>
         /\ inflight[home[q]] = q
         /\ \A r \in Req \ {q} : st[r] \notin Running \cup Looking
    /\ \A q \in Req : st[q] = "missed" => final = {}
    /\ \A q \in final : st[q] \in {"save", "done"} /\ (st[q] = "done" => file # None)
    /\ \A q, r \in final : q = r
    /\ \A q \in Req, r \in final : st[q] \in Running => q = r

(* A request that comes in starts to load only when nobody runs.            *)
LEMMA ArriveOnce ==
  ASSUME IInv, OneRun, Quiet, Apart', NEW q \in Req, Arrive(q)
  PROVE  OneRun'
<1>0. TypeOK /\ Order
  BY DEF IInv
<1>1. /\ st[q] = "new" /\ home[q] \in Proc
      /\ UNCHANGED <<home, print, inflight, memory, file, pruning, final, expired,
                     crashes>>
  BY <1>0 DEF Arrive, TypeOK, store
<1>2. /\ st' \in [Req -> Step] /\ \A r \in Req \ {q} : st'[r] = st[r]
      /\ st'[q] \in {"done", "wait", "load"}
      /\ st'[q] = "load" => inflight[home[q]] = None
  <2>1. CASE \E r \in Req, k \in Kind : Tell(q, k, r)
    BY <1>0, <2>1, TellAnswer
  <2>2. CASE Go(q, "wait")
    BY <1>0, <2>2, GoSt DEF Step
  <2>3. CASE Go(q, "load") /\ inflight[home[q]] = None
    BY <1>0, <2>3, GoSt DEF Step
  <2>4. /\ inflight[home[q]] \in Req \cup {None} /\ memory[home[q]] \in Req \cup {None}
        /\ {"replay", "mismatch"} \subseteq Kind
    BY <1>0, <1>1 DEF TypeOK, Kind
  <2> QED BY <2>1, <2>2, <2>3, <2>4 DEF Arrive, Replay, Kept
<1>3. q \notin final
  BY <1>0, <1>1 DEF Order
<1>4. \A r \in Req \ {q} : st[r] \in Running => st'[q] # "load"
  <2> SUFFICES ASSUME NEW r \in Req \ {q}, st[r] \in Running, st'[q] = "load" PROVE FALSE
    OBVIOUS
  <2>1. home[r] = home[q]
    BY <1>1, <1>2 DEF Apart, Running, Looking
  <2>2. inflight[home[r]] = r
    BY DEF OneRun
  <2> QED BY <1>2, <2>1, <2>2, ReqFacts
<1> QED BY <1>0, <1>1, <1>2, <1>3, <1>4 DEF OneRun, Quiet, Running, Looking, TypeOK

(* While a request looks for the record, nobody runs.                       *)
LEMMA LooksAlone ==
  ASSUME IInv, OneRun, Quiet, Apart, NEW q \in Req, st[q] \in Looking
  PROVE  /\ \A r \in Req : st[r] \notin Running
         /\ \A r \in Req \ {q} : st[r] \notin Looking
<1>1. \A r \in Req : st[r] \notin Running
  <2> SUFFICES ASSUME NEW r \in Req, st[r] \in Running PROVE FALSE
    OBVIOUS
  <2>1. r # q
    BY DEF Running, Looking
  <2> QED BY <2>1 DEF OneRun
<1> QED BY <1>1 DEF Apart

(* Who finds no record: nobody else has run.                                *)
LEMMA LoadOnce ==
  ASSUME IInv, OneRun, Quiet, Apart, NEW q \in Req, Load(q)
  PROVE  OneRun'
<1>0. TypeOK /\ Order
  BY DEF IInv
<1>1. /\ st[q] = "load" /\ file \in Req \cup {None}
      /\ UNCHANGED <<home, inflight, file, final, expired, crashes>>
  BY <1>0 DEF Load, TypeOK, store
<1>2. \A r \in Req : st[r] \notin Running
  BY <1>1, LooksAlone DEF Looking
<1>3. q \notin final
  BY <1>0, <1>1 DEF Order
<1>4. CASE \E r \in Req, k \in Kind : Tell(q, k, r)
  <2>1. /\ st' \in [Req -> Step] /\ st'[q] = "done"
        /\ \A r \in Req \ {q} : st'[r] = st[r]
    BY <1>0, <1>4, TellAnswer
  <2> QED BY <1>0, <1>1, <1>2, <1>3, <2>1 DEF OneRun, Quiet, Running, Looking, TypeOK
<1>5. CASE ~Kept(file)
  <2>1. st' \in [Req -> Step] /\ st'[q] = "missed" /\ \A r \in Req \ {q} : st'[r] = st[r]
    BY <1>0, <1>5, GoSt DEF Load, Step
  <2>2. file = None
    BY <1>5 DEF Kept, Quiet
  <2>3. final = {}
    <3> SUFFICES ASSUME NEW r \in final PROVE FALSE
      OBVIOUS
    <3>1. r \in Req /\ st[r] \in {"save", "done"} /\ (st[r] = "done" => file # None)
      BY <1>0 DEF OneRun, TypeOK
    <3> QED BY <1>2, <2>2, <3>1 DEF Running
  <2> QED BY <1>1, <1>2, <2>1, <2>3 DEF OneRun, Quiet, Running
<1>6. CASE Kept(file)
  <2>1. file \in Req /\ {"replay", "mismatch", "secret"} \subseteq Kind
    BY <1>1, <1>6 DEF Kept, Kind
  <2> QED BY <1>4, <1>6, <2>1 DEF Load, Replay
<1> QED BY <1>5, <1>6

LEMMA RegisterOnce ==
  ASSUME IInv, OneRun, Quiet, Apart, NEW q \in Req, Register(q)
  PROVE  OneRun'
<1>0. TypeOK
  BY DEF IInv
<1>1. /\ st[q] = "missed" /\ home[q] \in Proc /\ Go(q, "run")
      /\ inflight' = [inflight EXCEPT ![home[q]] = q]
      /\ UNCHANGED <<home, file, final, expired, crashes>>
  BY <1>0 DEF Register, TypeOK
<1>2. /\ \A r \in Req : st[r] \notin Running
      /\ \A r \in Req \ {q} : st[r] \notin Looking
  BY <1>1, LooksAlone DEF Looking
<1>3. st' \in [Req -> Step] /\ st'[q] = "run" /\ \A r \in Req \ {q} : st'[r] = st[r]
  BY <1>0, <1>1, GoSt DEF Step
<1>4. final = {} /\ inflight'[home'[q]] = q
  BY <1>0, <1>1 DEF OneRun, TypeOK
<1>5. \A r \in Req \ {q} : st'[r] \notin Running \cup Looking
  BY <1>2, <1>3
<1>6. "run" \notin Looking
  BY DEF Looking
<1> QED BY <1>1, <1>3, <1>4, <1>5, <1>6 DEF OneRun, Running, Looking

(* A handler ends, or its outcome is saved: it was the only one.            *)
LEMMA EndOnce ==
  ASSUME IInv, OneRun, Quiet, NEW q \in Req, EndTransient(q) \/ EndFinal(q)
  PROVE  OneRun'
<1>0. TypeOK /\ Order
  BY DEF IInv
<1>1. /\ st[q] = "run" /\ UNCHANGED <<home, file, expired, crashes>>
      /\ \A r \in Req \ {q} : st'[r] = st[r] \/ (st[r] = "wait" /\ st'[r] = "done")
  BY <1>0 DEF EndTransient, EndFinal, Told, TypeOK
<1>2. /\ \A r \in Req \ {q} : st[r] \notin Running \cup Looking
      /\ inflight[home[q]] = q
  BY <1>1 DEF OneRun, Running
<1>3. \A r \in Req \ {q} : st'[r] \notin Running \cup Looking
  BY <1>1, <1>2 DEF Running, Looking
<1>4. q \notin final /\ final = {}
  <2>1. q \notin final
    BY <1>0, <1>1 DEF Order
  <2> QED BY <1>0, <1>1, <2>1 DEF OneRun, Running
<1>5. CASE EndTransient(q)
  <2>1. st'[q] = "done" /\ final' = final
    BY <1>0, <1>5 DEF EndTransient, TypeOK
  <2> QED BY <1>3, <1>4, <2>1 DEF OneRun, Running, Looking
<1>6. CASE EndFinal(q)
  <2>1. st'[q] = "save" /\ final' = {q} /\ inflight' = inflight
    BY <1>0, <1>4, <1>6 DEF EndFinal, TypeOK
  <2> QED BY <1>1, <1>2, <1>3, <2>1 DEF OneRun, Running, Looking
<1> QED BY <1>5, <1>6

LEMMA SaveOnce ==
  ASSUME IInv, OneRun, Quiet, NEW q \in Req, Save(q)
  PROVE  OneRun'
<1>0. TypeOK /\ Order
  BY DEF IInv
<1>1. /\ st[q] = "save" /\ file' = q /\ q # None
      /\ UNCHANGED <<home, final, expired, crashes>>
      /\ st' \in [Req -> Step] /\ st'[q] = "done"
      /\ \A r \in Req \ {q} : st'[r] = st[r]
  BY <1>0, TellAnswer, ReqFacts DEF Save, Kind
<1>2. \A r \in Req \ {q} : st[r] \notin Running \cup Looking
  BY <1>1 DEF OneRun, Running
<1>3. \A r \in Req : st'[r] \notin Running \cup Looking
  BY <1>1, <1>2 DEF Running, Looking
<1>4. final \subseteq Req
  BY <1>0 DEF TypeOK
<1> QED BY <1>1, <1>3, <1>4 DEF OneRun, Running, Looking

LEMMA NextOnce == IInv /\ OneRun /\ Apart /\ Apart' /\ [Next]_vars => OneRun'
<1> SUFFICES ASSUME IInv, OneRun, Apart, Apart', [Next]_vars PROVE OneRun'
  OBVIOUS
<1>0. TypeOK /\ Disk /\ crashes \in Nat
  BY IdempotencyAssumption DEF IInv, TypeOK
<1>1. ASSUME \E q \in Req : LoadFails(q) \/ SaveFails(q) \/ Expire(q) PROVE ~Quiet'
  BY <1>0, <1>1 DEF LoadFails, SaveFails, Expire, Quiet
<1>2. ASSUME NEW p \in Proc, PruneMisreads(p) \/ Crash(p) PROVE ~Quiet'
  BY <1>0, <1>2 DEF PruneMisreads, Crash, Quiet
<1>3. ASSUME NEW p \in Proc, PruneRemove(p) PROVE ~Quiet'
  BY <1>0, <1>3 DEF PruneRemove, Disk, Sighted, Quiet
<1>4. ASSUME UNCHANGED vars \/ \E p \in Proc : Prune(p) PROVE OneRun'
  BY <1>4 DEF Prune, vars, store, OneRun, Quiet
<1>5. ASSUME NEW q \in Req, Arrive(q) \/ Work(q), ~Quiet PROVE ~Quiet'
  BY <1>5 DEF Arrive, Work, Load, Register, EndTransient, EndFinal, Save, Quiet
<1>6. ASSUME NEW q \in Req, Arrive(q) \/ Work(q) PROVE OneRun'
  <2>1. CASE Quiet
    BY <1>6, <2>1, ArriveOnce, LoadOnce, RegisterOnce, EndOnce, SaveOnce DEF Work
  <2>2. CASE ~Quiet
    BY <1>5, <1>6, <2>2 DEF OneRun
  <2> QED BY <2>1, <2>2
<1>7. CASE ~Quiet'
  BY <1>7 DEF OneRun
<1> QED BY <1>1, <1>2, <1>3, <1>4, <1>6, <1>7 DEF Next

(* run: under one key and while no two requests look for the record at one  *)
(* time, and none while the handler runs in another process, the handler    *)
(* runs to an outcome at most once.  Two that overlap so both run it.       *)
THEOREM OnceIfApart == Spec /\ []Apart => []AtMostOnce
<1>1. Init => OneRun
  BY DEF Init, OneRun, Running
<1>2. IInv /\ OneRun => AtMostOnce
  <2> SUFFICES ASSUME IInv, OneRun, Quiet PROVE Cardinality(Ran \cap final) <= 1
    BY DEF AtMostOnce, Quiet
  <2>1. CASE Ran \cap final = {}
    BY <2>1, FS_EmptySet
  <2>2. CASE Ran \cap final # {}
    <3>1. PICK q : q \in Ran \cap final
      BY <2>2
    <3>2. Ran \cap final = {q}
      BY <3>1 DEF OneRun
    <3> QED BY <3>2, FS_Singleton
  <2> QED BY <2>1, <2>2
<1> QED BY <1>1, <1>2, Inductive, NextOnce, PTL DEF Spec

=============================================================================
