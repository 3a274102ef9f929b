------------------------------ MODULE Idempotency ------------------------------
(***************************************************************************)
(* The bridge's idempotency store, for one (key id, Idempotency-Key): the  *)
(* in-flight entry and the memory of each process, and the record file the *)
(* processes share.  IdempotencyStore.run is cut at its awaits.  Requests  *)
(* are numbered as they arrive; a retry of a client is a new request.  A   *)
(* response is named by the request whose handler produced it.             *)
(***************************************************************************)
EXTENDS Naturals, FiniteSets

CONSTANTS
  Proc,        \* bridge processes that share the state directory
  Fingerprint, \* what is asked for under the key
  Sensitive,   \* those whose response holds a one-time secret
  MaxReq,      \* bound: requests
  MaxCrash,    \* bound: crashes of a process, and failed writes and reads of a
               \* record
  MaxExpire    \* bound: responses that grow older than the 24 h they are kept

ASSUME IdempotencyAssumption ==
  /\ Sensitive \subseteq Fingerprint
  /\ MaxReq \in Nat /\ MaxCrash \in Nat /\ MaxExpire \in Nat

Req  == 1..MaxReq
None == 0

VARIABLES
  home, print,  \* where a request arrives and what it asks for
  st,        \* how far a request has come
  joined,    \* the in-flight request whose response it waits for
  answer,    \* [kind, from]: what the client is told, and whose response
  inflight,  \* per process: the request registered as in flight
  memory,    \* per process: the request whose sensitive response it keeps
  file,      \* the request whose record is on disk
  final,     \* handlers that ended with an outcome to store
  expired,   \* responses that are older than the time they are kept
  pruning,   \* per process: the expired record prune is about to remove
  crashes,   \* crashes, failed writes and failed reads so far
  late,      \* history: who arrived when a final answer had been given
  blind      \* history: who could not read a record that was there, a request
             \* or (None) prune

store == <<inflight, memory, file, pruning>>
vars  == <<home, print, st, joined, answer, store, final, expired, crashes,
           late, blind>>

Step   == {"new", "load", "missed", "run", "wait", "save", "done", "lost"}
Kind   == {"none", "own", "replay", "mismatch", "secret"}
Answer == [kind : Kind, from : Req \cup {None}]
NoAnswer == [kind |-> "none", from |-> None]

TypeOK ==
  /\ home \in [Req -> Proc] /\ print \in [Req -> Fingerprint]
  /\ st \in [Req -> Step]
  /\ joined \in [Req -> Req \cup {None}]
  /\ answer \in [Req -> Answer]
  /\ inflight \in [Proc -> Req \cup {None}]
  /\ memory \in [Proc -> Req \cup {None}]
  /\ file \in Req \cup {None}
  /\ final \subseteq Req /\ expired \subseteq Req
  /\ pruning \in [Proc -> Req \cup {None}]
  /\ crashes \in 0..MaxCrash
  /\ late \subseteq Req
  /\ blind \subseteq Req \cup {None}

Ran      == {q \in Req : st[q] \in {"run", "save"} \/ answer[q].kind = "own"}
Go(q, s) == st' = [st EXCEPT ![q] = s]
\* A record counts until it has expired.
Kept(r)  == r # None /\ r \notin expired

\* The client is told s, of the response of r.
Tell(q, kind, r) ==
  /\ Go(q, "done")
  /\ answer' = [answer EXCEPT ![q] = [kind |-> kind, from |-> r]]

\* Bug: the fingerprint is not compared.
ReplayAny(q, r) == Tell(q, "replay", r)

\* The response of r is there: it is replayed to the same request, and any
\* other request under the key is told IDEMPOTENCY_MISMATCH.
Replay(q, r) ==
  IF print[r] = print[q] THEN Tell(q, "replay", r) ELSE Tell(q, "mismatch", r)

-----------------------------------------------------------------------------
\* run, up to its first await: in flight here (the handler may be over and its
\* record not yet written), in memory here, or look at the disk.
Arrive(q) ==
  LET p == home[q] IN
  /\ st[q] = "new"
  /\ \A r \in 1..(q - 1) : st[r] # "new"
  /\ late' = IF \E r \in final : answer[r].kind = "own" THEN late \cup {q} ELSE late
  /\ \/ /\ inflight[p] # None
        /\ print[inflight[p]] # print[q]
        /\ Tell(q, "mismatch", inflight[p])
        /\ UNCHANGED joined
     \/ /\ inflight[p] # None
        /\ print[inflight[p]] = print[q] /\ st[inflight[p]] = "run"
        /\ Go(q, "wait")
        /\ joined' = [joined EXCEPT ![q] = inflight[p]]
        /\ UNCHANGED answer
     \/ /\ inflight[p] # None
        /\ print[inflight[p]] = print[q] /\ st[inflight[p]] = "save"
        /\ Tell(q, "replay", inflight[p])
        /\ UNCHANGED joined
     \/ /\ inflight[p] = None /\ Kept(memory[p])
        /\ Replay(q, memory[p])
        /\ UNCHANGED joined
     \/ /\ inflight[p] = None /\ ~Kept(memory[p])
        /\ Go(q, "load")
        /\ UNCHANGED <<joined, answer>>
  /\ UNCHANGED <<home, print, store, final, expired, crashes, blind>>

\* Bug: a record is replayed whatever it stands for.
LoadAny(q) ==
  /\ st[q] = "load"
  /\ \/ Kept(file)  /\ Replay(q, file)
     \/ ~Kept(file) /\ Go(q, "missed") /\ UNCHANGED answer
  /\ UNCHANGED <<home, print, joined, store, final, expired, crashes, late, blind>>

\* load: the record is read, and answered from.
Load(q) ==
  /\ st[q] = "load"
  /\ \/ /\ Kept(file)
        /\ IF print[file] = print[q] /\ print[q] \in Sensitive
             THEN Tell(q, "secret", file)
             ELSE Replay(q, file)
     \/ ~Kept(file) /\ Go(q, "missed") /\ UNCHANGED answer
  /\ UNCHANGED <<home, print, joined, store, final, expired, crashes, late, blind>>

\* Any error of the read counts as no record.
LoadFails(q) ==
  /\ st[q] = "load" /\ Kept(file)
  /\ crashes < MaxCrash /\ crashes' = crashes + 1
  /\ blind' = blind \cup {q}
  /\ Go(q, "missed")
  /\ UNCHANGED <<home, print, joined, answer, store, final, expired, late>>

\* There is no record: the handler starts and is registered.  Whoever else is
\* in flight by now is overwritten.
Register(q) ==
  /\ st[q] = "missed"
  /\ inflight' = [inflight EXCEPT ![home[q]] = q]
  /\ Go(q, "run")
  /\ UNCHANGED <<home, print, joined, answer, memory, file, final, expired,
                 pruning, crashes, late, blind>>

\* Bug: a request that joined is never told.
DeliverOwn(q) == [answer EXCEPT ![q] = [kind |-> "own", from |-> q]]

\* The response that q and the requests that joined it get.
Deliver(q) ==
  [r \in Req |->
     IF r = q THEN [kind |-> "own", from |-> q]
     ELSE IF joined[r] = q /\ st[r] = "wait" THEN [kind |-> "replay", from |-> q]
     ELSE answer[r]]
Told(q) == {r \in Req : joined[r] = q /\ st[r] = "wait" /\ answer'[r].kind # "none"}

\* The handler ends with a transient outcome (LOCKED, BUSY, ...) or throws:
\* it is answered and not stored.
EndTransient(q) ==
  /\ st[q] = "run"
  /\ answer' = Deliver(q)
  /\ st' = [r \in Req |-> IF r = q \/ r \in Told(q) THEN "done" ELSE st[r]]
  /\ inflight' = [inflight EXCEPT ![home[q]] = None]
  /\ UNCHANGED <<home, print, joined, memory, file, final, expired, pruning,
                 crashes, late, blind>>

\* It ends with an outcome to store.  Who joined is answered at once; q waits
\* for the record to be on disk.
EndFinal(q) ==
  /\ st[q] = "run"
  /\ final' = final \cup {q}
  /\ answer' = [Deliver(q) EXCEPT ![q] = answer[q]]
  /\ st' = [r \in Req |-> IF r = q THEN "save"
                          ELSE IF r \in Told(q) THEN "done" ELSE st[r]]
  /\ memory' = IF print[q] \in Sensitive THEN [memory EXCEPT ![home[q]] = q]
                                         ELSE memory
  /\ UNCHANGED <<home, print, joined, inflight, file, expired, pruning,
                 crashes, late, blind>>

\* Bug: the answer goes out before the record is written.
SaveNothing(q) ==
  /\ st[q] = "save"
  /\ Tell(q, "own", q)
  /\ inflight' = [inflight EXCEPT ![home[q]] = None]
  /\ UNCHANGED <<home, print, joined, memory, file, final, expired, pruning,
                 crashes, late, blind>>

\* atomicWrite of the record, whatever record is there; then the answer.
Save(q) ==
  /\ st[q] = "save"
  /\ file' = q
  /\ Tell(q, "own", q)
  /\ inflight' = [inflight EXCEPT ![home[q]] = None]
  /\ UNCHANGED <<home, print, joined, memory, final, expired, pruning,
                 crashes, late, blind>>

\* The write fails: the client is told INTERNAL, though the handler has run.
SaveFails(q) ==
  /\ st[q] = "save"
  /\ crashes < MaxCrash
  /\ crashes' = crashes + 1
  /\ Go(q, "lost")
  /\ inflight' = [inflight EXCEPT ![home[q]] = None]
  /\ UNCHANGED <<home, print, joined, answer, memory, file, final, expired,
                 pruning, late, blind>>

-----------------------------------------------------------------------------
\* A stored response passes 24 h.
Expire(r) ==
  /\ r \in final \ expired
  /\ Cardinality(expired) < MaxExpire
  /\ expired' = expired \cup {r}
  /\ UNCHANGED <<home, print, st, joined, answer, store, final, crashes,
                 late, blind>>

\* prune forgets expired responses in memory and finds an expired record ...
Prune(p) ==
  /\ pruning[p] = None
  /\ pruning' = [pruning EXCEPT ![p] = IF file \in expired THEN file ELSE None]
  /\ memory'  = [memory EXCEPT ![p] = IF @ \in expired THEN None ELSE @]
  /\ UNCHANGED <<home, print, st, joined, answer, inflight, file, final, expired,
                 crashes, late, blind>>

\* ... or a record that it cannot read, which is taken for a broken one ...
PruneMisreads(p) ==
  /\ pruning[p] = None /\ Kept(file)
  /\ crashes < MaxCrash /\ crashes' = crashes + 1
  /\ blind' = blind \cup {None}
  /\ pruning' = [pruning EXCEPT ![p] = file]
  /\ memory'  = [memory EXCEPT ![p] = IF @ \in expired THEN None ELSE @]
  /\ UNCHANGED <<home, print, st, joined, answer, inflight, file, final,
                 expired, late>>

\* ... and removes the file of that name.
PruneRemove(p) ==
  /\ pruning[p] # None
  /\ pruning' = [pruning EXCEPT ![p] = None]
  /\ file' = None
  /\ UNCHANGED <<home, print, st, joined, answer, inflight, memory, final,
                 expired, crashes, late, blind>>

\* The process dies and is started again.
Crash(p) ==
  /\ crashes < MaxCrash
  /\ crashes' = crashes + 1
  /\ st' = [q \in Req |-> IF home[q] = p /\ st[q] \notin {"new", "done"}
                            THEN "lost" ELSE st[q]]
  /\ inflight' = [inflight EXCEPT ![p] = None]
  /\ memory'   = [memory EXCEPT ![p] = None]
  /\ pruning'  = [pruning EXCEPT ![p] = None]
  /\ UNCHANGED <<home, print, joined, answer, file, final, expired, late, blind>>

Init ==
  /\ home \in [Req -> Proc] /\ print \in [Req -> Fingerprint]
  /\ st = [q \in Req |-> "new"]
  /\ joined = [q \in Req |-> None]
  /\ answer = [q \in Req |-> NoAnswer]
  /\ inflight = [p \in Proc |-> None]
  /\ memory = [p \in Proc |-> None]
  /\ pruning = [p \in Proc |-> None]
  /\ file = None
  /\ final = {} /\ expired = {} /\ crashes = 0
  /\ late = {} /\ blind = {}

Work(q) == Load(q) \/ Register(q) \/ EndTransient(q) \/ EndFinal(q) \/ Save(q)
Next ==
  \/ \E q \in Req : Arrive(q) \/ Work(q) \/ LoadFails(q) \/ SaveFails(q)
                   \/ Expire(q)
  \/ \E p \in Proc : Prune(p) \/ PruneMisreads(p) \/ PruneRemove(p) \/ Crash(p)

Spec     == Init /\ [][Next]_vars
\* The event loop turns and handlers end.
FairSpec == Spec /\ \A q \in Req : WF_vars(Work(q))

-----------------------------------------------------------------------------
(* What the store promises.                                                *)

\* Whatever is in flight, in memory or on disk, and whoever overwrites it: a
\* request is answered only with a response to the same request, and told of
\* a mismatch only when another request really used the key.
AnswersFit ==
  \A q \in Req :
    /\ answer[q].kind \in {"own", "replay", "secret"} =>
         print[answer[q].from] = print[q]
    /\ answer[q].kind = "mismatch" => print[answer[q].from] # print[q]

\* A secret is never read back from disk: whoever is told one again is told by
\* the process whose handler produced it, while that runs or from memory, and
\* never by a process that has restarted since.
SecretsStayInMemory ==
  [][\A q \in Req :
       answer'[q].kind = "replay" /\ answer[q].kind = "none" /\ print[q] \in Sensitive =>
         LET r == answer'[q].from
         IN  home[r] = home[q] /\ (memory[home[q]] = r \/ st[r] \in {"run", "save"})]_vars

\* Once the request that ran the handler has its final answer, no later
\* request under the key runs it again, in whatever process it arrives,
\* whoever overwrites whom, whatever crashes and whatever write fails.  It may
\* when a record has grown too old, when its own read of the record fails, or
\* when prune has taken a record it could not read for a broken one.  (A
\* request that joined is told earlier, before the record is on disk.)
AnsweredRunsNoMore ==
  \A q \in Ran \cap late : expired # {} \/ {q, None} \cap blind # {}

\* What the store's comment promises, once per key, does not hold: of two
\* requests that look at the disk at one time both run the handler.
AtMostOnce ==
  crashes = 0 /\ expired = {} => Cardinality(Ran \cap final) <= 1

\* Nobody waits for a response that will not come.
JoinersAreAnswered == \A q \in Req : st[q] = "wait" ~> st[q] # "wait"
=============================================================================
