------------------------------- MODULE SiteLock -------------------------------
(***************************************************************************)
(* The named lock every mutation of the bridge runs under: a promise-chain *)
(* mutex inside each process, and a lock file between the processes that   *)
(* share a state directory.  A holder refreshes the file's mtime; a file   *)
(* judged stale is removed by whoever waits for it.  Requests are numbered *)
(* as they arrive and ask once, so a number stands for the random token a  *)
(* request writes into its file.                                           *)
(***************************************************************************)
EXTENDS Naturals, Sequences

CONSTANTS
  Proc,       \* bridge processes
  MaxReq,     \* bound: requests that ask for the lock, once each
  MaxTrouble  \* bound: crashes and suspensions of a process, and failed
              \* writes and removals of a lock file, together

ASSUME LockAssumption == MaxReq \in Nat /\ MaxTrouble \in Nat

Req   == 1..MaxReq
NoReq == 0

VARIABLES
  home,     \* the process a request arrives at
  st,       \* how far a request has come
  queue,    \* per process: the requests in the mutex's promise chain
  file,     \* the lock file: its writer, whether written, how old its mtime
  judged,   \* the file a request has just found to be stale
  asleep,   \* processes that are suspended
  trouble,  \* what is left of the bound on troubles
  slept,    \* history: requests that were suspended on the way
  dead,     \* requests that went down with their process
  failed    \* history: requests that could not write or remove their file

vars == <<home, st, queue, file, judged, asleep, trouble, slept, dead, failed>>

Step == {"new", "queued", "left", "create", "check", "remove", "write", "run",
         "release", "unlink", "leave", "done"}
\* A mtime is fresh, older than the 2 s allowed to a half-written file, or
\* older than staleMs.
Age  == {"fresh", "old", "stale"}
File == [by : Req \cup {NoReq}, full : BOOLEAN, age : Age]

NoFile == [by |-> NoReq, full |-> FALSE, age |-> "fresh"]

TypeOK ==
  /\ home \in [Req -> Proc]
  /\ st \in [Req -> Step]
  /\ queue \in [Proc -> Seq(Req)]
  /\ file \in File
  /\ judged \in [Req -> Req \cup {NoReq}]
  /\ asleep \subseteq Proc
  /\ trouble \in 0..MaxTrouble
  /\ slept \subseteq Req
  /\ dead \subseteq Req
  /\ failed \subseteq Req

\* Past the mutex; and between creating its file and asking for its removal.
Inside(q)  == st[q] \in {"create", "check", "remove", "write", "run", "release",
                         "unlink", "leave"}
Holding(q) == st[q] \in {"write", "run", "release", "unlink"}
Awake(q)   == home[q] \notin asleep
Go(q, s)   == st' = [st EXCEPT ![q] = s]
Mine(q)    == queue[home[q]]
Trouble    == trouble > 0 /\ trouble' = trouble - 1

-----------------------------------------------------------------------------
(* The mutex.                                                              *)

\* The request takes its place in the promise chain of its process.
Ask(q) ==
  /\ Awake(q) /\ st[q] = "new"
  /\ \A r \in 1..(q - 1) : st[r] # "new"
  /\ Go(q, "queued")
  /\ queue' = [queue EXCEPT ![home[q]] = Append(@, q)]
  /\ UNCHANGED <<home, file, judged, asleep, trouble, slept, dead, failed>>

\* Its predecessor has released.
Enter(q) ==
  /\ Awake(q) /\ st[q] = "queued"
  /\ q = Head(Mine(q))
  /\ Go(q, "create")
  /\ UNCHANGED <<home, queue, file, judged, asleep, trouble, slept, dead, failed>>

\* Bug: a request that gives up frees its place at once, not in its turn.
TimeOutEarly(q) ==
  /\ Awake(q) /\ st[q] = "queued"
  /\ Go(q, "done")
  /\ queue' = [queue EXCEPT ![home[q]] = Tail(@)]
  /\ UNCHANGED <<home, file, judged, asleep, trouble, slept, dead, failed>>

\* waitMs have passed: LOCKED.  Its place is freed when the predecessor goes.
TimeOut(q) ==
  /\ Awake(q) /\ st[q] = "queued"
  /\ Go(q, "left")
  /\ UNCHANGED <<home, queue, file, judged, asleep, trouble, slept, dead, failed>>

\* Bug: the place is never freed.
PassOnNever(q) ==
  /\ Awake(q) /\ st[q] = "left"
  /\ q = Head(Mine(q))
  /\ Go(q, "done")
  /\ UNCHANGED <<home, queue, file, judged, asleep, trouble, slept, dead, failed>>

PassOn(q) ==
  /\ Awake(q) /\ st[q] = "left"
  /\ q = Head(Mine(q))
  /\ Go(q, "done")
  /\ queue' = [queue EXCEPT ![home[q]] = Tail(@)]
  /\ UNCHANGED <<home, file, judged, asleep, trouble, slept, dead, failed>>

-----------------------------------------------------------------------------
(* The lock file.                                                          *)

\* open(file, "wx"): creates the file or finds it there.
Create(q) ==
  /\ Awake(q) /\ st[q] = "create"
  /\ IF file.by = NoReq
       THEN /\ file' = [by |-> q, full |-> FALSE, age |-> "fresh"]
            /\ Go(q, "write")
       ELSE /\ UNCHANGED file
            /\ Go(q, "check")
  /\ UNCHANGED <<home, queue, judged, asleep, trouble, slept, dead, failed>>

\* The token goes into the file q has open, which may be unlinked by now.
Write(q) ==
  /\ Awake(q) /\ st[q] = "write"
  /\ Go(q, "run")
  /\ file' = IF file.by = q THEN [file EXCEPT !.full = TRUE, !.age = "fresh"] ELSE file
  /\ UNCHANGED <<home, queue, judged, asleep, trouble, slept, dead, failed>>

\* The write fails: the request fails and its empty file stays.
FailWrite(q) ==
  /\ Awake(q) /\ st[q] = "write"
  /\ Trouble
  /\ Go(q, "leave")
  /\ failed' = failed \cup {q}
  /\ UNCHANGED <<home, queue, file, judged, asleep, slept, dead>>

\* Bug: a file just created and not yet written is taken for a broken one.
StaleHalf ==
  \/ file.by = NoReq
  \/ file.age = "stale"
  \/ ~file.full

\* isStale.  A file that is gone counts as stale; a gone pid is noticed only
\* on the same host and while no other process has its number.
Stale ==
  \/ file.by = NoReq
  \/ file.age = "stale"
  \/ (~file.full /\ file.age = "old")

JudgeStale(q) ==
  /\ Awake(q) /\ st[q] = "check"
  /\ Stale \/ (file.full /\ file.by \in dead)
  /\ Go(q, "remove")
  /\ judged' = [judged EXCEPT ![q] = file.by]
  /\ UNCHANGED <<home, queue, file, asleep, trouble, slept, dead, failed>>

\* Not stale: the request sleeps 50 ms and tries again.
Retry(q) ==
  /\ Awake(q) /\ st[q] = "check" /\ ~Stale
  /\ Go(q, "create")
  /\ UNCHANGED <<home, queue, file, judged, asleep, trouble, slept, dead, failed>>

\* Not stale, and the deadline has passed: LOCKED.
GiveUp(q) ==
  /\ Awake(q) /\ st[q] = "check" /\ ~Stale
  /\ Go(q, "leave")
  /\ UNCHANGED <<home, queue, file, judged, asleep, trouble, slept, dead, failed>>

\* rm(file): whatever file is there by now.
Remove(q) ==
  /\ Awake(q) /\ st[q] = "remove"
  /\ file' = NoFile
  /\ Go(q, "create")
  /\ UNCHANGED <<home, queue, judged, asleep, trouble, slept, dead, failed>>

\* Bug: a mutation that fails does not release the file.
FinishForgets(q) ==
  /\ Awake(q) /\ st[q] = "run"
  /\ Go(q, "release") \/ Go(q, "leave")
  /\ UNCHANGED <<home, queue, file, judged, asleep, trouble, slept, dead, failed>>

\* The mutation is over: the heartbeat stops.
Finish(q) ==
  /\ Awake(q) /\ st[q] = "run"
  /\ Go(q, "release")
  /\ UNCHANGED <<home, queue, file, judged, asleep, trouble, slept, dead, failed>>

\* The release reads the token in the file ...
ReadToken(q) ==
  /\ Awake(q) /\ st[q] = "release"
  /\ Go(q, IF file.by = q /\ file.full THEN "unlink" ELSE "leave")
  /\ UNCHANGED <<home, queue, file, judged, asleep, trouble, slept, dead, failed>>

\* ... and removes the file: whatever file is there by now.
Unlink(q) ==
  /\ Awake(q) /\ st[q] = "unlink"
  /\ file' = NoFile
  /\ Go(q, "leave")
  /\ UNCHANGED <<home, queue, judged, asleep, trouble, slept, dead, failed>>

\* Reading or removing fails: the error is swallowed, the file stays.
FailUnlink(q) ==
  /\ Awake(q) /\ st[q] \in {"release", "unlink"}
  /\ Trouble
  /\ Go(q, "leave")
  /\ failed' = failed \cup {q}
  /\ UNCHANGED <<home, queue, file, judged, asleep, slept, dead>>

\* The answer goes out and the mutex is released.
Leave(q) ==
  /\ Awake(q) /\ st[q] = "leave"
  /\ Go(q, "done")
  /\ queue' = [queue EXCEPT ![home[q]] = Tail(@)]
  /\ UNCHANGED <<home, file, judged, asleep, trouble, slept, dead, failed>>

-----------------------------------------------------------------------------
(* Time, suspension, crashes.                                              *)

\* Somebody who is awake and runs under the lock refreshes the file at that
\* path, or its writer is within a few milliseconds of its next step.
Tended == \E q \in Req :
            /\ Awake(q)
            /\ st[q] = "run" \/ (Holding(q) /\ file.by = q)

\* The mtime falls behind the clock.
Pass ==
  /\ file.by # NoReq /\ file.age # "stale" /\ ~Tended
  /\ file' = [file EXCEPT !.age = IF @ = "fresh" THEN "old" ELSE "stale"]
  /\ UNCHANGED <<home, st, queue, judged, asleep, trouble, slept, dead, failed>>

\* utimes(file): of whatever file is there.
Beat(q) ==
  /\ Awake(q) /\ st[q] = "run"
  /\ file.by # NoReq /\ file.age # "fresh"
  /\ file' = [file EXCEPT !.age = "fresh"]
  /\ UNCHANGED <<home, st, queue, judged, asleep, trouble, slept, dead, failed>>

Suspend(p) ==
  /\ p \notin asleep
  /\ Trouble
  /\ asleep' = asleep \cup {p}
  /\ slept' = slept \cup {q \in Req : home[q] = p /\ Inside(q)}
  /\ UNCHANGED <<home, st, queue, file, judged, dead, failed>>

Resume(p) ==
  /\ asleep' = asleep \ {p}
  /\ p \in asleep
  /\ UNCHANGED <<home, st, queue, file, judged, trouble, slept, dead, failed>>

\* The process dies and is started again with a new pid and an empty chain.
Crash(p) ==
  LET gone == {q \in Req : home[q] = p /\ st[q] \notin {"new", "done"}}
  IN /\ p \notin asleep
     /\ Trouble
     /\ st' = [q \in Req |-> IF q \in gone THEN "done" ELSE st[q]]
     /\ dead' = dead \cup gone
     /\ queue' = [queue EXCEPT ![p] = <<>>]
     /\ UNCHANGED <<home, file, judged, asleep, slept, failed>>

-----------------------------------------------------------------------------
Init ==
  /\ home \in [Req -> Proc]
  /\ st = [q \in Req |-> "new"]
  /\ queue = [p \in Proc |-> <<>>]
  /\ file = NoFile
  /\ judged = [q \in Req |-> NoReq]
  /\ asleep = {} /\ slept = {} /\ dead = {} /\ failed = {}
  /\ trouble = MaxTrouble

\* What the event loop does for q.
Work(q) ==
  \/ Enter(q) \/ PassOn(q) \/ Create(q) \/ Write(q)  \/ JudgeStale(q) \/ Retry(q)
  \/ Remove(q) \/ Finish(q) \/ ReadToken(q) \/ Unlink(q) \/ Leave(q)
Act(q) ==
  \/ Ask(q) \/ TimeOut(q) \/ Work(q) \/ FailWrite(q) \/ GiveUp(q)
  \/ FailUnlink(q) \/ Beat(q)

Next ==
  \/ \E q \in Req : Act(q)
  \/ \E p \in Proc : Suspend(p) \/ Resume(p) \/ Crash(p)
  \/ Pass

Spec == Init /\ [][Next]_vars

\* Event loops turn, mutations end, suspended processes are resumed, deadlines
\* pass: a request that keeps finding a live lock is told LOCKED in the end.
FairSpec ==
  /\ Spec
  /\ \A q \in Req : WF_vars(Work(q)) /\ SF_vars(GiveUp(q))
  /\ \A p \in Proc : WF_vars(Resume(p))

-----------------------------------------------------------------------------
(* What the lock promises.                                                 *)

\* Requests of one process run under the lock one at a time, whoever timed
\* out in the chain before them and whatever happens to the file.
OneAtATime ==
  \A q, r \in Req : q # r /\ home[q] = home[r] => ~(Inside(q) /\ Inside(r))

\* A file that outlives its request was left by a crash or a failed write or
\* removal; no other path through withLock leaks the lock.
NothingLeaks ==
  file.by # NoReq /\ st[file.by] = "done" => file.by \in dead \cup failed

\* A live file is judged stale only when its writer has been suspended.
VerdictIsSound ==
  [][\A q \in Req :
       judged'[q] # judged[q] =>
         judged'[q] \in {NoReq} \cup slept \cup dead \cup failed]_vars

\* A holder loses its file to somebody else only when it was suspended or
\* when the other had judged, or read the token of, a different file before:
\* the race between looking at the path and removing it.
TakenOnlyByRace ==
  [][\A q \in Req :
       Holding(q) /\ file.by = q /\ file'.by # q /\ ~Unlink(q) =>
         \/ q \in slept
         \/ \E r \in Req \ {q} :
              \/ st[r] = "remove" /\ judged[r] # q
              \/ st[r] = "unlink"]_vars

\* What the module's comment promises, at most one mutation at a time, does
\* not hold, not even without any trouble: of two requests that judge one
\* stale or vanished file, the second removes what the first has created.
Exclusive ==
  \A q, r \in Req : st[q] = "run" /\ st[r] = "run" => q = r

\* Every request is answered or lost in a crash.
EveryoneIsAnswered == \A q \in Req : st[q] = "queued" ~> st[q] = "done"
=============================================================================
