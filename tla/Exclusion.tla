------------------------------- MODULE Exclusion -------------------------------
(***************************************************************************)
(* What withLock promises its callers, and what BridgeEngine takes its     *)
(* lock to be: a mutation begins only when none runs, and then runs alone  *)
(* until it ends or its process goes down.  SiteLock implements it with a  *)
(* promise chain and a lock file, as far as SiteLock_proofs says.          *)
(***************************************************************************)
CONSTANTS Req    \* requests that ask for the lock
VARIABLES running \* those whose mutation is under way

Init == running = {}

Begin(q) == running = {} /\ running' = {q}

End == running # {} /\ running' = {}

Next == (\E q \in Req : Begin(q)) \/ End

Spec == Init /\ [][Next]_running
=============================================================================
