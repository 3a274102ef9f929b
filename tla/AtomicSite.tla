------------------------------ MODULE AtomicSite ------------------------------
(***************************************************************************)
(* What the engine promises of a site: a change of several files is taken  *)
(* up, and then becomes visible in one step, or is dropped and leaves no   *)
(* trace.  BridgeEngine implements it one file at a time.                  *)
(***************************************************************************)
CONSTANTS
  File,     \* paths of the site
  Content   \* what a path can hold

VARIABLES
  site,     \* the files, without unfinished work
  pending   \* the trees that unfinished work leads to

vars == <<site, pending>>

Tree == [File -> Content]

Init == site \in Tree /\ pending = {}

\* One change at a time is taken up.
Start(t) == pending = {} /\ pending' = {t} /\ UNCHANGED site

Commit == site' \in pending /\ pending' = {}

Abort == pending # {} /\ pending' = {} /\ UNCHANGED site

Next == (\E t \in Tree : Start(t)) \/ Commit \/ Abort

Spec == Init /\ [][Next]_vars
=============================================================================
