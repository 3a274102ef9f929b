---------------------------- MODULE MCIdempotency ----------------------------
(* Instances of Idempotency.  Processes are interchangeable: the first     *)
(* request arrives at a fixed one.                                         *)
EXTENDS Idempotency

MCInit == Init /\ home[1] = CHOOSE p \in Proc : TRUE
MCSpec == MCInit /\ [][Next]_vars /\ \A q \in Req : WF_vars(Work(q))
=============================================================================
