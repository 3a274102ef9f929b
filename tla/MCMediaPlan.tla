------------------------------ MODULE MCMediaPlan ------------------------------
(* Instances of MediaPlan for TLC.  Slots are interchangeable, so of two free *)
(* ones the first is taken.                                                   *)
EXTENDS MediaPlan, TLC

FirstFree ==
  /\ \A c, d \in Request : c < d /\ ctl[c] = Idle /\ ctl[d] = Idle => ctl'[d] = Idle
  /\ \A e, f \in Exec : e < f /\ Rests(e) /\ Rests(f) => exec'[f] = exec[f]

MCSpec ==
  /\ Init /\ [][Next /\ FirstFree]_vars
  /\ \A c \in Request : WF_vars(Proceed(c))
  /\ \A e \in Exec : WF_vars(Go(e))
  /\ \A t \in Task : SF_vars(Due(t))
=============================================================================
