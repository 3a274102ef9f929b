----------------------------- MODULE MCDeployment -----------------------------
(* Instances of Deployment for TLC: see the .cfg files.                    *)
EXTENDS Deployment, TLC
=============================================================================
