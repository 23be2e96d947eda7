---------------------------- MODULE MCDeployment -----------------------------
(* A small instance of Deployment: the scale and the wallets of MCDSCEngine. *)
EXTENDS MCDSCEngine, Deployment
=============================================================================
