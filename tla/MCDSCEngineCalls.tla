-------------------------- MODULE MCDSCEngineCalls ---------------------------
(* Small instances of DSCEngineCalls: tokens without faults, and tokens with *)
(* at most one.                                                             *)
EXTENDS MCDSCEngine, DSCEngineCalls

CONSTANT WethOwners

\* Not every user has weth.
SomeWithoutWeth ==
  [t \in Token |-> [h \in Holder |->
     IF h \in WethOwners \/ (h \in User /\ t # weth) THEN InitialWallet ELSE 0]]

NoFaults == {{}}

SingleFaults == {{}} \cup {{fault} : fault \in Fault}
=============================================================================
