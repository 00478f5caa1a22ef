------------------------------ MODULE MCDashboard ------------------------------
(***************************************************************************)
(* The repository dashboard's components side by side.  They meet through  *)
(* the registry and the session, whose changes each of them already takes  *)
(* at any time, so a behaviour moves one of them: part.                    *)
(***************************************************************************)
EXTENDS RepositoryBatch, SubmoduleActions, RepositoryRegistry, AutoFetch

CONSTANT Parts

MCIntervalFor == [p \in Remotes |-> IF p = Home THEN 2 ELSE 1]

VARIABLE part

Init ==
  /\ part \in Parts
  /\ BatchInit /\ SubInit /\ RegInit /\ AfInit
  /\ part # "registry" => ~regFilter /\ \A p \in Known : ~regFile[p].grouped

Next ==
  /\ UNCHANGED part
  /\ \/ part = "batch" /\ BatchNext /\ UNCHANGED <<subVars, regVars, afVars>>
     \/ part = "submodules" /\ SubNext /\ UNCHANGED <<batchVars, regVars, afVars>>
     \/ part = "registry" /\ RegNext /\ UNCHANGED <<batchVars, subVars, afVars>>
     \/ part = "fetch" /\ AfNext /\ UNCHANGED <<batchVars, subVars, regVars>>

Spec == Init /\ [][Next]_<<part, batchVars, subVars, regVars, afVars>> /\ BatchFairness

\* Every component's state has its type.
TypesOK == BatchTypeOK /\ SubTypeOK /\ RegTypeOK /\ AfTypeOK
================================================================================
