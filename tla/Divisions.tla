----------------------------- MODULE Divisions -----------------------------
(***************************************************************************)
(* Three components that divide one mapping, each alone with its memory:   *)
(* the pool (JobPoolLayout), the shared object (ShmLayout) and the region  *)
(* that blocks are cut from (Mm).  Which of them runs is chosen once.      *)
(***************************************************************************)
EXTENDS JobPoolLayout, ShmLayout, Mm

VARIABLE which   \* the component that runs

allVars == <<which, vars, shmVars, mmVars>>

\* The components that do not run have one state each.
AllInit ==
  /\ which \in {"pool", "shm", "region"}
  /\ Init /\ ShmInit /\ MmInit
  /\ which # "pool" => count = 1 /\ \A s \in Sizes : size <= s
  /\ which # "region" => buff = Header + 1

AllNext ==
  \/ which = "pool" /\ Next /\ UNCHANGED <<which, shmVars, mmVars>>
  \/ which = "shm" /\ ShmNext /\ UNCHANGED <<which, vars, mmVars>>
  \/ which = "region" /\ MmNext /\ UNCHANGED <<which, vars, shmVars>>

AllSpec == AllInit /\ [][AllNext]_allVars

-----------------------------------------------------------------------------
\* Every variable of the three has its type: in particular, no number of the pool
\* leaves 32 bits unless the sizes asked for do, and mm->offset stays in the region.
AllTypeOK == which \in {"pool", "shm", "region"} /\ TypeOK /\ ShmTypeOK /\ MmTypeOK
=============================================================================
