------------------------------ MODULE FileOps ------------------------------
(***************************************************************************)
(* The four things that udo_file_ops does with files, each alone: copying  *)
(* through its pipe (ZeroCopy), mapping (FileMap), paths and directories   *)
(* (FilePaths), and status flags (FdFlags).  Which of them runs is chosen  *)
(* once; the others stay in one state.                                     *)
(***************************************************************************)
EXTENDS ZeroCopy, FileMap, FilePaths, FdFlags

VARIABLE task   \* the one that runs

fileVars == <<task, vars, mapVars, pathVars, flagVars>>

Tasks == {"copy", "map", "paths", "flags"}

FilesInit ==
  /\ task \in Tasks
  /\ Init /\ MapInit /\ PathsInit /\ FlagsInit
  /\ task # "copy" => copy = CHOOSE k \in Copies : TRUE
  /\ task # "map" => file = Absent
  /\ task # "paths" => path = CHOOSE p \in Paths : TRUE
  /\ task # "flags" => status = {}

FilesNext ==
  \/ task = "copy" /\ Next /\ UNCHANGED <<task, mapVars, pathVars, flagVars>>
  \/ task = "map" /\ MapNext /\ UNCHANGED <<task, vars, pathVars, flagVars>>
  \/ task = "paths" /\ PathsNext /\ UNCHANGED <<task, vars, mapVars, flagVars>>
  \/ task = "flags" /\ FlagsNext /\ UNCHANGED <<task, vars, mapVars, pathVars>>

\* A splice that need not wait returns, see FairSpec of ZeroCopy.
FilesSpec ==
  /\ FilesInit /\ [][FilesNext]_fileVars
  /\ WF_vars(Splice /\ (pc = "in" => pipe = <<>>))

-----------------------------------------------------------------------------
\* Every variable of the four has its type.
FilesTypeOK == task \in Tasks /\ TypeOK /\ MapTypeOK /\ PathsTypeOK /\ FlagsTypeOK
=============================================================================
