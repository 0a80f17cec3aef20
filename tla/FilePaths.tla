----------------------------- MODULE FilePaths -----------------------------
(***************************************************************************)
(* Paths and directories in src/src/file-ops.c: the buffer of a context    *)
(* that holds the directory and the name of its file with a '\0' between   *)
(* them, the directories that create makes on the way, and remove_dir,     *)
(* which another thread runs and which goes on whatever fails.  Another    *)
(* program makes symbolic links.  Every name is one character; "o" is one  *)
(* that UDO_STRTOU takes for ".." ('\\' is, the sum of both is 92).  A     *)
(* step is one system call, or one call of a getter.                       *)
(***************************************************************************)
EXTENDS Naturals, Sequences, SequencesExt, FiniteSetsExt

CONSTANTS Paths,    \* the paths that create is given
          Tops,     \* the directories that remove_dir is given
          Links,    \* symbolic links that lead out of them, or nowhere
          MaxPaths  \* bound: how many creates there are

ASSUME FilePathsAssumption ==
  /\ Paths \cup Tops \cup Links \subseteq Seq({"/", "a", "b", "o"}) \ {<<>>}
  /\ MaxPaths \in Nat

\* One '/' between two names, and none at the end.
ASSUME NamesAreCharacters ==
  \A p \in Paths \cup Tops \cup Links :
    p[Len(p)] # "/" /\ \A i \in 1 .. Len(p) - 1 : p[i] = "/" <=> p[i + 1] # "/"

\* create is given no path through a link.
ASSUME LinksAreAside == \A l \in Links, p \in Paths \cup Tops : ~ IsPrefix(l, p)

VARIABLES
  dirs, files, \* the paths of the directories and of the files that exist
  step,        \* where create is: nothing, making directories, opening, open
  path,        \* file_info->fname
  slash,       \* how far the loop of p_create_directories is
  buffer,      \* full_path, up to its end
  fnameOff,    \* fname_off
  joined,      \* history: get_full_path was called after the last reset
  paths,       \* how many creates there were
  stack,       \* the calls of remove_dir that run: directory, entries read
  cleared,     \* what remove_dir has removed last, or <<>>
  spared,      \* history: what a call that failed in it left, until something is created
  emptied,     \* the links to a directory that remove_dir has emptied
  disturbed    \* history: something was created while it ran, or removed while create did,
               \* or mkdir failed in create for another reason than its directories

pathVars == <<dirs, files, step, path, slash, buffer, fnameOff, joined, paths, stack, cleared,
              spared, emptied, disturbed>>

PathsTypeOK ==
  /\ dirs \cup files \subseteq Seq({"/", "a", "b", "o"})
  /\ step \in {"none", "mkdir", "open", "ready"}
  /\ path \in Paths /\ slash \in 0 .. Len(path)
  /\ buffer \in Seq({"/", "a", "b", "o", "nul"}) /\ fnameOff \in Nat
  /\ joined \in BOOLEAN /\ paths \in 0 .. MaxPaths
  /\ \A i \in DOMAIN stack : stack[i].dir \in Seq({"/", "a", "b", "o"})
  /\ cleared \in {<<>>} \cup Tops /\ disturbed \in BOOLEAN
  /\ spared \subseteq Seq({"/", "a", "b", "o"}) /\ emptied \subseteq Links

PathsInit ==
  /\ dirs = {} /\ files = {}
  /\ step = "none" /\ path \in Paths /\ slash = 0
  /\ buffer = <<>> /\ fnameOff = 0 /\ joined = FALSE /\ paths = 0
  /\ stack = <<>> /\ cleared = <<>> /\ spared = {} /\ emptied = {} /\ disturbed = FALSE

Slashes(p) == {i \in DOMAIN p : p[i] = "/"}
LastSlash(p) == Max({0} \cup Slashes(p))
\* <<>> is the root, and the directory that the process is in.
Parent(p) == SubSeq(p, 1, Max({LastSlash(p), 1}) - 1)
Name(p)   == SubSeq(p, LastSlash(p) + 1, Len(p))
Exists(d) == d = <<>> \/ d \in dirs

-----------------------------------------------------------------------------
\* udo_file_ops_create; create_dir or not.
PathCreate(p, makes) ==
  /\ step = "none" /\ paths < MaxPaths /\ paths' = paths + 1
  /\ path' = p /\ slash' = 0 /\ step' = IF makes THEN "mkdir" ELSE "open"
  /\ cleared' = <<>> /\ spared' = {} /\ disturbed' = (stack # <<>>)
  /\ UNCHANGED <<dirs, files, buffer, fnameOff, joined, stack, emptied>>

\* mkdir, or its failure for lack of room, rights and so on.
MakeDir(d) ==
  \/ /\ dirs' = IF d # <<>> /\ d \notin files /\ Exists(Parent(d)) THEN dirs \cup {d} ELSE dirs
     /\ UNCHANGED disturbed
  \/ disturbed' = TRUE /\ UNCHANGED dirs

\* p_create_directories: whatever mkdir returns, at each '/' from the left.
MakeDirectories ==
  /\ step = "mkdir"
  /\ LET left == {i \in Slashes(path) : i > slash} IN
       IF left = {} THEN step' = "open" /\ UNCHANGED <<dirs, slash, disturbed>>
       ELSE /\ slash' = Min(left) /\ MakeDir(SubSeq(path, 1, Min(left) - 1))
            /\ UNCHANGED step
  /\ UNCHANGED <<files, path, buffer, fnameOff, joined, paths, stack, cleared, spared, emptied>>

\* p_set_fname_off: the search ends at the first character at the latest, which is
\* then overwritten, '/' or not.
Split(p) == LET i == Max({1} \cup Slashes(p)) IN
  buffer' = [p EXCEPT ![i] = "nul"] /\ fnameOff' = i

OpenPath ==
  /\ step = "open" /\ Exists(Parent(path)) /\ path \notin dirs
  /\ files' = files \cup {path}
  /\ Split(path) /\ step' = "ready"
  /\ UNCHANGED <<dirs, path, slash, joined, paths, stack, cleared, spared, emptied, disturbed>>

ClearPath == buffer' = <<>> /\ fnameOff' = 0 /\ joined' = FALSE /\ step' = "none"

OpenPathFails ==
  /\ step = "open" /\ ClearPath
  /\ UNCHANGED <<dirs, files, path, slash, paths, stack, cleared, spared, emptied, disturbed>>

PathDestroy ==
  /\ step = "ready" /\ ClearPath
  /\ UNCHANGED <<dirs, files, path, slash, paths, stack, cleared, spared, emptied, disturbed>>

-----------------------------------------------------------------------------
\* The string that starts at an index; "null" for the pointer.
String(b, i) == LET ends == {j \in i .. Len(b) : b[j] = "nul"} IN
  SubSeq(b, i, IF ends = {} THEN Len(b) ELSE Min(ends) - 1)

NoDirectory == buffer = <<>> \/ buffer[1] = "nul"

GetFilename == IF fnameOff = 0 THEN "null" ELSE String(buffer, fnameOff + 1)
GetDirname  == IF NoDirectory THEN "null" ELSE String(buffer, 1)

\* get_full_path puts the '/' back, and returns the buffer; reset takes it away.
GetFullPath ==
  /\ step = "ready" /\ ~ NoDirectory /\ fnameOff # 0
  /\ buffer' = [buffer EXCEPT ![fnameOff] = "/"] /\ joined' = TRUE
  /\ UNCHANGED <<dirs, files, step, path, slash, fnameOff, paths, stack, cleared, spared, emptied,
                 disturbed>>

\* Mutant of ResetFullPath: one character late.
ResetNext ==
  /\ step = "ready" /\ ~ NoDirectory /\ fnameOff \in 1 .. Len(buffer) - 1
  /\ buffer' = [buffer EXCEPT ![fnameOff + 1] = "nul"] /\ joined' = FALSE
  /\ UNCHANGED <<dirs, files, step, path, slash, fnameOff, paths, stack, cleared, spared, emptied,
                 disturbed>>

ResetFullPath ==
  /\ step = "ready" /\ ~ NoDirectory /\ fnameOff # 0
  /\ buffer' = [buffer EXCEPT ![fnameOff] = "nul"] /\ joined' = FALSE
  /\ UNCHANGED <<dirs, files, step, path, slash, fnameOff, paths, stack, cleared, spared, emptied,
                 disturbed>>

-----------------------------------------------------------------------------
\* remove_dir, and its calls for the directories in it.
Push(d) == stack' = Append(stack, [dir |-> d, read |-> {}])
Top     == Last(stack)
Unread  == {e \in dirs \cup files : Parent(e) = Top.dir /\ e \notin Top.read}

RemoveStart(d) ==
  /\ stack = <<>> /\ d \in dirs
  /\ Push(d) /\ cleared' = <<>> /\ spared' = {} /\ disturbed' = (step # "none")
  /\ UNCHANGED <<dirs, files, step, path, slash, buffer, fnameOff, joined, paths, emptied>>

\* Mutant of RemoveEntry: a directory in it is removed like a file.
RemoveAnyEntry ==
  /\ stack # <<>>
  /\ \E e \in Unread :
       /\ files' = files \ {e}
       /\ stack' = [stack EXCEPT ![Len(stack)].read = @ \cup {e}]
  /\ UNCHANGED <<dirs, step, path, slash, buffer, fnameOff, joined, paths, cleared, spared,
                 emptied, disturbed>>

\* readdir and stat, and then remove, or a call for a directory, which has to be read;
\* or stat, that call's opendir or remove fails, and the loop goes on.  A link to a
\* directory is gone into as well: what is in there goes, and the rmdir of the link fails.
RemoveEntry ==
  /\ stack # <<>>
  /\ \E e \in Unread :
       LET rest == [stack EXCEPT ![Len(stack)].read = @ \cup {e}] IN
       \/ Name(e) = <<"o">> /\ stack' = rest /\ UNCHANGED <<files, spared, emptied>>
       \/ /\ Name(e) # <<"o">> /\ e \in dirs /\ stack' = Append(rest, [dir |-> e, read |-> {}])
          /\ UNCHANGED <<files, spared, emptied>>
       \/ /\ Name(e) # <<"o">> /\ e \in files /\ files' = files \ {e}
          /\ stack' = rest /\ UNCHANGED <<spared, emptied>>
       \/ /\ Name(e) # <<"o">> /\ spared' = spared \cup {e}
          /\ emptied' \in {emptied, emptied \cup ({e} \cap Links)}
          /\ stack' = rest /\ UNCHANGED files
  /\ UNCHANGED <<dirs, step, path, slash, buffer, fnameOff, joined, paths, cleared, disturbed>>

\* No entry is left: rmdir, whatever it returns, and 0.
RemoveReturn ==
  /\ stack # <<>> /\ Unread = {}
  /\ IF \E e \in dirs \cup files : Parent(e) = Top.dir
       THEN UNCHANGED <<dirs, spared>>
       ELSE \/ dirs' = dirs \ {Top.dir} /\ UNCHANGED spared
            \/ spared' = spared \cup {Top.dir} /\ UNCHANGED dirs
  /\ stack' = Front(stack)
  /\ cleared' = IF Len(stack) = 1 THEN Top.dir ELSE cleared
  /\ UNCHANGED <<files, step, path, slash, buffer, fnameOff, joined, paths, emptied, disturbed>>

\* Another program makes a symbolic link.
AddLink(l) ==
  /\ l \notin dirs \cup files /\ Exists(Parent(l)) /\ files' = files \cup {l}
  /\ emptied' = emptied \ {l}
  /\ cleared' = <<>> /\ spared' = {} /\ disturbed' = (disturbed \/ stack # <<>>)
  /\ UNCHANGED <<dirs, step, path, slash, buffer, fnameOff, joined, paths, stack>>

PathsNext ==
  \/ \E p \in Paths, makes \in BOOLEAN : PathCreate(p, makes)
  \/ MakeDirectories \/ OpenPath \/ OpenPathFails \/ PathDestroy
  \/ GetFullPath \/ ResetFullPath
  \/ \E d \in Tops : RemoveStart(d)
  \/ RemoveEntry \/ RemoveReturn
  \/ \E l \in Links : AddLink(l)

PathsSpec == PathsInit /\ [][PathsNext]_pathVars

-----------------------------------------------------------------------------
(* Properties.                                                             *)

\* create_dir makes what the file needs to be opened, whichever of its directories
\* existed, when nothing is removed meanwhile, no file is in the way and no mkdir fails
\* for lack of room or rights; and then, whatever getters are called, the name and the
\* directory are those of the path, the latter not between get_full_path and a reset.
PathRight ==
  /\ step = "open" /\ slash > 0 /\ ~ disturbed
     /\ path \notin dirs /\ (\A f \in files : ~ IsStrictPrefix(f, path)) => Exists(Parent(path))
  /\ step = "ready" /\ LastSlash(path) > 1 =>
       /\ GetFilename = Name(path)
       /\ GetDirname = IF joined THEN path ELSE Parent(path)

\* When remove_dir has returned 0 and nothing was created meanwhile, what is left is,
\* holds or is in something that has a name that is taken for ".." or was left by a
\* stat, opendir, remove or rmdir that failed.
RemovedAll ==
  cleared # <<>> /\ ~ disturbed =>
    \A e \in dirs \cup files : IsPrefix(cleared, e) =>
      \E o \in dirs \cup files :
        (Name(o) = <<"o">> \/ o \in spared) /\ (IsPrefix(e, o) \/ IsPrefix(o, e))

\* file-ops.h of remove_dir, "Recursively delete files and directories", "on success:
\* 0", when no call that it makes has failed.  (The code: not those whose name it takes
\* for "..".)
AlwaysRemoved ==
  cleared # <<>> /\ ~ disturbed /\ spared = {} => \A e \in dirs \cup files : ~ IsPrefix(cleared, e)

\* file-ops.h of remove_dir, "on failure: -1".  (The code: 0, whatever fails once the
\* directory is open.)
FailureTold == cleared # <<>> => spared = {}

\* file-ops.h of remove_dir, "contained inside caller defined directory".  (The
\* code: also what is in a directory that a symbolic link there leads to.)
StaysInside == emptied = {}

\* file-ops.h of get_filename, "File name of open file".  (The code: not of a path
\* without a directory.)
AlwaysSplit == step = "ready" /\ ~ joined => GetFilename = Name(path)
=============================================================================
