------------------------------ MODULE FileMap ------------------------------
(***************************************************************************)
(* The mapped side of src/src/file-ops.c: udo_file_ops_create looks at a   *)
(* file, opens it, gives it a length and maps it; get_data, get_line and   *)
(* get_line_count read what is mapped; destroy may cut the file.  Several  *)
(* contexts, in one process or in several, map one file, and others write  *)
(* it.  A step is one system call.                                         *)
(***************************************************************************)
EXTENDS Integers, Sequences, SequencesExt, FiniteSetsExt

CONSTANTS Maps,       \* the contexts
          Page,       \* UDO_PAGE_SIZE
          AskedSizes, \* the sizes that are asked for
          Contents,   \* what may be in the file at first
          MaxLength,  \* bound: how long others make the file
          MaxOpens    \* bound: how many creates there are

ASSUME FileMapAssumption ==
  /\ Page \in Nat \ {0} /\ AskedSizes \subseteq Nat /\ AskedSizes # {}
  /\ {MaxLength, MaxOpens} \subseteq Nat
  /\ Contents \subseteq Seq({"x", "newline"})

Absent == <<"absent">>

VARIABLES
  file,    \* the bytes of the file, or Absent
  at,      \* where each context is
  info,    \* what its create info asks for: size, offset
  found,   \* what stat returned: a length, or -1 for a failure
  dataSz, allocSz, \* data_sz and alloc_sz
  opens,   \* how many creates there were
  saved,   \* history: the file when nobody had it last
  shared   \* history: since then more than one had it

mapVars == <<file, at, info, found, dataSz, allocSz, opens, saved, shared>>

Chars == {"x", "newline", "zero"}
Infos == [size : AskedSizes, offset : {0, Page}]

NewInfo == [size |-> Min(AskedSizes), offset |-> 0]

MapTypeOK ==
  /\ {file, saved} \subseteq {Absent} \cup Seq(Chars)
  /\ at \in [Maps -> {"none", "open", "truncate", "map", "ready", "written"}]
  /\ info \in [Maps -> Infos]
  /\ found \in [Maps -> Nat \cup {-1}]
  /\ dataSz \in [Maps -> Nat] /\ allocSz \in [Maps -> Nat]
  /\ opens \in 0 .. MaxOpens /\ shared \in BOOLEAN

MapInit ==
  /\ file \in {Absent} \cup Contents /\ saved = file
  /\ at = [m \in Maps |-> "none"]
  /\ info = [m \in Maps |-> NewInfo]
  /\ found = [m \in Maps |-> -1]
  /\ dataSz = [m \in Maps |-> 0] /\ allocSz = [m \in Maps |-> 0]
  /\ opens = 0 /\ shared = FALSE

Content       == IF file = Absent THEN <<>> ELSE file
\* UDO_BYTE_ALIGN to a page.
Pages(n)    == ((n + Page - 1) \div Page) * Page
\* ftruncate: bytes are cut off, or zeros appended.
Resized(n)  == [i \in 1 .. n |-> IF i <= Len(Content) THEN Content[i] ELSE "zero"]
Others(m)   == {n \in Maps \ {m} : at[n] # "none"}
MapGoto(m, label) == at' = [at EXCEPT ![m] = label]

-----------------------------------------------------------------------------
\* udo_file_ops_create: stat.
Stat(m) ==
  /\ at[m] = "none" /\ opens < MaxOpens /\ opens' = opens + 1
  /\ \E i \in Infos : info' = [info EXCEPT ![m] = i]
  /\ found' = [found EXCEPT ![m] = IF file = Absent THEN -1 ELSE Len(file)]
  /\ shared' = (shared \/ Others(m) # {})
  /\ MapGoto(m, "open")
  /\ UNCHANGED <<file, dataSz, allocSz, saved>>

\* open with O_CREAT, and the two sizes.
OpenFile(m) ==
  /\ at[m] = "open"
  /\ file' = Content
  /\ dataSz' = [dataSz EXCEPT ![m] = IF found[m] # -1 /\ info[m].size = 0 THEN found[m] ELSE 0]
  /\ allocSz' = [allocSz EXCEPT ![m] =
       Pages(IF found[m] # -1 /\ info[m].size = 0 THEN found[m] ELSE info[m].size)]
  /\ found' = [found EXCEPT ![m] = -1]
  /\ MapGoto(m, "truncate")
  /\ UNCHANGED <<info, opens, saved, shared>>

\* Mutant of Truncate: whatever was found.
TruncateAlways(m) ==
  /\ at[m] = "truncate"
  /\ file' = Resized(allocSz[m])
  /\ MapGoto(m, "map")
  /\ UNCHANGED <<info, found, dataSz, allocSz, opens, saved, shared>>

Truncate(m) ==
  /\ at[m] = "truncate"
  /\ file' = IF dataSz[m] = 0 THEN Resized(allocSz[m]) ELSE file
  /\ MapGoto(m, "map")
  /\ UNCHANGED <<info, found, dataSz, allocSz, opens, saved, shared>>

\* mmap; one of no bytes fails, and data is (void*)-1 in a context that is returned.
MapFile(m) ==
  /\ at[m] = "map"
  /\ MapGoto(m, "ready")
  /\ UNCHANGED <<file, info, found, dataSz, allocSz, opens, saved, shared>>

\* The context is freed or cleared; the last one leaves the file as it is then.
Left(m) ==
  /\ MapGoto(m, "none")
  /\ IF Others(m) = {} THEN saved' = file' /\ shared' = FALSE ELSE UNCHANGED <<saved, shared>>
  /\ info' = [info EXCEPT ![m] = NewInfo] /\ found' = [found EXCEPT ![m] = -1]
  /\ dataSz' = [dataSz EXCEPT ![m] = 0] /\ allocSz' = [allocSz EXCEPT ![m] = 0]
  /\ UNCHANGED opens

\* open, ftruncate or mmap fails, and destroy is called with 0.
CreateFails(m) == at[m] \in {"open", "truncate", "map"} /\ UNCHANGED file /\ Left(m)

\* udo_file_ops_destroy
DestroyMap(m, n) ==
  /\ at[m] \in {"ready", "written"}
  /\ file' = IF n # 0 THEN Resized(n) ELSE file
  /\ Left(m)

\* The program writes a byte through the mapping; bound: once in each context.
WriteMap(m) ==
  /\ at[m] = "ready" /\ info[m].offset = 0
  /\ \E i \in 1 .. Min({allocSz[m], Len(Content)}), c \in {"x", "newline"} :
       Content[i] # c /\ file' = [file EXCEPT ![i] = c]
  /\ MapGoto(m, "written")
  /\ UNCHANGED <<info, found, dataSz, allocSz, opens, saved, shared>>

\* Somebody else creates, appends to or cuts the file.
Elsewhere ==
  /\ \/ file = Absent /\ file' = <<>>
     \/ Len(Content) < MaxLength /\ file' = Append(Content, "x")
     \/ file \notin {Absent, <<>>} /\ file' = Front(file)
  /\ IF \A m \in Maps : at[m] = "none" THEN saved' = file' /\ UNCHANGED shared
                                       ELSE shared' = TRUE /\ UNCHANGED saved
  /\ UNCHANGED <<at, info, found, dataSz, allocSz, opens>>

MapNext ==
  \/ \E m \in Maps :
       \/ Stat(m) \/ OpenFile(m) \/ Truncate(m) \/ MapFile(m) \/ CreateFails(m) \/ WriteMap(m)
       \/ \E n \in 0 .. MaxLength : DestroyMap(m, n)
  \/ Elsewhere

-----------------------------------------------------------------------------
(* The getters, which read what is mapped from offset 0 of d.              *)

LineCount(d) == FoldLeft(LAMBDA n, c : IF c = "newline" THEN n + 1 ELSE n, 0, d)

\* The loop of get_line: how far it came, its counter c, the lines seen.
Scan(d, p) ==
  FoldLeft(LAMBDA s, ch :
             IF s.line = p THEN s
             ELSE IF ch # "newline" THEN [s EXCEPT !.offset = @ + 1, !.c = @ + 1]
             ELSE IF s.line + 1 = p THEN [s EXCEPT !.line = p]
             ELSE [offset |-> s.offset + 1, c |-> 1, line |-> s.line + 1],
           [offset |-> 0, c |-> 0, line |-> 0], d)

\* Mutant of GetLine: the first line is like the others.
GetLineSame(d, p) == Scan(d, p).offset - (Scan(d, p).c - 1)

\* What get_line returns, as a distance from the start of the mapping.
GetLine(d, p) == Scan(d, p).offset - (Scan(d, p).c - (IF p = 1 THEN 0 ELSE 1))

-----------------------------------------------------------------------------
(* Properties.                                                             *)

Mapped(m) == SubSeq(Content, 1, dataSz[m])

\* Where line p starts.
StartsLine(d, p, o) ==
  /\ o \in 0 .. Len(d) /\ LineCount(SubSeq(d, 1, o)) = p - 1
  /\ o > 0 => d[o] = "newline"

\* What one context leaves, the next one finds, when they follow each other: all of
\* it without a size, with a size what fits, and data_sz counts it.
HandedOn ==
  \A m \in Maps : at[m] = "ready" /\ ~ shared =>
    LET d == IF saved = Absent THEN <<>> ELSE saved IN
    IF info[m].size = 0
      THEN file = d /\ dataSz[m] = Len(d)
      ELSE /\ Len(file) = Pages(info[m].size)
           /\ \A i \in 1 .. Min({Len(d), Len(file)}) : file[i] = d[i]

\* get_line finds every line that there is, the last one without a newline too, in
\* whatever the file holds while it is not cut below data_sz.
LineRight ==
  \A m \in Maps : at[m] \in {"ready", "written"} /\ info[m].offset = 0
                  /\ dataSz[m] \in 1 .. Len(Content) =>
    \A p \in 1 .. LineCount(Mapped(m)) + (IF Last(Mapped(m)) = "newline" THEN 0 ELSE 1) :
      StartsLine(Mapped(m), p, GetLine(Mapped(m), p))

\* file-ops.h of get_line, "on failure: NULL": what is returned is a line.  (The code:
\* always some pointer.)
OnlyLines ==
  \A m \in Maps : at[m] = "ready" /\ info[m].offset = 0 /\ dataSz[m] \in 1 .. Len(Content) =>
    \A p \in 1 .. MaxLength : StartsLine(Mapped(m), p, GetLine(Mapped(m), p))

\* file-ops.h of get_data, "Pointer to file data at a given offset": what data_sz
\* admits is in the file.  (The code: not from another offset.)
DataInFile ==
  \A m \in Maps : at[m] = "ready" /\ ~ shared => info[m].offset + dataSz[m] <= Pages(Len(Content))

\* file-ops.c of create, "If file exists and caller defined file_info->size set to
\* 0": then nothing is cut off.  (The code: unless it came into being after stat.)
NothingCut ==
  [][\A m \in Maps : at[m] = "truncate" /\ at'[m] = "map" /\ info[m].size = 0
                       => Len(file') >= Len(file)]_mapVars

MapSpec == MapInit /\ [][MapNext]_mapVars
=============================================================================
