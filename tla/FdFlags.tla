------------------------------ MODULE FdFlags ------------------------------
(***************************************************************************)
(* udo_file_ops_set_fd_flags of src/src/file-ops.c: the status flags of an *)
(* open file are read and written back in two calls of fcntl, by threads   *)
(* (or processes) that share what was opened.                              *)
(***************************************************************************)
EXTENDS Naturals

CONSTANTS Setters,  \* the threads
          Flags,    \* the status flags, such as O_NONBLOCK and O_APPEND
          MaxCalls  \* bound: how many calls there are

ASSUME FdFlagsAssumption == MaxCalls \in Nat

VARIABLES
  status,  \* the flags that are set
  between, \* the callers between the two calls of fcntl
  opt,     \* what each of them has read, with its own flags
  asks,    \* the flags that each caller was given
  calls,   \* how many calls there were
  first,   \* history: the flags of the open
  done,    \* history: those that a call has reported as set
  crossed  \* history: two calls overlapped

flagVars == <<status, between, opt, asks, calls, first, done, crossed>>

FlagsTypeOK ==
  /\ {status, first, done} \subseteq SUBSET Flags
  /\ {opt, asks} \subseteq [Setters -> SUBSET Flags] /\ between \subseteq Setters
  /\ calls \in 0 .. MaxCalls /\ crossed \in BOOLEAN

FlagsInit ==
  /\ status \in SUBSET Flags /\ first = status /\ done = {}
  /\ between = {} /\ opt = [c \in Setters |-> {}] /\ asks = [c \in Setters |-> {}]
  /\ calls = 0 /\ crossed = FALSE

-----------------------------------------------------------------------------
\* fcntl with F_GETFL, which fails without a trace.
GetFlags(c, w) ==
  /\ c \notin between /\ between' = between \cup {c}
  /\ calls < MaxCalls /\ calls' = calls + 1
  /\ opt' = [opt EXCEPT ![c] = status \cup w] /\ asks' = [asks EXCEPT ![c] = w]
  /\ crossed' = (crossed \/ between # {})
  /\ UNCHANGED <<status, first, done>>

FlagsReturn(c) ==
  /\ c \in between /\ between' = between \ {c}
  /\ opt' = [opt EXCEPT ![c] = {}] /\ asks' = [asks EXCEPT ![c] = {}]
  /\ UNCHANGED <<calls, first, crossed>>

\* Mutant of SetFlags: the flags that were read are not kept.
SetOnly(c) ==
  /\ status' = asks[c] /\ done' = done \cup asks[c] /\ FlagsReturn(c)

\* fcntl with F_SETFL: 0 is returned.
SetFlags(c) ==
  /\ status' = opt[c] /\ done' = done \cup asks[c] /\ FlagsReturn(c)

\* It fails: -1 is returned.
SetFlagsFails(c) == FlagsReturn(c) /\ UNCHANGED <<status, done>>

FlagsNext ==
  \E c \in Setters : \/ \E w \in SUBSET Flags : GetFlags(c, w)
                     \/ SetFlags(c) \/ SetFlagsFails(c)

FlagsSpec == FlagsInit /\ [][FlagsNext]_flagVars

-----------------------------------------------------------------------------
(* Properties.                                                             *)

\* Until two calls overlap, the flags that are set are those of the open and all that
\* a call has reported as set, whatever failed; and an overlap loses flags, but sets
\* none that nobody asked for.
FlagsKept == /\ ~ crossed => status = first \cup done
             /\ status \subseteq first \cup done

\* file-ops.h of set_fd_flags: "Set the file status flags to the value specified by
\* parameter".  (The code: adds them to those that are set.)
SetToValue == [][status' # status => \E c \in Setters : status' = asks[c]]_flagVars

\* A flag that a call has reported as set is set.  (The code: not when another call
\* had read the flags before.)
NoFlagLost == done \subseteq status
=============================================================================
