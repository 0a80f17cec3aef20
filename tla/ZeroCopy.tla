------------------------------ MODULE ZeroCopy ------------------------------
(***************************************************************************)
(* udo_file_ops_zero_copy of src/src/file-ops.c: every call splices from   *)
(* an input into the pipe of the context, then from the pipe to an output. *)
(* The program copies several files through one context, and a splice may  *)
(* move fewer bytes than it was asked for, or fail.                        *)
(***************************************************************************)
EXTENDS Naturals, Sequences, FiniteSetsExt

CONSTANTS Copies,  \* what is copied: an input and an output each
          Length,  \* bytes in every input
          MaxSize, \* bound: what a caller asks for in one call
          Cap      \* PIPE_MAX_BUFF_SIZE, which is what the pipe holds

ASSUME ZeroCopyAssumption ==
  Length \in Nat /\ MaxSize \in Nat \ {0} /\ Cap \in Nat \ {0}

VARIABLES
  in,    \* in[k]: *in_off, how much of the input has been read
  pipe,  \* the bytes in the pipe: <<k, position in the input of k>>
  out,   \* out[k]: the bytes in the output
  pc, copy, size,  \* the call: where it is, and its file_info
  ret,   \* ret[k]: what the last call for k returned
  short, failed  \* history: a splice from the pipe left bytes; failed

vars == <<in, pipe, out, pc, copy, size, ret, short, failed>>

Bytes == Copies \X (1 .. Length)

TypeOK ==
  /\ in \in [Copies -> 0 .. Length]
  /\ pipe \in Seq(Bytes) /\ Len(pipe) <= Cap
  /\ out \in [Copies -> Seq(Bytes)]
  /\ pc \in {"idle", "in", "out"} /\ (pc = "out" => pipe # <<>>)
  /\ copy \in Copies /\ size \in 1 .. MaxSize
  /\ ret \in [Copies -> {"none", "moved", "end", "error"}]
  /\ short \in BOOLEAN /\ failed \in BOOLEAN

Init ==
  /\ in = [k \in Copies |-> 0]
  /\ pipe = <<>>
  /\ out = [k \in Copies |-> <<>>]
  /\ pc = "idle" /\ copy \in Copies /\ size = 1
  /\ ret = [k \in Copies |-> "none"]
  /\ short = FALSE /\ failed = FALSE

Return(r) == pc' = "idle" /\ ret' = [ret EXCEPT ![copy] = r]
Asked     == Min({size, Cap})

-----------------------------------------------------------------------------
\* A call with a size other than 0; the others return at once.  A copy that was
\* told to be at its end is not called for again.
Call(k, n) ==
  /\ pc = "idle" /\ ret[k] # "end"
  /\ pc' = "in" /\ copy' = k /\ size' = n
  /\ UNCHANGED <<in, pipe, out, ret, short, failed>>

\* The kernel waits while the pipe is full, at the end of the input too.
In(n) ==
  /\ pc = "in" /\ Len(pipe) < Cap
  /\ n <= Cap - Len(pipe) /\ n <= Length - in[copy]
  /\ in' = [in EXCEPT ![copy] = @ + n]
  /\ pipe' = pipe \o [i \in 1 .. n |-> <<copy, in[copy] + i>>]
  /\ UNCHANGED <<out, copy, size, short, failed>>

\* Mutant of SpliceIn: fewer bytes than asked for are taken for a short copy,
\* which is returned.
SpliceInReturns ==
  \E n \in 1 .. Asked : /\ In(n)
                        /\ IF n < Asked THEN Return("moved") ELSE pc' = "out" /\ UNCHANGED ret

SpliceIn == \E n \in 1 .. Asked : In(n) /\ pc' = "out" /\ UNCHANGED ret

SpliceInEnd ==
  /\ pc = "in" /\ Len(pipe) < Cap /\ in[copy] = Length
  /\ Return("end")
  /\ UNCHANGED <<in, pipe, out, copy, size, short, failed>>

\* Mutant of SpliceInFails: the error is not looked at.
SpliceInIgnored ==
  /\ pc = "in"
  /\ pc' = "out"
  /\ UNCHANGED <<in, pipe, out, copy, size, ret, short, failed>>

\* splice fails, with EINTR for instance, which ends a wait too.
SpliceInFails ==
  /\ pc = "in"
  /\ Return("error")
  /\ UNCHANGED <<in, pipe, out, copy, size, short, failed>>

\* The output may take only some of the bytes that it was offered.
Out(n, offered) ==
  /\ pc = "out" /\ n <= offered
  /\ out' = [out EXCEPT ![copy] = @ \o SubSeq(pipe, 1, n)]
  /\ pipe' = SubSeq(pipe, n + 1, Len(pipe))
  /\ short' = (short \/ n < offered)
  /\ Return("moved")
  /\ UNCHANGED <<in, copy, size, failed>>

\* Mutant of SpliceOut: one byte less is asked for.
SpliceOutLess ==
  \E n \in 0 .. Len(pipe) : n > 0 /\ Out(n, Min({Asked, Len(pipe) - 1}))

SpliceOut == \E n \in 1 .. Len(pipe) : Out(n, Min({Asked, Len(pipe)}))

SpliceOutFails ==
  /\ pc = "out"
  /\ short' = TRUE /\ failed' = TRUE
  /\ Return("error")
  /\ UNCHANGED <<in, pipe, out, copy, size>>

Splice == SpliceIn \/ SpliceInEnd \/ SpliceOut

Next == \/ \E k \in Copies, n \in 1 .. MaxSize : Call(k, n)
        \/ Splice \/ SpliceInFails \/ SpliceOutFails

Spec == Init /\ [][Next]_vars

\* A splice that need not wait returns.  The pipe holds a number of pages that
\* may each be partly used, so with any bytes left it may be full.  No error
\* need occur.
FairSpec == Spec /\ WF_vars(Splice /\ (pc = "in" => pipe = <<>>))

-----------------------------------------------------------------------------
(* Properties.                                                             *)

Whole(k, n) == [i \in 1 .. n |-> <<k, i>>]

\* As long as the outputs take what they are offered, two copies do not get into
\* each other's output, nothing is skipped or repeated, and a caller that was told
\* of the end has all the bytes: inputs that yield less than asked for, errors of the
\* first splice and the alternation of copies do no harm.
WholeCopies ==
  ~short => \A k \in Copies :
    /\ out[k] = Whole(k, Len(out[k]))
    /\ ret[k] = "end" => out[k] = Whole(k, Length)

\* Under the same condition a call returns: nothing is left in the pipe that only
\* the thread that waits for room in it could take out.
Returns == [](pc # "idle" /\ ~short => <>(pc = "idle"))

\* The same without the condition.
AlwaysReturns == [](pc # "idle" => <>(pc = "idle"))

\* file-ops.h of udo_file_ops_zero_copy: it "Sets data in a file at a given
\* offset", and the error is the caller's only sign that it did not.
NoSilentLoss ==
  \A k \in Copies : ret[k] = "end" => failed \/ out[k] = Whole(k, Length)
=============================================================================
