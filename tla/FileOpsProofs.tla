---------------------------- MODULE FileOpsProofs ----------------------------
(***************************************************************************)
(* What udo_file_ops does with files, for any number of copies, contexts,  *)
(* paths and callers: the copies through its pipe, what one context leaves *)
(* for the next, the lines found there, the names in its buffer, the       *)
(* directories it makes and removes, and the status flags.  Each of them   *)
(* has an invariant of its own, which the steps of the others do not       *)
(* disturb.                                                                *)
(***************************************************************************)
EXTENDS FileOps, SequenceTheorems, WellFoundedInduction, TLAPS

-----------------------------------------------------------------------------
(* Numbers.                                                                *)

\* The order of the numbers.
Smaller == {p \in Nat \X Nat : p[1] < p[2]}

\* A set of numbers has a least one.
LEMMA LeastNumber ==
  ASSUME NEW T, T \subseteq Nat, T # {}
  PROVE  Min(T) \in T /\ \A y \in T : Min(T) <= y
<1>1. IsWellFoundedOn(Smaller, Nat)
  BY NatLessThanWellFounded DEF OpToRel, Smaller
<1>2. PICK x \in T : \A y \in T : ~ (<<y, x>> \in Smaller)
  BY <1>1, WFMin
<1>3. ASSUME NEW y \in T PROVE x <= y
  <2>1. x \in Nat /\ y \in Nat /\ ~ (<<y, x>> \in Smaller)
    BY <1>2
  <2>2. ~ (y < x)
    BY <2>1 DEF Smaller
  <2> QED BY <2>1, <2>2
<1>4. Min(T) = CHOOSE z \in T : \A y \in T : z <= y
  BY DEF Min
<1> QED BY <1>3, <1>4

\* A set of numbers up to n has a greatest one.
LEMMA GreatestNumber ==
  ASSUME NEW n \in Nat, NEW T, T \subseteq 0 .. n, T # {}
  PROVE  Max(T) \in T /\ \A y \in T : y <= Max(T)
<1> DEFINE U == {n - y : y \in T}
<1>1. U \subseteq Nat /\ U # {}
  <2>1. \A y \in T : n - y \in Nat
    OBVIOUS
  <2> QED BY <2>1, Zenon
<1>2. PICK m : m = Min(U)
  OBVIOUS
<1>3. m \in U /\ \A u \in U : m <= u
  BY <1>1, <1>2, LeastNumber
<1>4. PICK x \in T : m = n - x
  BY <1>3
<1>5. \A y \in T : y <= x
  <2> SUFFICES ASSUME NEW y \in T PROVE y <= x
    OBVIOUS
  <2>1. m <= n - y
    BY <1>3
  <2> QED BY <1>4, <2>1
<1>6. Max(T) = CHOOSE z \in T : \A y \in T : z >= y
  BY DEF Max
<1>7. \A y \in T : x >= y
  BY <1>5
<1>8. Max(T) \in T /\ \A y \in T : Max(T) >= y
  BY <1>6, <1>7
<1> QED BY <1>8

\* A number that no other exceeds is the greatest.
LEMMA GreatestIs ==
  ASSUME NEW T, T \subseteq Nat, NEW x \in T, \A y \in T : y <= x
  PROVE  Max(T) = x
<1>1. Max(T) = CHOOSE z \in T : \A y \in T : z >= y
  BY DEF Max
<1>2. \A y \in T : x >= y
  OBVIOUS
<1>3. Max(T) \in T /\ \A y \in T : Max(T) >= y
  BY <1>1, <1>2
<1>4. x \in Nat /\ Max(T) \in Nat /\ Max(T) >= x /\ x >= Max(T)
  BY <1>2, <1>3
<1> QED BY <1>4

\* min(a, b) of file-ops.c.
LEMMA MinOfTwo ==
  ASSUME NEW a \in Int, NEW b \in Int
  PROVE  Min({a, b}) \in {a, b} /\ Min({a, b}) <= a /\ Min({a, b}) <= b
<1>1. \E x \in {a, b} : \A y \in {a, b} : x <= y
  OBVIOUS
<1>2. Min({a, b}) = CHOOSE x \in {a, b} : \A y \in {a, b} : x <= y
  BY DEF Min
<1> QED BY <1>1, <1>2


-----------------------------------------------------------------------------
(* Folds.  A fold is a recursive function on the sets of positions; what   *)
(* it returns for each length of a text is found here by induction, in the *)
(* form that a set of numbers has a least one.                             *)

\* What holds at 0 and for the next number holds up to n.
LEMMA UpTo ==
  ASSUME NEW n \in Nat, NEW T, 0 \in T, \A k \in 0 .. n - 1 : k \in T => k + 1 \in T
  PROVE  \A k \in 0 .. n : k \in T
<1> DEFINE U == {k \in 0 .. n : k \notin T}
<1> SUFFICES ASSUME U # {} PROVE FALSE
  OBVIOUS
<1>1. U \subseteq Nat
  OBVIOUS
<1>2. PICK m : m = Min(U)
  OBVIOUS
<1>3. m \in U /\ \A y \in U : m <= y
  <2> HIDE DEF U
  <2> QED BY <1>1, <1>2, LeastNumber
<1>4. m \in Nat /\ m # 0 /\ m <= n /\ m \notin T
  BY <1>3
<1>5. m - 1 \in 0 .. n - 1 /\ m - 1 + 1 = m /\ m - 1 \in 0 .. n
  BY <1>4
<1>6. m - 1 \notin U
  <2>1. ~ (m <= m - 1)
    BY <1>4
  <2> QED BY <1>3, <2>1
<1>7. m - 1 \in T
  BY <1>5, <1>6
<1> QED BY <1>4, <1>5, <1>7

\* Steps that skip the positions outside a set can be taken one after another.
StepsTo(S, n, base, t, s, g) ==
  /\ g \in [0 .. n -> S] /\ g[0] = base
  /\ \A k \in 1 .. n : g[k] = IF k \in s THEN t[k][g[k - 1]] ELSE g[k - 1]

\* There are such steps.
LEMMA StepsExist ==
  ASSUME NEW n \in Nat, NEW S, NEW base \in S, NEW t \in [Nat -> [S -> S]], NEW s
  PROVE  \E g : StepsTo(S, n, base, t, s, g)
<1> DEFINE T == {m \in Nat : \E g : StepsTo(S, m, base, t, s, g)}
<1>1. 0 \in T
  <2> DEFINE g == [i \in 0 .. 0 |-> base]
  <2>1. g \in [0 .. 0 -> S] /\ g[0] = base /\ \A k \in 1 .. 0 : FALSE
    OBVIOUS
  <2>2. StepsTo(S, 0, base, t, s, g)
    <3> HIDE DEF g
    <3> QED BY <2>1 DEF StepsTo
  <2> QED BY <2>2
<1>2. ASSUME NEW m \in 0 .. n - 1, m \in T PROVE m + 1 \in T
  <2>1. PICK g : StepsTo(S, m, base, t, s, g)
    BY <1>2
  <2>2. /\ g \in [0 .. m -> S] /\ g[0] = base
        /\ \A k \in 1 .. m : g[k] = IF k \in s THEN t[k][g[k - 1]] ELSE g[k - 1]
    BY <2>1 DEF StepsTo
  <2>3. PICK x : x = IF m + 1 \in s THEN t[m + 1][g[m]] ELSE g[m]
    OBVIOUS
  <2>4. m \in 0 .. m /\ g[m] \in S /\ m + 1 \in Nat
    BY <2>2
  <2>5. x \in S
    <3>1. t[m + 1] \in [S -> S]
      BY <2>4
    <3> QED BY <2>3, <2>4, <3>1
  <2> DEFINE h == [k \in 0 .. m + 1 |-> IF k = m + 1 THEN x ELSE g[k]]
  <2>6. h \in [0 .. m + 1 -> S]
    BY <2>2, <2>5
  <2>7. h[0] = base /\ h[m + 1] = x /\ \A k \in 0 .. m : h[k] = g[k]
    BY <2>2
  <2> HIDE DEF h
  <2>8. ASSUME NEW k \in 1 .. m + 1 PROVE h[k] = IF k \in s THEN t[k][h[k - 1]] ELSE h[k - 1]
    <3>1. CASE k = m + 1
      <4>1. k - 1 = m /\ h[k - 1] = g[m]
        BY <2>4, <2>7, <3>1
      <4> QED BY <2>3, <2>7, <3>1, <4>1
    <3>2. CASE k # m + 1
      <4>1. k \in 1 .. m /\ k \in 0 .. m /\ k - 1 \in 0 .. m
        BY <3>2
      <4> QED BY <2>2, <2>7, <4>1
    <3> QED BY <3>1, <3>2
  <2>9. StepsTo(S, m + 1, base, t, s, h)
    BY <2>6, <2>7, <2>8 DEF StepsTo
  <2> QED BY <2>4, <2>9
<1>3. n \in 0 .. n
  OBVIOUS
<1>4. \A k \in 0 .. n : k \in T
  <2> HIDE DEF T
  <2> QED BY <1>1, <1>2, UpTo
<1> QED BY <1>3, <1>4

\* The function that a fold of MapThenFoldSet is, which takes the greatest position
\* of a set last.
IsFold(f, n, S, base, t) ==
  /\ f \in [SUBSET (1 .. n) -> S]
  /\ \A s \in SUBSET (1 .. n) : f[s] = IF s = {} THEN base ELSE t[Max(s)][f[s \ {Max(s)}]]

\* There is such a function.
LEMMA FoldExists ==
  ASSUME NEW n \in Nat, NEW S, NEW base \in S, NEW t \in [Nat -> [S -> S]]
  PROVE  \E f : IsFold(f, n, S, base, t)
<1> DEFINE G(s) == CHOOSE g : StepsTo(S, n, base, t, s, g)
           f == [s \in SUBSET (1 .. n) |-> G(s)[n]]
<1>1. ASSUME NEW s
      PROVE  /\ G(s) \in [0 .. n -> S] /\ G(s)[0] = base
             /\ \A k \in 1 .. n : G(s)[k] = IF k \in s THEN t[k][G(s)[k - 1]] ELSE G(s)[k - 1]
  <2>1. StepsTo(S, n, base, t, s, G(s))
    BY StepsExist
  <2> HIDE DEF G
  <2> QED BY <2>1 DEF StepsTo
<1> HIDE DEF G
<1>2. n \in 0 .. n
  OBVIOUS
<1>3. f \in [SUBSET (1 .. n) -> S]
  BY <1>1, <1>2
<1>4. ASSUME NEW s \in SUBSET (1 .. n)
      PROVE  f[s] = IF s = {} THEN base ELSE t[Max(s)][f[s \ {Max(s)}]]
  <2>1. CASE s = {}
    <3> DEFINE T == {k \in Nat : G(s)[k] = base}
    <3>1. 0 \in T
      BY <1>1
    <3>2. ASSUME NEW k \in 0 .. n - 1, k \in T PROVE k + 1 \in T
      <4>1. k + 1 \in 1 .. n /\ k + 1 - 1 = k /\ k + 1 \in Nat
        OBVIOUS
      <4> QED BY <1>1, <2>1, <3>2, <4>1
    <3>3. \A k \in 0 .. n : k \in T
      <4> HIDE DEF T
      <4> QED BY <3>1, <3>2, UpTo
    <3> QED BY <1>2, <2>1, <3>3
  <2>2. CASE s # {}
    <3>1. PICK m : m = Max(s)
      OBVIOUS
    <3>2. m \in s /\ \A y \in s : y <= m
      <4>1. s \subseteq 0 .. n
        OBVIOUS
      <4> QED BY <2>2, <3>1, <4>1, GreatestNumber
    <3>3. m \in 1 .. n /\ m \in Nat /\ m - 1 \in 0 .. n
      BY <3>2
    <3>4. PICK r : r = s \ {m}
      OBVIOUS
    <3>5. r \in SUBSET (1 .. n) /\ \A k \in r : k < m
      <4>1. \A k \in s : k \in Nat
        OBVIOUS
      <4> QED BY <3>2, <3>3, <3>4, <4>1
    <3>6. \A k \in 0 .. n : k >= m => G(s)[k] = G(s)[m]
      <4> DEFINE T == {k \in Nat : k >= m => G(s)[k] = G(s)[m]}
      <4>1. 0 \in T
        BY <3>3
      <4>2. ASSUME NEW k \in 0 .. n - 1, k \in T PROVE k + 1 \in T
        <5>1. k + 1 \in 1 .. n /\ k + 1 - 1 = k /\ k + 1 \in Nat
          OBVIOUS
        <5>2. CASE k >= m
          <6>1. k + 1 \notin s
            BY <3>2, <3>3, <5>2
          <6> QED BY <1>1, <4>2, <5>1, <5>2, <6>1
        <5>3. CASE ~ (k >= m)
          <6>1. k + 1 = m \/ ~ (k + 1 >= m)
            BY <3>3, <5>3
          <6> QED BY <5>1, <6>1
        <5> QED BY <5>2, <5>3
      <4>3. \A k \in 0 .. n : k \in T
        <5> HIDE DEF T
        <5> QED BY <4>1, <4>2, UpTo
      <4> QED BY <4>3
    <3>7. \A k \in 0 .. n : G(r)[k] = IF k < m THEN G(s)[k] ELSE G(s)[m - 1]
      <4> DEFINE T == {k \in Nat : G(r)[k] = IF k < m THEN G(s)[k] ELSE G(s)[m - 1]}
      <4>1. 0 \in T
        BY <1>1, <3>3
      <4>2. ASSUME NEW k \in 0 .. n - 1, k \in T PROVE k + 1 \in T
        <5>1. k + 1 \in 1 .. n /\ k + 1 - 1 = k /\ k + 1 \in Nat
          OBVIOUS
        <5>2. CASE k + 1 < m
          <6>1. k + 1 \in r <=> k + 1 \in s
            BY <3>3, <3>4, <5>2
          <6>2. k < m /\ G(r)[k] = G(s)[k]
            BY <3>3, <4>2, <5>2
          <6> QED BY <1>1, <5>1, <5>2, <6>1, <6>2
        <5>3. CASE ~ (k + 1 < m)
          <6>1. k + 1 \notin r
            BY <3>3, <3>5, <5>3
          <6>2. G(r)[k + 1] = G(r)[k]
            BY <1>1, <5>1, <6>1
          <6>3. k < m => k = m - 1
            BY <3>3, <5>3
          <6>4. G(r)[k] = G(s)[m - 1]
            BY <4>2, <6>3
          <6> QED BY <5>1, <5>3, <6>2, <6>4
        <5> QED BY <5>2, <5>3
      <4>3. \A k \in 0 .. n : k \in T
        <5> HIDE DEF T
        <5> QED BY <4>1, <4>2, UpTo
      <4> QED BY <4>3
    <3>8. n >= m /\ ~ (n < m)
      BY <3>3
    <3>9. f[s] = G(s)[m] /\ f[r] = G(s)[m - 1]
      BY <1>2, <3>5, <3>6, <3>7, <3>8
    <3>10. G(s)[m] = t[m][G(s)[m - 1]]
      BY <1>1, <3>2, <3>3
    <3> QED BY <2>2, <3>1, <3>4, <3>9, <3>10
  <2> QED BY <2>1, <2>2
<1> HIDE DEF f
<1>5. IsFold(f, n, S, base, t)
  BY <1>3, <1>4 DEF IsFold
<1> QED BY <1>5

\* Taking the greatest of the first k positions leaves the first k - 1.
LEMMA FirstPositions ==
  ASSUME NEW n \in Nat
  PROVE  /\ 1 .. 0 = {}
         /\ \A k \in 1 .. n : /\ 1 .. k \in SUBSET (1 .. n) /\ 1 .. k # {}
                              /\ Max(1 .. k) = k /\ (1 .. k) \ {Max(1 .. k)} = 1 .. k - 1
<1>1. 1 .. 0 = {}
  OBVIOUS
<1>2. ASSUME NEW k \in 1 .. n
      PROVE  /\ 1 .. k \in SUBSET (1 .. n) /\ 1 .. k # {}
             /\ Max(1 .. k) = k /\ (1 .. k) \ {Max(1 .. k)} = 1 .. k - 1
  <2>1. 1 .. k \subseteq Nat /\ k \in 1 .. k /\ \A y \in 1 .. k : y <= k
    OBVIOUS
  <2>2. Max(1 .. k) = k
    BY <2>1, GreatestIs
  <2>3. (1 .. k) \ {k} = 1 .. k - 1
    OBVIOUS
  <2> QED BY <2>1, <2>2, <2>3
<1> QED BY <1>1, <1>2

-----------------------------------------------------------------------------
(* Status flags: FdFlags.                                                  *)

\* What a caller has read has been set by somebody.
ReadInv == \A c \in Setters : opt[c] \subseteq first \cup done \cup asks[c]

\* While no two calls overlap, one caller at most is between its two calls, and
\* what it has read is still what is set.
LoneInv == ~ crossed =>
  /\ \A c, d \in between : c = d
  /\ \A c \in between : opt[c] = status \cup asks[c]

FlagsInv == FlagsTypeOK /\ ReadInv /\ LoneInv /\ FlagsKept

\* At first nobody has called.
LEMMA FlagsInvInit == FlagsInit => FlagsInv
<1> SUFFICES ASSUME FlagsInit PROVE FlagsInv
  OBVIOUS
<1> USE FdFlagsAssumption DEF FlagsInit
<1>1. FlagsTypeOK
  <2>1. opt \in [Setters -> SUBSET Flags] /\ asks \in [Setters -> SUBSET Flags]
    OBVIOUS
  <2>2. status \in SUBSET Flags /\ first \in SUBSET Flags /\ done \in SUBSET Flags
    OBVIOUS
  <2>3. crossed \in BOOLEAN
    BY Zenon
  <2>4. between \subseteq Setters /\ calls \in 0 .. MaxCalls
    OBVIOUS
  <2> HIDE DEF FlagsInit
  <2> QED
    BY <2>1, <2>2, <2>3, <2>4 DEF FlagsTypeOK
<1>2. ReadInv /\ LoneInv
  BY DEF ReadInv, LoneInv
<1>3. FlagsKept
  BY DEF FlagsKept
<1> QED
  BY <1>1, <1>2, <1>3 DEF FlagsInv

\* Every step keeps the invariant.
LEMMA FlagsInvNext == FlagsInv /\ [FlagsNext]_flagVars => FlagsInv'
<1> SUFFICES ASSUME FlagsInv, [FlagsNext]_flagVars PROVE FlagsInv'
  OBVIOUS
<1> USE FdFlagsAssumption DEF FlagsInv, FlagsTypeOK
<1>1. ASSUME NEW c \in Setters, NEW w \in SUBSET Flags, GetFlags(c, w) PROVE FlagsInv'
  <2> USE <1>1 DEF GetFlags
  <2>1. FlagsTypeOK'
    OBVIOUS
  <2>2. ReadInv'
    BY DEF ReadInv, FlagsKept
  <2>3. LoneInv'
    <3> SUFFICES ASSUME ~ crossed' PROVE LoneInv'
      BY DEF LoneInv
    <3>1. ~ crossed /\ between = {} /\ between' = {c}
      OBVIOUS
    <3> QED
      BY <3>1 DEF LoneInv
  <2>4. FlagsKept'
    BY DEF FlagsKept
  <2> QED
    BY <2>1, <2>2, <2>3, <2>4
<1>2. ASSUME NEW c \in Setters, SetFlags(c) PROVE FlagsInv'
  <2> USE <1>2 DEF SetFlags, FlagsReturn
  <2>1. FlagsTypeOK'
    OBVIOUS
  <2>2. ReadInv'
    BY DEF ReadInv
  <2>3. LoneInv'
    BY DEF LoneInv
  <2>4. FlagsKept'
    BY DEF ReadInv, LoneInv, FlagsKept
  <2> QED
    BY <2>1, <2>2, <2>3, <2>4
<1>3. ASSUME NEW c \in Setters, SetFlagsFails(c) PROVE FlagsInv'
  <2> USE <1>3 DEF SetFlagsFails, FlagsReturn
  <2>1. FlagsTypeOK'
    OBVIOUS
  <2>2. ReadInv' /\ LoneInv' /\ FlagsKept'
    BY DEF ReadInv, LoneInv, FlagsKept
  <2> QED
    BY <2>1, <2>2
<1>4. CASE UNCHANGED flagVars
  BY <1>4 DEF flagVars, ReadInv, LoneInv, FlagsKept
<1> QED
  BY <1>1, <1>2, <1>3, <1>4 DEF FlagsNext

-----------------------------------------------------------------------------
(* Copying: ZeroCopy.                                                      *)

\* Bytes in the order of the input.
Run(k, f, n) == [i \in 1 .. n |-> <<k, f + i>>]

\* As many bytes as there are, each with its place in the input.
LEMMA RunIs ==
  ASSUME NEW k \in Copies, NEW f \in Nat, NEW n \in Nat, f + n <= Length
  PROVE  /\ Run(k, f, n) \in Seq(Bytes) /\ Len(Run(k, f, n)) = n
         /\ \A i \in 1 .. n : Run(k, f, n)[i] = <<k, f + i>>
<1>1. Run(k, f, n) \in [1 .. n -> Bytes]
  BY ZeroCopyAssumption DEF Run, Bytes
<1>2. Run(k, f, n) \in Seq(Bytes)
  BY <1>1, IsASeq
<1>3. Len(Run(k, f, n)) = n
  BY <1>1, <1>2, LenProperties
<1> QED BY <1>2, <1>3 DEF Run

\* A part of the input follows what has been copied.
LEMMA WholeGrows ==
  ASSUME NEW k \in Copies, NEW f \in Nat, NEW n \in Nat, f + n <= Length
  PROVE  Whole(k, f) \o Run(k, f, n) = Whole(k, f + n)
<1>1. Whole(k, f) = Run(k, 0, f) /\ Whole(k, f + n) = Run(k, 0, f + n)
  <2>1. \A i \in Nat : 0 + i = i
    OBVIOUS
  <2> QED BY <2>1 DEF Whole, Run
<1>2. f <= Length /\ 0 + f <= Length /\ 0 + (f + n) <= Length /\ f + n \in Nat /\ 0 \in Nat
  BY ZeroCopyAssumption
<1>3. /\ Run(k, 0, f) \in Seq(Bytes) /\ Len(Run(k, 0, f)) = f
      /\ \A i \in 1 .. f : Run(k, 0, f)[i] = <<k, 0 + i>>
  BY <1>2, RunIs
<1>4. /\ Run(k, f, n) \in Seq(Bytes) /\ Len(Run(k, f, n)) = n
      /\ \A i \in 1 .. n : Run(k, f, n)[i] = <<k, f + i>>
  BY RunIs
<1>5. /\ Run(k, 0, f + n) \in Seq(Bytes) /\ Len(Run(k, 0, f + n)) = f + n
      /\ \A i \in 1 .. f + n : Run(k, 0, f + n)[i] = <<k, 0 + i>>
  BY <1>2, RunIs
<1> DEFINE a == Run(k, 0, f)
           b == Run(k, f, n)
           c == Run(k, 0, f + n)
<1>6. /\ a \o b \in Seq(Bytes) /\ Len(a \o b) = f + n
      /\ \A i \in 1 .. f + n : (a \o b)[i] = IF i <= f THEN a[i] ELSE b[i - f]
  <2> HIDE DEF a, b
  <2>1. /\ a \o b \in Seq(Bytes) /\ Len(a \o b) = Len(a) + Len(b)
        /\ \A i \in 1 .. Len(a) + Len(b) : (a \o b)[i] = IF i <= Len(a) THEN a[i] ELSE b[i - Len(a)]
    BY <1>3, <1>4, ConcatProperties DEF a, b
  <2> QED BY <1>3, <1>4, <2>1 DEF a, b
<1> HIDE DEF a, b, c
<1>7. ASSUME NEW i \in 1 .. f + n PROVE (a \o b)[i] = c[i]
  <2>1. c[i] = <<k, i>>
    BY <1>5 DEF c
  <2>2. CASE i <= f
    <3>1. i \in 1 .. f /\ 0 + i = i
      BY <2>2
    <3>2. a[i] = <<k, i>>
      BY <1>3, <3>1 DEF a
    <3> QED BY <1>6, <2>1, <2>2, <3>2
  <2>3. CASE ~ (i <= f)
    <3>1. i - f \in 1 .. n /\ f + (i - f) = i
      BY <2>3
    <3>2. b[i - f] = <<k, i>>
      BY <1>4, <3>1 DEF b
    <3> QED BY <1>6, <2>1, <2>3, <3>2
  <2> QED BY <2>2, <2>3
<1>8. c \in Seq(Bytes) /\ Len(c) = f + n
  BY <1>5 DEF c
<1>9. a \o b = c
  BY <1>6, <1>7, <1>8, SeqEqual
<1> QED BY <1>1, <1>9 DEF a, b, c

\* As long as each output takes what it is offered, the pipe is empty between two
\* calls, and holds what was read last between the two splices of one; every output
\* has all that was read of its input before.
WholeInv == ~ short =>
  /\ pc # "out" => pipe = <<>> /\ out[copy] = Whole(copy, in[copy])
  /\ pc = "out" => \E n \in 1 .. Asked :
       /\ n <= in[copy]
       /\ pipe = Run(copy, in[copy] - n, n) /\ out[copy] = Whole(copy, in[copy] - n)
  /\ \A k \in Copies : k # copy => out[k] = Whole(k, in[k])
  /\ pc # "idle" => ret[copy] # "end"
  /\ \A k \in Copies : ret[k] = "end" => in[k] = Length

\* A call asks for at least one byte, and for no more than the pipe holds.
LEMMA AskedIs ==
  ASSUME size \in 1 .. MaxSize
  PROVE  Asked \in Nat /\ Asked >= 1 /\ Asked <= Cap
<1>1. size \in Nat /\ size >= 1 /\ Cap \in Nat /\ Cap >= 1
  BY ZeroCopyAssumption
<1>2. Asked \in {size, Cap} /\ Asked <= Cap
  BY <1>1, MinOfTwo DEF Asked
<1> QED BY <1>1, <1>2

\* Nothing has been copied yet.
LEMMA CopyInit == Init => TypeOK /\ WholeInv
<1> SUFFICES ASSUME Init PROVE TypeOK /\ WholeInv
  OBVIOUS
<1>1. /\ in = [k \in Copies |-> 0] /\ pipe = <<>> /\ out = [k \in Copies |-> <<>>]
      /\ pc = "idle" /\ copy \in Copies /\ size = 1 /\ ret = [k \in Copies |-> "none"]
      /\ short = FALSE /\ failed = FALSE
  BY DEF Init
<1>2. Length \in Nat /\ MaxSize \in Nat /\ MaxSize >= 1 /\ Cap \in Nat
  BY ZeroCopyAssumption
<1>3. <<>> \in Seq(Bytes) /\ Len(<<>>) = 0
  BY EmptySeq
<1>4. TypeOK
  <2>1. in \in [Copies -> 0 .. Length] /\ out \in [Copies -> Seq(Bytes)]
    BY <1>1, <1>2, <1>3
  <2>2. ret \in [Copies -> {"none", "moved", "end", "error"}]
    BY <1>1
  <2>3. pipe \in Seq(Bytes) /\ Len(pipe) <= Cap /\ size \in 1 .. MaxSize
    BY <1>1, <1>2, <1>3
  <2>4. short \in BOOLEAN /\ failed \in BOOLEAN
    BY <1>1
  <2> QED BY <1>1, <2>1, <2>2, <2>3, <2>4 DEF TypeOK
<1>5. \A k : Whole(k, 0) = <<>>
  BY DEF Whole
<1>6. \A k \in Copies : out[k] = Whole(k, in[k])
  BY <1>1, <1>5
<1>7. WholeInv
  BY <1>1, <1>6 DEF WholeInv
<1> QED BY <1>4, <1>7

\* A call begins with an empty pipe.
LEMMA CallKeeps ==
  ASSUME TypeOK, WholeInv, NEW k \in Copies, NEW n \in 1 .. MaxSize, Call(k, n)
  PROVE  TypeOK' /\ WholeInv'
<1>1. /\ pc = "idle" /\ ret[k] # "end" /\ pc' = "in" /\ copy' = k /\ size' = n
      /\ UNCHANGED <<in, pipe, out, ret, short, failed>>
  BY DEF Call
<1>2. TypeOK'
  BY <1>1 DEF TypeOK
<1>3. WholeInv'
  <2> SUFFICES ASSUME ~ short PROVE WholeInv'
    BY <1>1 DEF WholeInv
  <2>1. pipe = <<>> /\ \A j \in Copies : out[j] = Whole(j, in[j])
    BY <1>1 DEF TypeOK, WholeInv
  <2> QED BY <1>1, <2>1 DEF TypeOK, WholeInv
<1> QED BY <1>2, <1>3

\* The bytes in the pipe follow those that are in the output.
LEMMA SpliceInKeeps ==
  ASSUME TypeOK, WholeInv, SpliceIn
  PROVE  TypeOK' /\ WholeInv'
<1>1. PICK n \in 1 .. Asked : In(n) /\ pc' = "out" /\ UNCHANGED ret
  BY DEF SpliceIn
<1>2. /\ pc = "in" /\ n <= Cap - Len(pipe) /\ n <= Length - in[copy]
      /\ in' = [in EXCEPT ![copy] = @ + n]
      /\ pipe' = pipe \o [i \in 1 .. n |-> <<copy, in[copy] + i>>]
      /\ UNCHANGED <<out, copy, size, short, failed, ret>> /\ pc' = "out"
  BY <1>1 DEF In
<1>3. /\ in[copy] \in Nat /\ in[copy] <= Length /\ Length \in Nat /\ copy \in Copies
      /\ Asked \in Nat /\ n \in Nat /\ n >= 1 /\ n <= Asked /\ in[copy] + n <= Length
  BY <1>2, ZeroCopyAssumption, AskedIs DEF TypeOK
<1> DEFINE r == Run(copy, in[copy], n)
<1>4. pipe' = pipe \o r
  BY <1>2 DEF Run
<1>5. r \in Seq(Bytes) /\ Len(r) = n
  BY <1>3, RunIs
<1> HIDE DEF r
<1>6. /\ pipe' \in Seq(Bytes) /\ Len(pipe') = Len(pipe) + n
  BY <1>4, <1>5, ConcatProperties DEF TypeOK
<1>7. Len(pipe) \in Nat /\ Cap \in Nat
  BY ZeroCopyAssumption DEF TypeOK
<1>8. Len(pipe') <= Cap /\ pipe' # <<>>
  <2>1. Len(pipe') <= Cap /\ Len(pipe') # 0
    BY <1>2, <1>3, <1>6, <1>7
  <2>2. Len(<<>>) = 0
    BY EmptySeq
  <2> QED BY <2>1, <2>2
<1>9. in' \in [Copies -> 0 .. Length] /\ in'[copy] = in[copy] + n
      /\ \A k \in Copies : k # copy => in'[k] = in[k]
  BY <1>2, <1>3 DEF TypeOK
<1>10. TypeOK'
  BY <1>2, <1>6, <1>8, <1>9 DEF TypeOK
<1>11. WholeInv'
  <2> SUFFICES ASSUME ~ short PROVE WholeInv'
    BY <1>2 DEF WholeInv
  <2>1. pipe = <<>> /\ out[copy] = Whole(copy, in[copy])
    BY <1>2 DEF WholeInv
  <2>2. pipe' = r
    BY <1>4, <1>5, <2>1, ConcatEmptySeq
  <2>3. n <= in'[copy] /\ in'[copy] - n = in[copy]
    BY <1>3, <1>9
  <2>4. n \in 1 .. Asked' /\ copy' = copy
    BY <1>2 DEF Asked
  <2>5. \E m \in 1 .. Asked' : /\ m <= in'[copy']
                               /\ pipe' = Run(copy', in'[copy'] - m, m)
                               /\ out'[copy'] = Whole(copy', in'[copy'] - m)
    BY <1>2, <2>1, <2>2, <2>3, <2>4 DEF r
  <2>6. \A k \in Copies : k # copy' => out'[k] = Whole(k, in'[k])
    BY <1>2, <1>9 DEF WholeInv
  <2>7. ret'[copy'] # "end"
    BY <1>2 DEF WholeInv
  <2>8. \A k \in Copies : ret'[k] = "end" => in'[k] = Length
    BY <1>2, <1>9, <2>7 DEF WholeInv
  <2> QED BY <1>2, <2>5, <2>6, <2>7, <2>8 DEF WholeInv
<1> QED BY <1>10, <1>11

\* The output takes all that it is offered, or not.
LEMMA SpliceOutKeeps ==
  ASSUME TypeOK, WholeInv, SpliceOut
  PROVE  TypeOK' /\ WholeInv'
<1>1. PICK n \in 1 .. Len(pipe) : Out(n, Min({Asked, Len(pipe)}))
  BY DEF SpliceOut
<1>2. PICK offered : offered = Min({Asked, Len(pipe)})
  OBVIOUS
<1>3. /\ pc = "out" /\ n <= offered
      /\ out' = [out EXCEPT ![copy] = @ \o SubSeq(pipe, 1, n)]
      /\ pipe' = SubSeq(pipe, n + 1, Len(pipe))
      /\ short' = (short \/ n < offered)
      /\ pc' = "idle" /\ ret' = [ret EXCEPT ![copy] = "moved"]
      /\ UNCHANGED <<in, copy, size, failed>>
  BY <1>1, <1>2 DEF Out, Return
<1>4. /\ pipe \in Seq(Bytes) /\ Len(pipe) \in Nat /\ n \in Nat /\ n >= 1 /\ n <= Len(pipe)
      /\ copy \in Copies /\ out[copy] \in Seq(Bytes)
      /\ \A i \in 1 .. Len(pipe) : pipe[i] \in Bytes
  BY <1>1 DEF TypeOK
<1>5. SubSeq(pipe, 1, n) \in Seq(Bytes)
  BY <1>4, SubSeqProperties
<1>6. pipe' \in Seq(Bytes) /\ Len(pipe') <= Len(pipe)
  <2>1. \A i \in n + 1 .. Len(pipe) : pipe[i] \in Bytes
    BY <1>4
  <2>2. /\ SubSeq(pipe, n + 1, Len(pipe)) \in Seq(Bytes)
        /\ Len(SubSeq(pipe, n + 1, Len(pipe)))
             = IF n + 1 <= Len(pipe) THEN Len(pipe) - (n + 1) + 1 ELSE 0
    BY <1>4, <2>1, SubSeqProperties
  <2> QED BY <1>3, <1>4, <2>2
<1>7. /\ out[copy] \o SubSeq(pipe, 1, n) \in Seq(Bytes)
      /\ out' \in [Copies -> Seq(Bytes)] /\ out'[copy] = out[copy] \o SubSeq(pipe, 1, n)
      /\ \A k \in Copies : k # copy => out'[k] = out[k]
  <2>1. out[copy] \o SubSeq(pipe, 1, n) \in Seq(Bytes)
    BY <1>4, <1>5, ConcatProperties
  <2> QED BY <1>3, <1>4, <2>1 DEF TypeOK
<1>8. ret' \in [Copies -> {"none", "moved", "end", "error"}] /\ ret'[copy] = "moved"
      /\ \A k \in Copies : k # copy => ret'[k] = ret[k]
  BY <1>3 DEF TypeOK
<1>9. Len(pipe') <= Cap /\ short' \in BOOLEAN
  <2>1. Cap \in Nat /\ Len(pipe) <= Cap /\ Len(pipe') \in Nat
    BY <1>6, ZeroCopyAssumption DEF TypeOK
  <2>2. short' \in BOOLEAN
    BY <1>3, Zenon
  <2> QED BY <1>4, <1>6, <2>1, <2>2
<1>10. TypeOK'
  BY <1>3, <1>6, <1>7, <1>8, <1>9 DEF TypeOK
<1>11. WholeInv'
  <2> SUFFICES ASSUME ~ short' PROVE WholeInv'
    BY DEF WholeInv
  <2>1. ~ short /\ ~ (n < offered)
    BY <1>3
  <2>2. PICK m \in 1 .. Asked : /\ m <= in[copy]
                                /\ pipe = Run(copy, in[copy] - m, m)
                                /\ out[copy] = Whole(copy, in[copy] - m)
    BY <1>3, <2>1 DEF WholeInv
  <2>3. /\ in[copy] \in Nat /\ m \in Nat /\ in[copy] - m \in Nat /\ in[copy] - m + m = in[copy]
        /\ in[copy] <= Length /\ Asked \in Nat /\ m <= Asked
    BY <2>2, AskedIs, ZeroCopyAssumption DEF TypeOK
  <2>4. Len(pipe) = m
    BY <1>4, <2>2, <2>3, RunIs
  <2>5. offered = m /\ n = m
    <3>1. offered \in {Asked, Len(pipe)} /\ offered <= Len(pipe)
      <4>1. PICK a : a = Asked
        OBVIOUS
      <4>2. PICK l : l = Len(pipe)
        OBVIOUS
      <4>3. a \in Int /\ l \in Int
        BY <1>4, <2>3, <4>1, <4>2
      <4>4. Min({a, l}) \in {a, l} /\ Min({a, l}) <= l
        BY <4>3, MinOfTwo
      <4> QED BY <1>2, <4>1, <4>2, <4>4, Zenon
    <3>2. offered = m
      BY <2>3, <2>4, <3>1
    <3> QED BY <1>3, <1>4, <2>1, <2>4, <3>2
  <2>6. SubSeq(pipe, 1, n) = pipe
    BY <1>4, <2>4, <2>5, SubSeqFull
  <2>7. pipe' = <<>>
    <3>1. Len(pipe) < n + 1 /\ n + 1 \in Int /\ Len(pipe) \in Int
      BY <1>4, <2>4, <2>5
    <3> QED BY <1>3, <3>1, SubSeqEmpty
  <2>8. out'[copy] = Whole(copy, in[copy])
    <3>1. PICK f : f = in[copy] - m
      OBVIOUS
    <3>2. f \in Nat /\ f + m <= Length /\ f + m = in[copy]
      BY <2>3, <3>1
    <3>3. Whole(copy, f) \o Run(copy, f, m) = Whole(copy, f + m)
      BY <1>4, <2>3, <3>2, WholeGrows
    <3> QED BY <1>7, <2>2, <2>6, <3>1, <3>2, <3>3
  <2>9. \A k \in Copies : k # copy => out'[k] = Whole(k, in'[k])
    BY <1>3, <1>7, <2>1 DEF WholeInv
  <2>10. \A k \in Copies : ret'[k] = "end" => in'[k] = Length
    BY <1>3, <1>8, <2>1 DEF WholeInv
  <2> QED BY <1>3, <2>7, <2>8, <2>9, <2>10 DEF WholeInv
<1> QED BY <1>10, <1>11

\* The other returns: the end of the input, and the errors of the two calls.
LEMMA ReturnsKeep ==
  ASSUME TypeOK, WholeInv, SpliceInEnd \/ SpliceInFails \/ SpliceOutFails
  PROVE  TypeOK' /\ WholeInv'
<1>1. PICK r \in {"end", "error"} :
        /\ pc' = "idle" /\ ret' = [ret EXCEPT ![copy] = r]
        /\ r = "end" => in[copy] = Length
        /\ UNCHANGED <<in, pipe, out, copy, size>>
        /\ \/ pc = "in" /\ UNCHANGED <<short, failed>>
           \/ short' = TRUE /\ failed' = TRUE
  BY DEF SpliceInEnd, SpliceInFails, SpliceOutFails, Return
<1>2. /\ ret' \in [Copies -> {"none", "moved", "end", "error"}] /\ ret'[copy] = r
      /\ \A k \in Copies : k # copy => ret'[k] = ret[k]
  BY <1>1 DEF TypeOK
<1>3. TypeOK'
  BY <1>1, <1>2 DEF TypeOK
<1>4. WholeInv'
  <2> SUFFICES ASSUME ~ short' PROVE WholeInv'
    BY DEF WholeInv
  <2>1. pc = "in" /\ ~ short
    BY <1>1
  <2>2. \A k \in Copies : ret'[k] = "end" => in'[k] = Length
    BY <1>1, <1>2, <2>1 DEF WholeInv
  <2> QED BY <1>1, <2>1, <2>2 DEF WholeInv
<1> QED BY <1>3, <1>4

\* Every step of a copy keeps what is said of it.
LEMMA CopyKept == TypeOK /\ WholeInv /\ [Next]_vars => (TypeOK /\ WholeInv)'
<1>1. TypeOK /\ WholeInv /\ UNCHANGED vars => (TypeOK /\ WholeInv)'
  <2> SUFFICES ASSUME TypeOK, WholeInv, UNCHANGED vars PROVE TypeOK' /\ WholeInv'
    OBVIOUS
  <2>1. UNCHANGED <<in, pipe, out, pc, copy, size, ret, short, failed>> /\ Asked' = Asked
    BY DEF vars, Asked
  <2>2. TypeOK'
    BY <2>1 DEF TypeOK
  <2>3. WholeInv'
    BY <2>1 DEF WholeInv
  <2> QED BY <2>2, <2>3
<1> QED BY <1>1, CallKeeps, SpliceInKeeps, SpliceOutKeeps, ReturnsKeep DEF Next, Splice

\* What is in an output is the beginning of its input.
LEMMA CopyWhole == TypeOK /\ WholeInv => WholeCopies
<1> SUFFICES ASSUME TypeOK, WholeInv, ~ short, NEW k \in Copies
             PROVE  /\ out[k] = Whole(k, Len(out[k]))
                    /\ ret[k] = "end" => out[k] = Whole(k, Length)
  BY DEF WholeCopies
<1>1. \A n \in Nat : n <= Length => Len(Whole(k, n)) = n
  <2> SUFFICES ASSUME NEW n \in Nat, n <= Length PROVE Len(Whole(k, n)) = n
    OBVIOUS
  <2>1. 0 + n <= Length /\ 0 \in Nat
    OBVIOUS
  <2>2. Whole(k, n) = Run(k, 0, n)
    <3>1. \A i \in Nat : 0 + i = i
      OBVIOUS
    <3> QED BY <3>1 DEF Whole, Run
  <2> QED BY <2>1, <2>2, RunIs
<1>2. in[k] \in Nat /\ in[k] <= Length
  BY ZeroCopyAssumption DEF TypeOK
<1>3. CASE k = copy /\ pc = "out"
  <2>1. PICK m \in 1 .. Asked : m <= in[copy] /\ out[copy] = Whole(copy, in[copy] - m)
    BY <1>3 DEF WholeInv
  <2>2. in[k] - m \in Nat /\ in[k] - m <= Length
    BY <1>2, <1>3, <2>1, AskedIs, ZeroCopyAssumption DEF TypeOK
  <2>3. out[k] = Whole(k, Len(out[k]))
    BY <1>1, <1>3, <2>1, <2>2
  <2>4. ret[k] # "end"
    BY <1>3 DEF WholeInv
  <2> QED BY <2>3, <2>4
<1>4. CASE ~ (k = copy /\ pc = "out")
  <2>1. out[k] = Whole(k, in[k])
    BY <1>4 DEF WholeInv
  <2>2. ret[k] = "end" => in[k] = Length
    BY DEF WholeInv
  <2> QED BY <1>1, <1>2, <2>1, <2>2
<1> QED BY <1>3, <1>4

-----------------------------------------------------------------------------
(* Mapping: FileMap.                                                       *)

\* What was in the file when nobody had it.
Had == IF saved = Absent THEN <<>> ELSE saved

\* While one context at a time has the file, it has what the last one left, which its
\* create looked at, and its sizes are those of that.
SizesFit(m) ==
  /\ dataSz[m] = IF info[m].size = 0 THEN Len(Had) ELSE 0
  /\ allocSz[m] = Pages(IF info[m].size = 0 THEN Len(Had) ELSE info[m].size)

Handed(m) ==
  IF info[m].size = 0
    THEN file = Had /\ dataSz[m] = Len(Had)
    ELSE /\ Len(file) = Pages(info[m].size)
         /\ \A i \in 1 .. Min({Len(Had), Len(file)}) : file[i] = Had[i]

HandInv == ~ shared =>
  /\ \A m, n \in Maps : at[m] # "none" /\ at[n] # "none" => m = n
  /\ (\A m \in Maps : at[m] = "none") => file = saved
  /\ \A m \in Maps :
       /\ at[m] = "open" => file = saved /\ found[m] = IF saved = Absent THEN -1 ELSE Len(saved)
       /\ at[m] = "truncate" => file = Had /\ SizesFit(m)
       /\ at[m] \in {"map", "ready"} => Handed(m)

\* UDO_BYTE_ALIGN of a number of bytes.
LEMMA PagesIs == Pages(0) = 0 /\ \A n \in Nat : Pages(n) \in Nat
<1>1. Page \in Nat \ {0}
  BY FileMapAssumption
<1>2. (Page - 1) \div Page = 0
  BY <1>1, SMTT(30)
<1>3. ASSUME NEW n \in Nat PROVE Pages(n) \in Nat
  <2>1. n + Page - 1 \in Nat
    BY <1>1
  <2>2. (n + Page - 1) \div Page \in Nat
    BY <1>1, <2>1, SMTT(30)
  <2>3. \A i, j \in Nat : i * j \in Nat
    OBVIOUS
  <2> QED BY <1>1, <2>2, <2>3 DEF Pages
<1>4. 0 + Page - 1 = Page - 1 /\ 0 * Page = 0
  BY <1>1
<1>5. Pages(0) = 0
  BY <1>2, <1>4 DEF Pages
<1> QED BY <1>3, <1>5

\* What a file may be.
Bytelists == {Absent} \cup Seq(Chars)

\* What is in a file is a text.
LEMMA ContentIs ==
  ASSUME file \in Bytelists
  PROVE  Content \in Seq(Chars) /\ Len(Content) \in Nat
<1>1. Content \in Seq(Chars)
  BY DEF Content, Bytelists
<1> QED BY <1>1

\* A file that is made longer or shorter keeps what is in both.
LEMMA ResizedIs ==
  ASSUME file \in Bytelists, NEW n \in Nat
  PROVE  /\ Resized(n) \in Seq(Chars) /\ Len(Resized(n)) = n
         /\ \A i \in 1 .. n : Resized(n)[i] = IF i <= Len(Content) THEN Content[i] ELSE "zero"
<1>1. Content \in Seq(Chars) /\ Len(Content) \in Nat
  BY ContentIs
<1>2. \A i \in 1 .. n : (IF i <= Len(Content) THEN Content[i] ELSE "zero") \in Chars
  <2> SUFFICES ASSUME NEW i \in 1 .. n, i <= Len(Content) PROVE Content[i] \in Chars
    BY DEF Chars
  <2>1. i \in 1 .. Len(Content)
    BY <1>1
  <2> QED BY <1>1, <2>1
<1>3. Resized(n) \in [1 .. n -> Chars]
  BY <1>2 DEF Resized
<1>4. Resized(n) \in Seq(Chars)
  BY <1>3, SeqDef
<1>5. Len(Resized(n)) = n
  BY <1>3, <1>4, LenProperties
<1> QED BY <1>4, <1>5 DEF Resized

\* The info of a context that is not in use.
LEMMA NewInfoIs == NewInfo \in Infos /\ NewInfo.size \in Nat
<1>1. Min(AskedSizes) \in AskedSizes /\ AskedSizes \subseteq Nat
  BY FileMapAssumption, LeastNumber
<1> QED BY <1>1 DEF NewInfo, Infos

\* At first nobody has the file.
LEMMA MapInvInit == MapInit => MapTypeOK /\ HandInv
<1> SUFFICES ASSUME MapInit PROVE MapTypeOK /\ HandInv
  OBVIOUS
<1> USE DEF MapInit
<1>1. file \in Bytelists /\ saved = file
  <2>1. Seq({"x", "newline"}) \subseteq Seq(Chars)
    BY SeqMonotonic DEF Chars
  <2> QED BY <2>1, FileMapAssumption DEF Bytelists
<1>2. info \in [Maps -> Infos]
  BY NewInfoIs
<1>3. /\ at \in [Maps -> {"none", "open", "truncate", "map", "ready", "written"}]
      /\ found \in [Maps -> Nat \cup {-1}]
  OBVIOUS
<1>4. /\ dataSz \in [Maps -> Nat] /\ allocSz \in [Maps -> Nat]
      /\ opens \in 0 .. MaxOpens
  BY FileMapAssumption
<1>5. shared \in BOOLEAN
  OBVIOUS
<1>6. MapTypeOK
  BY <1>1, <1>2, <1>3, <1>4, <1>5 DEF MapTypeOK, Bytelists
<1>7. HandInv
  BY DEF HandInv
<1> QED BY <1>6, <1>7

\* A context moves on.
LEMMA GotoIs ==
  ASSUME MapTypeOK, NEW m \in Maps, NEW l, MapGoto(m, l),
         l \in {"none", "open", "truncate", "map", "ready", "written"}
  PROVE  /\ at' \in [Maps -> {"none", "open", "truncate", "map", "ready", "written"}]
         /\ at'[m] = l /\ \A n \in Maps : n # m => at'[n] = at[n]
  BY DEF MapTypeOK, MapGoto

\* The first to look at the file finds what was left in it.
LEMMA StatKeeps ==
  ASSUME MapTypeOK, HandInv, NEW m \in Maps, Stat(m)
  PROVE  MapTypeOK' /\ HandInv'
<1>1. PICK i \in Infos : info' = [info EXCEPT ![m] = i]
  BY DEF Stat
<1>2. PICK f : f = IF file = Absent THEN -1 ELSE Len(file)
  OBVIOUS
<1>3. /\ at[m] = "none" /\ opens < MaxOpens /\ opens' = opens + 1
      /\ found' = [found EXCEPT ![m] = f]
      /\ shared' = (shared \/ Others(m) # {})
      /\ MapGoto(m, "open")
      /\ UNCHANGED <<file, dataSz, allocSz, saved>>
  BY <1>2 DEF Stat
<1>4. /\ at' \in [Maps -> {"none", "open", "truncate", "map", "ready", "written"}]
      /\ at'[m] = "open" /\ \A n \in Maps : n # m => at'[n] = at[n]
  BY <1>3, GotoIs
<1>5. f \in Nat \cup {-1}
  <2>1. file # Absent => file \in Seq(Chars)
    BY DEF MapTypeOK
  <2> QED BY <1>2, <2>1
<1>6. /\ found' \in [Maps -> Nat \cup {-1}] /\ found'[m] = f
  BY <1>3, <1>5 DEF MapTypeOK
<1>7. MapTypeOK'
  <2>1. opens' \in 0 .. MaxOpens
    BY <1>3, FileMapAssumption DEF MapTypeOK
  <2>2. info' \in [Maps -> Infos]
    BY <1>1 DEF MapTypeOK
  <2>3. shared' \in BOOLEAN
    BY <1>3, Zenon
  <2>4. /\ dataSz' \in [Maps -> Nat] /\ allocSz' \in [Maps -> Nat]
        /\ {file', saved'} \subseteq {Absent} \cup Seq(Chars)
    BY <1>3 DEF MapTypeOK
  <2> QED BY <1>4, <1>6, <2>1, <2>2, <2>3, <2>4 DEF MapTypeOK, Chars, Infos
<1>8. HandInv'
  <2> SUFFICES ASSUME ~ shared' PROVE HandInv'
    BY DEF HandInv
  <2>1. ~ shared /\ \A n \in Maps : n # m => at[n] = "none"
    BY <1>3 DEF Others
  <2>2. file = saved
    BY <1>3, <2>1 DEF HandInv
  <2>3. \A n \in Maps : n # m => at'[n] = "none"
    BY <1>4, <2>1
  <2>4. found'[m] = IF saved' = Absent THEN -1 ELSE Len(saved')
    BY <1>2, <1>3, <1>6, <2>2
  <2> QED BY <1>3, <1>4, <2>2, <2>3, <2>4 DEF HandInv
<1> QED BY <1>7, <1>8

\* The last one to leave hands the file on as it is then.
LEMMA LeftKeeps ==
  ASSUME MapTypeOK, HandInv, NEW m \in Maps, at[m] # "none", Left(m), file' \in Bytelists
  PROVE  MapTypeOK' /\ HandInv'
<1>1. /\ MapGoto(m, "none") /\ UNCHANGED opens
      /\ IF Others(m) = {} THEN saved' = file' /\ shared' = FALSE ELSE UNCHANGED <<saved, shared>>
      /\ info' = [info EXCEPT ![m] = NewInfo] /\ found' = [found EXCEPT ![m] = -1]
      /\ dataSz' = [dataSz EXCEPT ![m] = 0] /\ allocSz' = [allocSz EXCEPT ![m] = 0]
  BY DEF Left
<1>2. /\ at' \in [Maps -> {"none", "open", "truncate", "map", "ready", "written"}]
      /\ at'[m] = "none" /\ \A n \in Maps : n # m => at'[n] = at[n]
  BY <1>1, GotoIs
<1>3. MapTypeOK'
  <2>1. info' \in [Maps -> Infos]
    BY <1>1, NewInfoIs DEF MapTypeOK
  <2>2. shared' \in BOOLEAN
    BY <1>1 DEF MapTypeOK
  <2>3. saved' \in Bytelists
    BY <1>1 DEF MapTypeOK, Bytelists
  <2>4. found' \in [Maps -> Nat \cup {-1}]
    BY <1>1 DEF MapTypeOK
  <2>5. dataSz' \in [Maps -> Nat] /\ allocSz' \in [Maps -> Nat]
    BY <1>1 DEF MapTypeOK
  <2>6. opens' \in 0 .. MaxOpens
    BY <1>1 DEF MapTypeOK
  <2> QED BY <1>2, <2>1, <2>2, <2>3, <2>4, <2>5, <2>6 DEF MapTypeOK, Bytelists, Chars, Infos
<1>4. HandInv'
  <2> SUFFICES ASSUME ~ shared' PROVE HandInv'
    BY DEF HandInv
  <2>1. Others(m) = {}
    <3> SUFFICES ASSUME Others(m) # {} PROVE FALSE
      OBVIOUS
    <3>1. ~ shared
      BY <1>1
    <3>2. PICK n \in Maps : n # m /\ at[n] # "none"
      BY DEF Others
    <3> QED BY <3>1, <3>2 DEF HandInv
  <2>2. \A n \in Maps : at'[n] = "none"
    BY <1>2, <2>1 DEF Others
  <2>3. saved' = file'
    BY <1>1, <2>1
  <2> QED BY <2>2, <2>3 DEF HandInv
<1> QED BY <1>3, <1>4

\* One context goes on while the others stay where they are: what is to be shown of it.
LEMMA GoesOn ==
  ASSUME HandInv, NEW m \in Maps, at[m] # "none", NEW l, l # "none",
         at'[m] = l, \A n \in Maps : n # m => at'[n] = at[n],
         UNCHANGED shared,
         ~ shared => /\ l = "open" => file' = saved' /\ found'[m] = IF saved' = Absent THEN -1 ELSE Len(saved')
                     /\ l = "truncate" => file' = Had' /\ SizesFit(m)'
                     /\ l \in {"map", "ready"} => Handed(m)'
  PROVE  HandInv'
<1> SUFFICES ASSUME ~ shared' PROVE HandInv'
  BY DEF HandInv
<1>1. \A n \in Maps : n # m => at'[n] = "none"
  BY DEF HandInv
<1>2. \A n, k \in Maps : at'[n] # "none" /\ at'[k] # "none" => n = k
  BY <1>1
<1>3. ~ \A n \in Maps : at'[n] = "none"
  OBVIOUS
<1>4. ASSUME NEW n \in Maps
      PROVE  /\ at'[n] = "open" => file' = saved' /\ found'[n] = IF saved' = Absent THEN -1 ELSE Len(saved')
             /\ at'[n] = "truncate" => file' = Had' /\ SizesFit(n)'
             /\ at'[n] \in {"map", "ready"} => Handed(n)'
  <2>1. CASE n = m
    BY <2>1
  <2>2. CASE n # m
    BY <1>1, <2>2
  <2> QED BY <2>1, <2>2
<1> QED BY <1>2, <1>3, <1>4 DEF HandInv

\* What was left is a text.
LEMMA HadIs ==
  ASSUME MapTypeOK
  PROVE  Had \in Seq(Chars) /\ Len(Had) \in Nat
<1>1. Had \in Seq(Chars)
  BY DEF Had, MapTypeOK
<1> QED BY <1>1

\* The sizes are those of what was found.
LEMMA OpenFileKeeps ==
  ASSUME MapTypeOK, HandInv, NEW m \in Maps, OpenFile(m)
  PROVE  MapTypeOK' /\ HandInv'
<1>1. PICK d : d = IF found[m] # -1 /\ info[m].size = 0 THEN found[m] ELSE 0
  OBVIOUS
<1>2. PICK a : a = Pages(IF found[m] # -1 /\ info[m].size = 0 THEN found[m] ELSE info[m].size)
  OBVIOUS
<1>3. /\ at[m] = "open" /\ file' = Content
      /\ dataSz' = [dataSz EXCEPT ![m] = d] /\ allocSz' = [allocSz EXCEPT ![m] = a]
      /\ found' = [found EXCEPT ![m] = -1]
      /\ MapGoto(m, "truncate")
      /\ UNCHANGED <<info, opens, saved, shared>>
  BY <1>1, <1>2 DEF OpenFile
<1>4. /\ at' \in [Maps -> {"none", "open", "truncate", "map", "ready", "written"}]
      /\ at'[m] = "truncate" /\ \A n \in Maps : n # m => at'[n] = at[n]
  BY <1>3, GotoIs
<1>5. found[m] \in Nat \cup {-1} /\ info[m] \in Infos /\ info[m].size \in Nat
  BY FileMapAssumption DEF MapTypeOK, Infos
<1>6. d \in Nat /\ a \in Nat
  BY <1>1, <1>2, <1>5, PagesIs
<1>7. /\ dataSz' \in [Maps -> Nat] /\ allocSz' \in [Maps -> Nat]
      /\ dataSz'[m] = d /\ allocSz'[m] = a
  BY <1>3, <1>6 DEF MapTypeOK
<1>8. MapTypeOK'
  <2>1. file' \in Bytelists
    BY <1>3, ContentIs DEF MapTypeOK, Bytelists
  <2>2. found' \in [Maps -> Nat \cup {-1}]
    BY <1>3 DEF MapTypeOK
  <2>3. /\ info' \in [Maps -> Infos] /\ opens' \in 0 .. MaxOpens /\ shared' \in BOOLEAN
        /\ saved' \in Bytelists
    BY <1>3 DEF MapTypeOK, Bytelists
  <2> QED BY <1>4, <1>7, <2>1, <2>2, <2>3 DEF MapTypeOK, Bytelists, Chars, Infos
<1>9. ASSUME ~ shared PROVE file' = Had' /\ SizesFit(m)'
  <2>1. file = saved /\ found[m] = IF saved = Absent THEN -1 ELSE Len(saved)
    BY <1>3, <1>9 DEF HandInv
  <2>2. file' = Had' /\ Had' = Had
    BY <1>3, <2>1 DEF Content, Had
  <2>3. Len(Had) \in Nat /\ Len(Absent) \in Nat
    BY HadIs DEF Absent
  <2>4. CASE saved = Absent
    <3>1. found[m] = -1 /\ Had = <<>> /\ Len(Had) = 0
      BY <2>1, <2>4 DEF Had
    <3>2. d = 0 /\ a = Pages(info[m].size)
      BY <1>1, <1>2, <3>1
    <3>3. info'[m].size = info[m].size
      BY <1>3
    <3> QED BY <1>7, <2>2, <3>1, <3>2, <3>3 DEF SizesFit
  <2>5. CASE saved # Absent
    <3>1. Had = saved /\ found[m] = Len(Had) /\ found[m] # -1
      BY <2>1, <2>3, <2>5 DEF Had
    <3>2. /\ d = IF info[m].size = 0 THEN Len(Had) ELSE 0
          /\ a = Pages(IF info[m].size = 0 THEN Len(Had) ELSE info[m].size)
      BY <1>1, <1>2, <3>1
    <3>3. info'[m].size = info[m].size
      BY <1>3
    <3> QED BY <1>7, <2>2, <3>1, <3>2, <3>3 DEF SizesFit
  <2> QED BY <2>2, <2>4, <2>5
<1>10. HandInv'
  BY <1>3, <1>4, <1>9, GoesOn
<1> QED BY <1>8, <1>10

\* A file of the right length stays as it is, another gets the pages that were asked for.
LEMMA TruncateKeeps ==
  ASSUME MapTypeOK, HandInv, NEW m \in Maps, Truncate(m)
  PROVE  MapTypeOK' /\ HandInv'
<1>1. /\ at[m] = "truncate"
      /\ file' = IF dataSz[m] = 0 THEN Resized(allocSz[m]) ELSE file
      /\ MapGoto(m, "map")
      /\ UNCHANGED <<info, found, dataSz, allocSz, opens, saved, shared>>
  BY DEF Truncate
<1>2. /\ at' \in [Maps -> {"none", "open", "truncate", "map", "ready", "written"}]
      /\ at'[m] = "map" /\ \A n \in Maps : n # m => at'[n] = at[n]
  BY <1>1, GotoIs
<1>3. file \in Bytelists /\ allocSz[m] \in Nat /\ info[m].size \in Nat /\ dataSz[m] \in Nat
  BY FileMapAssumption DEF MapTypeOK, Infos, Bytelists
<1>4. MapTypeOK'
  <2>1. file' \in Bytelists
    BY <1>1, <1>3, ResizedIs DEF Bytelists
  <2>2. /\ info' \in [Maps -> Infos] /\ opens' \in 0 .. MaxOpens /\ shared' \in BOOLEAN
        /\ saved' \in Bytelists /\ found' \in [Maps -> Nat \cup {-1}]
        /\ dataSz' \in [Maps -> Nat] /\ allocSz' \in [Maps -> Nat]
    BY <1>1 DEF MapTypeOK, Bytelists
  <2> QED BY <1>2, <2>1, <2>2 DEF MapTypeOK, Bytelists, Chars, Infos
<1>5. ASSUME ~ shared PROVE Handed(m)'
  <2>1. file = Had /\ SizesFit(m) /\ Had' = Had /\ info' = info /\ dataSz' = dataSz
    BY <1>1, <1>5 DEF HandInv, Had
  <2>2. Had \in Seq(Chars) /\ Len(Had) \in Nat /\ Content = Had
    <3>1. Had # Absent
      BY HadIs DEF Absent, Chars
    <3> QED BY <2>1, <3>1, HadIs DEF Content
  <2>3. CASE info[m].size = 0 /\ dataSz[m] = 0
    <3>1. Len(Had) = 0 /\ allocSz[m] = 0
      BY <2>1, <2>3, PagesIs DEF SizesFit
    <3>2. file' = Resized(0)
      BY <1>1, <2>3, <3>1
    <3>3. Resized(0) \in Seq(Chars) /\ Len(Resized(0)) = 0
      BY <1>3, ResizedIs
    <3>4. file' = Had
      <4>1. Resized(0) = <<>> /\ Had = <<>>
        BY <2>2, <3>1, <3>3, EmptySeq
      <4> QED BY <3>2, <4>1
    <3> QED BY <2>1, <2>3, <3>1, <3>4 DEF Handed
  <2>4. CASE info[m].size = 0 /\ dataSz[m] # 0
    <3>1. file' = Had /\ dataSz[m] = Len(Had)
      BY <1>1, <2>1, <2>4 DEF SizesFit
    <3> QED BY <2>1, <2>4, <3>1 DEF Handed
  <2>5. CASE info[m].size # 0
    <3>1. dataSz[m] = 0 /\ allocSz[m] = Pages(info[m].size)
      BY <2>1, <2>5 DEF SizesFit
    <3>2. PICK n \in Nat : n = allocSz[m]
      BY <1>3
    <3>3. file' = Resized(n)
      BY <1>1, <3>1, <3>2
    <3>4. /\ Len(Resized(n)) = n
          /\ \A i \in 1 .. n : Resized(n)[i] = IF i <= Len(Had) THEN Had[i] ELSE "zero"
      BY <1>3, <2>2, ResizedIs
    <3>5. PICK k : k = Min({Len(Had), n})
      OBVIOUS
    <3>6. k \in Nat /\ k <= Len(Had) /\ k <= n
      <4>1. PICK l : l = Len(Had)
        OBVIOUS
      <4>2. l \in Int /\ l \in Nat /\ n \in Int
        BY <2>2, <4>1
      <4>3. Min({l, n}) \in {l, n} /\ Min({l, n}) <= l /\ Min({l, n}) <= n
        BY <4>2, MinOfTwo
      <4>4. k \in {l, n} /\ k <= l /\ k <= n
        BY <3>5, <4>1, <4>3, Zenon
      <4> QED BY <4>1, <4>2, <4>4
    <3>7. \A i \in 1 .. k : Resized(n)[i] = Had[i]
      <4> SUFFICES ASSUME NEW i \in 1 .. k PROVE Resized(n)[i] = Had[i]
        OBVIOUS
      <4>1. i \in 1 .. n /\ i <= Len(Had)
        BY <2>2, <3>6
      <4> QED BY <3>4, <4>1
    <3>8. Len(file') = n /\ \A i \in 1 .. Min({Len(Had), Len(file')}) : file'[i] = Had[i]
      BY <3>3, <3>4, <3>5, <3>7
    <3> QED BY <2>1, <2>5, <3>1, <3>2, <3>8 DEF Handed, Pages
  <2> QED BY <2>3, <2>4, <2>5
<1>6. HandInv'
  BY <1>1, <1>2, <1>5, GoesOn
<1> QED BY <1>4, <1>6

\* The file is mapped as it is.
LEMMA MapFileKeeps ==
  ASSUME MapTypeOK, HandInv, NEW m \in Maps, MapFile(m)
  PROVE  MapTypeOK' /\ HandInv'
<1>1. /\ at[m] = "map" /\ MapGoto(m, "ready")
      /\ UNCHANGED <<file, info, found, dataSz, allocSz, opens, saved, shared>>
  BY DEF MapFile
<1>2. /\ at' \in [Maps -> {"none", "open", "truncate", "map", "ready", "written"}]
      /\ at'[m] = "ready" /\ \A n \in Maps : n # m => at'[n] = at[n]
  BY <1>1, GotoIs
<1>3. MapTypeOK'
  <2>1. /\ info' \in [Maps -> Infos] /\ opens' \in 0 .. MaxOpens /\ shared' \in BOOLEAN
        /\ {file', saved'} \subseteq {Absent} \cup Seq(Chars) /\ found' \in [Maps -> Nat \cup {-1}]
        /\ dataSz' \in [Maps -> Nat] /\ allocSz' \in [Maps -> Nat]
    BY <1>1 DEF MapTypeOK
  <2> QED BY <1>2, <2>1 DEF MapTypeOK, Chars, Infos
<1>4. ASSUME ~ shared PROVE Handed(m)'
  <2>1. Handed(m)
    BY <1>1, <1>4 DEF HandInv
  <2>2. Had' = Had
    BY <1>1 DEF Had
  <2> QED BY <1>1, <2>1, <2>2 DEF Handed
<1>5. HandInv'
  BY <1>1, <1>2, <1>4, GoesOn
<1> QED BY <1>3, <1>5

\* The program writes what is in the file, which gets no longer.
LEMMA WriteMapKeeps ==
  ASSUME MapTypeOK, HandInv, NEW m \in Maps, WriteMap(m)
  PROVE  MapTypeOK' /\ HandInv'
<1>1. PICK i \in 1 .. Min({allocSz[m], Len(Content)}), c \in {"x", "newline"} :
        file' = [file EXCEPT ![i] = c]
  BY DEF WriteMap
<1>2. /\ at[m] = "ready" /\ MapGoto(m, "written")
      /\ UNCHANGED <<info, found, dataSz, allocSz, opens, saved, shared>>
  BY DEF WriteMap
<1>3. /\ at' \in [Maps -> {"none", "open", "truncate", "map", "ready", "written"}]
      /\ at'[m] = "written" /\ \A n \in Maps : n # m => at'[n] = at[n]
  BY <1>2, GotoIs
<1>4. file' \in Bytelists
  <2>1. allocSz[m] \in Nat /\ file \in Bytelists
    BY DEF MapTypeOK, Bytelists
  <2>2. PICK a : a = allocSz[m]
    OBVIOUS
  <2>3. PICK l : l = Len(Content)
    OBVIOUS
  <2>4. a \in Int /\ l \in Nat /\ l \in Int
    BY <2>1, <2>2, <2>3, ContentIs
  <2>5. Min({a, l}) \in {a, l} /\ Min({a, l}) <= l
    BY <2>4, MinOfTwo
  <2>6. i \in 1 .. l
    <3>1. PICK k : k = Min({a, l})
      OBVIOUS
    <3>2. k \in Int /\ k <= l /\ i \in 1 .. k
      BY <1>1, <2>2, <2>3, <2>4, <2>5, <3>1
    <3> QED BY <2>4, <3>2
  <2>7. file \in Seq(Chars) /\ l = Len(file)
    <3>1. file # Absent
      BY <2>3, <2>6 DEF Content
    <3> QED BY <2>1, <2>3, <3>1 DEF Content, Bytelists
  <2>8. c \in Chars
    BY DEF Chars
  <2> QED BY <1>1, <2>6, <2>7, <2>8, ExceptSeq DEF Bytelists
<1>5. MapTypeOK'
  <2>1. /\ info' \in [Maps -> Infos] /\ opens' \in 0 .. MaxOpens /\ shared' \in BOOLEAN
        /\ saved' \in Bytelists /\ found' \in [Maps -> Nat \cup {-1}]
        /\ dataSz' \in [Maps -> Nat] /\ allocSz' \in [Maps -> Nat]
    BY <1>2 DEF MapTypeOK, Bytelists
  <2> QED BY <1>3, <1>4, <2>1 DEF MapTypeOK, Bytelists, Chars, Infos
<1>6. HandInv'
  BY <1>2, <1>3, GoesOn
<1> QED BY <1>5, <1>6

\* A create that fails and a destroy, with or without a length.
LEMMA LeavesKeep ==
  ASSUME MapTypeOK, HandInv, NEW m \in Maps,
         CreateFails(m) \/ \E n \in 0 .. MaxLength : DestroyMap(m, n)
  PROVE  MapTypeOK' /\ HandInv'
<1>1. Left(m) /\ at[m] # "none"
  BY DEF CreateFails, DestroyMap
<1>2. file \in Bytelists
  BY DEF MapTypeOK, Bytelists
<1>3. file' \in Bytelists
  <2>1. CASE UNCHANGED file
    BY <1>2, <2>1
  <2>2. CASE \E n \in 0 .. MaxLength : file' = Resized(n)
    <3>1. PICK n \in Nat : file' = Resized(n)
      BY <2>2, FileMapAssumption
    <3> QED BY <1>2, <3>1, ResizedIs DEF Bytelists
  <2> QED BY <2>1, <2>2 DEF CreateFails, DestroyMap
<1> QED BY <1>1, <1>3, LeftKeeps

\* Somebody else writes the file: the contexts share it then, or nobody has it.
LEMMA ElsewhereKeeps ==
  ASSUME MapTypeOK, HandInv, Elsewhere
  PROVE  MapTypeOK' /\ HandInv'
<1>1. /\ IF \A m \in Maps : at[m] = "none" THEN saved' = file' /\ UNCHANGED shared
                                           ELSE shared' = TRUE /\ UNCHANGED saved
      /\ UNCHANGED <<at, info, found, dataSz, allocSz, opens>>
  BY DEF Elsewhere
<1>2. file' \in Bytelists
  <2>1. file \in Bytelists
    BY DEF MapTypeOK, Bytelists
  <2>2. CASE file' = <<>>
    BY <2>2 DEF Bytelists
  <2>3. CASE file' = Append(Content, "x")
    <3>1. Content \in Seq(Chars) /\ "x" \in Chars
      BY <2>1, ContentIs DEF Chars
    <3> QED BY <2>3, <3>1 DEF Bytelists
  <2>4. CASE file \notin {Absent, <<>>} /\ file' = Front(file)
    <3>1. file \in Seq(Chars) /\ Len(file) \in Nat
      BY <2>1, <2>4 DEF Bytelists
    <3>2. Len(file) - 1 \in Int /\ \A i \in 1 .. Len(file) - 1 : file[i] \in Chars
      BY <3>1
    <3>3. SubSeq(file, 1, Len(file) - 1) \in Seq(Chars)
      BY <3>2, SubSeqProperties
    <3> QED BY <2>4, <3>3 DEF Front, Bytelists
  <2> QED BY <2>2, <2>3, <2>4 DEF Elsewhere
<1>3. MapTypeOK'
  <2>1. saved' \in Bytelists /\ shared' \in BOOLEAN
    BY <1>1, <1>2 DEF MapTypeOK, Bytelists
  <2> QED BY <1>1, <1>2, <2>1 DEF MapTypeOK, Bytelists, Chars, Infos
<1>4. HandInv'
  BY <1>1 DEF HandInv
<1> QED BY <1>3, <1>4

\* Every step of the mapped side keeps what is said of it.
LEMMA MapKept == MapTypeOK /\ HandInv /\ [MapNext]_mapVars => (MapTypeOK /\ HandInv)'
<1>1. MapTypeOK /\ HandInv /\ UNCHANGED mapVars => (MapTypeOK /\ HandInv)'
  <2> SUFFICES ASSUME MapTypeOK, HandInv, UNCHANGED mapVars PROVE MapTypeOK' /\ HandInv'
    OBVIOUS
  <2>1. UNCHANGED <<file, at, info, found, dataSz, allocSz, opens, saved, shared>>
    BY DEF mapVars
  <2>2. MapTypeOK'
    BY <2>1 DEF MapTypeOK
  <2>3. HandInv'
    BY <2>1 DEF HandInv, Handed, SizesFit, Had
  <2> QED BY <2>2, <2>3
<1> QED BY <1>1, StatKeeps, OpenFileKeeps, TruncateKeeps, MapFileKeeps, LeavesKeep, WriteMapKeeps,
           ElsewhereKeeps DEF MapNext

\* A context that is ready has what was handed on.
LEMMA MapHanded == HandInv => HandedOn
  BY DEF HandInv, Handed, Had, HandedOn

-----------------------------------------------------------------------------
(* Paths and directories: FilePaths.                                       *)

\* Where the path is split.
Cut == Max({1} \cup Slashes(path))

\* The buffer is the path with the end of the directory in it, or not.
BufferInv ==
  IF step = "ready"
    THEN /\ fnameOff = Cut
         /\ buffer = [path EXCEPT ![Cut] = IF joined THEN "/" ELSE "nul"]
    ELSE ~ joined

\* The directories on the way up to the '/' that the loop has come to are there,
\* unless something was removed meanwhile or a file is in the way.
WayInv == step \in {"mkdir", "open"} /\ ~ disturbed =>
  /\ stack = <<>> /\ slash \in {0} \cup Slashes(path)
  /\ slash > 0 /\ (\A f \in files : ~ IsStrictPrefix(f, path)) => Exists(SubSeq(path, 1, slash - 1))
  /\ slash > 0 /\ step = "open" => slash = LastSlash(path)

\* The first call of remove_dir is for the directory that it was given.
StackInv ==
  /\ stack \in Seq([dir : Seq({"/", "a", "b", "o"}), read : SUBSET Seq({"/", "a", "b", "o"})])
  /\ stack # <<>> => stack[1].dir \in Tops

\* The characters of a path.
Text == Seq({"/", "a", "b", "o"})

\* A path is not empty.
LEMMA PathIs ==
  ASSUME NEW p \in Paths
  PROVE  p \in Text /\ Len(p) \in Nat \ {0} /\ Slashes(p) \subseteq 1 .. Len(p) /\ DOMAIN p = 1 .. Len(p)
<1>1. p \in Text /\ p # <<>>
  BY FilePathsAssumption DEF Text
<1> QED BY <1>1, EmptySeq, LenProperties DEF Slashes, Text

\* The last '/' of a path, or its first character.
LEMMA CutIs ==
  ASSUME NEW p \in Paths
  PROVE  LET c == Max({1} \cup Slashes(p)) IN
           /\ c \in 1 .. Len(p)
           /\ \A i \in Slashes(p) : i <= c
           /\ c > 1 => c \in Slashes(p)
           /\ LastSlash(p) \in 0 .. Len(p)
           /\ LastSlash(p) > 0 => LastSlash(p) \in Slashes(p)
           /\ \A i \in Slashes(p) : i <= LastSlash(p)
           /\ LastSlash(p) > 1 => c = LastSlash(p)
<1>1. Len(p) \in Nat \ {0} /\ Slashes(p) \subseteq 1 .. Len(p)
  BY PathIs
<1> DEFINE T == {1} \cup Slashes(p)
           U == {0} \cup Slashes(p)
<1>2. T \subseteq 0 .. Len(p) /\ T # {} /\ U \subseteq 0 .. Len(p) /\ U # {}
  BY <1>1
<1>3. PICK n \in Nat : n = Len(p)
  BY <1>1
<1>4. T \subseteq 0 .. n /\ U \subseteq 0 .. n
  BY <1>2, <1>3
<1>5. Max(T) \in T /\ \A y \in T : y <= Max(T)
  <2> HIDE DEF T, U
  <2> QED BY <1>2, <1>4, GreatestNumber
<1>6. Max(U) \in U /\ \A y \in U : y <= Max(U)
  <2> HIDE DEF T, U
  <2> QED BY <1>2, <1>4, GreatestNumber
<1>7. LastSlash(p) = Max(U)
  BY DEF LastSlash
<1>8. PICK c : c = Max(T)
  OBVIOUS
<1>9. PICK d : d = Max(U)
  OBVIOUS
<1>10. /\ c \in {1} \cup Slashes(p) /\ 1 <= c /\ \A i \in Slashes(p) : i <= c
       /\ d \in {0} \cup Slashes(p) /\ 0 <= d /\ \A i \in Slashes(p) : i <= d
  BY <1>5, <1>6, <1>8, <1>9
<1>11. c \in 1 .. Len(p) /\ d \in 0 .. Len(p) /\ c \in Int /\ d \in Int
  BY <1>1, <1>10
<1>12. c > 1 => c \in Slashes(p)
  BY <1>10
<1>13. d > 0 => d \in Slashes(p)
  BY <1>10
<1>14. ASSUME d > 1 PROVE c = d
  <2>1. d \in Slashes(p) /\ d <= c
    BY <1>10, <1>13, <1>14
  <2>2. c \in Slashes(p) /\ c <= d
    BY <1>10, <1>11, <1>12, <1>14, <2>1
  <2> QED BY <1>11, <2>1, <2>2
<1> HIDE DEF T, U
<1> QED BY <1>7, <1>8, <1>9, <1>10, <1>11, <1>12, <1>13, <1>14 DEF T

\* The characters of the buffer.
Marks == {"/", "a", "b", "o", "nul"}

\* At first there is no path.
LEMMA PathInvInit == PathsInit => PathsTypeOK /\ BufferInv /\ WayInv /\ StackInv
<1> SUFFICES ASSUME PathsInit PROVE PathsTypeOK /\ BufferInv /\ WayInv /\ StackInv
  OBVIOUS
<1>1. /\ dirs = {} /\ files = {} /\ step = "none" /\ path \in Paths /\ slash = 0
      /\ buffer = <<>> /\ fnameOff = 0 /\ joined = FALSE /\ paths = 0
      /\ stack = <<>> /\ cleared = <<>> /\ spared = {} /\ emptied = {} /\ disturbed = FALSE
  BY DEF PathsInit
<1>2. PathsTypeOK
  <2>1. slash \in 0 .. Len(path)
    BY <1>1, PathIs
  <2>2. paths \in 0 .. MaxPaths
    BY <1>1, FilePathsAssumption
  <2>3. buffer \in Seq({"/", "a", "b", "o", "nul"}) /\ fnameOff \in Nat
    BY <1>1
  <2>4. \A i \in DOMAIN stack : stack[i].dir \in Seq({"/", "a", "b", "o"})
    BY <1>1
  <2>5. joined \in BOOLEAN /\ disturbed \in BOOLEAN
    BY <1>1, Zenon
  <2> QED BY <1>1, <2>1, <2>2, <2>3, <2>4, <2>5 DEF PathsTypeOK
<1>3. BufferInv
  BY <1>1 DEF BufferInv
<1>4. WayInv
  BY <1>1 DEF WayInv
<1>5. StackInv
  BY <1>1 DEF StackInv
<1> QED BY <1>2, <1>3, <1>4, <1>5

\* A create begins before the first directory.
LEMMA CreateKeeps ==
  ASSUME PathsTypeOK, BufferInv, WayInv, StackInv,
         NEW p \in Paths, NEW makes \in BOOLEAN, PathCreate(p, makes)
  PROVE  PathsTypeOK' /\ BufferInv' /\ WayInv' /\ StackInv'
<1>1. /\ step = "none" /\ paths < MaxPaths /\ paths' = paths + 1
      /\ path' = p /\ slash' = 0 /\ step' \in {"mkdir", "open"}
      /\ cleared' = <<>> /\ spared' = {} /\ disturbed' = (stack # <<>>)
      /\ UNCHANGED <<dirs, files, buffer, fnameOff, joined, stack, emptied>>
  BY DEF PathCreate
<1>2. PathsTypeOK'
  <2>1. slash' \in 0 .. Len(path')
    BY <1>1, PathIs
  <2>2. paths' \in 0 .. MaxPaths
    BY <1>1, FilePathsAssumption DEF PathsTypeOK
  <2>3. /\ buffer' \in Seq({"/", "a", "b", "o", "nul"}) /\ fnameOff' \in Nat
        /\ dirs' \cup files' \subseteq Seq({"/", "a", "b", "o"})
        /\ joined' \in BOOLEAN /\ emptied' \subseteq Links
    BY <1>1 DEF PathsTypeOK
  <2>4. \A i \in DOMAIN stack' : stack'[i].dir \in Seq({"/", "a", "b", "o"})
    BY <1>1 DEF PathsTypeOK
  <2>5. disturbed' \in BOOLEAN
    BY <1>1, Zenon
  <2> QED BY <1>1, <2>1, <2>2, <2>3, <2>4, <2>5 DEF PathsTypeOK
<1>3. BufferInv'
  BY <1>1 DEF BufferInv
<1>4. WayInv'
  <2>1. ~ disturbed' => stack' = <<>>
    BY <1>1, Zenon
  <2>2. slash' = 0 /\ ~ (slash' > 0)
    BY <1>1
  <2> QED BY <2>1, <2>2 DEF WayInv
<1>5. StackInv'
  BY <1>1 DEF StackInv
<1> QED BY <1>2, <1>3, <1>4, <1>5

\* The directories that mkdir is called for, from the left: the one above each is the
\* one before it.
LEMMA AboveIs ==
  ASSUME NEW p \in Paths, NEW s \in {0} \cup Slashes(p), NEW i \in Slashes(p), i > s,
         \A j \in Slashes(p) : j > s => i <= j
  PROVE  /\ SubSeq(p, 1, i - 1) \in Text
         /\ Parent(SubSeq(p, 1, i - 1)) = IF s > 0 THEN SubSeq(p, 1, s - 1) ELSE <<>>
<1>1. p \in Text /\ Len(p) \in Nat \ {0} /\ Slashes(p) \subseteq 1 .. Len(p)
  BY PathIs
<1>2. i \in 1 .. Len(p) /\ i - 1 \in Nat /\ i \in Int /\ s \in Nat /\ s <= i - 1
  BY <1>1
<1>3. \A j \in 1 .. i - 1 : p[j] \in {"/", "a", "b", "o"}
  <2> SUFFICES ASSUME NEW j \in 1 .. i - 1 PROVE p[j] \in {"/", "a", "b", "o"}
    OBVIOUS
  <2>1. j \in 1 .. Len(p)
    BY <1>1, <1>2
  <2> QED BY <1>1, <2>1 DEF Text
<1>4. PICK d : d = SubSeq(p, 1, i - 1)
  OBVIOUS
<1>5. d \in Text /\ Len(d) = i - 1 /\ \A j \in 1 .. i - 1 : d[j] = p[j]
  <2>1. /\ SubSeq(p, 1, i - 1) \in Seq({"/", "a", "b", "o"})
        /\ Len(SubSeq(p, 1, i - 1)) = IF 1 <= i - 1 THEN i - 1 - 1 + 1 ELSE 0
        /\ \A j \in 1 .. i - 1 - 1 + 1 : SubSeq(p, 1, i - 1)[j] = p[1 + j - 1]
    BY <1>2, <1>3, SubSeqProperties
  <2>2. i - 1 - 1 + 1 = i - 1 /\ (IF 1 <= i - 1 THEN i - 1 - 1 + 1 ELSE 0) = i - 1
    BY <1>2
  <2>3. \A j \in Int : 1 + j - 1 = j
    OBVIOUS
  <2> QED BY <1>4, <2>1, <2>2, <2>3 DEF Text
<1>6. Slashes(d) = {j \in Slashes(p) : j < i}
  <2>1. DOMAIN d = 1 .. i - 1
    BY <1>5, LenProperties DEF Text
  <2>2. Slashes(d) = {j \in 1 .. i - 1 : d[j] = "/"}
    BY <2>1 DEF Slashes
  <2>3. ASSUME NEW j PROVE j \in Slashes(d) <=> j \in Slashes(p) /\ j < i
    <3>1. j \in 1 .. i - 1 <=> j \in 1 .. Len(p) /\ j < i
      BY <1>1, <1>2
    <3>2. DOMAIN p = 1 .. Len(p)
      BY PathIs
    <3> QED BY <1>5, <2>2, <3>1, <3>2 DEF Slashes
  <2> QED BY <2>3
<1>7. LastSlash(d) = s
  <2> DEFINE T == {0} \cup Slashes(d)
  <2>1. s \in T /\ T \subseteq Nat
    BY <1>1, <1>2, <1>6
  <2>2. \A j \in T : j <= s
    BY <1>1, <1>2, <1>6
  <2>3. Max(T) = s
    <3> HIDE DEF T
    <3> QED BY <2>1, <2>2, GreatestIs
  <2> QED BY <2>3 DEF LastSlash
<1>8. CASE s > 0
  <2>1. Max({s, 1}) = s
    <3>1. {s, 1} \subseteq Nat /\ \A y \in {s, 1} : y <= s
      BY <1>2, <1>8
    <3> QED BY <3>1, GreatestIs
  <2>2. Parent(d) = SubSeq(d, 1, s - 1)
    BY <1>7, <2>1 DEF Parent
  <2>3. SubSeq(d, 1, s - 1) = SubSeq(p, 1, s - 1)
    <3>1. s - 1 \in Int /\ \A j \in 1 .. s - 1 : j \in 1 .. i - 1
      BY <1>2, <1>8
    <3>2. \A j \in 1 .. s - 1 : d[j] = p[j] /\ p[j] \in {"/", "a", "b", "o"}
      BY <1>3, <1>5, <3>1
    <3>3. /\ SubSeq(d, 1, s - 1) \in Text /\ SubSeq(p, 1, s - 1) \in Text
          /\ Len(SubSeq(d, 1, s - 1)) = IF 1 <= s - 1 THEN s - 1 - 1 + 1 ELSE 0
          /\ Len(SubSeq(p, 1, s - 1)) = IF 1 <= s - 1 THEN s - 1 - 1 + 1 ELSE 0
          /\ \A j \in 1 .. s - 1 - 1 + 1 : SubSeq(d, 1, s - 1)[j] = d[1 + j - 1]
          /\ \A j \in 1 .. s - 1 - 1 + 1 : SubSeq(p, 1, s - 1)[j] = p[1 + j - 1]
      BY <3>1, <3>2, SubSeqProperties DEF Text
    <3>4. (IF 1 <= s - 1 THEN s - 1 - 1 + 1 ELSE 0) = s - 1 /\ s - 1 - 1 + 1 = s - 1
      BY <1>2, <1>8
    <3>5. \A j \in Int : 1 + j - 1 = j
      OBVIOUS
    <3>6. ASSUME NEW j \in 1 .. s - 1 PROVE SubSeq(d, 1, s - 1)[j] = SubSeq(p, 1, s - 1)[j]
      <4>1. j \in 1 .. s - 1 - 1 + 1 /\ 1 + j - 1 = j
        BY <3>4
      <4>2. SubSeq(d, 1, s - 1)[j] = d[j] /\ SubSeq(p, 1, s - 1)[j] = p[j]
        BY <3>3, <4>1
      <4> QED BY <3>2, <4>2
    <3> QED BY <3>3, <3>4, <3>6, SeqEqual DEF Text
  <2> QED BY <1>4, <1>5, <1>8, <2>2, <2>3
<1>9. CASE ~ (s > 0)
  <2>1. s = 0
    BY <1>2, <1>9
  <2>2. Max({0, 1}) = 1
    <3>1. {0, 1} \subseteq Nat /\ \A y \in {0, 1} : y <= 1
      OBVIOUS
    <3> QED BY <3>1, GreatestIs
  <2>3. Parent(d) = SubSeq(d, 1, 0)
    BY <1>7, <2>1, <2>2 DEF Parent
  <2>4. SubSeq(d, 1, 0) = <<>>
    BY SubSeqEmpty
  <2> QED BY <1>4, <1>5, <1>9, <2>3, <2>4
<1> QED BY <1>8, <1>9

\* What is in front of a '/' of a path is before it.
LEMMA FrontOf ==
  ASSUME NEW p \in Paths, NEW i \in Slashes(p)
  PROVE  IsStrictPrefix(SubSeq(p, 1, i - 1), p)
<1>1. p \in Text /\ Len(p) \in Nat \ {0} /\ i \in 1 .. Len(p)
  BY PathIs
<1>2. i - 1 \in Nat /\ i - 1 < Len(p) /\ i - 1 \in Int
  BY <1>1
<1>3. \A j \in 1 .. i - 1 : p[j] \in {"/", "a", "b", "o"}
  <2> SUFFICES ASSUME NEW j \in 1 .. i - 1 PROVE p[j] \in {"/", "a", "b", "o"}
    OBVIOUS
  <2>1. j \in 1 .. Len(p)
    BY <1>1, <1>2
  <2> QED BY <1>1, <2>1 DEF Text
<1>4. PICK d : d = SubSeq(p, 1, i - 1)
  OBVIOUS
<1>5. d \in Text /\ Len(d) = i - 1
  <2>1. /\ SubSeq(p, 1, i - 1) \in Seq({"/", "a", "b", "o"})
        /\ Len(SubSeq(p, 1, i - 1)) = IF 1 <= i - 1 THEN i - 1 - 1 + 1 ELSE 0
    BY <1>2, <1>3, SubSeqProperties
  <2>2. (IF 1 <= i - 1 THEN i - 1 - 1 + 1 ELSE 0) = i - 1
    BY <1>2
  <2> QED BY <1>4, <2>1, <2>2 DEF Text
<1>6. Len(d) <= Len(p) /\ d # p
  BY <1>2, <1>5
<1>7. SubSeq(d, 1, Len(d)) = d
  BY <1>5, SubSeqFull DEF Text
<1>8. SubSeq(p, 1, Len(d)) = d
  BY <1>4, <1>5
<1> QED BY <1>4, <1>6, <1>7, <1>8 DEF IsStrictPrefix, IsPrefix

\* The directory in front of the next '/' is there when the one before it is.
LEMMA MakeKeeps ==
  ASSUME PathsTypeOK, BufferInv, WayInv, StackInv, MakeDirectories
  PROVE  PathsTypeOK' /\ BufferInv' /\ WayInv' /\ StackInv'
<1> DEFINE left == {i \in Slashes(path) : i > slash}
<1>1. /\ step = "mkdir"
      /\ IF left = {} THEN step' = "open" /\ UNCHANGED <<dirs, slash, disturbed>>
         ELSE /\ slash' = Min(left) /\ MakeDir(SubSeq(path, 1, Min(left) - 1))
              /\ UNCHANGED step
      /\ UNCHANGED <<files, path, buffer, fnameOff, joined, paths, stack, cleared, spared, emptied>>
  BY DEF MakeDirectories
<1>2. path \in Paths /\ slash \in 0 .. Len(path) /\ Len(path) \in Nat /\ Slashes(path) \subseteq 1 .. Len(path)
  BY PathIs DEF PathsTypeOK
<1>3. BufferInv' /\ StackInv'
  BY <1>1 DEF BufferInv, StackInv
<1>4. ASSUME left = {} PROVE PathsTypeOK' /\ WayInv'
  <2>1. step' = "open" /\ UNCHANGED <<dirs, slash, disturbed>>
    BY <1>1, <1>4
  <2>2. PathsTypeOK'
    BY <1>1, <2>1 DEF PathsTypeOK
  <2>3. WayInv'
    <3> SUFFICES ASSUME ~ disturbed' PROVE WayInv'
      BY DEF WayInv
    <3>1. /\ ~ disturbed /\ stack = <<>> /\ slash \in {0} \cup Slashes(path)
          /\ slash > 0 /\ (\A f \in files : ~ IsStrictPrefix(f, path)) => Exists(SubSeq(path, 1, slash - 1))
      BY <1>1, <2>1 DEF WayInv
    <3>2. ASSUME slash > 0 PROVE slash = LastSlash(path)
      <4>1. slash \in Slashes(path)
        BY <3>1, <3>2
      <4>2. PICK m : m = LastSlash(path)
        OBVIOUS
      <4>3. /\ m \in 0 .. Len(path) /\ (m > 0 => m \in Slashes(path)) /\ slash <= m
        BY <1>2, <4>1, <4>2, CutIs
      <4>4. m \in Slashes(path) /\ ~ (m > slash)
        BY <1>2, <1>4, <3>2, <4>3
      <4> QED BY <1>2, <4>2, <4>3, <4>4
    <3>3. Exists(SubSeq(path, 1, slash - 1)) = Exists(SubSeq(path, 1, slash - 1))' /\ LastSlash(path) = LastSlash(path)'
          /\ Slashes(path)' = Slashes(path)
      BY <1>1, <2>1 DEF Exists
    <3> QED BY <1>1, <2>1, <3>1, <3>2, <3>3 DEF WayInv
  <2> QED BY <2>2, <2>3
<1>5. ASSUME left # {} PROVE PathsTypeOK' /\ WayInv'
  <2>1. PICK i : i = Min(left)
    OBVIOUS
  <2>2. left \subseteq Nat
    BY <1>2
  <2>3. i \in left /\ \A j \in left : i <= j
    <3> HIDE DEF left
    <3> QED BY <1>5, <2>1, <2>2, LeastNumber
  <2>4. i \in Slashes(path) /\ i > slash /\ \A j \in Slashes(path) : j > slash => i <= j
    BY <2>3
  <2>5. PICK d : d = SubSeq(path, 1, i - 1)
    OBVIOUS
  <2>6. /\ slash' = i /\ MakeDir(d) /\ UNCHANGED step
    BY <1>1, <1>5, <2>1, <2>5
  <2>7. \/ /\ dirs' = IF d # <<>> /\ d \notin files /\ Exists(Parent(d)) THEN dirs \cup {d} ELSE dirs
           /\ UNCHANGED disturbed
        \/ disturbed' = TRUE /\ UNCHANGED dirs
    BY <2>6 DEF MakeDir
  <2>8. d \in Text
    <3>1. path \in Text /\ i \in 1 .. Len(path) /\ i - 1 \in Int
      BY <1>2, <2>4, PathIs
    <3>2. \A j \in 1 .. i - 1 : path[j] \in {"/", "a", "b", "o"}
      <4> SUFFICES ASSUME NEW j \in 1 .. i - 1 PROVE path[j] \in {"/", "a", "b", "o"}
        OBVIOUS
      <4>1. j \in 1 .. Len(path)
        BY <1>2, <3>1
      <4> QED BY <3>1, <4>1 DEF Text
    <3>3. SubSeq(path, 1, i - 1) \in Text
      BY <3>1, <3>2, SubSeqProperties DEF Text
    <3> QED BY <2>5, <3>3
  <2>9. PathsTypeOK'
    <3>1. slash' \in 0 .. Len(path')
      BY <1>1, <1>2, <2>4, <2>6
    <3>2. dirs' \cup files' \subseteq Seq({"/", "a", "b", "o"})
      BY <1>1, <2>7, <2>8 DEF PathsTypeOK, Text
    <3>3. disturbed' \in BOOLEAN
      BY <2>7, Zenon DEF PathsTypeOK
    <3> QED BY <1>1, <2>6, <3>1, <3>2, <3>3 DEF PathsTypeOK
  <2>10. WayInv'
    <3> SUFFICES ASSUME ~ disturbed' PROVE WayInv'
      BY DEF WayInv
    <3>0. /\ ~ disturbed
          /\ dirs' = IF d # <<>> /\ d \notin files /\ Exists(Parent(d)) THEN dirs \cup {d} ELSE dirs
      BY <2>7
    <3>1. /\ ~ disturbed /\ stack = <<>> /\ slash \in {0} \cup Slashes(path)
          /\ slash > 0 /\ (\A f \in files : ~ IsStrictPrefix(f, path)) => Exists(SubSeq(path, 1, slash - 1))
      BY <1>1, <3>0 DEF WayInv
    <3>2. ASSUME \A f \in files : ~ IsStrictPrefix(f, path)
          PROVE  d = <<>> \/ d \in dirs'
      <4>1. Parent(d) = IF slash > 0 THEN SubSeq(path, 1, slash - 1) ELSE <<>>
        BY <1>2, <2>4, <2>5, <3>1, AboveIs
      <4>2. Exists(Parent(d))
        BY <3>1, <3>2, <4>1 DEF Exists
      <4>3. d \notin files
        BY <1>2, <2>4, <2>5, <3>2, FrontOf
      <4> QED BY <3>0, <4>2, <4>3
    <3>3. slash' \in {0} \cup Slashes(path)'
      BY <1>1, <2>4, <2>6
    <3>4. (\A f \in files' : ~ IsStrictPrefix(f, path')) => Exists(SubSeq(path, 1, slash - 1))'
      BY <1>1, <2>5, <2>6, <3>2 DEF Exists
    <3> QED BY <1>1, <2>6, <3>1, <3>3, <3>4 DEF WayInv
  <2> QED BY <2>9, <2>10
<1> QED BY <1>3, <1>4, <1>5

\* A call of remove_dir.
Frames == [dir : Seq({"/", "a", "b", "o"}), read : SUBSET Seq({"/", "a", "b", "o"})]

\* Every call of remove_dir is for a path.
LEMMA FramesAre ==
  ASSUME NEW s \in Seq(Frames)
  PROVE  \A i \in DOMAIN s : s[i].dir \in Seq({"/", "a", "b", "o"})
<1> SUFFICES ASSUME NEW i \in DOMAIN s PROVE s[i].dir \in Seq({"/", "a", "b", "o"})
  OBVIOUS
<1>1. i \in 1 .. Len(s)
  BY LenProperties
<1>2. s[i] \in Frames
  BY <1>1, ElementOfSeq
<1> QED BY <1>2 DEF Frames

\* The name is split where it was to be split.
LEMMA OpenKeeps ==
  ASSUME PathsTypeOK, BufferInv, WayInv, StackInv, OpenPath
  PROVE  PathsTypeOK' /\ BufferInv' /\ WayInv' /\ StackInv'
<1>1. PICK i : i = Max({1} \cup Slashes(path))
  OBVIOUS
<1>2. /\ step = "open" /\ files' = files \cup {path}
      /\ buffer' = [path EXCEPT ![i] = "nul"] /\ fnameOff' = i /\ step' = "ready"
      /\ UNCHANGED <<dirs, path, slash, joined, paths, stack, cleared, spared, emptied, disturbed>>
  BY <1>1 DEF OpenPath, Split
<1>3. path \in Paths /\ path \in Text /\ i \in 1 .. Len(path)
  BY <1>1, PathIs, CutIs DEF PathsTypeOK
<1>4. PathsTypeOK'
  <2>1. buffer' \in Seq({"/", "a", "b", "o", "nul"})
    <3>1. path \in Seq(Marks) /\ "nul" \in Marks
      BY <1>3, SeqMonotonic DEF Text, Marks
    <3> QED BY <1>2, <1>3, <3>1, ExceptSeq DEF Marks
  <2>2. dirs' \cup files' \subseteq Seq({"/", "a", "b", "o"}) /\ fnameOff' \in Nat
    BY <1>2, <1>3 DEF PathsTypeOK, Text
  <2> QED BY <1>2, <2>1, <2>2 DEF PathsTypeOK
<1>5. BufferInv'
  <2>1. ~ joined /\ ~ joined' /\ Cut' = i
    BY <1>1, <1>2 DEF BufferInv, Cut
  <2> QED BY <1>2, <2>1 DEF BufferInv
<1>6. WayInv' /\ StackInv'
  BY <1>2 DEF WayInv, StackInv
<1> QED BY <1>4, <1>5, <1>6

\* The buffer is cleared.
LEMMA ClearKeeps ==
  ASSUME PathsTypeOK, BufferInv, WayInv, StackInv, OpenPathFails \/ PathDestroy
  PROVE  PathsTypeOK' /\ BufferInv' /\ WayInv' /\ StackInv'
<1>1. /\ buffer' = <<>> /\ fnameOff' = 0 /\ joined' = FALSE /\ step' = "none"
      /\ UNCHANGED <<dirs, files, path, slash, paths, stack, cleared, spared, emptied, disturbed>>
  BY DEF OpenPathFails, PathDestroy, ClearPath
<1>2. PathsTypeOK'
  <2>1. buffer' \in Seq({"/", "a", "b", "o", "nul"}) /\ fnameOff' \in Nat
    BY <1>1
  <2> QED BY <1>1, <2>1 DEF PathsTypeOK
<1>3. BufferInv' /\ WayInv' /\ StackInv'
  BY <1>1 DEF BufferInv, WayInv, StackInv
<1> QED BY <1>2, <1>3

\* The getters put the '/' back, or take it away, where the path was split.
LEMMA GettersKeep ==
  ASSUME PathsTypeOK, BufferInv, WayInv, StackInv, GetFullPath \/ ResetFullPath
  PROVE  PathsTypeOK' /\ BufferInv' /\ WayInv' /\ StackInv'
<1>1. PICK j \in BOOLEAN :
        /\ step = "ready" /\ buffer' = [buffer EXCEPT ![fnameOff] = IF j THEN "/" ELSE "nul"]
        /\ joined' = j
        /\ UNCHANGED <<dirs, files, step, path, slash, fnameOff, paths, stack, cleared, spared,
                       emptied, disturbed>>
  BY DEF GetFullPath, ResetFullPath
<1>2. path \in Paths /\ path \in Text /\ fnameOff = Cut /\ fnameOff \in 1 .. Len(path)
  <2>1. path \in Paths /\ fnameOff = Cut
    BY <1>1 DEF PathsTypeOK, BufferInv
  <2>2. Cut \in 1 .. Len(path)
    BY <2>1, CutIs DEF Cut
  <2> QED BY <2>1, <2>2, PathIs
<1>3. PICK e \in {"/", "nul"} : e = IF joined THEN "/" ELSE "nul"
  OBVIOUS
<1>4. PICK g \in {"/", "nul"} : g = IF j THEN "/" ELSE "nul"
  OBVIOUS
<1>5. PICK i : i = fnameOff
  OBVIOUS
<1>6. buffer = [path EXCEPT ![i] = e] /\ buffer' = [buffer EXCEPT ![i] = g]
  BY <1>1, <1>2, <1>3, <1>4, <1>5 DEF BufferInv
<1>7. buffer' = [path EXCEPT ![i] = g]
  <2>1. [[path EXCEPT ![i] = e] EXCEPT ![i] = g] = [path EXCEPT ![i] = g]
    OBVIOUS
  <2> QED BY <1>6, <2>1
<1>8. PathsTypeOK'
  <2>1. buffer' \in Seq({"/", "a", "b", "o", "nul"})
    <3>1. path \in Seq(Marks) /\ g \in Marks /\ i \in 1 .. Len(path)
      BY <1>2, <1>5, SeqMonotonic DEF Text, Marks
    <3> QED BY <1>7, <3>1, ExceptSeq DEF Marks
  <2> QED BY <1>1, <2>1 DEF PathsTypeOK
<1>9. BufferInv'
  <2>1. Cut' = i
    BY <1>1, <1>2, <1>5 DEF Cut
  <2>2. g = IF joined' THEN "/" ELSE "nul"
    BY <1>1, <1>4
  <2> QED BY <1>1, <1>5, <1>7, <2>1, <2>2 DEF BufferInv
<1>10. WayInv' /\ StackInv'
  BY <1>1 DEF WayInv, StackInv
<1> QED BY <1>8, <1>9, <1>10

\* The removal disturbs a create that runs.
LEMMA RemoveStartKeeps ==
  ASSUME PathsTypeOK, BufferInv, WayInv, StackInv, NEW d \in Tops, RemoveStart(d)
  PROVE  PathsTypeOK' /\ BufferInv' /\ WayInv' /\ StackInv'
<1>1. /\ stack = <<>> /\ d \in dirs /\ stack' = Append(stack, [dir |-> d, read |-> {}])
      /\ cleared' = <<>> /\ spared' = {} /\ disturbed' = (step # "none")
      /\ UNCHANGED <<dirs, files, step, path, slash, buffer, fnameOff, joined, paths, emptied>>
  BY DEF RemoveStart, Push
<1>2. /\ stack' \in Seq(Frames) /\ stack'[1].dir = d
  <2>1. [dir |-> d, read |-> {}] \in Frames /\ stack \in Seq(Frames)
    BY <1>1 DEF Frames, PathsTypeOK
  <2>2. PICK r : r = [dir |-> d, read |-> {}]
    OBVIOUS
  <2>3. Append(stack, r) \in Seq(Frames) /\ Append(stack, r)[1] = r
    BY <1>1, <2>1, <2>2
  <2> QED BY <1>1, <2>2, <2>3
<1>3. StackInv'
  BY <1>2 DEF StackInv, Frames
<1>4. PathsTypeOK'
  <2>1. \A i \in DOMAIN stack' : stack'[i].dir \in Seq({"/", "a", "b", "o"})
    BY <1>2, FramesAre
  <2>2. disturbed' \in BOOLEAN
    BY <1>1, Zenon
  <2> QED BY <1>1, <2>1, <2>2 DEF PathsTypeOK
<1>5. BufferInv'
  BY <1>1 DEF BufferInv, Cut
<1>6. WayInv'
  <2>1. ~ disturbed' => step' = "none"
    BY <1>1, Zenon
  <2> QED BY <2>1 DEF WayInv
<1> QED BY <1>3, <1>4, <1>5, <1>6

\* An entry is skipped, removed or gone into.
LEMMA RemoveEntryKeeps ==
  ASSUME PathsTypeOK, BufferInv, WayInv, StackInv, RemoveEntry
  PROVE  PathsTypeOK' /\ BufferInv' /\ WayInv' /\ StackInv'
<1>1. PICK e \in Unread :
        /\ \/ stack' = [stack EXCEPT ![Len(stack)].read = @ \cup {e}]
           \/ stack' = Append([stack EXCEPT ![Len(stack)].read = @ \cup {e}],
                              [dir |-> e, read |-> {}])
        /\ files' \subseteq files /\ spared' \in {spared, spared \cup {e}}
        /\ emptied' \in {emptied, emptied \cup ({e} \cap Links)}
  BY DEF RemoveEntry
<1>2. /\ stack # <<>>
      /\ UNCHANGED <<dirs, step, path, slash, buffer, fnameOff, joined, paths, cleared, disturbed>>
  BY DEF RemoveEntry
<1>3. stack \in Seq(Frames) /\ stack[1].dir \in Tops
  BY <1>2 DEF StackInv, Frames
<1>4. e \in Text
  BY DEF Unread, PathsTypeOK, Text
<1>5. PICK n \in Nat \ {0} : n = Len(stack)
  BY <1>2, <1>3, EmptySeq
<1>6. PICK r : r = [stack[n] EXCEPT !.read = @ \cup {e}]
  OBVIOUS
<1>7. r \in Frames /\ r.dir = stack[n].dir
  <2>1. stack[n] \in Frames
    BY <1>3, <1>5
  <2> QED BY <1>4, <1>6, <2>1 DEF Frames, Text
<1>8. PICK rest : rest = [stack EXCEPT ![n] = r]
  OBVIOUS
<1>9. rest = [stack EXCEPT ![Len(stack)].read = @ \cup {e}]
  BY <1>5, <1>6, <1>8
<1>10. rest \in Seq(Frames) /\ Len(rest) = n /\ rest[1].dir = stack[1].dir
  <2>1. n \in 1 .. Len(stack)
    BY <1>5
  <2>2. /\ rest \in Seq(Frames) /\ Len(rest) = Len(stack)
        /\ \A j \in 1 .. Len(stack) : rest[j] = IF j = n THEN r ELSE stack[j]
    BY <1>3, <1>7, <1>8, <2>1, ExceptSeq
  <2>3. 1 \in 1 .. Len(stack)
    BY <1>5
  <2> QED BY <1>5, <1>7, <2>2, <2>3
<1>11. files' \subseteq files /\ (stack' = rest \/ stack' = Append(rest, [dir |-> e, read |-> {}]))
  BY <1>1, <1>9
<1>12. stack' \in Seq(Frames) /\ stack'[1].dir \in Tops
  <2>1. CASE stack' = rest
    BY <1>3, <1>10, <2>1
  <2>2. CASE stack' = Append(rest, [dir |-> e, read |-> {}])
    <3>1. PICK f : f = [dir |-> e, read |-> {}]
      OBVIOUS
    <3>2. f \in Frames
      BY <1>4, <3>1 DEF Frames, Text
    <3>3. Append(rest, f) \in Seq(Frames) /\ Append(rest, f)[1] = rest[1]
      BY <1>5, <1>10, <3>2
    <3> QED BY <1>3, <1>10, <2>2, <3>1, <3>3
  <2> QED BY <1>11, <2>1, <2>2
<1>13. StackInv'
  BY <1>12 DEF StackInv, Frames
<1>14. PathsTypeOK'
  <2>1. \A i \in DOMAIN stack' : stack'[i].dir \in Seq({"/", "a", "b", "o"})
    BY <1>12, FramesAre
  <2>2. spared' \subseteq Seq({"/", "a", "b", "o"}) /\ emptied' \subseteq Links
    BY <1>1, <1>4 DEF PathsTypeOK, Text
  <2> QED BY <1>2, <1>11, <2>1, <2>2 DEF PathsTypeOK
<1>15. BufferInv'
  BY <1>2 DEF BufferInv, Cut
<1>16. WayInv'
  BY <1>2 DEF WayInv
<1> QED BY <1>13, <1>14, <1>15, <1>16

\* The last call to return is that for the directory that was given.
LEMMA RemoveReturnKeeps ==
  ASSUME PathsTypeOK, BufferInv, WayInv, StackInv, RemoveReturn
  PROVE  PathsTypeOK' /\ BufferInv' /\ WayInv' /\ StackInv'
<1>1. /\ stack # <<>> /\ dirs' \subseteq dirs /\ spared' \in {spared, spared \cup {Top.dir}}
      /\ stack' = Front(stack)
      /\ cleared' = IF Len(stack) = 1 THEN Top.dir ELSE cleared
      /\ UNCHANGED <<files, step, path, slash, buffer, fnameOff, joined, paths, emptied, disturbed>>
  BY DEF RemoveReturn
<1>2. stack \in Seq(Frames) /\ stack[1].dir \in Tops
  BY <1>1 DEF StackInv, Frames
<1>3. PICK n \in Nat \ {0} : n = Len(stack)
  BY <1>1, <1>2, EmptySeq
<1>4. /\ stack' \in Seq(Frames) /\ Len(stack') = n - 1
      /\ \A i \in 1 .. n - 1 : stack'[i] = stack[i]
  <2>1. \A i \in 1 .. n - 1 : stack[i] \in Frames
    BY <1>2, <1>3
  <2>2. /\ SubSeq(stack, 1, n - 1) \in Seq(Frames)
        /\ Len(SubSeq(stack, 1, n - 1)) = IF 1 <= n - 1 THEN n - 1 - 1 + 1 ELSE 0
        /\ \A i \in 1 .. n - 1 - 1 + 1 : SubSeq(stack, 1, n - 1)[i] = stack[1 + i - 1]
    BY <2>1, SubSeqProperties
  <2>3. (IF 1 <= n - 1 THEN n - 1 - 1 + 1 ELSE 0) = n - 1 /\ n - 1 - 1 + 1 = n - 1
    OBVIOUS
  <2>4. stack' = SubSeq(stack, 1, n - 1)
    BY <1>1, <1>3 DEF Front
  <2>5. ASSUME NEW i \in 1 .. n - 1 PROVE stack'[i] = stack[i]
    <3>1. i \in 1 .. n - 1 - 1 + 1 /\ 1 + i - 1 = i
      BY <2>3
    <3> QED BY <2>2, <2>4, <3>1
  <2> QED BY <2>2, <2>3, <2>4, <2>5
<1>5. StackInv'
  <2>1. ASSUME stack' # <<>> PROVE stack'[1].dir \in Tops
    <3>1. Len(stack') \in Nat \ {0}
      BY <1>4, <2>1, EmptySeq
    <3>2. 1 \in 1 .. n - 1
      BY <1>4, <3>1
    <3> QED BY <1>2, <1>4, <3>2
  <2> QED BY <1>4, <2>1 DEF StackInv, Frames
<1>6. PathsTypeOK'
  <2>1. \A i \in DOMAIN stack' : stack'[i].dir \in Seq({"/", "a", "b", "o"})
    BY <1>4, FramesAre
  <2>2. cleared' \in {<<>>} \cup Tops
    <3>1. CASE Len(stack) = 1
      BY <1>1, <1>2, <3>1 DEF Top, Last
    <3>2. CASE Len(stack) # 1
      BY <1>1, <3>2 DEF PathsTypeOK
    <3> QED BY <3>1, <3>2
  <2>3. spared' \subseteq Seq({"/", "a", "b", "o"})
    <3>1. stack[n] \in Frames
      BY <1>2, <1>3
    <3>2. Top.dir \in Seq({"/", "a", "b", "o"})
      BY <1>3, <3>1 DEF Top, Last, Frames
    <3> QED BY <1>1, <3>2 DEF PathsTypeOK
  <2> QED BY <1>1, <2>1, <2>2, <2>3 DEF PathsTypeOK
<1>7. BufferInv'
  BY <1>1 DEF BufferInv, Cut
<1>8. WayInv'
  BY <1>1 DEF WayInv
<1> QED BY <1>5, <1>6, <1>7, <1>8

\* A link is another file, which is not on the way of a create.
LEMMA AddLinkKeeps ==
  ASSUME PathsTypeOK, BufferInv, WayInv, StackInv, NEW l \in Links, AddLink(l)
  PROVE  PathsTypeOK' /\ BufferInv' /\ WayInv' /\ StackInv'
<1>1. /\ files' = files \cup {l} /\ emptied' = emptied \ {l} /\ cleared' = <<>> /\ spared' = {}
      /\ disturbed' = (disturbed \/ stack # <<>>)
      /\ UNCHANGED <<dirs, step, path, slash, buffer, fnameOff, joined, paths, stack>>
  BY DEF AddLink
<1>2. PathsTypeOK'
  <2>1. dirs' \cup files' \subseteq Seq({"/", "a", "b", "o"})
    BY <1>1, FilePathsAssumption DEF PathsTypeOK
  <2>2. disturbed' \in BOOLEAN
    BY <1>1, Zenon
  <2>3. emptied' \subseteq Links /\ spared' \subseteq Seq({"/", "a", "b", "o"})
    BY <1>1 DEF PathsTypeOK
  <2> QED BY <1>1, <2>1, <2>2, <2>3 DEF PathsTypeOK
<1>3. BufferInv' /\ StackInv'
  BY <1>1 DEF BufferInv, Cut, StackInv
<1>4. WayInv'
  <2>1. ~ disturbed' => ~ disturbed
    BY <1>1, Zenon
  <2>2. (\A f \in files' : ~ IsStrictPrefix(f, path)) => \A f \in files : ~ IsStrictPrefix(f, path)
    BY <1>1
  <2> QED BY <1>1, <2>1, <2>2 DEF WayInv, Exists
<1> QED BY <1>2, <1>3, <1>4

\* The four together.
PathInv == PathsTypeOK /\ BufferInv /\ WayInv /\ StackInv

\* Every step keeps what is said of paths and directories.
LEMMA PathKept == PathInv /\ [PathsNext]_pathVars => PathInv'
<1>1. PathInv /\ UNCHANGED pathVars => PathInv'
  <2> SUFFICES ASSUME PathInv, UNCHANGED pathVars PROVE PathInv'
    OBVIOUS
  <2>1. UNCHANGED <<dirs, files, step, path, slash, buffer, fnameOff, joined, paths, stack,
                    cleared, spared, emptied, disturbed>>
    BY DEF pathVars
  <2>2. PathsTypeOK'
    BY <2>1 DEF PathInv, PathsTypeOK
  <2>3. BufferInv' /\ StackInv'
    BY <2>1 DEF PathInv, BufferInv, Cut, StackInv
  <2>4. WayInv'
    BY <2>1 DEF PathInv, WayInv, Exists
  <2> QED BY <2>2, <2>3, <2>4 DEF PathInv
<1> QED BY <1>1, CreateKeeps, MakeKeeps, OpenKeeps, ClearKeeps, GettersKeep, RemoveStartKeeps,
           RemoveEntryKeeps, RemoveReturnKeeps, AddLinkKeeps DEF PathsNext, PathInv

\* Two texts that agree on a part have it in common.
LEMMA SamePart ==
  ASSUME NEW p, NEW q, NEW m \in Nat, NEW n \in Nat,
         \A j \in m .. n : p[j] = q[j] /\ p[j] \in Marks
  PROVE  SubSeq(p, m, n) = SubSeq(q, m, n)
<1>1. PICK k : k = n - m + 1
  OBVIOUS
<1>2. k \in Int /\ m \in Int /\ n \in Int
  BY <1>1
<1>3. (\A j \in m .. n : p[j] \in Marks) /\ (\A j \in m .. n : q[j] \in Marks)
  OBVIOUS
<1>4. /\ SubSeq(p, m, n) \in Seq(Marks) /\ SubSeq(q, m, n) \in Seq(Marks)
      /\ Len(SubSeq(p, m, n)) = IF m <= n THEN k ELSE 0
      /\ Len(SubSeq(q, m, n)) = IF m <= n THEN k ELSE 0
      /\ \A j \in 1 .. k : SubSeq(p, m, n)[j] = p[m + j - 1]
      /\ \A j \in 1 .. k : SubSeq(q, m, n)[j] = q[m + j - 1]
  BY <1>1, <1>2, <1>3, SubSeqProperties
<1>5. ASSUME NEW j \in 1 .. k PROVE SubSeq(p, m, n)[j] = SubSeq(q, m, n)[j]
  <2>1. m + j - 1 \in m .. n
    BY <1>1, <1>2
  <2> QED BY <1>4, <2>1
<1>6. CASE m <= n
  BY <1>4, <1>5, <1>6, SeqEqual
<1>7. CASE ~ (m <= n)
  <2>1. Len(SubSeq(p, m, n)) = 0 /\ Len(SubSeq(q, m, n)) = 0
    BY <1>4, <1>7
  <2> QED BY <1>4, <2>1, EmptySeq
<1> QED BY <1>6, <1>7

\* A text without an end in it is read to its last character.
LEMMA StringWhole ==
  ASSUME NEW b \in Seq(Marks), NEW i \in Nat, \A j \in i .. Len(b) : b[j] # "nul"
  PROVE  String(b, i) = SubSeq(b, i, Len(b))
BY DEF String

\* A text is read up to its end.
LEMMA StringCut ==
  ASSUME NEW b \in Seq(Marks), NEW i \in Nat, NEW c \in i .. Len(b), b[c] = "nul",
         \A j \in i .. Len(b) : b[j] = "nul" => j = c
  PROVE  String(b, i) = SubSeq(b, i, c - 1)
<1>1. {j \in i .. Len(b) : b[j] = "nul"} = {c}
  OBVIOUS
<1>2. Min({c}) = c
  <2>1. c \in Nat
    OBVIOUS
  <2>2. {c} \subseteq Nat /\ {c} # {}
    BY <2>1
  <2>3. Min({c}) \in {c}
    BY <2>2, LeastNumber
  <2> QED BY <2>3
<1> QED BY <1>1, <1>2 DEF String

\* The getters, when a path is open.
LEMMA ReadyRight ==
  ASSUME PathInv, step = "ready", LastSlash(path) > 1
  PROVE  /\ GetFilename = Name(path)
         /\ GetDirname = IF joined THEN path ELSE Parent(path)
<1>1. path \in Paths /\ path \in Text /\ Len(path) \in Nat \ {0}
  BY PathIs DEF PathInv, PathsTypeOK
<1>2. PICK c : c = Cut
  OBVIOUS
<1>3. PICK x : x = IF joined THEN "/" ELSE "nul"
  OBVIOUS
<1>4. PICK n \in Nat \ {0} : n = Len(path)
  BY <1>1
<1>5. c \in 1 .. n /\ LastSlash(path) \in Int /\ c = LastSlash(path) /\ c \in Slashes(path)
  BY <1>1, <1>2, <1>4, CutIs DEF Cut
<1>6. c \in 2 .. n /\ c \in Nat /\ c - 1 \in Nat /\ c + 1 \in Nat /\ path[c] = "/"
  BY <1>5 DEF Slashes
<1>7. /\ fnameOff = c /\ buffer = [path EXCEPT ![c] = x]
  BY <1>2, <1>3 DEF PathInv, BufferInv
<1>8. path \in Seq(Marks) /\ x \in Marks
  BY <1>1, <1>3, SeqMonotonic DEF Text, Marks
<1>9. /\ buffer \in Seq(Marks) /\ Len(buffer) = n
      /\ \A j \in 1 .. n : buffer[j] = IF j = c THEN x ELSE path[j]
  BY <1>4, <1>5, <1>7, <1>8, ExceptSeq
<1>10. \A j \in 1 .. n : path[j] \in Marks /\ path[j] # "nul"
  <2> SUFFICES ASSUME NEW j \in 1 .. n PROVE path[j] \in Marks /\ path[j] # "nul"
    OBVIOUS
  <2>1. path[j] \in {"/", "a", "b", "o"}
    BY <1>1, <1>4, ElementOfSeq DEF Text
  <2> QED BY <2>1 DEF Marks
<1>11. GetFilename = Name(path)
  <2>1. GetFilename = String(buffer, c + 1)
    BY <1>6, <1>7 DEF GetFilename
  <2>2. \A j \in c + 1 .. n : j \in 1 .. n /\ j # c
    BY <1>6
  <2>3. \A j \in c + 1 .. n : buffer[j] = path[j] /\ buffer[j] \in Marks /\ buffer[j] # "nul"
    BY <1>9, <1>10, <2>2
  <2>4. String(buffer, c + 1) = SubSeq(buffer, c + 1, n)
    BY <1>6, <1>9, <2>3, StringWhole
  <2>5. SubSeq(buffer, c + 1, n) = SubSeq(path, c + 1, n)
    BY <1>6, <2>3, SamePart
  <2> QED BY <1>4, <1>5, <2>1, <2>4, <2>5 DEF Name
<1>12. GetDirname = String(buffer, 1)
  <2>1. 1 \in 1 .. n /\ 1 # c
    BY <1>6
  <2>2. buffer[1] # "nul"
    BY <1>9, <1>10, <2>1
  <2>3. buffer # <<>>
    BY <1>9, EmptySeq
  <2> QED BY <2>2, <2>3 DEF GetDirname, NoDirectory
<1>13. CASE joined
  <2>1. buffer = path
    <3>1. x = "/" /\ \A j \in 1 .. n : buffer[j] = path[j]
      BY <1>3, <1>6, <1>9, <1>13
    <3> QED BY <1>4, <1>8, <1>9, <3>1, SeqEqual
  <2>2. String(path, 1) = SubSeq(path, 1, n)
    BY <1>4, <1>8, <1>10, StringWhole
  <2>3. SubSeq(path, 1, n) = path
    BY <1>4, <1>8, SubSeqFull
  <2> QED BY <1>11, <1>12, <1>13, <2>1, <2>2, <2>3
<1>14. CASE ~ joined
  <2>1. /\ buffer[c] = "nul" /\ c \in 1 .. n
        /\ \A j \in 1 .. n : buffer[j] = "nul" => j = c
    BY <1>3, <1>5, <1>9, <1>10, <1>14
  <2>2. String(buffer, 1) = SubSeq(buffer, 1, c - 1)
    BY <1>9, <2>1, StringCut
  <2>3. \A j \in 1 .. c - 1 : j \in 1 .. n /\ j # c
    BY <1>6
  <2>4. \A j \in 1 .. c - 1 : buffer[j] = path[j] /\ buffer[j] \in Marks
    BY <1>9, <1>10, <2>3
  <2>5. SubSeq(buffer, 1, c - 1) = SubSeq(path, 1, c - 1)
    BY <1>6, <2>4, SamePart
  <2>6. Max({c, 1}) = c
    <3>1. {c, 1} \subseteq Nat /\ \A y \in {c, 1} : y <= c
      BY <1>6
    <3> QED BY <3>1, GreatestIs
  <2>7. Parent(path) = SubSeq(path, 1, c - 1)
    BY <1>5, <2>6 DEF Parent
  <2> QED BY <1>11, <1>12, <1>14, <2>2, <2>5, <2>7
<1> QED BY <1>13, <1>14

\* The directory of a path that is about to be opened.
LEMMA OpenRight ==
  ASSUME PathInv, step = "open", slash > 0, ~ disturbed, \A f \in files : ~ IsStrictPrefix(f, path)
  PROVE  Exists(Parent(path))
<1>1. slash = LastSlash(path) /\ Exists(SubSeq(path, 1, slash - 1)) /\ slash \in 0 .. Len(path)
      /\ Len(path) \in Nat
  BY PathIs DEF PathInv, PathsTypeOK, WayInv
<1>2. PICK s : s = slash
  OBVIOUS
<1>3. s \in Nat /\ s > 0
  BY <1>1, <1>2
<1>4. Max({s, 1}) = s
  <2>1. {s, 1} \subseteq Nat /\ \A y \in {s, 1} : y <= s
    BY <1>3
  <2> QED BY <2>1, GreatestIs
<1> QED BY <1>1, <1>2, <1>4 DEF Parent

\* Both together.
LEMMA PathsRight == PathInv => PathRight
BY OpenRight, ReadyRight DEF PathRight

-----------------------------------------------------------------------------
(* remove_dir: FilePaths.                                                  *)

\* A path with one '/' between two names.
WellFormed(e) ==
  /\ e \in Text /\ Len(e) > 0 /\ e[Len(e)] # "/"
  /\ \A i \in 1 .. Len(e) - 1 : e[i] = "/" <=> e[i + 1] # "/"

\* The positions and the characters of a text.
LEMMA TextIs ==
  ASSUME NEW t \in Text
  PROVE  Len(t) \in Nat /\ DOMAIN t = 1 .. Len(t) /\ \A i \in 1 .. Len(t) : t[i] \in {"/", "a", "b", "o"}
BY LenProperties, ElementOfSeq DEF Text

\* The first characters of a text.
LEMMA StartIs ==
  ASSUME NEW t \in Text, NEW n \in Nat, n <= Len(t)
  PROVE  /\ SubSeq(t, 1, n) \in Text /\ Len(SubSeq(t, 1, n)) = n
         /\ \A i \in 1 .. n : SubSeq(t, 1, n)[i] = t[i]
<1>1. Len(t) \in Nat /\ \A i \in 1 .. n : t[i] \in {"/", "a", "b", "o"}
  BY TextIs
<1>2. /\ SubSeq(t, 1, n) \in Seq({"/", "a", "b", "o"})
      /\ Len(SubSeq(t, 1, n)) = IF 1 <= n THEN n - 1 + 1 ELSE 0
      /\ \A i \in 1 .. n - 1 + 1 : SubSeq(t, 1, n)[i] = t[1 + i - 1]
  BY <1>1, SubSeqProperties
<1>3. (IF 1 <= n THEN n - 1 + 1 ELSE 0) = n /\ n - 1 + 1 = n /\ \A i \in Nat : 1 + i - 1 = i
  OBVIOUS
<1> QED BY <1>2, <1>3 DEF Text

\* A prefix agrees with the text as far as it goes.
LEMMA PrefixIs ==
  ASSUME NEW s \in Text, NEW t \in Text
  PROVE  IsPrefix(s, t) <=> Len(s) <= Len(t) /\ \A i \in 1 .. Len(s) : s[i] = t[i]
<1>1. PICK n : n = Len(s)
  OBVIOUS
<1>2. n \in Nat
  BY <1>1, TextIs
<1>3. SubSeq(s, 1, n) = s
  BY <1>1, SubSeqFull DEF Text
<1>4. IsPrefix(s, t) <=> n <= Len(t) /\ s = SubSeq(t, 1, n)
  BY <1>1, <1>3 DEF IsPrefix
<1>5. ASSUME n <= Len(t)
      PROVE  s = SubSeq(t, 1, n) <=> \A i \in 1 .. n : s[i] = t[i]
  <2>1. PICK f : f = SubSeq(t, 1, n)
    OBVIOUS
  <2>2. f \in Text /\ Len(f) = n /\ \A i \in 1 .. n : f[i] = t[i]
    BY <1>2, <1>5, <2>1, StartIs
  <2>3. ASSUME \A i \in 1 .. n : s[i] = t[i] PROVE s = f
    <3>1. s \in Seq({"/", "a", "b", "o"}) /\ f \in Seq({"/", "a", "b", "o"})
      BY <2>2 DEF Text
    <3>2. Len(s) = Len(f) /\ \A i \in 1 .. Len(s) : s[i] = f[i]
      BY <1>1, <2>2, <2>3
    <3> QED BY <3>1, <3>2, SeqEqual
  <2> QED BY <2>1, <2>2, <2>3
<1> QED BY <1>1, <1>4, <1>5

\* The prefixes of a text are ordered.
LEMMA PrefixOrder ==
  /\ \A s \in Text : IsPrefix(s, s)
  /\ \A s, t, u \in Text : IsPrefix(s, t) /\ IsPrefix(t, u) => IsPrefix(s, u)
  /\ \A s, t \in Text : IsPrefix(s, t) /\ IsPrefix(t, s) => s = t
<1>1. ASSUME NEW s \in Text PROVE IsPrefix(s, s)
  BY TextIs, PrefixIs
<1>2. ASSUME NEW s \in Text, NEW t \in Text, NEW u \in Text, IsPrefix(s, t), IsPrefix(t, u)
      PROVE  IsPrefix(s, u)
  <2>1. /\ Len(s) <= Len(t) /\ \A i \in 1 .. Len(s) : s[i] = t[i]
        /\ Len(t) <= Len(u) /\ \A i \in 1 .. Len(t) : t[i] = u[i]
    BY <1>2, PrefixIs
  <2>2. Len(s) \in Nat /\ Len(t) \in Nat /\ Len(u) \in Nat
    BY TextIs
  <2>3. Len(s) <= Len(u) /\ \A i \in 1 .. Len(s) : s[i] = u[i]
    BY <2>1, <2>2
  <2> QED BY <2>3, PrefixIs
<1>3. ASSUME NEW s \in Text, NEW t \in Text, IsPrefix(s, t), IsPrefix(t, s) PROVE s = t
  <2>1. /\ Len(s) <= Len(t) /\ \A i \in 1 .. Len(s) : s[i] = t[i]
        /\ Len(t) <= Len(s) /\ Len(s) \in Nat /\ Len(t) \in Nat
    BY <1>3, PrefixIs, TextIs
  <2>2. Len(s) = Len(t)
    BY <2>1
  <2> QED BY <2>1, <2>2, SeqEqual DEF Text
<1> QED BY <1>1, <1>2, <1>3

\* The directory of a path is what comes before its last two characters.
LEMMA ParentIs ==
  ASSUME NEW e, WellFormed(e)
  PROVE  IF Len(e) < 3 THEN Parent(e) = <<>>
         ELSE /\ WellFormed(Parent(e)) /\ Len(Parent(e)) = Len(e) - 2
              /\ \A i \in 1 .. Len(e) - 2 : Parent(e)[i] = e[i]
<1>1. PICK n \in Nat \ {0} : n = Len(e)
  BY TextIs DEF WellFormed
<1>2. /\ e \in Text /\ e[n] # "/" /\ \A i \in 1 .. n - 1 : e[i] = "/" <=> e[i + 1] # "/"
      /\ Slashes(e) = {i \in 1 .. n : e[i] = "/"}
  BY <1>1, TextIs DEF WellFormed, Slashes
<1>3. LastSlash(e) = n - 1
  <2> DEFINE T == {0} \cup Slashes(e)
  <2>1. T \subseteq Nat /\ n - 1 \in Nat
    BY <1>2
  <2>2. n - 1 \in T
    <3>1. CASE n = 1
      BY <3>1
    <3>2. CASE n # 1
      <4>1. n - 1 \in 1 .. n - 1 /\ n - 1 + 1 = n /\ n - 1 \in 1 .. n
        BY <3>2
      <4>2. e[n - 1] = "/"
        BY <1>2, <4>1
      <4> QED BY <1>2, <4>1, <4>2
    <3> QED BY <3>1, <3>2
  <2>3. \A i \in T : i <= n - 1
    BY <1>2
  <2>4. Max(T) = n - 1
    <3> HIDE DEF T
    <3> QED BY <2>1, <2>2, <2>3, GreatestIs
  <2> QED BY <2>4 DEF LastSlash
<1>4. Parent(e) = SubSeq(e, 1, Max({n - 1, 1}) - 1)
  BY <1>3 DEF Parent
<1>5. CASE n < 3
  <2>1. Max({n - 1, 1}) = 1
    <3>1. {n - 1, 1} \subseteq Nat /\ \A y \in {n - 1, 1} : y <= 1
      BY <1>5
    <3> QED BY <3>1, GreatestIs
  <2>2. Parent(e) = SubSeq(e, 1, 0)
    BY <1>4, <2>1
  <2>3. SubSeq(e, 1, 0) \in Text /\ Len(SubSeq(e, 1, 0)) = 0
    BY <1>1, <1>2, StartIs
  <2>4. Parent(e) = <<>>
    BY <2>2, <2>3, EmptySeq DEF Text
  <2> QED BY <1>1, <1>5, <2>4
<1>6. CASE ~ (n < 3)
  <2>1. Max({n - 1, 1}) = n - 1
    <3>1. {n - 1, 1} \subseteq Nat /\ \A y \in {n - 1, 1} : y <= n - 1
      BY <1>6
    <3> QED BY <3>1, GreatestIs
  <2>2. PICK k \in Nat \ {0} : k = n - 2
    BY <1>6
  <2>3. n - 1 - 1 = k
    BY <2>2
  <2>4. PICK d : d = Parent(e)
    OBVIOUS
  <2>5. d = SubSeq(e, 1, k)
    BY <1>4, <2>1, <2>3, <2>4
  <2>6. d \in Text /\ Len(d) = k /\ \A i \in 1 .. k : d[i] = e[i]
    BY <1>1, <1>2, <2>2, <2>5, StartIs
  <2>7. e[k] # "/"
    <3>1. k \in 1 .. n - 1 /\ k + 1 \in 1 .. n - 1 /\ k + 1 + 1 = n
      BY <2>2
    <3> QED BY <1>2, <3>1
  <2>8. WellFormed(d)
    <3>1. \A i \in 1 .. k - 1 : i \in 1 .. n - 1 /\ i \in 1 .. k /\ i + 1 \in 1 .. k
      BY <2>2
    <3>2. \A i \in 1 .. k - 1 : d[i] = "/" <=> d[i + 1] # "/"
      BY <1>2, <2>6, <3>1
    <3>3. k \in 1 .. k /\ k > 0
      BY <2>2
    <3> QED BY <2>6, <2>7, <3>2, <3>3 DEF WellFormed
  <2> QED BY <1>1, <1>6, <2>2, <2>4, <2>6, <2>8
<1> QED BY <1>5, <1>6

\* It is a path itself, in front of the other, or nothing.
LEMMA ParentAbove ==
  ASSUME NEW e, WellFormed(e), Parent(e) # <<>>
  PROVE  /\ WellFormed(Parent(e)) /\ IsPrefix(Parent(e), e) /\ Parent(e) # e
<1>1. /\ WellFormed(Parent(e)) /\ Len(Parent(e)) = Len(e) - 2 /\ e \in Text
      /\ \A i \in 1 .. Len(e) - 2 : Parent(e)[i] = e[i]
  BY ParentIs DEF WellFormed
<1>2. Parent(e) \in Text /\ Len(e) \in Nat
  BY <1>1, TextIs DEF WellFormed
<1>3. Len(Parent(e)) <= Len(e) /\ Len(Parent(e)) # Len(e)
  BY <1>1, <1>2
<1> QED BY <1>1, <1>2, <1>3, PrefixIs

\* What is in front of a path is its directory, or in front of that.
LEMMA AboveParent ==
  ASSUME NEW d, WellFormed(d), NEW e, WellFormed(e), IsPrefix(d, e), d # e
  PROVE  Parent(e) # <<>> /\ IsPrefix(d, Parent(e))
<1>1. PICK k, n : k = Len(d) /\ n = Len(e)
  OBVIOUS
<1>2. /\ d \in Text /\ e \in Text /\ k \in Nat \ {0} /\ n \in Nat \ {0}
      /\ d[k] # "/" /\ e[n] # "/"
      /\ \A i \in 1 .. n - 1 : e[i] = "/" <=> e[i + 1] # "/"
  BY <1>1, TextIs DEF WellFormed
<1>3. k <= n /\ \A i \in 1 .. k : d[i] = e[i]
  BY <1>1, <1>2, PrefixIs
<1>4. k # n
  BY <1>1, <1>2, <1>3, SeqEqual DEF Text
<1>5. k + 1 # n
  <2>1. ASSUME k + 1 = n PROVE FALSE
    <3>1. k \in 1 .. n - 1 /\ k \in 1 .. k
      BY <1>2, <2>1
    <3> QED BY <1>2, <1>3, <2>1, <3>1
  <2> QED BY <2>1
<1>6. k <= n - 2 /\ ~ (n < 3)
  BY <1>2, <1>3, <1>4, <1>5
<1>7. PICK p : p = Parent(e)
  OBVIOUS
<1>8. WellFormed(p) /\ Len(p) = n - 2 /\ \A i \in 1 .. n - 2 : p[i] = e[i]
  BY <1>1, <1>6, <1>7, ParentIs
<1>9. p \in Text /\ p # <<>>
  BY <1>8, EmptySeq DEF WellFormed, Text
<1>10. k <= Len(p) /\ \A i \in 1 .. k : d[i] = p[i]
  BY <1>2, <1>3, <1>6, <1>8
<1> QED BY <1>1, <1>2, <1>7, <1>9, <1>10, PrefixIs

\* On the way from a directory down to a path there is an entry of the directory.
LEMMA ChildToward ==
  ASSUME NEW d, WellFormed(d), NEW e, WellFormed(e), IsPrefix(d, e), d # e
  PROVE  \E c \in Text : WellFormed(c) /\ Parent(c) = d /\ IsPrefix(c, e)
<1>1. PICK k, n : k = Len(d) /\ n = Len(e)
  OBVIOUS
<1>2. /\ d \in Text /\ e \in Text /\ k \in Nat \ {0} /\ n \in Nat \ {0}
      /\ d[k] # "/" /\ e[n] # "/"
      /\ \A i \in 1 .. n - 1 : e[i] = "/" <=> e[i + 1] # "/"
  BY <1>1, TextIs DEF WellFormed
<1>3. k <= n /\ \A i \in 1 .. k : d[i] = e[i]
  BY <1>1, <1>2, PrefixIs
<1>4. k # n
  BY <1>1, <1>2, <1>3, SeqEqual DEF Text
<1>5. e[k + 1] = "/"
  <2>1. k \in 1 .. n - 1 /\ k \in 1 .. k
    BY <1>2, <1>3, <1>4
  <2> QED BY <1>2, <1>3, <2>1
<1>6. k + 1 # n
  BY <1>2, <1>5
<1>7. e[k + 2] # "/"
  <2>1. k + 1 \in 1 .. n - 1 /\ k + 1 + 1 = k + 2
    BY <1>2, <1>3, <1>4, <1>6
  <2> QED BY <1>2, <1>5, <2>1
<1>8. PICK m \in Nat : m = k + 2
  BY <1>2
<1>9. m <= n /\ ~ (m < 3) /\ m - 2 = k
  BY <1>2, <1>3, <1>4, <1>6, <1>8
<1>10. PICK c : c = SubSeq(e, 1, m)
  OBVIOUS
<1>11. c \in Text /\ Len(c) = m /\ \A i \in 1 .. m : c[i] = e[i]
  BY <1>1, <1>2, <1>9, <1>10, StartIs
<1>12. WellFormed(c)
  <2>1. \A i \in 1 .. m - 1 : i \in 1 .. n - 1 /\ i \in 1 .. m /\ i + 1 \in 1 .. m
    BY <1>2, <1>9
  <2>2. \A i \in 1 .. m - 1 : c[i] = "/" <=> c[i + 1] # "/"
    BY <1>2, <1>11, <2>1
  <2>3. m \in 1 .. m /\ m > 0
    BY <1>9
  <2> QED BY <1>7, <1>8, <1>11, <2>2, <2>3 DEF WellFormed
<1>13. Parent(c) = d
  <2>1. PICK p : p = Parent(c)
    OBVIOUS
  <2>2. WellFormed(p) /\ Len(p) = k /\ \A i \in 1 .. k : p[i] = c[i]
    BY <1>9, <1>11, <1>12, <2>1, ParentIs
  <2>3. \A i \in 1 .. k : p[i] = d[i]
    BY <1>3, <1>8, <1>11, <2>2
  <2> QED BY <1>1, <1>2, <2>1, <2>2, <2>3, SeqEqual DEF WellFormed, Text
<1>14. IsPrefix(c, e)
  BY <1>1, <1>2, <1>9, <1>11, PrefixIs
<1> QED BY <1>11, <1>12, <1>13, <1>14

\* The paths that create is given, and what is in front of their '/'.
LEMMA PathsWellFormed ==
  /\ \A p \in Paths \cup Tops \cup Links : WellFormed(p)
  /\ \A p \in Paths : \A i \in Slashes(p) :
       SubSeq(p, 1, i - 1) # <<>> => WellFormed(SubSeq(p, 1, i - 1))
<1>1. ASSUME NEW p \in Paths \cup Tops \cup Links PROVE WellFormed(p)
  <2>1. p \in Text /\ p # <<>>
    BY FilePathsAssumption DEF Text
  <2>2. Len(p) > 0
    BY <2>1, TextIs, EmptySeq DEF Text
  <2> QED BY <2>1, <2>2, NamesAreCharacters DEF WellFormed
<1>2. ASSUME NEW p \in Paths, NEW i \in Slashes(p), SubSeq(p, 1, i - 1) # <<>>
      PROVE  WellFormed(SubSeq(p, 1, i - 1))
  <2>1. PICK n : n = Len(p)
    OBVIOUS
  <2>2. /\ p \in Text /\ n \in Nat /\ i \in 1 .. n /\ p[i] = "/"
        /\ \A j \in 1 .. n - 1 : p[j] = "/" <=> p[j + 1] # "/"
    BY <1>1, <2>1, TextIs DEF WellFormed, Slashes
  <2>3. PICK k \in Nat : k = i - 1
    BY <2>2
  <2>4. k <= n /\ k + 1 = i
    BY <2>2, <2>3
  <2>5. PICK d : d = SubSeq(p, 1, k)
    OBVIOUS
  <2>6. d \in Text /\ Len(d) = k /\ \A j \in 1 .. k : d[j] = p[j]
    BY <2>1, <2>2, <2>4, <2>5, StartIs
  <2>7. k > 0
    <3>1. d # <<>>
      BY <1>2, <2>3, <2>5
    <3> QED BY <2>6, <3>1, EmptySeq DEF Text
  <2>8. d[k] # "/"
    <3>1. k \in 1 .. n - 1 /\ k \in 1 .. k
      BY <2>2, <2>4, <2>7
    <3> QED BY <2>2, <2>4, <2>6, <3>1
  <2>9. \A j \in 1 .. k - 1 : d[j] = "/" <=> d[j + 1] # "/"
    <3>1. \A j \in 1 .. k - 1 : j \in 1 .. n - 1 /\ j \in 1 .. k /\ j + 1 \in 1 .. k
      BY <2>4, <2>2
    <3> QED BY <2>2, <2>6, <3>1
  <2> QED BY <2>3, <2>5, <2>6, <2>7, <2>8, <2>9 DEF WellFormed
<1> QED BY <1>1, <1>2

\* What is in the file system, as a tree: every directory on the way to an entry is there.
Entries == dirs \cup files

TreeInv ==
  /\ dirs \cap files = {}
  /\ \A e \in Entries : WellFormed(e)
  /\ \A e \in Entries : \A d \in Text : WellFormed(d) /\ IsPrefix(d, e) /\ d # e => d \in dirs

\* While nothing is created, remove_dir is alone, and it returns last.
QuietInv ==
  /\ stack # <<>> => cleared = <<>>
  /\ (stack # <<>> \/ cleared # <<>>) /\ ~ disturbed => step = "none"

\* An entry that remove_dir may leave: it is, holds or is in one taken for "..", or one
\* that a failed call has left.
Excused(e) == \E o \in Entries : (Name(o) = <<"o">> \/ o \in spared)
                                /\ (IsPrefix(e, o) \/ IsPrefix(o, e))

Clean(d) == \A e \in Entries : IsPrefix(d, e) => Excused(e)

\* The calls of remove_dir are one for each directory on the way down.  What each has
\* read is clean, but for the directory that the next call is for.
WalkInv == ~ disturbed =>
  /\ \A i \in 1 .. Len(stack) :
       /\ stack[i].dir \in dirs
       /\ i > 1 => Parent(stack[i].dir) = stack[i - 1].dir /\ Name(stack[i].dir) # <<"o">>
       /\ \A e \in stack[i].read : e \in Entries =>
            Clean(e) \/ (i < Len(stack) /\ e = stack[i + 1].dir)
  /\ cleared # <<>> => Clean(cleared)

\* Each call is for a directory that the one before it has read, and what a failed call
\* has left is, or is in, something that has been read: it is not met again.
NestInv ==
  /\ \A s \in spared : WellFormed(s)
  /\ \A i \in 1 .. Len(stack) :
       /\ WellFormed(stack[i].dir)
       /\ \A c \in stack[i].read : WellFormed(c) /\ Parent(c) = stack[i].dir
       /\ \A j \in 1 .. i - 1 : /\ stack[j + 1].dir \in stack[j].read
                               /\ IsPrefix(stack[j + 1].dir, stack[i].dir)
       /\ \A s \in spared : IsPrefix(stack[i].dir, s) => \E c \in stack[i].read : IsPrefix(c, s)

RemoveInv == TreeInv /\ QuietInv /\ WalkInv /\ NestInv

\* A path whose directory exists has all above it.
LEMMA AllAbove ==
  ASSUME TreeInv, NEW e, WellFormed(e), Exists(Parent(e)),
         NEW d \in Text, WellFormed(d), IsPrefix(d, e), d # e
  PROVE  d \in dirs
<1>1. Parent(e) # <<>> /\ IsPrefix(d, Parent(e))
  BY AboveParent
<1>2. Parent(e) \in dirs
  BY <1>1 DEF Exists
<1>3. CASE d = Parent(e)
  BY <1>2, <1>3
<1>4. CASE d # Parent(e)
  BY <1>1, <1>2, <1>4 DEF TreeInv, Entries
<1> QED BY <1>3, <1>4

\* A directory without entries has nothing below it.
LEMMA NothingBelow ==
  ASSUME TreeInv, NEW d, WellFormed(d), \A e \in Entries : Parent(e) # d,
         NEW x \in Entries, IsPrefix(d, x)
  PROVE  x = d
<1> SUFFICES ASSUME x # d PROVE FALSE
  OBVIOUS
<1>1. WellFormed(x)
  BY DEF TreeInv
<1>2. PICK c \in Text : WellFormed(c) /\ Parent(c) = d /\ IsPrefix(c, x)
  BY <1>1, ChildToward
<1>3. c \in Entries
  BY <1>2 DEF TreeInv, Entries
<1> QED BY <1>2, <1>3

\* When entries go that are not taken for ".." and not left, what was clean stays so.
LEMMA CleanKept ==
  ASSUME NEW d, Clean(d), Entries' \subseteq Entries, spared \subseteq spared',
         \A o \in Entries : Name(o) = <<"o">> \/ o \in spared => o \in Entries'
  PROVE  Clean(d)'
<1> SUFFICES ASSUME NEW e \in Entries', IsPrefix(d, e) PROVE Excused(e)'
  BY DEF Clean
<1>1. Excused(e)
  BY DEF Clean
<1>2. PICK o \in Entries : (Name(o) = <<"o">> \/ o \in spared) /\ (IsPrefix(e, o) \/ IsPrefix(o, e))
  BY <1>1 DEF Excused
<1>3. o \in Entries' /\ (o \in spared => o \in spared')
  BY <1>2
<1> QED BY <1>2, <1>3 DEF Excused

\* Of the entries of one directory, one at most is on the way to another entry.
LEMMA SameChild ==
  ASSUME NEW c, WellFormed(c), NEW e, WellFormed(e), Parent(c) = Parent(e), Parent(c) # <<>>,
         NEW s, WellFormed(s), IsPrefix(c, s), IsPrefix(e, s)
  PROVE  c = e
<1>1. c \in Text /\ e \in Text /\ s \in Text
  BY DEF WellFormed
<1>2. Len(c) = Len(e)
  <2>1. Len(Parent(c)) \in Nat /\ Len(c) \in Nat /\ Len(e) \in Nat
    BY <1>1, ParentAbove, TextIs DEF WellFormed
  <2>2. ~ (Len(c) < 3) /\ ~ (Len(e) < 3)
    BY ParentIs
  <2>3. Len(Parent(c)) = Len(c) - 2 /\ Len(Parent(e)) = Len(e) - 2
    BY <2>2, ParentIs
  <2> QED BY <2>1, <2>3
<1>3. PICK n \in Nat : n = Len(c)
  BY <1>1, TextIs
<1>4. /\ n <= Len(s) /\ \A i \in 1 .. n : c[i] = s[i]
      /\ \A i \in 1 .. n : e[i] = s[i]
  BY <1>1, <1>2, <1>3, PrefixIs
<1>5. IsPrefix(c, e) /\ IsPrefix(e, c)
  BY <1>1, <1>2, <1>3, <1>4, PrefixIs
<1> QED BY <1>1, <1>5, PrefixOrder

\* What is not read yet is not, and has nothing in it, that a failed call has left.
LEMMA UnreadIsNew ==
  ASSUME NestInv, NEW n \in 1 .. Len(stack), NEW e, WellFormed(e), Parent(e) = stack[n].dir,
         e \notin stack[n].read, NEW s \in spared
  PROVE  ~ IsPrefix(e, s)
<1> SUFFICES ASSUME IsPrefix(e, s) PROVE FALSE
  OBVIOUS
<1>1. PICK d : d = stack[n].dir
  OBVIOUS
<1>2. WellFormed(d) /\ WellFormed(s) /\ d \in Text /\ e \in Text /\ s \in Text /\ d # <<>>
  BY <1>1, EmptySeq DEF NestInv, WellFormed, Text
<1>3. IsPrefix(d, s)
  <2>1. IsPrefix(d, e)
    BY <1>1, <1>2, ParentAbove
  <2> QED BY <1>2, <2>1, PrefixOrder
<1>4. PICK c \in stack[n].read : IsPrefix(c, s)
  BY <1>1, <1>3 DEF NestInv
<1>5. WellFormed(c) /\ Parent(c) = d
  BY <1>1 DEF NestInv
<1>6. c = e
  BY <1>1, <1>2, <1>4, <1>5, SameChild
<1> QED BY <1>4, <1>6

\* Directories under removal are not among what was left.
LEMMA WalkedIsNew ==
  ASSUME NestInv, NEW n \in 1 .. Len(stack)
  PROVE  stack[n].dir \notin spared
<1> SUFFICES ASSUME stack[n].dir \in spared PROVE FALSE
  OBVIOUS
<1>1. PICK d : d = stack[n].dir
  OBVIOUS
<1>2. WellFormed(d) /\ d \in Text /\ d # <<>>
  BY <1>1, EmptySeq DEF NestInv, WellFormed, Text
<1>3. IsPrefix(d, d)
  BY <1>2, PrefixOrder
<1>4. PICK c \in stack[n].read : IsPrefix(c, d)
  BY <1>1, <1>3 DEF NestInv
<1>5. WellFormed(c) /\ Parent(c) = d /\ c \in Text
  BY <1>1 DEF NestInv, WellFormed
<1>6. IsPrefix(d, c) /\ d # c
  BY <1>2, <1>5, ParentAbove
<1> QED BY <1>2, <1>4, <1>5, <1>6, PrefixOrder

\* At first nothing is walked.
LEMMA RemoveInit == PathsInit => RemoveInv
<1> SUFFICES ASSUME PathsInit PROVE RemoveInv
  OBVIOUS
<1>1. dirs = {} /\ files = {} /\ stack = <<>> /\ cleared = <<>> /\ spared = {} /\ ~ disturbed
  BY DEF PathsInit
<1>2. TreeInv /\ QuietInv
  BY <1>1 DEF TreeInv, QuietInv, Entries
<1>3. WalkInv /\ NestInv
  BY <1>1 DEF WalkInv, NestInv
<1> QED BY <1>2, <1>3 DEF RemoveInv

\* The steps that neither make nor remove anything.
LEMMA OthersKeep ==
  ASSUME RemoveInv, UNCHANGED <<dirs, files, stack, cleared, spared, disturbed>>,
         step' \in {step, "none"}
  PROVE  RemoveInv'
<1>1. TreeInv'
  BY DEF RemoveInv, TreeInv, Entries
<1>2. QuietInv'
  BY DEF RemoveInv, QuietInv
<1>3. WalkInv'
  BY DEF RemoveInv, WalkInv, Clean, Excused, Entries
<1>4. NestInv'
  BY DEF RemoveInv, NestInv
<1> QED BY <1>1, <1>2, <1>3, <1>4 DEF RemoveInv

\* A create ends what remove_dir has promised.
LEMMA CreateEnds ==
  ASSUME RemoveInv, NEW p \in Paths, NEW makes \in BOOLEAN, PathCreate(p, makes)
  PROVE  RemoveInv'
<1>1. /\ cleared' = <<>> /\ spared' = {} /\ disturbed' = (stack # <<>>)
      /\ UNCHANGED <<dirs, files, stack>>
  BY DEF PathCreate
<1>2. ~ disturbed' => stack' = <<>>
  BY <1>1, Zenon
<1>3. TreeInv'
  BY <1>1 DEF RemoveInv, TreeInv, Entries
<1>4. QuietInv'
  BY <1>1, <1>2 DEF QuietInv
<1>5. WalkInv'
  BY <1>1, <1>2 DEF WalkInv
<1>6. NestInv'
  BY <1>1 DEF RemoveInv, NestInv
<1> QED BY <1>3, <1>4, <1>5, <1>6 DEF RemoveInv

\* A tree to which an entry of one of its directories comes is a tree.
LEMMA TreeGrows ==
  ASSUME TreeInv, NEW e,
         \/ dirs' = dirs \cup {e} /\ files' = files
         \/ dirs' = dirs /\ files' = files \cup {e},
         WellFormed(e), Exists(Parent(e)), dirs' \cap files' = {}
  PROVE  TreeInv'
<1>1. Entries' = Entries \cup {e} /\ dirs \subseteq dirs'
  BY DEF Entries
<1>2. \A x \in Entries' : WellFormed(x)
  BY <1>1 DEF TreeInv
<1>3. ASSUME NEW x \in Entries', NEW d \in Text, WellFormed(d), IsPrefix(d, x), d # x
      PROVE  d \in dirs'
  <2>1. CASE x \in Entries
    BY <1>1, <1>3, <2>1 DEF TreeInv
  <2>2. CASE x = e
    BY <1>1, <1>3, <2>2, AllAbove
  <2> QED BY <1>1, <2>1, <2>2
<1> QED BY <1>2, <1>3 DEF TreeInv

\* A directory or a file is made only when remove_dir does not run, or is disturbed.
LEMMA MakingKeeps ==
  ASSUME PathInv, RemoveInv, NEW e,
         \/ dirs' = dirs \cup {e} /\ files' = files
         \/ dirs' = dirs /\ files' = files \cup {e},
         WellFormed(e), Exists(Parent(e)), dirs' \cap files' = {},
         step # "none", UNCHANGED <<stack, cleared, spared, disturbed>>
  PROVE  RemoveInv'
<1>1. TreeInv'
  BY TreeGrows DEF RemoveInv
<1>2. ~ disturbed' => stack' = <<>> /\ cleared' = <<>>
  BY DEF RemoveInv, QuietInv
<1>3. QuietInv'
  BY <1>2 DEF RemoveInv, QuietInv
<1>4. WalkInv'
  BY <1>2 DEF WalkInv
<1>5. NestInv'
  BY DEF RemoveInv, NestInv
<1> QED BY <1>1, <1>3, <1>4, <1>5 DEF RemoveInv

\* So does a link that another program makes.
LEMMA LinkingKeeps ==
  ASSUME PathInv, RemoveInv, NEW l \in Links, AddLink(l)
  PROVE  RemoveInv'
<1>1. /\ l \notin dirs \cup files /\ Exists(Parent(l)) /\ files' = files \cup {l} /\ dirs' = dirs
      /\ cleared' = <<>> /\ spared' = {} /\ stack' = stack
      /\ disturbed' = (disturbed \/ stack # <<>>)
  BY DEF AddLink
<1>2. dirs' \cap files' = {}
  BY <1>1 DEF RemoveInv, TreeInv
<1>3. TreeInv'
  BY <1>1, <1>2, PathsWellFormed, TreeGrows DEF RemoveInv
<1>4. ~ disturbed' => stack' = <<>>
  BY <1>1, Zenon
<1>5. QuietInv' /\ WalkInv'
  BY <1>1, <1>4 DEF QuietInv, WalkInv
<1>6. NestInv'
  BY <1>1 DEF RemoveInv, NestInv
<1> QED BY <1>3, <1>5, <1>6 DEF RemoveInv

\* The directories of a path, and the path, come to be one after another.
LEMMA MakeSteps ==
  ASSUME PathInv, RemoveInv, MakeDirectories \/ OpenPath
  PROVE  RemoveInv'
<1>1. path \in Paths /\ UNCHANGED <<stack, cleared, spared>> /\ step \in {"mkdir", "open"}
  BY DEF PathInv, PathsTypeOK, MakeDirectories, OpenPath
<1>2. dirs \cap files = {}
  BY DEF RemoveInv, TreeInv
<1>3. CASE MakeDirectories
  <2>1. CASE dirs' = dirs
    <3>1. /\ files' = files /\ step' \in {step, "open"} /\ (~ disturbed' => ~ disturbed)
          /\ ~ disturbed => stack = <<>> /\ cleared = <<>>
      BY <1>1, <1>3 DEF MakeDirectories, MakeDir, RemoveInv, QuietInv
    <3>2. TreeInv'
      BY <2>1, <3>1 DEF RemoveInv, TreeInv, Entries
    <3>3. QuietInv'
      BY <1>1, <3>1 DEF RemoveInv, QuietInv
    <3>4. WalkInv'
      BY <1>1, <3>1 DEF WalkInv
    <3>5. NestInv'
      BY <1>1 DEF RemoveInv, NestInv
    <3> QED BY <3>2, <3>3, <3>4, <3>5 DEF RemoveInv
  <2>2. CASE dirs' # dirs
    <3> DEFINE left == {i \in Slashes(path) : i > slash}
               d == SubSeq(path, 1, Min(left) - 1)
    <3>1. /\ left # {} /\ files' = files /\ UNCHANGED disturbed
          /\ dirs' = IF d # <<>> /\ d \notin files /\ Exists(Parent(d)) THEN dirs \cup {d} ELSE dirs
      BY <1>3, <2>2 DEF MakeDirectories, MakeDir
    <3>2. Slashes(path) \subseteq 1 .. Len(path) /\ Len(path) \in Nat
      BY <1>1, PathIs
    <3>3. left \subseteq Nat
      BY <3>2
    <3>4. Min(left) \in left
      <4> HIDE DEF left
      <4> QED BY <3>1, <3>3, LeastNumber
    <3>5. Min(left) \in Slashes(path)
      BY <3>4
    <3>6. d # <<>> /\ d \notin files /\ Exists(Parent(d)) /\ dirs' = dirs \cup {d}
      BY <2>2, <3>1
    <3>7. WellFormed(d)
      BY <1>1, <3>5, <3>6, PathsWellFormed
    <3>8. dirs' \cap files' = {}
      BY <1>2, <3>1, <3>6
    <3>9. PICK c : c = d
      OBVIOUS
    <3> HIDE DEF d
    <3>10. WellFormed(c) /\ Exists(Parent(c)) /\ dirs' = dirs \cup {c} /\ files' = files
      BY <3>1, <3>6, <3>7, <3>9
    <3>11. step # "none" /\ UNCHANGED <<stack, cleared, spared, disturbed>>
      BY <1>1, <3>1
    <3> HIDE DEF left
    <3> QED BY <1>1, <3>8, <3>10, <3>11, MakingKeeps
  <2> QED BY <2>1, <2>2
<1>4. CASE OpenPath
  <2>1. Exists(Parent(path)) /\ path \notin dirs /\ files' = files \cup {path} /\ dirs' = dirs
    BY <1>4 DEF OpenPath
  <2>2. WellFormed(path)
    BY <1>1, PathsWellFormed
  <2>3. dirs' \cap files' = {}
    BY <1>2, <2>1
  <2>4. PICK p : p = path
    OBVIOUS
  <2>5. WellFormed(p) /\ Exists(Parent(p)) /\ files' = files \cup {p}
    BY <2>1, <2>2, <2>4
  <2>6. UNCHANGED <<stack, cleared, spared, disturbed>>
    BY <1>4 DEF OpenPath
  <2> QED BY <1>1, <2>1, <2>3, <2>5, <2>6, MakingKeeps
<1> QED BY <1>3, <1>4

\* The first call has read nothing.
LEMMA WalkStarts ==
  ASSUME PathInv, RemoveInv, NEW d \in Tops, RemoveStart(d)
  PROVE  RemoveInv'
<1>1. /\ stack = <<>> /\ d \in dirs /\ stack' = Append(stack, [dir |-> d, read |-> {}])
      /\ cleared' = <<>> /\ spared' = {} /\ disturbed' = (step # "none")
      /\ UNCHANGED <<dirs, files, step>>
  BY DEF RemoveStart, Push
<1>2. PICK r : r = [dir |-> d, read |-> {}]
  OBVIOUS
<1>3. r.dir = d /\ r.read = {}
  BY <1>2
<1>4. stack' = <<r>>
  BY <1>1, <1>2
<1>5. Len(stack') = 1 /\ stack'[1] = r
  BY <1>4
<1>6. TreeInv'
  BY <1>1 DEF RemoveInv, TreeInv, Entries
<1>7. QuietInv'
  <2>1. ~ disturbed' => step = "none"
    BY <1>1, Zenon
  <2> QED BY <1>1, <2>1 DEF QuietInv
<1>8. WalkInv'
  <2>1. \A i \in 1 .. Len(stack') : stack'[i] = r /\ ~ (i > 1)
    BY <1>5
  <2>2. r.dir \in dirs' /\ r.read = {}
    BY <1>1, <1>3
  <2> QED BY <1>1, <2>1, <2>2 DEF WalkInv
<1>9. NestInv'
  <2>1. WellFormed(r.dir) /\ r.read = {}
    BY <1>3, PathsWellFormed
  <2>2. \A i \in 1 .. Len(stack') : stack'[i] = r /\ \A j \in 1 .. i - 1 : FALSE
    BY <1>5
  <2> QED BY <1>1, <2>1, <2>2 DEF NestInv
<1> QED BY <1>6, <1>7, <1>8, <1>9 DEF RemoveInv

\* What reading an entry does: e is of the directory of the last of n calls.
EntryIs(e, n) ==
  /\ n = Len(stack) /\ Parent(e) = stack[n].dir /\ e \notin stack[n].read
  /\ UNCHANGED <<dirs, step, cleared, disturbed>>
  /\ \A i \in 1 .. n : /\ stack'[i].dir = stack[i].dir
                       /\ stack'[i].read = IF i = n THEN stack[i].read \cup {e} ELSE stack[i].read
  /\ \/ Name(e) = <<"o">> /\ Len(stack') = n /\ files' = files /\ spared' = spared
     \/ /\ Name(e) # <<"o">> /\ e \in dirs /\ files' = files /\ spared' = spared
        /\ Len(stack') = n + 1 /\ stack'[n + 1] = [dir |-> e, read |-> {}]
     \/ /\ Name(e) # <<"o">> /\ e \in files /\ files' = files \ {e} /\ spared' = spared
        /\ Len(stack') = n
     \/ /\ Name(e) # <<"o">> /\ files' = files /\ spared' = spared \cup {e}
        /\ Len(stack') = n

\* RemoveEntry does that.
LEMMA EntryRead ==
  ASSUME PathInv, RemoveEntry
  PROVE  \E e \in Entries, n \in Nat \ {0} : EntryIs(e, n)
<1>1. PICK e \in Unread :
        LET rest == [stack EXCEPT ![Len(stack)].read = @ \cup {e}] IN
          \/ Name(e) = <<"o">> /\ stack' = rest /\ files' = files /\ spared' = spared
          \/ /\ Name(e) # <<"o">> /\ e \in dirs /\ files' = files /\ spared' = spared
             /\ stack' = Append(rest, [dir |-> e, read |-> {}])
          \/ /\ Name(e) # <<"o">> /\ e \in files /\ files' = files \ {e} /\ spared' = spared
             /\ stack' = rest
          \/ /\ Name(e) # <<"o">> /\ files' = files /\ spared' = spared \cup {e}
             /\ stack' = rest
  BY DEF RemoveEntry
<1>2. stack # <<>> /\ UNCHANGED <<dirs, step, cleared, disturbed>>
  BY DEF RemoveEntry
<1>3. stack \in Seq(Frames)
  BY DEF PathInv, StackInv, Frames
<1>4. PICK n \in Nat \ {0} : n = Len(stack)
  BY <1>2, <1>3, EmptySeq
<1>5. e \in Entries /\ e \in Text /\ Parent(e) = stack[n].dir /\ e \notin stack[n].read
  BY <1>4 DEF Unread, Top, Last, Entries, PathInv, PathsTypeOK, Text
<1>6. PICK r : r = [stack[n] EXCEPT !.read = @ \cup {e}]
  OBVIOUS
<1>7. stack[n] \in Frames
  BY <1>3, <1>4
<1>8. r \in Frames /\ r.dir = stack[n].dir /\ r.read = stack[n].read \cup {e}
  BY <1>5, <1>6, <1>7 DEF Frames, Text
<1>9. PICK rest : rest = [stack EXCEPT ![n] = r]
  OBVIOUS
<1>10. rest = [stack EXCEPT ![Len(stack)].read = @ \cup {e}]
  BY <1>4, <1>6, <1>9
<1>11. /\ rest \in Seq(Frames) /\ Len(rest) = n
       /\ \A j \in 1 .. n : rest[j] = IF j = n THEN r ELSE stack[j]
  <2>1. n \in 1 .. Len(stack)
    BY <1>4
  <2> QED BY <1>3, <1>4, <1>8, <1>9, <2>1, ExceptSeq
<1>12. PICK f : f = [dir |-> e, read |-> {}]
  OBVIOUS
<1>13. f \in Frames
  BY <1>5, <1>12 DEF Frames, Text
<1>14. /\ Len(Append(rest, f)) = n + 1 /\ Append(rest, f)[n + 1] = f
       /\ \A j \in 1 .. n : Append(rest, f)[j] = rest[j]
  BY <1>11, <1>13
<1>15. \/ Name(e) = <<"o">> /\ stack' = rest /\ files' = files /\ spared' = spared
       \/ /\ Name(e) # <<"o">> /\ e \in dirs /\ files' = files /\ spared' = spared
          /\ stack' = Append(rest, f)
       \/ /\ Name(e) # <<"o">> /\ e \in files /\ files' = files \ {e} /\ spared' = spared
          /\ stack' = rest
       \/ /\ Name(e) # <<"o">> /\ files' = files /\ spared' = spared \cup {e}
          /\ stack' = rest
  BY <1>1, <1>10, <1>12
<1>16. \A i \in 1 .. n : stack'[i] = rest[i]
  BY <1>14, <1>15
<1>17. \A i \in 1 .. n : /\ stack'[i].dir = stack[i].dir
                         /\ stack'[i].read = IF i = n THEN stack[i].read \cup {e} ELSE stack[i].read
  BY <1>8, <1>11, <1>16
<1>18. /\ stack' = rest => Len(stack') = n
       /\ stack' = Append(rest, f) => Len(stack') = n + 1 /\ stack'[n + 1] = [dir |-> e, read |-> {}]
  BY <1>11, <1>12, <1>14
<1>19. EntryIs(e, n)
  BY <1>2, <1>4, <1>5, <1>15, <1>17, <1>18 DEF EntryIs
<1> QED BY <1>5, <1>19

\* The directories under removal are above what is read, and the calls for them follow
\* each other.
LEMMA WayDown ==
  ASSUME NestInv, NEW n \in 1 .. Len(stack), NEW i \in 1 .. n - 1,
         NEW e \in Text, IsPrefix(stack[n].dir, e)
  PROVE  stack[i + 1].dir \in stack[i].read /\ IsPrefix(stack[i + 1].dir, e)
<1>1. stack[i + 1].dir \in stack[i].read /\ IsPrefix(stack[i + 1].dir, stack[n].dir)
  BY DEF NestInv
<1>2. i + 1 \in 1 .. Len(stack)
  OBVIOUS
<1>3. stack[i + 1].dir \in Text /\ stack[n].dir \in Text
  BY <1>2 DEF NestInv, WellFormed
<1> QED BY <1>1, <1>3, PrefixOrder

\* Reading goes one step down, or aside.
LEMMA NestReads ==
  ASSUME PathInv, RemoveInv, NEW e \in Entries, NEW n \in Nat \ {0}, EntryIs(e, n)
  PROVE  NestInv'
<1>1. /\ n \in 1 .. Len(stack) /\ n = Len(stack) /\ Parent(e) = stack[n].dir
      /\ e \notin stack[n].read /\ WellFormed(e) /\ e \in Text /\ NestInv
  BY DEF EntryIs, RemoveInv, TreeInv, WellFormed
<1>2. spared' \in {spared, spared \cup {e}}
  BY DEF EntryIs
<1>3. \A i \in 1 .. n : /\ stack'[i].dir = stack[i].dir
                        /\ stack'[i].read = IF i = n THEN stack[i].read \cup {e} ELSE stack[i].read
  BY DEF EntryIs
<1>4. IsPrefix(stack[n].dir, e) /\ IsPrefix(e, e)
  <2>1. stack[n].dir # <<>>
    BY <1>1, EmptySeq DEF NestInv, WellFormed, Text
  <2> QED BY <1>1, <2>1, ParentAbove, PrefixOrder
<1>5. \A s \in spared' : WellFormed(s)
  BY <1>1, <1>2 DEF NestInv
<1>6. ASSUME NEW i \in 1 .. n
      PROVE  /\ WellFormed(stack'[i].dir)
             /\ \A c \in stack'[i].read : WellFormed(c) /\ Parent(c) = stack'[i].dir
             /\ \A j \in 1 .. i - 1 : /\ stack'[j + 1].dir \in stack'[j].read
                                     /\ IsPrefix(stack'[j + 1].dir, stack'[i].dir)
             /\ \A s \in spared' : IsPrefix(stack'[i].dir, s) => \E c \in stack'[i].read : IsPrefix(c, s)
  <2>1. i \in 1 .. Len(stack) /\ stack'[i].dir = stack[i].dir /\ stack[i].read \subseteq stack'[i].read
    BY <1>1, <1>3
  <2>2. WellFormed(stack'[i].dir)
    BY <1>1, <2>1 DEF NestInv
  <2>3. ASSUME NEW c \in stack'[i].read PROVE WellFormed(c) /\ Parent(c) = stack'[i].dir
    <3>1. CASE c \in stack[i].read
      BY <1>1, <2>1, <3>1 DEF NestInv
    <3>2. CASE c \notin stack[i].read
      BY <1>1, <1>3, <2>1, <2>3, <3>2
    <3> QED BY <3>1, <3>2
  <2>4. ASSUME NEW j \in 1 .. i - 1
        PROVE  stack'[j + 1].dir \in stack'[j].read /\ IsPrefix(stack'[j + 1].dir, stack'[i].dir)
    <3>1. j \in 1 .. n /\ j + 1 \in 1 .. n
      BY <1>1
    <3>2. stack[j + 1].dir \in stack[j].read /\ IsPrefix(stack[j + 1].dir, stack[i].dir)
      BY <1>1, <2>1 DEF NestInv
    <3>3. stack[j].read \subseteq stack'[j].read /\ stack'[j + 1].dir = stack[j + 1].dir
      BY <1>3, <3>1
    <3> QED BY <2>1, <3>2, <3>3
  <2>5. ASSUME NEW s \in spared', IsPrefix(stack'[i].dir, s)
        PROVE  \E c \in stack'[i].read : IsPrefix(c, s)
    <3>1. CASE s \in spared
      BY <1>1, <2>1, <2>5, <3>1 DEF NestInv
    <3>2. CASE s = e /\ i = n
      BY <1>3, <1>4, <3>2
    <3>3. CASE s = e /\ i # n
      <4>1. i \in 1 .. n - 1
        BY <3>3
      <4>2. stack[i + 1].dir \in stack[i].read /\ IsPrefix(stack[i + 1].dir, e)
        BY <1>1, <1>4, <4>1, WayDown
      <4> QED BY <2>1, <3>3, <4>2
    <3> QED BY <1>2, <3>1, <3>2, <3>3
  <2> QED BY <2>2, <2>3, <2>4, <2>5
<1>7. CASE Len(stack') = n
  BY <1>5, <1>6, <1>7 DEF NestInv
<1>8. CASE Len(stack') # n
  <2>1. Len(stack') = n + 1 /\ stack'[n + 1] = [dir |-> e, read |-> {}] /\ spared' = spared
    BY <1>8 DEF EntryIs
  <2>2. stack'[n + 1].dir = e /\ stack'[n + 1].read = {}
    BY <2>1
  <2>3. ASSUME NEW j \in 1 .. n
        PROVE  stack'[j + 1].dir \in stack'[j].read /\ IsPrefix(stack'[j + 1].dir, e)
    <3>1. CASE j = n
      BY <1>3, <1>4, <2>2, <3>1
    <3>2. CASE j # n
      <4>1. j \in 1 .. n - 1 /\ j + 1 \in 1 .. n
        BY <3>2
      <4>2. stack[j + 1].dir \in stack[j].read /\ IsPrefix(stack[j + 1].dir, e)
        BY <1>1, <1>4, <4>1, WayDown
      <4> QED BY <1>3, <4>1, <4>2
    <3> QED BY <3>1, <3>2
  <2>4. \A s \in spared' : ~ IsPrefix(e, s)
    BY <1>1, <2>1, UnreadIsNew
  <2>5. n + 1 - 1 = n /\ \A i \in 1 .. n + 1 : i \in 1 .. n \/ i = n + 1
    OBVIOUS
  <2>6. ASSUME NEW i, i = n + 1
        PROVE  /\ WellFormed(stack'[i].dir)
               /\ \A c \in stack'[i].read : WellFormed(c) /\ Parent(c) = stack'[i].dir
               /\ \A j \in 1 .. i - 1 : /\ stack'[j + 1].dir \in stack'[j].read
                                       /\ IsPrefix(stack'[j + 1].dir, stack'[i].dir)
               /\ \A s \in spared' : IsPrefix(stack'[i].dir, s) => \E c \in stack'[i].read : IsPrefix(c, s)
    BY <1>1, <2>2, <2>3, <2>4, <2>5, <2>6
  <2> QED BY <1>5, <1>6, <2>1, <2>5, <2>6 DEF NestInv
<1> QED BY <1>7, <1>8

\* What is read is skipped, because it is taken for "..", is removed, is gone into or
\* is left.
LEMMA WalkReads ==
  ASSUME PathInv, RemoveInv, RemoveEntry
  PROVE  RemoveInv'
<1>1. PICK e \in Entries, n \in Nat \ {0} : EntryIs(e, n)
  BY EntryRead
<1>2. stack # <<>>
  BY DEF RemoveEntry
<1>3. /\ Entries' \subseteq Entries /\ files' \subseteq files /\ spared \subseteq spared'
      /\ \A o \in Entries : Name(o) = <<"o">> \/ o \in spared => o \in Entries'
  <2>1. e \notin spared
    <3>1. WellFormed(e) /\ IsPrefix(e, e)
      BY PrefixOrder DEF RemoveInv, TreeInv, WellFormed
    <3>2. n \in 1 .. Len(stack)
      BY <1>1 DEF EntryIs
    <3> QED BY <1>1, <3>1, <3>2, UnreadIsNew DEF EntryIs, RemoveInv
  <2> QED BY <1>1, <2>1 DEF EntryIs, Entries
<1>4. TreeInv'
  BY <1>1, <1>3 DEF EntryIs, RemoveInv, TreeInv
<1>5. QuietInv'
  <2>1. cleared' = <<>>
    BY <1>1, <1>2 DEF EntryIs, RemoveInv, QuietInv
  <2> QED BY <1>1, <1>2, <2>1 DEF EntryIs, RemoveInv, QuietInv
<1>6. WalkInv'
  <2> SUFFICES ASSUME ~ disturbed' PROVE WalkInv'
    BY DEF WalkInv
  <2>1. /\ cleared' = <<>>
        /\ \A i \in 1 .. n :
             /\ stack[i].dir \in dirs
             /\ i > 1 => Parent(stack[i].dir) = stack[i - 1].dir /\ Name(stack[i].dir) # <<"o">>
             /\ \A x \in stack[i].read : x \in Entries =>
                  Clean(x) \/ (i < n /\ x = stack[i + 1].dir)
    BY <1>1, <1>2 DEF EntryIs, RemoveInv, QuietInv, WalkInv
  <2>2. Len(stack') \in {n, n + 1} /\ n \in 1 .. n
    BY <1>1 DEF EntryIs
  <2>3. ASSUME NEW i \in 1 .. Len(stack')
        PROVE  /\ stack'[i].dir \in dirs'
               /\ i > 1 => Parent(stack'[i].dir) = stack'[i - 1].dir /\ Name(stack'[i].dir) # <<"o">>
    <3>1. CASE i \in 1 .. n
      <4>1. stack'[i].dir = stack[i].dir /\ (i > 1 => stack'[i - 1].dir = stack[i - 1].dir)
        <5>1. i > 1 => i - 1 \in 1 .. n
          BY <3>1
        <5> QED BY <1>1, <3>1, <5>1 DEF EntryIs
      <4> QED BY <1>1, <2>1, <3>1, <4>1 DEF EntryIs
    <3>2. CASE i \notin 1 .. n
      <4>1. i = n + 1 /\ Len(stack') = n + 1 /\ i - 1 = n /\ i > 1
        BY <2>2, <3>2
      <4>2. Name(e) # <<"o">> /\ e \in dirs /\ stack'[i] = [dir |-> e, read |-> {}]
        BY <1>1, <4>1 DEF EntryIs
      <4>3. stack'[i].dir = e
        BY <4>2
      <4> QED BY <1>1, <2>2, <4>1, <4>2, <4>3 DEF EntryIs
    <3> QED BY <3>1, <3>2
  <2>4. ASSUME NEW i \in 1 .. Len(stack'), NEW x \in stack'[i].read, x \in Entries'
        PROVE  Clean(x)' \/ (i < Len(stack') /\ x = stack'[i + 1].dir)
    <3>1. CASE i \in 1 .. n
      <4>1. CASE x \in stack[i].read
        <5>1. Clean(x) \/ (i < n /\ x = stack[i + 1].dir)
          BY <1>3, <2>1, <2>4, <3>1, <4>1
        <5>2. CASE Clean(x)
          BY <1>3, <5>2, CleanKept
        <5>3. CASE i < n /\ x = stack[i + 1].dir
          <6>1. i + 1 \in 1 .. n
            BY <3>1, <5>3
          <6>2. i < Len(stack')
            BY <2>2, <3>1, <5>3
          <6> QED BY <1>1, <5>3, <6>1, <6>2 DEF EntryIs
        <5> QED BY <5>1, <5>2, <5>3
      <4>2. CASE x \notin stack[i].read
        <5>1. i = n /\ x = e
          BY <1>1, <2>4, <3>1, <4>2 DEF EntryIs
        <5>2. CASE Name(e) = <<"o">>
          <6>1. Clean(x)
            BY <5>1, <5>2 DEF Clean, Excused
          <6> QED BY <1>3, <6>1, CleanKept
        <5>3. CASE Len(stack') = n + 1 /\ stack'[n + 1] = [dir |-> e, read |-> {}]
          <6>1. stack'[i + 1].dir = e /\ i < Len(stack')
            BY <5>1, <5>3
          <6> QED BY <5>1, <6>1
        <5>4. CASE e \in files /\ files' = files \ {e}
          <6>1. x \notin Entries'
            BY <1>1, <5>1, <5>4 DEF EntryIs, Entries, RemoveInv, TreeInv
          <6> QED BY <2>4, <6>1
        <5>5. CASE e \in spared'
          BY <2>4, <5>1, <5>5 DEF Clean, Excused
        <5> QED BY <1>1, <5>2, <5>3, <5>4, <5>5 DEF EntryIs
      <4> QED BY <4>1, <4>2
    <3>2. CASE i \notin 1 .. n
      <4>1. i = n + 1 /\ Len(stack') = n + 1
        BY <2>2, <3>2
      <4>2. stack'[i] = [dir |-> e, read |-> {}]
        BY <1>1, <4>1 DEF EntryIs
      <4> QED BY <2>4, <4>2
    <3> QED BY <3>1, <3>2
  <2> QED BY <2>1, <2>3, <2>4 DEF WalkInv
<1>7. NestInv'
  BY <1>1, NestReads
<1> QED BY <1>4, <1>5, <1>6, <1>7 DEF RemoveInv

\* What rmdir does.
Removed(d) ==
  IF \E e \in Entries : Parent(e) = d THEN dirs' = dirs /\ spared' = spared
  ELSE \/ dirs' = dirs \ {d} /\ spared' = spared
       \/ dirs' = dirs /\ spared' = spared \cup {d}

\* What the return of a call does.
LEMMA CallReturned ==
  ASSUME PathInv, RemoveReturn
  PROVE  \E n \in Nat \ {0} :
           /\ n = Len(stack) /\ Len(stack') = n - 1
           /\ \A i \in 1 .. n - 1 : stack'[i] = stack[i]
           /\ UNCHANGED <<files, step, disturbed>>
           /\ cleared' = IF n = 1 THEN stack[n].dir ELSE cleared
           /\ \A e \in Entries : Parent(e) = stack[n].dir => e \in stack[n].read
           /\ Removed(stack[n].dir)
<1>1. /\ stack # <<>> /\ Unread = {} /\ stack' = Front(stack)
      /\ UNCHANGED <<files, step, disturbed>>
      /\ Removed(Top.dir)
      /\ cleared' = IF Len(stack) = 1 THEN Top.dir ELSE cleared
  BY DEF RemoveReturn, Removed, Entries
<1>2. stack \in Seq(Frames)
  BY DEF PathInv, StackInv, Frames
<1>3. PICK n \in Nat \ {0} : n = Len(stack)
  BY <1>1, <1>2, EmptySeq
<1>4. Top = stack[n]
  BY <1>3 DEF Top, Last
<1>5. Len(stack') = n - 1 /\ \A i \in 1 .. n - 1 : stack'[i] = stack[i]
  <2>1. \A i \in 1 .. n - 1 : stack[i] \in Frames
    BY <1>2, <1>3
  <2>2. /\ Len(SubSeq(stack, 1, n - 1)) = IF 1 <= n - 1 THEN n - 1 - 1 + 1 ELSE 0
        /\ \A i \in 1 .. n - 1 - 1 + 1 : SubSeq(stack, 1, n - 1)[i] = stack[1 + i - 1]
    BY <2>1, SubSeqProperties
  <2>3. (IF 1 <= n - 1 THEN n - 1 - 1 + 1 ELSE 0) = n - 1 /\ n - 1 - 1 + 1 = n - 1
    OBVIOUS
  <2>4. stack' = SubSeq(stack, 1, n - 1)
    BY <1>1, <1>3 DEF Front
  <2>5. ASSUME NEW i \in 1 .. n - 1 PROVE stack'[i] = stack[i]
    <3>1. i \in 1 .. n - 1 - 1 + 1 /\ 1 + i - 1 = i
      BY <2>3
    <3> QED BY <2>2, <2>4, <3>1
  <2> QED BY <2>2, <2>3, <2>4, <2>5
<1>6. \A e \in Entries : Parent(e) = stack[n].dir => e \in stack[n].read
  BY <1>1, <1>4 DEF Unread, Entries
<1> QED BY <1>1, <1>3, <1>4, <1>5, <1>6 DEF Entries

\* When all entries of a directory are clean, it is, or is gone or left.
LEMMA DirectoryCleared ==
  ASSUME TreeInv, NEW d \in dirs, WellFormed(d), \A e \in Entries : Parent(e) = d => Clean(e),
         files' = files, Removed(d)
  PROVE  Clean(d)'
<1>1. CASE \E e \in Entries : Parent(e) = d
  <2>1. PICK e \in Entries : Parent(e) = d
    BY <1>1
  <2>2. WellFormed(e) /\ Clean(e) /\ d \in Text /\ e \in Text /\ d # <<>>
    BY <2>1, EmptySeq DEF TreeInv, WellFormed, Text
  <2>3. IsPrefix(d, e)
    BY <2>1, <2>2, ParentAbove
  <2>4. Excused(d)
    <3>1. Excused(e)
      BY <2>2, PrefixOrder DEF Clean
    <3>2. PICK o \in Entries : (Name(o) = <<"o">> \/ o \in spared) /\ (IsPrefix(e, o) \/ IsPrefix(o, e))
      BY <3>1 DEF Excused
    <3>3. o \in Text /\ WellFormed(o)
      BY DEF TreeInv, WellFormed
    <3>4. CASE IsPrefix(e, o)
      <4>1. IsPrefix(d, o)
        BY <2>2, <2>3, <3>3, <3>4, PrefixOrder
      <4> QED BY <3>2, <4>1 DEF Excused
    <3>5. CASE o = e
      BY <2>3, <3>2, <3>5 DEF Excused
    <3>6. CASE IsPrefix(o, e) /\ o # e
      <4>1. IsPrefix(o, d)
        BY <2>1, <2>2, <3>3, <3>6, AboveParent
      <4> QED BY <3>2, <4>1 DEF Excused
    <3> QED BY <3>2, <3>4, <3>5, <3>6
  <2>5. Clean(d)
    <3> SUFFICES ASSUME NEW x \in Entries, IsPrefix(d, x), x # d PROVE Excused(x)
      BY <2>4 DEF Clean
    <3>1. WellFormed(x)
      BY DEF TreeInv
    <3>2. PICK c \in Text : WellFormed(c) /\ Parent(c) = d /\ IsPrefix(c, x)
      BY <3>1, ChildToward
    <3>3. c \in Entries
      BY <3>2 DEF TreeInv, Entries
    <3> QED BY <3>2, <3>3 DEF Clean
  <2>6. Entries' = Entries /\ spared' = spared
    BY <1>1 DEF Removed, Entries
  <2> QED BY <2>5, <2>6, CleanKept
<1>2. CASE ~ \E e \in Entries : Parent(e) = d
  <2> SUFFICES ASSUME NEW x \in Entries', IsPrefix(d, x) PROVE Excused(x)'
    BY DEF Clean
  <2>1. x \in Entries
    BY <1>2 DEF Removed, Entries
  <2>2. x = d
    BY <1>2, <2>1, NothingBelow
  <2>3. CASE dirs' = dirs \ {d}
    <3>1. d \notin files
      BY DEF TreeInv
    <3> QED BY <2>2, <2>3, <3>1 DEF Entries
  <2>4. CASE spared' = spared \cup {d}
    BY <2>2, <2>4 DEF Excused
  <2> QED BY <1>2, <2>3, <2>4 DEF Removed
<1> QED BY <1>1, <1>2

\* The directory that is done is clean, or gone, for the call that went into it.
LEMMA WalkReturns ==
  ASSUME PathInv, RemoveInv, RemoveReturn
  PROVE  RemoveInv'
<1>1. PICK n \in Nat \ {0} :
           /\ n = Len(stack) /\ Len(stack') = n - 1
           /\ \A i \in 1 .. n - 1 : stack'[i] = stack[i]
           /\ UNCHANGED <<files, step, disturbed>>
           /\ cleared' = IF n = 1 THEN stack[n].dir ELSE cleared
           /\ \A e \in Entries : Parent(e) = stack[n].dir => e \in stack[n].read
           /\ Removed(stack[n].dir)
  BY CallReturned
<1>2. stack # <<>> /\ cleared = <<>>
  BY DEF RemoveReturn, RemoveInv, QuietInv
<1>3. PICK d : d = stack[n].dir
  OBVIOUS
<1>4. /\ Removed(d) /\ dirs' \in {dirs, dirs \ {d}} /\ spared' \in {spared, spared \cup {d}}
      /\ dirs' # dirs => \A x \in Entries : Parent(x) # d
  BY <1>1, <1>3 DEF Removed
<1>5. Entries' \subseteq Entries /\ spared \subseteq spared'
  BY <1>1, <1>4 DEF Entries
<1>6. TreeInv'
  <2>1. dirs' \cap files' = {} /\ \A e \in Entries' : WellFormed(e)
    BY <1>1, <1>4, <1>5 DEF RemoveInv, TreeInv
  <2>2. ASSUME NEW e \in Entries', NEW y \in Text, WellFormed(y), IsPrefix(y, e), y # e
        PROVE  y \in dirs'
    <3>1. y \in dirs
      BY <1>5, <2>2 DEF RemoveInv, TreeInv
    <3>2. CASE dirs' = dirs
      BY <3>1, <3>2
    <3>3. CASE \A x \in Entries : Parent(x) # d
      <4>1. y # d
        BY <1>5, <2>2, <3>3, NothingBelow DEF RemoveInv
      <4> QED BY <1>4, <3>1, <4>1
    <3> QED BY <1>4, <3>2, <3>3
  <2> QED BY <2>1, <2>2 DEF TreeInv
<1>7. QuietInv'
  <2>1. stack' # <<>> => cleared' = <<>>
    <3>1. CASE n = 1
      <4>1. Len(stack') = 0
        BY <1>1, <3>1
      <4>2. stack' \in Seq(Frames)
        BY RemoveReturnKeeps DEF PathInv, StackInv, Frames
      <4> QED BY <4>1, <4>2, EmptySeq
    <3>2. CASE n # 1
      BY <1>1, <1>2, <3>2
    <3> QED BY <3>1, <3>2
  <2>2. ~ disturbed' => step' = "none"
    BY <1>1, <1>2 DEF RemoveInv, QuietInv
  <2> QED BY <2>1, <2>2 DEF QuietInv
<1>8. WalkInv'
  <2> SUFFICES ASSUME ~ disturbed' PROVE WalkInv'
    BY DEF WalkInv
  <2>1. \A i \in 1 .. n :
          /\ stack[i].dir \in dirs
          /\ i > 1 => Parent(stack[i].dir) = stack[i - 1].dir /\ Name(stack[i].dir) # <<"o">>
          /\ \A x \in stack[i].read : x \in Entries =>
               Clean(x) \/ (i < n /\ x = stack[i + 1].dir)
    BY <1>1 DEF RemoveInv, WalkInv
  <2>2. n \in 1 .. n /\ ~ (n < n)
    OBVIOUS
  <2>3. d \in dirs /\ WellFormed(d)
    BY <1>3, <2>1, <2>2 DEF RemoveInv, TreeInv, Entries
  <2>4. \A e \in Entries : Parent(e) = d => Clean(e)
    BY <1>1, <1>3, <2>1, <2>2
  <2>5. Clean(d)'
    BY <1>1, <1>4, <2>3, <2>4, DirectoryCleared DEF RemoveInv
  <2>6. CASE n = 1
    <3>1. \A i \in 1 .. Len(stack') : FALSE
      BY <1>1, <2>6
    <3>2. PICK c : c = cleared'
      OBVIOUS
    <3>3. c = d
      BY <1>1, <1>3, <2>6, <3>2
    <3>4. Clean(cleared)'
      BY <2>5, <3>2, <3>3 DEF Clean, Excused
    <3> QED BY <3>1, <3>4 DEF WalkInv
  <2>7. CASE n # 1
    <3>1. n > 1 /\ n - 1 \in 1 .. n /\ \A i \in 1 .. n - 1 : i \in 1 .. n
      BY <2>7
    <3>2. Parent(d) = stack[n - 1].dir /\ Name(d) # <<"o">>
      BY <1>3, <2>1, <2>2, <3>1
    <3>3. \A o \in Entries : Name(o) = <<"o">> \/ o \in spared => o \in Entries'
      <4>1. d \notin spared
        BY <1>1, <1>3, <2>2, WalkedIsNew DEF RemoveInv
      <4> QED BY <1>1, <1>4, <3>2, <4>1 DEF Entries
    <3>4. ASSUME NEW i \in 1 .. n - 1
          PROVE  /\ stack[i].dir \in dirs'
                 /\ i > 1 => i - 1 \in 1 .. n - 1
      <4>1. stack[i].dir \in dirs /\ i + 1 \in 1 .. n /\ i + 1 > 1 /\ i + 1 - 1 = i
        BY <2>1, <3>1
      <4>2. Parent(stack[i + 1].dir) = stack[i].dir /\ stack[i + 1].dir \in Entries
        BY <2>1, <4>1 DEF Entries
      <4>3. stack[i].dir \in dirs'
        BY <1>4, <4>1, <4>2
      <4> QED BY <4>3
    <3>5. ASSUME NEW i \in 1 .. n - 1, NEW x \in stack[i].read, x \in Entries'
          PROVE  Clean(x)' \/ (i < n - 1 /\ i + 1 \in 1 .. n - 1 /\ x = stack[i + 1].dir)
      <4>1. Clean(x) \/ (i < n /\ x = stack[i + 1].dir)
        BY <1>5, <2>1, <3>1, <3>5
      <4>2. CASE Clean(x)
        BY <1>5, <3>3, <4>2, CleanKept
      <4>3. CASE x = stack[i + 1].dir /\ i < n - 1
        BY <4>3
      <4>4. CASE x = stack[i + 1].dir /\ ~ (i < n - 1)
        <5>1. i + 1 = n
          BY <4>4
        <5>2. x = d
          BY <1>3, <4>4, <5>1
        <5> QED BY <2>5, <5>2
      <4> QED BY <4>1, <4>2, <4>3, <4>4
    <3>6. cleared' = <<>>
      BY <1>1, <1>2, <2>7
    <3>7. \A i \in 1 .. n - 1 : /\ stack'[i] = stack[i]
                                /\ i > 1 => stack'[i - 1] = stack[i - 1]
                                /\ i < n - 1 => stack'[i + 1] = stack[i + 1]
      <4>1. \A i \in 1 .. n - 1 : (i > 1 => i - 1 \in 1 .. n - 1) /\ (i < n - 1 => i + 1 \in 1 .. n - 1)
        OBVIOUS
      <4> QED BY <1>1, <4>1
    <3>8. ASSUME NEW i \in 1 .. n - 1
          PROVE  /\ stack'[i].dir \in dirs'
                 /\ i > 1 => Parent(stack'[i].dir) = stack'[i - 1].dir /\ Name(stack'[i].dir) # <<"o">>
                 /\ \A x \in stack'[i].read : x \in Entries' =>
                      Clean(x)' \/ (i < n - 1 /\ x = stack'[i + 1].dir)
      BY <2>1, <3>1, <3>4, <3>5, <3>7
    <3>9. Len(stack') = n - 1
      BY <1>1
    <3> QED BY <3>6, <3>8, <3>9 DEF WalkInv
  <2> QED BY <2>6, <2>7
<1>9. NestInv'
  <2>1. NestInv /\ n \in 1 .. Len(stack) /\ WellFormed(d) /\ d \in Text
    <3>1. NestInv /\ n \in 1 .. Len(stack)
      BY <1>1 DEF RemoveInv
    <3>2. WellFormed(d)
      BY <1>3, <3>1 DEF NestInv
    <3> QED BY <3>1, <3>2 DEF WellFormed
  <2>2. IsPrefix(d, d)
    BY <2>1, PrefixOrder
  <2>3. \A s \in spared' : WellFormed(s)
    BY <1>4, <2>1 DEF NestInv
  <2>4. ASSUME NEW i \in 1 .. n - 1
        PROVE  /\ WellFormed(stack'[i].dir)
               /\ \A c \in stack'[i].read : WellFormed(c) /\ Parent(c) = stack'[i].dir
               /\ \A j \in 1 .. i - 1 : /\ stack'[j + 1].dir \in stack'[j].read
                                       /\ IsPrefix(stack'[j + 1].dir, stack'[i].dir)
               /\ \A s \in spared' : IsPrefix(stack'[i].dir, s) => \E c \in stack'[i].read : IsPrefix(c, s)
    <3>1. i \in 1 .. Len(stack) /\ stack'[i] = stack[i]
      BY <1>1
    <3>2. \A j \in 1 .. i - 1 : stack'[j] = stack[j] /\ stack'[j + 1] = stack[j + 1]
      <4>1. \A j \in 1 .. i - 1 : j \in 1 .. n - 1 /\ j + 1 \in 1 .. n - 1
        OBVIOUS
      <4> QED BY <1>1, <4>1
    <3>3. stack[i + 1].dir \in stack[i].read /\ IsPrefix(stack[i + 1].dir, d)
      BY <1>3, <2>1, <2>2, WayDown
    <3>4. ASSUME NEW s \in spared', IsPrefix(stack'[i].dir, s)
          PROVE  \E c \in stack'[i].read : IsPrefix(c, s)
      <4>1. CASE s \in spared
        BY <2>1, <3>1, <3>4, <4>1 DEF NestInv
      <4>2. CASE s = d
        BY <3>1, <3>3, <4>2
      <4> QED BY <1>4, <4>1, <4>2
    <3>5. /\ WellFormed(stack[i].dir)
          /\ \A c \in stack[i].read : WellFormed(c) /\ Parent(c) = stack[i].dir
          /\ \A j \in 1 .. i - 1 : /\ stack[j + 1].dir \in stack[j].read
                                  /\ IsPrefix(stack[j + 1].dir, stack[i].dir)
      BY <2>1, <3>1 DEF NestInv
    <3> QED BY <3>1, <3>2, <3>4, <3>5
  <2> QED BY <1>1, <2>3, <2>4 DEF NestInv
<1> QED BY <1>6, <1>7, <1>8, <1>9 DEF RemoveInv

\* Every step keeps the walk of remove_dir.
LEMMA RemoveKept == PathInv /\ RemoveInv /\ [PathsNext]_pathVars => RemoveInv'
<1> SUFFICES ASSUME PathInv, RemoveInv, [PathsNext]_pathVars PROVE RemoveInv'
  OBVIOUS
<1>1. CASE UNCHANGED pathVars
  BY <1>1, OthersKeep DEF pathVars
<1>2. CASE OpenPathFails \/ PathDestroy \/ GetFullPath \/ ResetFullPath
  <2>1. UNCHANGED <<dirs, files, stack, cleared, spared, disturbed>> /\ step' \in {step, "none"}
    BY <1>2 DEF OpenPathFails, PathDestroy, GetFullPath, ResetFullPath, ClearPath
  <2> QED BY <2>1, OthersKeep
<1> QED BY <1>1, <1>2, CreateEnds, MakeSteps, WalkStarts, WalkReads, WalkReturns, LinkingKeeps
       DEF PathsNext

\* What has been cleared is clean.
LEMMA RemoveDone == RemoveInv => RemovedAll
BY DEF RemoveInv, WalkInv, Clean, Excused, Entries, RemovedAll

-----------------------------------------------------------------------------
(* Lines: FileMap.                                                         *)

\* The newlines among the first k characters.
Counts(d, c) ==
  /\ c \in [0 .. Len(d) -> Nat] /\ c[0] = 0
  /\ \A k \in 1 .. Len(d) : c[k] = IF d[k] = "newline" THEN c[k - 1] + 1 ELSE c[k - 1]

\* LineCount is what such a count comes to.
LEMMA LineCountIs ==
  ASSUME NEW d \in Seq(Chars)
  PROVE  \E c : Counts(d, c) /\ LineCount(d) = c[Len(d)]
<1>1. PICK n \in Nat : n = Len(d)
  OBVIOUS
<1>2. DOMAIN d = 1 .. n
  BY <1>1
<1> DEFINE Turn(f, s) == IF s = {} THEN 0
                         ELSE IF d[Max(s)] = "newline" THEN f[s \ {Max(s)}] + 1 ELSE f[s \ {Max(s)}]
           it == CHOOSE f : f = [s \in SUBSET (1 .. n) |-> Turn(f, s)]
<1>3. LineCount(d) = it[1 .. n]
  BY <1>2 DEF LineCount, FoldLeft, MapThenFoldSet
<1>4. \E f : f = [s \in SUBSET (1 .. n) |-> Turn(f, s)]
  <2> DEFINE t == [k \in Nat |-> [x \in Nat |-> IF d[k] = "newline" THEN x + 1 ELSE x]]
  <2>1. t \in [Nat -> [Nat -> Nat]]
    OBVIOUS
  <2>2. PICK f \in [SUBSET (1 .. n) -> Nat] :
          \A s \in SUBSET (1 .. n) : f[s] = IF s = {} THEN 0 ELSE t[Max(s)][f[s \ {Max(s)}]]
    <3>1. 0 \in Nat
      OBVIOUS
    <3> HIDE DEF t
    <3>2. PICK f : IsFold(f, n, Nat, 0, t)
      BY <2>1, <3>1, FoldExists
    <3> QED BY <3>2 DEF IsFold
  <2>3. ASSUME NEW s \in SUBSET (1 .. n) PROVE f[s] = Turn(f, s)
    <3>1. CASE s = {}
      BY <2>2, <3>1
    <3>2. CASE s # {}
      <4>1. s \subseteq 0 .. n
        OBVIOUS
      <4>2. PICK m : m = Max(s)
        OBVIOUS
      <4>3. m \in s
        BY <3>2, <4>1, <4>2, GreatestNumber
      <4>4. m \in Nat /\ f[s \ {m}] \in Nat
        <5>1. s \ {m} \in SUBSET (1 .. n)
          OBVIOUS
        <5> QED BY <2>2, <4>3, <5>1
      <4>5. t[m][f[s \ {m}]] = IF d[m] = "newline" THEN f[s \ {m}] + 1 ELSE f[s \ {m}]
        BY <4>4
      <4> HIDE DEF t
      <4> QED BY <2>2, <3>2, <4>2, <4>5
    <3> QED BY <3>1, <3>2
  <2> HIDE DEF Turn
  <2> QED BY <2>2, <2>3
<1>5. \A s \in SUBSET (1 .. n) : it[s] = Turn(it, s)
  <2>1. it = [s \in SUBSET (1 .. n) |-> Turn(it, s)]
    <3> HIDE DEF Turn
    <3> QED BY <1>4
  <2> HIDE DEF it, Turn
  <2> QED BY <2>1
<1>6. PICK i : i = it
  OBVIOUS
<1>7. i[1 .. 0] = 0
  <2> HIDE DEF it
  <2> QED BY <1>5, <1>6, FirstPositions
<1>8. \A k \in 1 .. n : i[1 .. k] = IF d[k] = "newline" THEN i[1 .. k - 1] + 1 ELSE i[1 .. k - 1]
  <2> HIDE DEF it
  <2> QED BY <1>5, <1>6, FirstPositions
<1> DEFINE c == [k \in 0 .. n |-> i[1 .. k]]
<1>9. c[0] = 0 /\ c[n] = LineCount(d)
  <2> HIDE DEF it
  <2> QED BY <1>1, <1>3, <1>6, <1>7
<1> HIDE DEF it, Turn
<1>10. \A k \in 1 .. n : c[k] = IF d[k] = "newline" THEN c[k - 1] + 1 ELSE c[k - 1]
  <2>1. \A k \in 1 .. n : k \in 0 .. n /\ k - 1 \in 0 .. n
    OBVIOUS
  <2> QED BY <1>8, <2>1
<1>11. \A k \in 0 .. n : c[k] \in Nat
  <2> DEFINE T == {k \in Nat : c[k] \in Nat}
  <2>1. 0 \in T
    BY <1>9
  <2>2. ASSUME NEW k \in 0 .. n - 1, k \in T PROVE k + 1 \in T
    <3>1. k + 1 \in 1 .. n /\ k + 1 - 1 = k /\ k + 1 \in Nat
      OBVIOUS
    <3> HIDE DEF c
    <3> QED BY <1>10, <2>2, <3>1
  <2> HIDE DEF T
  <2>3. \A k \in 0 .. n : k \in T
    BY <2>1, <2>2, UpTo
  <2> QED BY <2>3 DEF T
<1>12. c \in [0 .. n -> Nat]
  BY <1>11
<1> HIDE DEF c
<1> QED BY <1>1, <1>9, <1>10, <1>12 DEF Counts

\* What a count is at q is the LineCount of the first q characters.
LEMMA CountOnce ==
  ASSUME NEW d \in Seq(Chars), NEW c, Counts(d, c), NEW q \in 0 .. Len(d)
  PROVE  LineCount(SubSeq(d, 1, q)) = c[q]
<1>1. PICK n \in Nat : n = Len(d)
  OBVIOUS
<1>2. PICK b : b = SubSeq(d, 1, q)
  OBVIOUS
<1>3. b \in Seq(Chars) /\ Len(b) = q /\ \A i \in 1 .. q : b[i] = d[i]
  <2>1. q \in Nat /\ \A i \in 1 .. q : d[i] \in Chars
    OBVIOUS
  <2>2. /\ SubSeq(d, 1, q) \in Seq(Chars)
        /\ Len(SubSeq(d, 1, q)) = IF 1 <= q THEN q - 1 + 1 ELSE 0
        /\ \A i \in 1 .. q - 1 + 1 : SubSeq(d, 1, q)[i] = d[1 + i - 1]
    BY <2>1, SubSeqProperties
  <2>3. (IF 1 <= q THEN q - 1 + 1 ELSE 0) = q /\ q - 1 + 1 = q /\ \A i \in Nat : 1 + i - 1 = i
    OBVIOUS
  <2> QED BY <1>2, <2>2, <2>3
<1>4. PICK e : Counts(b, e) /\ LineCount(b) = e[q]
  BY <1>3, LineCountIs
<1>5. /\ e[0] = 0 /\ c[0] = 0
      /\ \A k \in 1 .. q : /\ c[k] = IF d[k] = "newline" THEN c[k - 1] + 1 ELSE c[k - 1]
                           /\ e[k] = IF d[k] = "newline" THEN e[k - 1] + 1 ELSE e[k - 1]
  BY <1>1, <1>3, <1>4 DEF Counts
<1> DEFINE T == {k \in Nat : e[k] = c[k]}
<1>6. 0 \in T
  BY <1>5
<1>7. ASSUME NEW k \in 0 .. q - 1, k \in T PROVE k + 1 \in T
  <2>1. k + 1 \in 1 .. q /\ k + 1 - 1 = k /\ k + 1 \in Nat
    BY <1>1
  <2> QED BY <1>5, <1>7, <2>1
<1>8. \A k \in 0 .. q : k \in T
  <2>1. q \in Nat
    BY <1>1
  <2> HIDE DEF T
  <2> QED BY <1>6, <1>7, <2>1, UpTo
<1> QED BY <1>2, <1>4, <1>8

\* One turn of the loop of get_line, and the values it goes through.
Places == [offset : Nat, c : Nat, line : Nat]

Turned(s, ch, p) ==
  IF s.line = p THEN s
  ELSE IF ch # "newline" THEN [s EXCEPT !.offset = @ + 1, !.c = @ + 1]
  ELSE IF s.line + 1 = p THEN [s EXCEPT !.line = p]
  ELSE [offset |-> s.offset + 1, c |-> 1, line |-> s.line + 1]

Scans(d, p, z) ==
  /\ z \in [0 .. Len(d) -> Places] /\ z[0] = [offset |-> 0, c |-> 0, line |-> 0]
  /\ \A k \in 1 .. Len(d) : z[k] = Turned(z[k - 1], d[k], p)

\* A fold goes through them.
LEMMA ScanIs ==
  ASSUME NEW d \in Seq(Chars), NEW p \in Nat
  PROVE  \E z : Scans(d, p, z) /\ Scan(d, p) = z[Len(d)]
<1>1. PICK n \in Nat : n = Len(d)
  OBVIOUS
<1>2. DOMAIN d = 1 .. n
  BY <1>1
<1> DEFINE base == [offset |-> 0, c |-> 0, line |-> 0]
           Turn(f, s) == IF s = {} THEN base ELSE Turned(f[s \ {Max(s)}], d[Max(s)], p)
           it == CHOOSE f : f = [s \in SUBSET (1 .. n) |-> Turn(f, s)]
<1>3. Scan(d, p) = it[1 .. n]
  BY <1>2 DEF Scan, FoldLeft, MapThenFoldSet, Turned
<1>4. base \in Places
  BY DEF Places
<1>5. ASSUME NEW s \in Places, NEW ch PROVE Turned(s, ch, p) \in Places
  <2>1. s.offset + 1 \in Nat /\ s.c + 1 \in Nat /\ s.line + 1 \in Nat /\ 1 \in Nat
    BY DEF Places
  <2>2. /\ [s EXCEPT !.offset = @ + 1, !.c = @ + 1] \in Places
        /\ [s EXCEPT !.line = p] \in Places
        /\ [offset |-> s.offset + 1, c |-> 1, line |-> s.line + 1] \in Places
    BY <2>1 DEF Places
  <2> QED BY <2>2 DEF Turned
<1> HIDE DEF base
<1>6. \E f : f = [s \in SUBSET (1 .. n) |-> Turn(f, s)]
  <2> DEFINE t == [k \in Nat |-> [x \in Places |-> Turned(x, d[k], p)]]
  <2>1. t \in [Nat -> [Places -> Places]]
    BY <1>5
  <2>2. PICK f \in [SUBSET (1 .. n) -> Places] :
          \A s \in SUBSET (1 .. n) : f[s] = IF s = {} THEN base ELSE t[Max(s)][f[s \ {Max(s)}]]
    <3> HIDE DEF t
    <3>1. PICK f : IsFold(f, n, Places, base, t)
      BY <1>4, <2>1, FoldExists
    <3> QED BY <3>1 DEF IsFold
  <2>3. ASSUME NEW s \in SUBSET (1 .. n) PROVE f[s] = Turn(f, s)
    <3>1. CASE s = {}
      BY <2>2, <3>1
    <3>2. CASE s # {}
      <4>1. s \subseteq 0 .. n
        OBVIOUS
      <4>2. PICK m : m = Max(s)
        OBVIOUS
      <4>3. m \in s
        BY <3>2, <4>1, <4>2, GreatestNumber
      <4>4. m \in Nat /\ f[s \ {m}] \in Places
        <5>1. s \ {m} \in SUBSET (1 .. n)
          OBVIOUS
        <5> QED BY <2>2, <4>3, <5>1
      <4>5. t[m][f[s \ {m}]] = Turned(f[s \ {m}], d[m], p)
        BY <4>4
      <4> HIDE DEF t
      <4> QED BY <2>2, <3>2, <4>2, <4>5
    <3> QED BY <3>1, <3>2
  <2> HIDE DEF Turn
  <2> QED BY <2>2, <2>3
<1>7. \A s \in SUBSET (1 .. n) : it[s] = Turn(it, s)
  <2>1. it = [s \in SUBSET (1 .. n) |-> Turn(it, s)]
    <3> HIDE DEF Turn
    <3> QED BY <1>6
  <2> HIDE DEF it, Turn
  <2> QED BY <2>1
<1>8. PICK i : i = it
  OBVIOUS
<1>9. i[1 .. 0] = base
  <2> HIDE DEF it
  <2> QED BY <1>7, <1>8, FirstPositions
<1>10. \A k \in 1 .. n : i[1 .. k] = Turned(i[1 .. k - 1], d[k], p)
  <2> HIDE DEF it
  <2> QED BY <1>7, <1>8, FirstPositions
<1> DEFINE z == [k \in 0 .. n |-> i[1 .. k]]
<1>11. z[0] = base /\ z[n] = Scan(d, p)
  <2> HIDE DEF it
  <2> QED BY <1>1, <1>3, <1>8, <1>9
<1> HIDE DEF it, Turn
<1>12. \A k \in 1 .. n : z[k] = Turned(z[k - 1], d[k], p)
  <2>1. \A k \in 1 .. n : k \in 0 .. n /\ k - 1 \in 0 .. n
    OBVIOUS
  <2> QED BY <1>10, <2>1
<1>13. \A k \in 0 .. n : z[k] \in Places
  <2> DEFINE T == {k \in Nat : z[k] \in Places}
  <2>1. 0 \in T
    BY <1>4, <1>11
  <2>2. ASSUME NEW k \in 0 .. n - 1, k \in T PROVE k + 1 \in T
    <3>1. k + 1 \in 1 .. n /\ k + 1 - 1 = k /\ k + 1 \in Nat
      OBVIOUS
    <3> HIDE DEF z
    <3> QED BY <1>5, <1>12, <2>2, <3>1
  <2> HIDE DEF T
  <2>3. \A k \in 0 .. n : k \in T
    BY <2>1, <2>2, UpTo
  <2> QED BY <2>3 DEF T
<1>14. z \in [0 .. n -> Places]
  BY <1>13
<1> HIDE DEF z
<1> QED BY <1>1, <1>11, <1>12, <1>14 DEF Scans, base

\* After k characters of d, q being the newline that the line in hand follows: either
\* line p is not reached yet, or the loop has stood still since its end.
Before(d, p, c, z, k, q) ==
  /\ c[k] < p /\ c[q] = c[k] /\ (q = 0 <=> c[k] = 0)
  /\ z[k].offset = k /\ z[k].line = c[k] /\ z[k].c = k - q + (IF q = 0 THEN 0 ELSE 1)

Behind(d, p, c, z, k, q) ==
  /\ c[k] >= p /\ c[q] = p - 1 /\ (q = 0 <=> p = 1)
  /\ z[k].line = p /\ z[k].offset - (z[k].c - (IF p = 1 THEN 0 ELSE 1)) = q

Reached(d, p, c, z, k, q) ==
  /\ q \in 0 .. k /\ (q > 0 => d[q] = "newline")
  /\ Before(d, p, c, z, k, q) \/ Behind(d, p, c, z, k, q)

\* One character more.
LEMMA ReachedStep ==
  ASSUME NEW d \in Seq(Chars), NEW p \in Nat \ {0}, NEW c, Counts(d, c), NEW z, Scans(d, p, z),
         NEW k \in 0 .. Len(d) - 1, NEW q, Reached(d, p, c, z, k, q)
  PROVE  \E r : Reached(d, p, c, z, k + 1, r)
<1>1. /\ k + 1 \in 1 .. Len(d) /\ k \in 0 .. Len(d) /\ k + 1 - 1 = k /\ k \in Nat /\ k + 1 \in Nat
      /\ k + 1 # 0 /\ q \in Nat /\ q \in 0 .. Len(d) /\ q \in 0 .. k /\ q \in 0 .. k + 1 /\ p \in Nat
      /\ (q > 0 => d[q] = "newline")
  BY DEF Reached
<1>2. /\ c[k + 1] = IF d[k + 1] = "newline" THEN c[k] + 1 ELSE c[k]
      /\ c[k] \in Nat /\ c[q] \in Nat /\ c[k + 1] \in Nat
  BY <1>1 DEF Counts
<1>3. PICK s \in Places : s = z[k]
  BY <1>1 DEF Scans
<1>4. z[k + 1] = Turned(s, d[k + 1], p)
  BY <1>1, <1>3 DEF Scans
<1>5. PICK s2 : s2 = z[k + 1]
  OBVIOUS
<1>6. s.offset \in Nat /\ s.c \in Nat /\ s.line \in Nat
  BY <1>3 DEF Places
<1>7. CASE Behind(d, p, c, z, k, q)
  <2>1. z[k + 1] = z[k]
    BY <1>3, <1>4, <1>7 DEF Behind, Turned
  <2>2. Behind(d, p, c, z, k + 1, q)
    BY <1>1, <1>2, <1>7, <2>1 DEF Behind
  <2> QED BY <1>1, <2>2 DEF Reached
<1>8. CASE Before(d, p, c, z, k, q)
  <2>1. /\ c[k] < p /\ c[q] = c[k] /\ (q = 0 <=> c[k] = 0)
        /\ s.offset = k /\ s.line = c[k] /\ s.c = k - q + (IF q = 0 THEN 0 ELSE 1)
    BY <1>3, <1>8 DEF Before
  <2>2. s.line # p
    BY <1>1, <1>2, <2>1
  <2>3. CASE d[k + 1] # "newline"
    <3>1. s2 = [s EXCEPT !.offset = @ + 1, !.c = @ + 1]
      BY <1>4, <1>5, <2>2, <2>3 DEF Turned
    <3>2. s2.offset = k + 1 /\ s2.c = s.c + 1 /\ s2.line = c[k]
      BY <1>3, <2>1, <3>1 DEF Places
    <3>3. s2.c = (k + 1) - q + (IF q = 0 THEN 0 ELSE 1)
      BY <1>1, <2>1, <3>2
    <3>4. c[k + 1] = c[k]
      BY <1>2, <2>3
    <3>5. c[k + 1] < p /\ c[q] = c[k + 1] /\ (q = 0 <=> c[k + 1] = 0)
      BY <2>1, <3>4
    <3>6. /\ z[k + 1].offset = k + 1 /\ z[k + 1].line = c[k + 1]
          /\ z[k + 1].c = (k + 1) - q + (IF q = 0 THEN 0 ELSE 1)
      BY <1>5, <3>2, <3>3, <3>4
    <3>7. Before(d, p, c, z, k + 1, q)
      BY <3>5, <3>6 DEF Before
    <3> QED BY <1>1, <3>7 DEF Reached
  <2>4. CASE d[k + 1] = "newline" /\ c[k] + 1 = p
    <3>1. s2 = [s EXCEPT !.line = p]
      BY <1>4, <1>5, <2>1, <2>2, <2>4 DEF Turned
    <3>2. s2.offset = k /\ s2.c = s.c /\ s2.line = p
      BY <1>3, <2>1, <3>1 DEF Places
    <3>3. c[q] = p - 1 /\ (q = 0 <=> p = 1)
      BY <1>1, <1>2, <2>1, <2>4
    <3>4. s2.offset - (s2.c - (IF p = 1 THEN 0 ELSE 1)) = q
      BY <1>1, <2>1, <3>2, <3>3
    <3>5. c[k + 1] >= p
      BY <1>1, <1>2, <2>4
    <3>6. Behind(d, p, c, z, k + 1, q)
      BY <1>5, <3>2, <3>3, <3>4, <3>5 DEF Behind
    <3> QED BY <1>1, <3>6 DEF Reached
  <2>5. CASE d[k + 1] = "newline" /\ c[k] + 1 # p
    <3>1. s2 = [offset |-> s.offset + 1, c |-> 1, line |-> s.line + 1]
      BY <1>4, <1>5, <2>1, <2>2, <2>5 DEF Turned
    <3>2. s2.offset = k + 1 /\ s2.c = 1 /\ s2.line = c[k] + 1
      BY <2>1, <3>1
    <3>3. c[k + 1] = c[k] + 1 /\ c[k + 1] < p /\ c[k + 1] # 0
      BY <1>1, <1>2, <2>1, <2>5
    <3>4. s2.c = (k + 1) - (k + 1) + (IF k + 1 = 0 THEN 0 ELSE 1)
      BY <1>1, <3>2
    <3>5. Before(d, p, c, z, k + 1, k + 1)
      BY <1>1, <1>5, <3>2, <3>3, <3>4 DEF Before
    <3>6. k + 1 \in 0 .. k + 1
      BY <1>1
    <3> QED BY <2>5, <3>5, <3>6 DEF Reached
  <2> QED BY <2>3, <2>4, <2>5
<1> QED BY <1>7, <1>8 DEF Reached

\* get_line finds every line of every text, and the place behind its last newline.
LEMMA LineFound ==
  ASSUME NEW d \in Seq(Chars), NEW p \in 1 .. LineCount(d) + 1
  PROVE  StartsLine(d, p, GetLine(d, p))
<1>1. PICK n \in Nat : n = Len(d)
  OBVIOUS
<1>2. PICK c : Counts(d, c) /\ LineCount(d) = c[n]
  BY <1>1, LineCountIs
<1>3. c \in [0 .. n -> Nat] /\ c[0] = 0 /\ n \in 0 .. n /\ c[n] \in Nat
  BY <1>1, <1>2 DEF Counts
<1>4. p \in Nat \ {0} /\ p <= c[n] + 1
  BY <1>2, <1>3
<1>5. PICK z : Scans(d, p, z) /\ Scan(d, p) = z[n]
  BY <1>1, <1>4, ScanIs
<1> DEFINE T == {k \in Nat : \E q : Reached(d, p, c, z, k, q)}
<1>6. 0 \in T
  <2>1. z[0].offset = 0 /\ z[0].c = 0 /\ z[0].line = 0
    BY <1>5 DEF Scans
  <2>2. Before(d, p, c, z, 0, 0)
    BY <1>3, <1>4, <2>1 DEF Before
  <2>3. Reached(d, p, c, z, 0, 0)
    BY <2>2 DEF Reached
  <2> QED BY <2>3
<1>7. ASSUME NEW k \in 0 .. n - 1, k \in T PROVE k + 1 \in T
  <2>1. PICK q : Reached(d, p, c, z, k, q)
    BY <1>7
  <2>2. \E r : Reached(d, p, c, z, k + 1, r)
    BY <1>1, <1>2, <1>4, <1>5, <2>1, ReachedStep
  <2> QED BY <2>2
<1>8. \A k \in 0 .. n : k \in T
  <2> HIDE DEF T
  <2> QED BY <1>6, <1>7, UpTo
<1>9. PICK q : Reached(d, p, c, z, n, q)
  BY <1>3, <1>8
<1>10. q \in 0 .. n /\ (q > 0 => d[q] = "newline")
  BY <1>9 DEF Reached
<1>11. PICK s \in Places : s = z[n]
  BY <1>1, <1>3, <1>5 DEF Scans
<1>12. GetLine(d, p) = q /\ c[q] = p - 1
  <2>1. GetLine(d, p) = s.offset - (s.c - (IF p = 1 THEN 0 ELSE 1))
    BY <1>5, <1>11 DEF GetLine
  <2>2. CASE Behind(d, p, c, z, n, q)
    BY <1>11, <2>1, <2>2 DEF Behind
  <2>3. CASE Before(d, p, c, z, n, q)
    <3>1. c[n] = p - 1
      BY <1>3, <1>4, <2>3 DEF Before
    <3>2. q = 0 <=> p = 1
      BY <1>4, <2>3, <3>1 DEF Before
    <3>3. s.offset = n /\ s.c = n - q + (IF q = 0 THEN 0 ELSE 1) /\ c[q] = p - 1
      BY <1>11, <2>3, <3>1 DEF Before
    <3> QED BY <1>1, <1>10, <2>1, <3>2, <3>3
  <2> QED BY <1>9, <2>2, <2>3 DEF Reached
<1>13. LineCount(SubSeq(d, 1, q)) = c[q]
  BY <1>1, <1>2, <1>10, CountOnce
<1> QED BY <1>1, <1>10, <1>12, <1>13 DEF StartsLine

\* So it does in the text that is mapped.
LEMMA LinesFound == MapTypeOK => LineRight
<1> SUFFICES ASSUME MapTypeOK, NEW m \in Maps, dataSz[m] \in 1 .. Len(Content),
                    NEW p \in 1 .. LineCount(Mapped(m)) + (IF Last(Mapped(m)) = "newline" THEN 0 ELSE 1)
             PROVE  StartsLine(Mapped(m), p, GetLine(Mapped(m), p))
  BY DEF LineRight
<1>1. Content \in Seq(Chars)
  BY DEF MapTypeOK, Content
<1>2. PICK d : d = Mapped(m)
  OBVIOUS
<1>3. PICK u : u = Content
  OBVIOUS
<1>4. PICK b \in Nat : b = dataSz[m]
  BY DEF MapTypeOK
<1>5. u \in Seq(Chars) /\ b \in 1 .. Len(u) /\ \A i \in 1 .. b : u[i] \in Chars
  BY <1>1, <1>3, <1>4
<1>6. d = SubSeq(u, 1, b)
  BY <1>2, <1>3, <1>4 DEF Mapped
<1>7. d \in Seq(Chars)
  BY <1>4, <1>5, <1>6, SubSeqProperties
<1>8. PICK c : Counts(d, c) /\ LineCount(d) = c[Len(d)]
  BY <1>7, LineCountIs
<1>9. LineCount(d) \in Nat
  <2>1. Len(d) \in 0 .. Len(d)
    BY <1>7
  <2> QED BY <1>8, <2>1 DEF Counts
<1>10. PICK r : r = p
  OBVIOUS
<1>11. r \in 1 .. LineCount(d) + 1
  BY <1>2, <1>9, <1>10
<1> QED BY <1>2, <1>7, <1>10, <1>11, LineFound

-----------------------------------------------------------------------------
(* The four together: FileOps.                                             *)

\* Each of the four keeps its invariant, and the others in their state.
FilesInv ==
  /\ task \in Tasks
  /\ TypeOK /\ WholeInv
  /\ MapTypeOK /\ HandInv
  /\ PathInv /\ RemoveInv
  /\ FlagsInv

\* At first all four are in their initial states.
LEMMA FilesInvInit == FilesInit => FilesInv
BY CopyInit, MapInvInit, PathInvInit, RemoveInit, FlagsInvInit DEF FilesInit, FilesInv, PathInv

\* Whichever of the four runs.
LEMMA FilesInvNext == FilesInv /\ [FilesNext]_fileVars => FilesInv'
<1> SUFFICES ASSUME FilesInv, [FilesNext]_fileVars PROVE FilesInv'
  OBVIOUS
<1>1. task' = task /\ [Next]_vars /\ [MapNext]_mapVars /\ [PathsNext]_pathVars /\ [FlagsNext]_flagVars
  BY DEF FilesNext, fileVars
<1>2. (TypeOK /\ WholeInv)'
  BY <1>1, CopyKept DEF FilesInv
<1>3. (MapTypeOK /\ HandInv)'
  BY <1>1, MapKept DEF FilesInv
<1>4. PathInv' /\ RemoveInv'
  BY <1>1, PathKept, RemoveKept DEF FilesInv
<1>5. FlagsInv'
  BY <1>1, FlagsInvNext DEF FilesInv
<1> QED BY <1>1, <1>2, <1>3, <1>4, <1>5 DEF FilesInv

\* So in every behaviour.
LEMMA FilesAlways == FilesSpec => []FilesInv
<1> QED BY FilesInvInit, FilesInvNext, PTL DEF FilesSpec

\* Every variable of file-ops.c's models keeps its type, whichever of the four runs.
THEOREM FilesTypeCorrect == FilesSpec => []FilesTypeOK
<1>1. FilesInv => FilesTypeOK
  BY DEF FilesInv, PathInv, FlagsInv, FilesTypeOK
<1> QED BY FilesAlways, <1>1, PTL

\* udo_file_ops_zero_copy of file-ops.c: as long as the outputs take what they are
\* offered, the copies that go through the pipe of one context do not get into each
\* other's output, nothing is skipped or repeated, and a caller that was told of the
\* end has all the bytes.
THEOREM CopiesAreWhole == /\ Spec => []WholeCopies
                          /\ FilesSpec => []WholeCopies
<1>1. TypeOK /\ WholeInv => WholeCopies
  BY CopyWhole
<1>2. Spec => []WholeCopies
  BY <1>1, CopyInit, CopyKept, PTL DEF Spec
<1>3. FilesInv => WholeCopies
  BY <1>1 DEF FilesInv
<1>4. FilesSpec => []WholeCopies
  BY <1>3, FilesAlways, PTL
<1> QED BY <1>2, <1>4

\* udo_file_ops_create and udo_file_ops_destroy of file-ops.c: while contexts follow
\* each other, each one finds in the file what the one before it left, all of it
\* without a size, and what fits with one.
THEOREM FilesAreHandedOn == /\ MapSpec => []HandedOn
                            /\ FilesSpec => []HandedOn
<1>1. MapSpec => []HandedOn
  BY MapInvInit, MapKept, MapHanded, PTL DEF MapSpec
<1>2. FilesInv => HandedOn
  BY MapHanded DEF FilesInv
<1>3. FilesSpec => []HandedOn
  BY <1>2, FilesAlways, PTL
<1> QED BY <1>1, <1>3

\* udo_file_ops_get_line of file-ops.c: it finds every line of what is mapped, the
\* last one without a newline too, whatever the text is.
THEOREM LinesAreRight == /\ MapSpec => []LineRight
                         /\ FilesSpec => []LineRight
<1>1. MapSpec => []LineRight
  BY MapInvInit, MapKept, LinesFound, PTL DEF MapSpec
<1>2. FilesInv => LineRight
  BY LinesFound DEF FilesInv
<1>3. FilesSpec => []LineRight
  BY <1>2, FilesAlways, PTL
<1> QED BY <1>1, <1>3

\* p_create_directories, p_set_fname_off and the getters of file-ops.c: the
\* directories that a file needs are made, and its name and directory are those of
\* the path, whatever getters were called before.
THEOREM PathsAreRight == /\ PathsSpec => []PathRight
                         /\ FilesSpec => []PathRight
<1>1. PathsInit => PathInv
  BY PathInvInit DEF PathInv
<1>2. PathsSpec => []PathRight
  BY <1>1, PathKept, PathsRight, PTL DEF PathsSpec
<1>3. FilesInv => PathRight
  BY PathsRight DEF FilesInv
<1>4. FilesSpec => []PathRight
  BY <1>3, FilesAlways, PTL
<1> QED BY <1>2, <1>4

\* udo_file_ops_remove_dir of file-ops.c: when it has returned 0 and nothing was
\* created meanwhile, what is left of the directory is, holds or is in something whose
\* name UDO_STRTOU takes for "..", or that a failing stat, opendir, remove or rmdir has
\* left, whatever the tree looked like and whichever of the calls failed.
THEOREM DirectoriesAreRemoved == /\ PathsSpec => []RemovedAll
                                 /\ FilesSpec => []RemovedAll
<1>1. PathsInit => PathInv /\ RemoveInv
  BY PathInvInit, RemoveInit DEF PathInv
<1>2. PathInv /\ RemoveInv /\ [PathsNext]_pathVars => (PathInv /\ RemoveInv)'
  BY PathKept, RemoveKept
<1>3. PathInv /\ RemoveInv => RemovedAll
  BY RemoveDone
<1>4. PathsSpec => []RemovedAll
  BY <1>1, <1>2, <1>3, PTL DEF PathsSpec
<1>5. FilesInv => RemovedAll
  BY RemoveDone DEF FilesInv
<1>6. FilesSpec => []RemovedAll
  BY <1>5, FilesAlways, PTL
<1> QED BY <1>4, <1>6

\* udo_file_ops_set_fd_flags of file-ops.c: until two calls overlap the flags set are
\* those of the open and all that a call has reported as set; an overlap may lose
\* flags, and sets none that nobody asked for.
THEOREM FlagsAreKept == /\ FlagsSpec => []FlagsKept
                        /\ FilesSpec => []FlagsKept
<1>1. FlagsInv => FlagsKept
  BY DEF FlagsInv
<1>2. FlagsSpec => []FlagsKept
  BY FlagsInvInit, FlagsInvNext, <1>1, PTL DEF FlagsSpec
<1>3. FilesInv => FlagsKept
  BY <1>1 DEF FilesInv
<1>4. FilesSpec => []FlagsKept
  BY <1>3, FilesAlways, PTL
<1> QED BY <1>2, <1>4
=============================================================================
