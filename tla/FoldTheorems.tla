---------------------------- MODULE FoldTheorems ---------------------------
(***************************************************************************)
(* What folds compute, for an operator op that is a parameter.  FoldLeft   *)
(* gives the base for the empty sequence, and applies op once more for     *)
(* each element that is appended.  A fold over the values of a function    *)
(* takes one element of the domain after the other, in an order that       *)
(* depends on the set only.  The library defines both by choosing a        *)
(* recursive function on the subsets of a domain; a module that folds with *)
(* an operator of its own instantiates this one with it.                   *)
(***************************************************************************)
EXTENDS Integers, SequencesExt, SequenceTheorems, FiniteSetTheorems,
        WellFoundedInduction, TLAPS

CONSTANT op(_, _)

\* What the folds of the project are rewritten to.
Fold(base, seq) == FoldLeft(op, base, seq)

-----------------------------------------------------------------------------
(* Induction over the naturals for a set: the library's theorem of that    *)
(* name takes an operator, which no prover here can instantiate.           *)

Less == {pair \in Nat \X Nat : pair[1] < pair[2]}

\* A set that holds 0 and each successor holds every natural number.
LEMMA Induction ==
  ASSUME NEW S, 0 \in S, \A n \in Nat : n \in S => n + 1 \in S
  PROVE  Nat \subseteq S
<1> DEFINE T == Nat \ S
<1> SUFFICES ASSUME T # {} PROVE FALSE
  OBVIOUS
<1>1. IsWellFoundedOn(Less, Nat)
  BY NatLessThanWellFounded DEF Less, OpToRel
<1>2. T \subseteq Nat
  OBVIOUS
<1>3. PICK x \in T : \A y \in T : ~ (<<y, x>> \in Less)
  <2> HIDE DEF T
  <2> QED BY <1>1, <1>2, WFMin
<1>4. x # 0 /\ x \in Nat /\ x - 1 \in Nat
  OBVIOUS
<1>5. x - 1 \in S
  <2>1. SUFFICES ASSUME x - 1 \in T PROVE FALSE
    BY <1>4
  <2>2. <<x-1, x>> \in Less
    BY <1>4 DEF Less
  <2> QED BY <2>1, <2>2, <1>3
<1> QED BY <1>4, <1>5

-----------------------------------------------------------------------------
(* The function FoldLeft chooses. *)

\* The recursive equation of MapThenFoldSet, on the first n positions.
Iter(iter, base, seq, n) ==
  iter = [s \in SUBSET (1..n) |->
            IF s = {} THEN base ELSE op(iter[s \ {Max(s)}], seq[Max(s)])]

\* MapThenFoldSet takes the last position first.
LEMMA MaxTop ==
  ASSUME NEW n \in Nat, NEW s \in SUBSET (1..n + 1), n + 1 \in s
  PROVE  Max(s) = n + 1 /\ s \ {n + 1} \in SUBSET (1..n)
<1>1. \A x \in s : x \in Int /\ x <= n + 1
  OBVIOUS
<1>2. ASSUME NEW x \in s, \A y \in s : x >= y PROVE x = n + 1
  BY <1>1, <1>2
<1>3. \A y \in s : n + 1 >= y
  BY <1>1
<1>4. Max(s) = n + 1
  BY <1>2, <1>3 DEF Max
<1>5. s \ {n + 1} \in SUBSET (1..n)
  OBVIOUS
<1> QED BY <1>4, <1>5

\* Some function satisfies the equation, so that CHOOSE picks one that does.
LEMMA IterExists ==
  ASSUME NEW base, NEW seq, NEW n \in Nat
  PROVE  \E iter : Iter(iter, base, seq, n)
<1> DEFINE Good == {k \in Nat : \E iter : Iter(iter, base, seq, k)}
<1>1. 0 \in Good
  <2> DEFINE zero == [s \in SUBSET (1..0) |-> base]
  <2>1. SUBSET (1..0) = {{}}
    OBVIOUS
  <2>2. Iter(zero, base, seq, 0)
    BY <2>1 DEF Iter
  <2> QED BY <2>2
<1>2. ASSUME NEW k \in Nat, k \in Good
      PROVE  k + 1 \in Good
  <2>1. PICK iter : Iter(iter, base, seq, k)
    BY <1>2
  <2> DEFINE more == [s \in SUBSET (1..k + 1) |->
                        IF s \in SUBSET (1..k) THEN iter[s]
                        ELSE op(iter[s \ {k + 1}], seq[k + 1])]
  <2>2. ASSUME NEW s \in SUBSET (1..k + 1)
        PROVE  more[s] = IF s = {} THEN base
                         ELSE op(more[s \ {Max(s)}], seq[Max(s)])
    <3>1. CASE s \in SUBSET (1..k)
      <4>1. more[s] = iter[s] /\ more[s \ {Max(s)}] = iter[s \ {Max(s)}]
        BY <3>1
      <4>2. iter[s] = IF s = {} THEN base ELSE op(iter[s \ {Max(s)}], seq[Max(s)])
        BY <2>1, <3>1 DEF Iter
      <4> HIDE DEF more
      <4> QED BY <4>1, <4>2
    <3>2. CASE s \notin SUBSET (1..k)
      <4>1. k + 1 \in s
        BY <3>2
      <4>2. Max(s) = k + 1 /\ s \ {k + 1} \in SUBSET (1..k)
        BY <4>1, MaxTop
      <4>3. more[s] = op(iter[s \ {k + 1}], seq[k + 1])
        BY <3>2
      <4>4. s \ {k + 1} \in SUBSET (1..k + 1)
        OBVIOUS
      <4>5. more[s \ {k + 1}] = iter[s \ {k + 1}]
        BY <4>2, <4>4
      <4>6. s # {}
        BY <4>1
      <4> HIDE DEF more
      <4> QED BY <4>2, <4>3, <4>5, <4>6
    <3> QED BY <3>1, <3>2
  <2>3. Iter(more, base, seq, k + 1)
    <3>1. more = [s \in SUBSET (1..k + 1) |-> more[s]]
      OBVIOUS
    <3> HIDE DEF more
    <3> QED BY <2>2, <3>1 DEF Iter
  <2> HIDE DEF more
  <2> QED BY <2>3
<1>3. Nat \subseteq Good
  <2>1. \A k \in Nat : k \in Good => k + 1 \in Good
    BY <1>2
  <2> HIDE DEF Good
  <2> QED BY <1>1, <2>1, Induction
<1> QED BY <1>3

\* Its values depend on the positions it is applied to only: appending to the
\* sequence does not change them.
LEMMA IterAgrees ==
  ASSUME NEW base, NEW seq, NEW more, NEW n \in Nat, NEW m \in Nat, n <= m,
         \A i \in 1..n : more[i] = seq[i],
         NEW f, Iter(f, base, seq, n), NEW g, Iter(g, base, more, m)
  PROVE  f[1..n] = g[1..n]
<1> DEFINE Good == {k \in Nat : k <= n =>
                      \A s \in SUBSET (1..k) : f[s] = g[s]}
<1>f. \A s \in SUBSET (1..n) :
        f[s] = IF s = {} THEN base ELSE op(f[s \ {Max(s)}], seq[Max(s)])
  BY DEF Iter
<1>g. \A s \in SUBSET (1..m) :
        g[s] = IF s = {} THEN base ELSE op(g[s \ {Max(s)}], more[Max(s)])
  BY DEF Iter
<1>1. 0 \in Good
  <2>1. \A s \in SUBSET (1..0) : s = {}
    OBVIOUS
  <2> QED BY <2>1, <1>f, <1>g
<1>2. ASSUME NEW k \in Nat, k \in Good, k + 1 <= n, NEW s \in SUBSET (1..k + 1)
      PROVE  f[s] = g[s]
  <2>0. \A t \in SUBSET (1..k) : f[t] = g[t]
    BY <1>2
  <2>1. CASE s \in SUBSET (1..k)
    BY <2>0, <2>1
  <2>2. CASE s \notin SUBSET (1..k)
    <3>1. k + 1 \in s /\ s \in SUBSET (1..n) /\ s \in SUBSET (1..m)
      BY <1>2, <2>2
    <3>2. Max(s) = k + 1 /\ s \ {k + 1} \in SUBSET (1..k)
      BY <3>1, MaxTop
    <3>3. f[s] = op(f[s \ {k + 1}], seq[k + 1])
          /\ g[s] = op(g[s \ {k + 1}], more[k + 1])
      BY <3>1, <3>2, <1>f, <1>g
    <3>4. seq[k + 1] = more[k + 1]
      BY <1>2
    <3> QED BY <2>0, <3>2, <3>3, <3>4
  <2> QED BY <2>1, <2>2
<1>3. Nat \subseteq Good
  <2>1. ASSUME NEW k \in Nat, k \in Good PROVE k + 1 \in Good
    <3>1. k + 1 <= n => \A s \in SUBSET (1..k + 1) : f[s] = g[s]
      BY <1>2, <2>1
    <3> QED BY <3>1
  <2> HIDE DEF Good
  <2> QED BY <1>1, <2>1, Induction
<1>4. n \in Good /\ 1..n \in SUBSET (1..n)
  BY <1>3
<1> QED BY <1>4

\* A fold is the value of such a function at all positions.
LEMMA FoldIsIter ==
  ASSUME NEW base, NEW S, NEW seq \in Seq(S)
  PROVE  \E iter : /\ Iter(iter, base, seq, Len(seq))
                   /\ FoldLeft(op, base, seq) = iter[1..Len(seq)]
<1> DEFINE it == CHOOSE iter : Iter(iter, base, seq, Len(seq))
<1>1. Iter(it, base, seq, Len(seq))
  BY IterExists
<1>2. FoldLeft(op, base, seq) = it[1..Len(seq)]
  <2>1. DOMAIN seq = 1..Len(seq)
    OBVIOUS
  <2> QED BY <2>1 DEF FoldLeft, MapThenFoldSet, Iter
<1> QED BY <1>1, <1>2

-----------------------------------------------------------------------------

\* Folding nothing, as SplitArgs and Parse do for a bare command, gives the base.
LEMMA FoldEmpty ==
  ASSUME NEW base
  PROVE  Fold(base, <<>>) = base
<1>1. PICK iter : /\ Iter(iter, base, <<>>, Len(<<>>))
                  /\ FoldLeft(op, base, <<>>) = iter[1..Len(<<>>)]
  <2>1. <<>> \in Seq({})
    OBVIOUS
  <2> QED BY <2>1, FoldIsIter
<1>2. 1..Len(<<>>) = {} /\ {} \in SUBSET (1..Len(<<>>))
  OBVIOUS
<1> QED BY <1>1, <1>2 DEF Iter, Fold

\* The last element of a sequence, the last token of a command line, is folded
\* in by one application of op.
LEMMA FoldAppend ==
  ASSUME NEW base, NEW S, NEW seq \in Seq(S), NEW e \in S
  PROVE  Fold(base, Append(seq, e)) = op(Fold(base, seq), e)
<1> DEFINE n == Len(seq)
           more == Append(seq, e)
<1>1. /\ more \in Seq(S) /\ n \in Nat /\ Len(more) = n + 1 /\ more[n + 1] = e
      /\ \A i \in 1..n : more[i] = seq[i]
  OBVIOUS
<1>2. PICK f : Iter(f, base, seq, n) /\ FoldLeft(op, base, seq) = f[1..n]
  BY FoldIsIter
<1>3. PICK g : /\ Iter(g, base, more, n + 1)
               /\ FoldLeft(op, base, more) = g[1..n + 1]
  BY <1>1, FoldIsIter
<1> HIDE DEF n, more
<1>4. f[1..n] = g[1..n]
  BY <1>1, <1>2, <1>3, IterAgrees
<1>5. /\ 1..n + 1 \in SUBSET (1..n + 1) /\ n + 1 \in 1..n + 1
      /\ (1..n + 1) \ {n + 1} = 1..n
  BY <1>1
<1>6. Max(1..n + 1) = n + 1
  BY <1>1, <1>5, MaxTop
<1>7. g[1..n + 1] = op(g[1..n], more[n + 1])
  <2>1. 1..n + 1 # {}
    BY <1>5
  <2> QED BY <1>3, <1>5, <1>6, <2>1 DEF Iter
<1> QED BY <1>1, <1>2, <1>3, <1>4, <1>7 DEF more, Fold

-----------------------------------------------------------------------------
(* Folds over the values of a function, as sums are. *)

\* What the folds over functions are rewritten to.
FunFold(base, fun, S) == FoldFunctionOnSet(op, base, fun, S)

\* The element that is folded in last.
Pick(s) == CHOOSE x \in s : TRUE

\* The recursive equation of MapThenFoldSet, for the subsets of S with at most n
\* elements.
SetIter(iter, base, fun, S, n) ==
  \A s \in SUBSET S : Cardinality(s) <= n =>
    iter[s] = IF s = {} THEN base ELSE op(fun[Pick(s)], iter[s \ {Pick(s)}])

\* Taking an element away.
LEMMA PickOne ==
  ASSUME NEW s, IsFiniteSet(s), s # {}
  PROVE  /\ Pick(s) \in s /\ IsFiniteSet(s \ {Pick(s)})
         /\ Cardinality(s) \in Nat
         /\ Cardinality(s \ {Pick(s)}) \in Nat
         /\ Cardinality(s \ {Pick(s)}) = Cardinality(s) - 1
<1>1. Pick(s) \in s
  BY DEF Pick
<1> QED BY <1>1, FS_RemoveElement, FS_CardinalityType

\* Hence what holds of the empty set, and of a set whenever it holds of the set
\* without its picked element, holds of every subset of a finite set.
LEMMA PickInduction ==
  ASSUME NEW S, IsFiniteSet(S), NEW Good, {} \in Good,
         \A s \in SUBSET S : s # {} /\ s \ {Pick(s)} \in Good => s \in Good
  PROVE  SUBSET S \subseteq Good
<1> DEFINE Done == {k \in Nat : \A s \in SUBSET S :
                      Cardinality(s) = k => s \in Good}
<1>0. \A s \in SUBSET S : IsFiniteSet(s) /\ Cardinality(s) \in Nat
  BY FS_Subset, FS_CardinalityType
<1>1. 0 \in Done
  <2>1. ASSUME NEW s \in SUBSET S, Cardinality(s) = 0 PROVE s = {}
    BY <1>0, <2>1, FS_EmptySet
  <2> QED BY <2>1
<1>2. ASSUME NEW k \in Nat, k \in Done
      PROVE  k + 1 \in Done
  <2>1. ASSUME NEW s \in SUBSET S, Cardinality(s) = k + 1
        PROVE  s \in Good
    <3> DEFINE rest == s \ {Pick(s)}
    <3>1. s # {}
      BY <2>1, FS_EmptySet
    <3>2. rest \in SUBSET S /\ Cardinality(rest) = k
      BY <1>0, <2>1, <3>1, PickOne
    <3>3. rest \in Good
      BY <1>2, <3>2
    <3> QED BY <3>1, <3>3
  <2> QED BY <2>1
<1>3. Nat \subseteq Done
  <2>1. \A k \in Nat : k \in Done => k + 1 \in Done
    BY <1>2
  <2> HIDE DEF Done
  <2> QED BY <1>1, <2>1, Induction
<1> QED BY <1>0, <1>3

\* Some function satisfies the equation.
LEMMA SetIterExists ==
  ASSUME NEW base, NEW fun, NEW S, IsFiniteSet(S), NEW n \in Nat
  PROVE  \E iter : SetIter(iter, base, fun, S, n)
<1> DEFINE Good == {k \in Nat : \E iter : SetIter(iter, base, fun, S, k)}
<1>0. \A s \in SUBSET S : IsFiniteSet(s) /\ Cardinality(s) \in Nat
  BY FS_Subset, FS_CardinalityType
<1>1. 0 \in Good
  <2> DEFINE zero == [s \in SUBSET S |-> base]
  <2>1. ASSUME NEW s \in SUBSET S, Cardinality(s) <= 0 PROVE s = {}
    BY <1>0, <2>1, FS_EmptySet
  <2>2. SetIter(zero, base, fun, S, 0)
    BY <2>1 DEF SetIter
  <2> HIDE DEF zero
  <2> QED BY <2>2
<1>2. ASSUME NEW k \in Nat, k \in Good
      PROVE  k + 1 \in Good
  <2>1. PICK it : SetIter(it, base, fun, S, k)
    BY <1>2
  <2> DEFINE more == [s \in SUBSET S |->
                        IF Cardinality(s) <= k THEN it[s]
                        ELSE op(fun[Pick(s)], it[s \ {Pick(s)}])]
  <2>2. ASSUME NEW s \in SUBSET S, Cardinality(s) <= k + 1
        PROVE  more[s] = IF s = {} THEN base
                         ELSE op(fun[Pick(s)], more[s \ {Pick(s)}])
    <3>1. CASE s = {}
      <4>1. Cardinality(s) = 0
        BY <3>1, FS_EmptySet
      <4>2. it[s] = base /\ Cardinality(s) <= k
        <5>1. 0 <= k
          OBVIOUS
        <5> QED BY <2>1, <3>1, <4>1, <5>1 DEF SetIter
      <4> QED BY <3>1, <4>2
    <3>2. CASE s # {}
      <4> DEFINE rest == s \ {Pick(s)}
      <4>1. rest \in SUBSET S /\ Cardinality(rest) <= k
        BY <1>0, <2>2, <3>2, PickOne
      <4>2. more[rest] = it[rest]
        BY <4>1
      <4>3. CASE Cardinality(s) <= k
        <5>1. it[s] = op(fun[Pick(s)], it[rest])
          BY <2>1, <3>2, <4>1, <4>3 DEF SetIter
        <5>2. more[s] = it[s]
          BY <4>3
        <5> QED BY <3>2, <4>2, <5>1, <5>2
      <4>4. CASE ~ (Cardinality(s) <= k)
        <5>1. more[s] = op(fun[Pick(s)], it[rest])
          BY <4>4
        <5> QED BY <3>2, <4>2, <5>1
      <4> QED BY <4>3, <4>4
    <3> QED BY <3>1, <3>2
  <2> HIDE DEF more
  <2>3. SetIter(more, base, fun, S, k + 1)
    BY <2>2 DEF SetIter
  <2> QED BY <2>3
<1>3. Nat \subseteq Good
  <2>1. \A k \in Nat : k \in Good => k + 1 \in Good
    BY <1>2
  <2> HIDE DEF Good
  <2> QED BY <1>1, <2>1, Induction
<1> QED BY <1>3

\* Its values on the subsets of a smaller set are those of the function for that
\* set.
LEMMA SetIterAgrees ==
  ASSUME NEW base, NEW fun, NEW S, IsFiniteSet(S), NEW T \in SUBSET S,
         NEW f, NEW g, SetIter(f, base, fun, S, Cardinality(S)),
         SetIter(g, base, fun, T, Cardinality(T))
  PROVE  f[T] = g[T]
<1> DEFINE Good == {s \in SUBSET T : f[s] = g[s]}
<1>1. IsFiniteSet(T) /\ \A s \in SUBSET T : /\ Cardinality(s) <= Cardinality(T)
                                           /\ Cardinality(s) <= Cardinality(S)
  BY FS_Subset
<1>2. \A s \in SUBSET T :
        /\ f[s] = IF s = {} THEN base ELSE op(fun[Pick(s)], f[s \ {Pick(s)}])
        /\ g[s] = IF s = {} THEN base ELSE op(fun[Pick(s)], g[s \ {Pick(s)}])
  BY <1>1 DEF SetIter
<1>3. {} \in Good
  BY <1>2
<1>4. \A s \in SUBSET T : s # {} /\ s \ {Pick(s)} \in Good => s \in Good
  BY <1>2
<1>5. SUBSET T \subseteq Good
  <2> HIDE DEF Good
  <2> QED BY <1>1, <1>3, <1>4, PickInduction
<1> QED BY <1>5

\* A fold is the value of such a function at the whole domain.
LEMMA FunFoldIsIter ==
  ASSUME NEW base, NEW fun, NEW S, IsFiniteSet(S)
  PROVE  \E iter : /\ SetIter(iter, base, fun, S, Cardinality(S))
                   /\ FunFold(base, fun, S) = iter[S]
<1> DEFINE it == CHOOSE iter : iter = [s \in SUBSET S |->
             IF s = {} THEN base ELSE op(fun[Pick(s)], iter[s \ {Pick(s)}])]
<1>1. \A s \in SUBSET S : IsFiniteSet(s) /\ Cardinality(s) <= Cardinality(S)
      /\ s \ {Pick(s)} \in SUBSET S
  BY FS_Subset
<1>2. Cardinality(S) \in Nat
  BY FS_CardinalityType
<1>3. \E iter : iter = [s \in SUBSET S |->
             IF s = {} THEN base ELSE op(fun[Pick(s)], iter[s \ {Pick(s)}])]
  <2>1. PICK f : SetIter(f, base, fun, S, Cardinality(S))
    BY <1>2, SetIterExists
  <2> DEFINE g == [s \in SUBSET S |-> f[s]]
  <2>2. \A s \in SUBSET S : g[s] = IF s = {} THEN base
                                   ELSE op(fun[Pick(s)], g[s \ {Pick(s)}])
    BY <1>1, <2>1 DEF SetIter
  <2>3. g = [s \in SUBSET S |-> g[s]]
    OBVIOUS
  <2> HIDE DEF g
  <2>4. g = [s \in SUBSET S |-> IF s = {} THEN base
                               ELSE op(fun[Pick(s)], g[s \ {Pick(s)}])]
    BY <2>2, <2>3
  <2> QED BY <2>4
<1>4. it = [s \in SUBSET S |->
             IF s = {} THEN base ELSE op(fun[Pick(s)], it[s \ {Pick(s)}])]
  BY <1>3
<1>5. FunFold(base, fun, S) = it[S]
  BY DEF FunFold, FoldFunctionOnSet, MapThenFoldSet, Pick
<1> HIDE DEF it
<1>6. SetIter(it, base, fun, S, Cardinality(S))
  BY <1>4 DEF SetIter
<1> QED BY <1>5, <1>6

\* The sum of no counters is the base.
LEMMA FunFoldEmpty ==
  ASSUME NEW base, NEW fun
  PROVE  FunFold(base, fun, {}) = base
<1>1. PICK iter : /\ SetIter(iter, base, fun, {}, Cardinality({}))
                  /\ FunFold(base, fun, {}) = iter[{}]
  BY FS_EmptySet, FunFoldIsIter
<1>2. Cardinality({}) <= Cardinality({}) /\ {} \in SUBSET {}
  BY FS_EmptySet
<1> QED BY <1>1, <1>2 DEF SetIter

\* Folding a set takes one element after the other, in an order that depends on
\* the set only.
LEMMA FunFoldStep ==
  ASSUME NEW base, NEW fun, NEW S, IsFiniteSet(S), S # {}
  PROVE  FunFold(base, fun, S)
           = op(fun[Pick(S)], FunFold(base, fun, S \ {Pick(S)}))
<1> DEFINE rest == S \ {Pick(S)}
<1>1. IsFiniteSet(rest) /\ rest \in SUBSET S /\ Cardinality(S) \in Nat
  BY PickOne
<1>2. PICK f : /\ SetIter(f, base, fun, S, Cardinality(S))
               /\ FunFold(base, fun, S) = f[S]
  BY FunFoldIsIter
<1>3. PICK g : /\ SetIter(g, base, fun, rest, Cardinality(rest))
               /\ FunFold(base, fun, rest) = g[rest]
  BY <1>1, FunFoldIsIter
<1>4. f[rest] = g[rest]
  <2> HIDE DEF rest
  <2> QED BY <1>1, <1>2, <1>3, SetIterAgrees
<1>5. f[S] = op(fun[Pick(S)], f[rest])
  BY <1>1, <1>2 DEF SetIter
<1> QED BY <1>2, <1>3, <1>4, <1>5

=============================================================================
