------------------------------ MODULE FoldLemmas ------------------------------
(***************************************************************************)
(* Induction, and the folds of the community modules.                      *)
(*                                                                         *)
(* An induction here is over a set P: of the numbers, or of the subsets of *)
(* a finite set, for which the claim holds.  So stated its lemma has no    *)
(* operator as a parameter, and is used by naming the set.                 *)
(***************************************************************************)
EXTENDS SequencesExt, FiniteSetTheorems, TLAPS

(***************************************************************************)
(* Induction.                                                              *)
(***************************************************************************)
LEMMA StrongSubsetInduction ==
  ASSUME NEW S, IsFiniteSet(S), NEW P,
         \A T \in SUBSET S : (\A U \in SUBSET T : U # T => U \in P) => T \in P
  PROVE  \A T \in SUBSET S : T \in P
<1>. DEFINE R == StrictSubsetOrdering(S)
            Bad == {T \in SUBSET S : T \notin P}
<1>1. IsWellFoundedOn(R, FiniteSubsetsOf(S)) /\ FiniteSubsetsOf(S) = SUBSET S
  BY FS_StrictSubsetOrderingWellFounded, FS_FiniteSubsetsOfFinite
<1>2. SUFFICES ASSUME Bad # {} PROVE FALSE
  OBVIOUS
<1>3. Bad \subseteq FiniteSubsetsOf(S)
  BY <1>1
<1>4. PICK T \in Bad : \A U \in Bad : <<U, T>> \notin R
  <2>. HIDE DEF R, Bad
  <2>. QED
    BY <1>1, <1>2, <1>3, WFMin
<1>5. ASSUME NEW U \in SUBSET T, U # T PROVE U \in P
  BY <1>4, <1>5 DEF StrictSubsetOrdering
<1>. QED
  BY <1>4, <1>5

LEMMA SubsetInduction ==
  ASSUME NEW S, IsFiniteSet(S), NEW P,
         {} \in P,
         \A T \in SUBSET S : \A x \in S \ T : T \in P => T \cup {x} \in P
  PROVE  S \in P
<1>1. ASSUME NEW T \in SUBSET S, \A U \in SUBSET T : U # T => U \in P PROVE T \in P
  <2>1. CASE T = {}
    BY <2>1
  <2>2. CASE T # {}
    <3>1. PICK x \in T : TRUE
      BY <2>2
    <3>2. T \ {x} \in SUBSET S /\ x \in S \ (T \ {x}) /\ (T \ {x}) \cup {x} = T
      BY <3>1
    <3>3. T \ {x} \in P
      BY <3>1, <1>1
    <3>. QED
      BY <3>2, <3>3
  <2>. QED
    BY <2>1, <2>2
<1>. QED
  BY <1>1, StrongSubsetInduction

LEMMA NatSetInduction ==
  ASSUME NEW P, 0 \in P, \A n \in Nat : n \in P => n + 1 \in P
  PROVE  \A n \in Nat : n \in P
<1>1. SUFFICES ASSUME NEW n \in Nat, n \notin P PROVE FALSE
  OBVIOUS
<1>. DEFINE Q == {T \in SUBSET (0..n) : \A i \in 0..n : T = 0..i => i \in P}
<1>2. IsFiniteSet(0..n)
  BY FS_Interval
<1>3. ASSUME NEW T \in SUBSET (0..n), \A U \in SUBSET T : U # T => U \in Q PROVE T \in Q
  <2>1. SUFFICES ASSUME NEW i \in 0..n, T = 0..i PROVE i \in P
    OBVIOUS
  <2>2. CASE i = 0
    BY <2>2
  <2>3. CASE i # 0
    <3>1. i - 1 \in 0..n /\ i - 1 \in Nat /\ 0..(i - 1) \subseteq T /\ i \in T /\ i \notin 0..(i - 1)
      BY <2>1, <2>3
    <3>2. 0..(i - 1) \in Q
      BY <1>3, <3>1
    <3>3. i - 1 \in P
      BY <3>1, <3>2
    <3>. QED
      BY <3>1, <3>3
  <2>. QED
    BY <2>2, <2>3
<1>4. \A T \in SUBSET (0..n) : T \in Q
  <2>. DEFINE S == 0..n
  <2>1. IsFiniteSet(S)
        /\ \A T \in SUBSET S : (\A U \in SUBSET T : U # T => U \in Q) => T \in Q
    <3>. HIDE DEF Q
    <3>. QED
      BY <1>2, <1>3
  <2>. HIDE DEF Q, S
  <2>2. \A T \in SUBSET S : T \in Q
    BY <2>1, StrongSubsetInduction
  <2>. QED
    BY <2>2 DEF S
<1>5. 0..n \in Q
  BY <1>4
<1>. QED
  BY <1>1, <1>5
(***************************************************************************)
(* Recursion over the subsets of a finite set.  g is the fold that takes   *)
(* the elements of a set in the order of c, and adds each by step.         *)
(***************************************************************************)
IsFold(g, S, c, step, base) ==
  g = [T \in SUBSET S |-> IF T = {} THEN base ELSE step[<<c[T], g[T \ {c[T]}]>>]]

Picks(c, S) == \A T \in SUBSET S : T # {} => c[T] \in T

\* Two folds agree where both are defined.
LEMMA FoldsAgree ==
  ASSUME NEW S, IsFiniteSet(S), NEW c, Picks(c, S), NEW step, NEW base,
         NEW A \in SUBSET S, NEW B \in SUBSET A, NEW g, NEW h,
         IsFold(g, A, c, step, base), IsFold(h, B, c, step, base)
  PROVE  g[B] = h[B]
<1>. DEFINE P == {T \in SUBSET B : g[T] = h[T]}
<1>1. IsFiniteSet(B)
  BY FS_Subset
<1>2. ASSUME NEW T \in SUBSET B, \A U \in SUBSET T : U # T => U \in P PROVE T \in P
  <2>1. T \in SUBSET A /\ T \in SUBSET S
    OBVIOUS
  <2>2. CASE T = {}
    BY <2>1, <2>2 DEF IsFold
  <2>3. CASE T # {}
    <3>1. c[T] \in T
      BY <2>1, <2>3 DEF Picks
    <3>2. T \ {c[T]} \in P
      BY <3>1, <1>2
    <3>3. g[T \ {c[T]}] = h[T \ {c[T]}]
      BY <3>2
    <3>4. g[T] = step[<<c[T], g[T \ {c[T]}]>>] /\ h[T] = step[<<c[T], h[T \ {c[T]}]>>]
      BY <2>1, <2>3 DEF IsFold
    <3>. QED
      BY <3>3, <3>4
  <2>. QED
    BY <2>2, <2>3
<1>. HIDE DEF P
<1>3. \A T \in SUBSET B : T \in P
  BY <1>1, <1>2, StrongSubsetInduction
<1>. QED
  BY <1>3 DEF P

\* A recursive definition over the subsets of a finite set defines a function.
LEMMA FoldExists ==
  ASSUME NEW S, IsFiniteSet(S), NEW c, Picks(c, S), NEW V, NEW base \in V,
         NEW step \in [S \X V -> V]
  PROVE  \E g \in [SUBSET S -> V] : IsFold(g, S, c, step, base)
<1>. DEFINE fold(g, A) == g \in [SUBSET A -> V] /\ IsFold(g, A, c, step, base)
            P == {A \in SUBSET S : \E g : fold(g, A)}
<1>1. ASSUME NEW A \in SUBSET S, \A U \in SUBSET A : U # A => U \in P PROVE A \in P
  <2>. DEFINE of(T) == CHOOSE g : fold(g, T)
              value(T) == of(T)[T]
              g == [T \in SUBSET A |-> IF T = {} THEN base ELSE step[<<c[T], value(T \ {c[T]})>>]]
  <2>1. ASSUME NEW T \in SUBSET A, T # A PROVE fold(of(T), T)
    <3>1. T \in P
      BY <1>1, <2>1
    <3>. QED
      BY <3>1
  <2>2. ASSUME NEW T \in SUBSET A, T # A PROVE value(T) \in V /\ value(T) = g[T]
    <3>1. fold(of(T), T)
      BY <2>1, <2>2
    <3>2. value(T) \in V
      BY <3>1
    <3>3. CASE T = {}
      BY <3>1, <3>3 DEF IsFold
    <3>4. CASE T # {}
      <4>1. c[T] \in T /\ T \ {c[T]} \in SUBSET A /\ T \ {c[T]} # A /\ T \ {c[T]} \in SUBSET T
        BY <3>4, <2>2 DEF Picks
      <4>2. fold(of(T \ {c[T]}), T \ {c[T]})
        BY <4>1, <2>1
      <4>. DEFINE U == T \ {c[T]}
                  a == of(T)
                  b == of(U)
      <4>3. IsFold(a, T, c, step, base) /\ IsFold(b, U, c, step, base)
        BY <3>1, <4>2
      <4>4. value(T) = a[T] /\ value(U) = b[U]
        OBVIOUS
      <4>5. T \in SUBSET S /\ U \in SUBSET T
        OBVIOUS
      <4>. HIDE DEF a, b, value
      <4>6. a[T] = step[<<c[T], a[U]>>]
        BY <3>4, <4>3 DEF IsFold
      <4>. HIDE DEF U
      <4>7. a[U] = b[U]
        BY <4>3, <4>5, FoldsAgree
      <4>8. g[T] = step[<<c[T], value(U)>>]
        BY <3>4 DEF U
      <4>. QED
        BY <3>2, <4>4, <4>6, <4>7, <4>8
    <3>. QED
      BY <3>2, <3>3, <3>4
  <2>. HIDE DEF value
  <2>3. ASSUME NEW T \in SUBSET A, T # {}
        PROVE  /\ g[T] = step[<<c[T], g[T \ {c[T]}]>>]
               /\ g[T] \in V
    <3>1. c[T] \in T /\ c[T] \in S /\ T \ {c[T]} \in SUBSET A /\ T \ {c[T]} # A
      BY <2>3 DEF Picks
    <3>2. value(T \ {c[T]}) \in V /\ value(T \ {c[T]}) = g[T \ {c[T]}]
      BY <3>1, <2>2
    <3>3. g[T] = step[<<c[T], value(T \ {c[T]})>>]
      BY <2>3
    <3>. QED
      BY <3>1, <3>2, <3>3
  <2>4. g[{}] = base
    OBVIOUS
  <2>5. g \in [SUBSET A -> V]
    <3>1. \A T \in SUBSET A : g[T] \in V
      BY <2>3, <2>4
    <3>2. DOMAIN g = SUBSET A /\ g = [T \in SUBSET A |-> g[T]]
      OBVIOUS
    <3>. HIDE DEF g
    <3>. QED
      BY <3>1, <3>2
  <2>6. IsFold(g, A, c, step, base)
    <3>1. g = [T \in SUBSET A |-> g[T]]
      OBVIOUS
    <3>. HIDE DEF g
    <3>2. \A T \in SUBSET A :
            g[T] = IF T = {} THEN base ELSE step[<<c[T], g[T \ {c[T]}]>>]
      BY <2>3, <2>4
    <3>. QED
      BY <3>1, <3>2 DEF IsFold
  <2>. QED
    BY <2>5, <2>6
<1>2. S \in P
  <2>. HIDE DEF P
  <2>. QED
    BY <1>1, StrongSubsetInduction
<1>. QED
  BY <1>2
(***************************************************************************)
(* Sums (SumFunctionOnSet, module Functions).                              *)
(***************************************************************************)
Pick(T) == CHOOSE x \in T : TRUE

IsSum(g, f, S) ==
  g = [T \in SUBSET S |-> IF T = {} THEN 0 ELSE f[Pick(T)] + g[T \ {Pick(T)}]]

LEMMA SumDef ==
  ASSUME NEW f, NEW S
  PROVE  SumFunctionOnSet(f, S) = (CHOOSE g : IsSum(g, f, S))[S]
BY DEF SumFunctionOnSet, FoldFunctionOnSet, MapThenFoldSet, IsSum, Pick

\* The order and the step of the sum of f over subsets of S.
IsSumStep(c, step, f, S) ==
  /\ Picks(c, S)
  /\ step \in [S \X Int -> Int]
  /\ \A T \in SUBSET S : T # {} => c[T] = Pick(T)
  /\ \A x \in S, n \in Int : step[<<x, n>>] = f[x] + n

LEMMA SumStepExists ==
  ASSUME NEW S, NEW f, \A x \in S : f[x] \in Int
  PROVE  \E c, step : IsSumStep(c, step, f, S)
<1>. DEFINE c == [T \in SUBSET S |-> Pick(T)]
            step == [p \in S \X Int |-> f[p[1]] + p[2]]
<1>1. IsSumStep(c, step, f, S)
  BY DEF IsSumStep, Picks, Pick
<1>. HIDE DEF c, step
<1>. QED
  BY <1>1

LEMMA SumUnfolds ==
  ASSUME NEW S, IsFiniteSet(S), NEW f, \A x \in S : f[x] \in Int, NEW A \in SUBSET S
  PROVE  /\ SumFunctionOnSet(f, A) \in Int
         /\ SumFunctionOnSet(f, {}) = 0
         /\ A # {} => SumFunctionOnSet(f, A)
                        = f[Pick(A)] + SumFunctionOnSet(f, A \ {Pick(A)})
<1>0. PICK c, step : IsSumStep(c, step, f, S)
  BY SumStepExists
<1>1. /\ Picks(c, S) /\ step \in [S \X Int -> Int]
      /\ \A T \in SUBSET S : T # {} => c[T] = Pick(T)
      /\ \A x \in S, n \in Int : step[<<x, n>>] = f[x] + n
  BY <1>0 DEF IsSumStep
\* The folds with values in Int are the functions defined by the sum.
<1>2. ASSUME NEW B \in SUBSET S, NEW g \in [SUBSET B -> Int]
      PROVE  IsFold(g, B, c, step, 0) <=> IsSum(g, f, B)
  <2>1. \A T \in SUBSET B : T # {} =>
          /\ c[T] = Pick(T) /\ T \ {c[T]} \in SUBSET B
          /\ step[<<c[T], g[T \ {c[T]}]>>] = f[Pick(T)] + g[T \ {Pick(T)}]
    <3>. SUFFICES ASSUME NEW T \in SUBSET B, T # {}
                  PROVE  /\ c[T] = Pick(T) /\ T \ {c[T]} \in SUBSET B
                         /\ step[<<c[T], g[T \ {c[T]}]>>] = f[Pick(T)] + g[T \ {Pick(T)}]
      OBVIOUS
    <3>1. T \in SUBSET S /\ c[T] = Pick(T) /\ T \ {c[T]} \in SUBSET B
      BY <1>1
    <3>2. c[T] \in S /\ g[T \ {c[T]}] \in Int
      BY <1>1, <3>1 DEF Picks
    <3>. QED
      BY <1>1, <3>1, <3>2
  <2>2. [T \in SUBSET B |-> IF T = {} THEN 0 ELSE step[<<c[T], g[T \ {c[T]}]>>]]
          = [T \in SUBSET B |-> IF T = {} THEN 0 ELSE f[Pick(T)] + g[T \ {Pick(T)}]]
    BY <2>1
  <2>. QED
    BY <2>2 DEF IsFold, IsSum
<1>3. ASSUME NEW B \in SUBSET S, NEW g, IsSum(g, f, B) PROVE g \in [SUBSET B -> Int]
  <2>. DEFINE P == {T \in SUBSET B : g[T] \in Int}
  <2>1. ASSUME NEW T \in SUBSET B, \A U \in SUBSET T : U # T => U \in P PROVE T \in P
    <3>1. CASE T = {}
      BY <1>3, <3>1 DEF IsSum
    <3>2. CASE T # {}
      <4>1. Pick(T) \in T /\ f[Pick(T)] \in Int
        BY <3>2 DEF Pick
      <4>2. g[T \ {Pick(T)}] \in Int
        BY <2>1, <4>1
      <4>3. g[T] = f[Pick(T)] + g[T \ {Pick(T)}]
        BY <1>3, <3>2 DEF IsSum
      <4>. QED
        BY <4>1, <4>2, <4>3
    <3>. QED
      BY <3>1, <3>2
  <2>2. \A T \in SUBSET B : T \in P
    <3>. HIDE DEF P
    <3>1. IsFiniteSet(B)
      BY FS_Subset
    <3>. QED
      BY <2>1, <3>1, StrongSubsetInduction
  <2>. QED
    BY <1>3, <2>2 DEF IsSum
<1>. DEFINE of(B) == CHOOSE g : IsSum(g, f, B)
<1>4. ASSUME NEW B \in SUBSET S
      PROVE  /\ IsSum(of(B), f, B) /\ IsFold(of(B), B, c, step, 0) /\ of(B) \in [SUBSET B -> Int]
             /\ SumFunctionOnSet(f, B) = of(B)[B] /\ of(B)[B] \in Int
  <2>1. PICK g \in [SUBSET S -> Int] : IsFold(g, S, c, step, 0)
    <3>. HIDE DEF of
    <3>1. 0 \in Int
      OBVIOUS
    <3>. QED
      BY <1>1, <3>1, FoldExists
  <2>2. IsSum(g, f, S)
    BY <1>2, <2>1
  <2>. DEFINE h == [T \in SUBSET B |-> g[T]]
  <2>3. IsSum(h, f, B)
    BY <2>2 DEF IsSum
  <2>4. IsSum(of(B), f, B)
    BY <2>3
  <2>5. SumFunctionOnSet(f, B) = of(B)[B]
    BY SumDef
  <2>. HIDE DEF of
  <2>6. of(B) \in [SUBSET B -> Int]
    BY <1>3, <2>4
  <2>7. IsFold(of(B), B, c, step, 0)
    BY <1>2, <2>4, <2>6
  <2>8. of(B)[B] \in Int
    BY <2>6
  <2>. QED
    BY <2>4, <2>5, <2>6, <2>7, <2>8
<1>. HIDE DEF of
<1>5. SumFunctionOnSet(f, A) \in Int
  BY <1>4
<1>6. SumFunctionOnSet(f, {}) = 0
  <2>1. {} \in SUBSET S
    OBVIOUS
  <2>. QED
    BY <1>4, <2>1 DEF IsSum
<1>7. ASSUME A # {}
      PROVE  SumFunctionOnSet(f, A) = f[Pick(A)] + SumFunctionOnSet(f, A \ {Pick(A)})
  <2>. DEFINE B == A \ {Pick(A)}
  <2>1. B \in SUBSET A /\ B \in SUBSET S
    OBVIOUS
  <2>2. of(A)[A] = f[Pick(A)] + of(A)[B]
    BY <1>4, <1>7 DEF IsSum
  <2>3. of(A)[B] = of(B)[B]
    <3>1. IsFold(of(A), A, c, step, 0) /\ IsFold(of(B), B, c, step, 0)
      BY <1>4, <2>1
    <3>. HIDE DEF B
    <3>. QED
      BY <1>1, <2>1, <3>1, FoldsAgree
  <2>. QED
    BY <1>4, <2>1, <2>2, <2>3
<1>. QED
  BY <1>5, <1>6, <1>7
LEMMA SumOfNone == ASSUME NEW f PROVE SumFunctionOnSet(f, {}) = 0
<1>1. IsFiniteSet({}) /\ {} \in SUBSET {} /\ \A x \in {} : f[x] \in Int
  BY FS_EmptySet
<1>. QED
  BY <1>1, SumUnfolds

\* A sum can be taken apart at any element.
LEMMA SumSplits ==
  ASSUME NEW S, IsFiniteSet(S), NEW f, \A x \in S : f[x] \in Int, NEW e \in S
  PROVE  SumFunctionOnSet(f, S) = f[e] + SumFunctionOnSet(f, S \ {e})
<1>. DEFINE sum(T) == SumFunctionOnSet(f, T)
            P == {T \in SUBSET S : \A x \in T : sum(T) = f[x] + sum(T \ {x})}
<1>1. ASSUME NEW T \in SUBSET S
      PROVE  sum(T) \in Int /\ (T # {} => sum(T) = f[Pick(T)] + sum(T \ {Pick(T)}))
  BY SumUnfolds
<1>. HIDE DEF sum
<1>2. ASSUME NEW T \in SUBSET S, \A U \in SUBSET T : U # T => U \in P PROVE T \in P
  <2>1. SUFFICES ASSUME NEW x \in T PROVE sum(T) = f[x] + sum(T \ {x})
    OBVIOUS
  <2>. DEFINE p == Pick(T)
  <2>2. p \in T /\ sum(T) = f[p] + sum(T \ {p})
    BY <1>1, <2>1 DEF Pick
  <2>3. CASE x = p
    BY <2>2, <2>3
  <2>4. CASE x # p
    <3>. HIDE DEF p
    <3>1. sum(T \ {p}) = f[x] + sum((T \ {p}) \ {x})
      <4>1. T \ {p} \in P /\ x \in T \ {p}
        BY <1>2, <2>2, <2>4
      <4>. QED
        BY <4>1
    <3>2. sum(T \ {x}) = f[p] + sum((T \ {x}) \ {p})
      <4>1. T \ {x} \in P /\ p \in T \ {x}
        BY <1>2, <2>2, <2>4
      <4>. QED
        BY <4>1
    <3>3. (T \ {p}) \ {x} = (T \ {x}) \ {p}
      OBVIOUS
    <3>4. f[x] \in Int /\ f[p] \in Int /\ sum((T \ {x}) \ {p}) \in Int
      BY <1>1, <2>2
    <3>. QED
      <4>1. PICK r \in Int : r = sum((T \ {x}) \ {p})
        BY <3>4
      <4>2. sum(T \ {p}) = f[x] + r /\ sum(T \ {x}) = f[p] + r
        BY <3>1, <3>2, <3>3, <4>1
      <4>3. sum(T) = f[p] + (f[x] + r) /\ sum(T) = sum(T)
        BY <2>2, <4>2
      <4>4. f[p] + (f[x] + r) = f[x] + (f[p] + r)
        BY <3>4
      <4>. QED
        BY <4>2, <4>3, <4>4
  <2>. QED
    BY <2>3, <2>4
<1>3. S \in P
  <2>. HIDE DEF P
  <2>. QED
    BY <1>2, StrongSubsetInduction
<1>. QED
  BY <1>3 DEF sum

\* The form in which an induction meets it: an element is added.
LEMMA SumGrows ==
  ASSUME NEW S, IsFiniteSet(S), NEW f, \A x \in S : f[x] \in Int,
         NEW T \in SUBSET S, NEW e \in S \ T
  PROVE  SumFunctionOnSet(f, T \cup {e}) = f[e] + SumFunctionOnSet(f, T)
<1>1. IsFiniteSet(T \cup {e}) /\ (T \cup {e}) \ {e} = T /\ e \in T \cup {e}
  BY FS_Subset, FS_AddElement
<1>2. \A x \in T \cup {e} : f[x] \in Int
  OBVIOUS
<1>3. SumFunctionOnSet(f, T \cup {e}) = f[e] + SumFunctionOnSet(f, (T \cup {e}) \ {e})
  BY <1>1, <1>2, SumSplits
<1>. QED
  BY <1>1, <1>3

\* Where f is zero it adds nothing.
LEMMA SumOverSupport ==
  ASSUME NEW S, IsFiniteSet(S), NEW f, \A x \in S : f[x] \in Int,
         NEW T \in SUBSET S, \A x \in S \ T : f[x] = 0
  PROVE  SumFunctionOnSet(f, S) = SumFunctionOnSet(f, T)
<1>. DEFINE sum(U) == SumFunctionOnSet(f, U)
            P == {U \in SUBSET (S \ T) : sum(T \cup U) = sum(T)}
<1>1. {} \in P
  OBVIOUS
<1>2. ASSUME NEW U \in SUBSET (S \ T), NEW x \in (S \ T) \ U, U \in P PROVE U \cup {x} \in P
  <2>1. T \cup U \in SUBSET S /\ x \in S \ (T \cup U) /\ f[x] = 0
        /\ (T \cup U) \cup {x} = T \cup (U \cup {x})
    BY <1>2
  <2>. DEFINE W == T \cup U
  <2>2. sum(W \cup {x}) = f[x] + sum(W)
    <3>. HIDE DEF W
    <3>1. W \in SUBSET S /\ x \in S \ W
      BY <2>1 DEF W
    <3>. QED
      BY <3>1, SumGrows
  <2>3. sum(W) = sum(T) /\ sum(T) \in Int
    BY <1>2, SumUnfolds
  <2>. HIDE DEF sum
  <2>4. sum(W \cup {x}) = sum(T)
    BY <2>1, <2>2, <2>3
  <2>. QED
    BY <2>1, <2>4
<1>3. S \ T \in P
  <2>. HIDE DEF P
  <2>1. IsFiniteSet(S \ T)
    BY FS_Subset
  <2>. QED
    BY <1>1, <1>2, <2>1, SubsetInduction
<1>4. T \cup (S \ T) = S
  OBVIOUS
<1>. QED
  BY <1>3, <1>4

\* Two sums are equal when an injection takes each term to its equal.
LEMMA SumOfImage ==
  ASSUME NEW S, IsFiniteSet(S), NEW f, \A x \in S : f[x] \in Int,
         NEW T, IsFiniteSet(T), NEW g, \A y \in T : g[y] \in Int,
         NEW h \in [S -> T],
         \A x \in S : g[h[x]] = f[x],
         \A x, y \in S : h[x] = h[y] => x = y
  PROVE  SumFunctionOnSet(f, S) = SumFunctionOnSet(g, {h[x] : x \in S})
<1>. DEFINE sum(U) == SumFunctionOnSet(f, U)
            image(U) == {h[x] : x \in U}
            tsum(U) == SumFunctionOnSet(g, U)
            P == {U \in SUBSET S : sum(U) = tsum(image(U))}
<1>1. {} \in P
  <2>1. image({}) = {}
    OBVIOUS
  <2>2. sum({}) = 0 /\ tsum({}) = 0
    BY SumUnfolds
  <2>. QED
    BY <2>1, <2>2
<1>2. ASSUME NEW U \in SUBSET S, NEW x \in S \ U, U \in P PROVE U \cup {x} \in P
  <2>1. image(U) \in SUBSET T /\ h[x] \in T \ image(U)
        /\ image(U \cup {x}) = image(U) \cup {h[x]}
    OBVIOUS
  <2>2. sum(U \cup {x}) = f[x] + sum(U)
    BY SumGrows
  <2>3. tsum(image(U) \cup {h[x]}) = g[h[x]] + tsum(image(U))
    <3>. HIDE DEF image
    <3>. QED
      BY <2>1, SumGrows
  <2>. HIDE DEF sum, tsum, image
  <2>. QED
    BY <1>2, <2>1, <2>2, <2>3
<1>3. S \in P
  <2>. HIDE DEF P
  <2>. QED
    BY <1>1, <1>2, SubsetInduction
<1>. QED
  BY <1>3

\* By h, the terms of f on S other than zero are those of g on T.
Matches(h, f, S, g, T) ==
  /\ IsFiniteSet(S) /\ \A x \in S : f[x] \in Int
  /\ IsFiniteSet(T) /\ \A y \in T : g[y] \in Int
  /\ \A x \in S : f[x] # 0 => h[x] \in T /\ g[h[x]] = f[x]
  /\ \A x, y \in S : f[x] # 0 /\ f[y] # 0 /\ h[x] = h[y] => x = y
  /\ \A y \in T : g[y] # 0 => \E x \in S : f[x] # 0 /\ h[x] = y

\* Two sums are equal when their terms other than zero correspond.
LEMMA SumsMatch ==
  ASSUME NEW S, NEW f, NEW T, NEW g, NEW h, Matches(h, f, S, g, T)
  PROVE  SumFunctionOnSet(f, S) = SumFunctionOnSet(g, T)
<1>. DEFINE A == {x \in S : f[x] # 0}
            k == [x \in A |-> h[x]]
            B == {k[x] : x \in A}
<1>. USE DEF Matches
<1>0. k \in [A -> T] /\ \A x \in A : k[x] = h[x]
  OBVIOUS
<1>1. IsFiniteSet(A)
  BY FS_Subset
<1>2. SumFunctionOnSet(f, S) = SumFunctionOnSet(f, A)
  BY SumOverSupport
<1>3. B \in SUBSET T /\ \A y \in T \ B : g[y] = 0
  <2>1. B \in SUBSET T
    <3>. HIDE DEF A, k
    <3>. QED
      BY <1>0
  <2>2. ASSUME NEW y \in T, g[y] # 0 PROVE y \in B
    <3>1. PICK x \in S : f[x] # 0 /\ h[x] = y
      BY <2>2
    <3>2. x \in A /\ k[x] = y
      BY <3>1
    <3>. HIDE DEF A, k
    <3>. QED
      BY <3>2
  <2>. QED
    BY <2>1, <2>2
<1>4. SumFunctionOnSet(g, T) = SumFunctionOnSet(g, B)
  <2>. HIDE DEF B
  <2>. QED
    BY <1>3, SumOverSupport
<1>5. SumFunctionOnSet(f, A) = SumFunctionOnSet(g, B)
  <2>1. \A x \in A : f[x] \in Int /\ g[k[x]] = f[x]
    OBVIOUS
  <2>2. \A x, y \in A : k[x] = k[y] => x = y
    OBVIOUS
  <2>. HIDE DEF A, k
  <2>. QED
    BY <1>0, <1>1, <2>1, <2>2, SumOfImage
<1>. QED
  BY <1>2, <1>4, <1>5
\* Only the terms matter.
LEMMA SumOfEquals ==
  ASSUME NEW S, IsFiniteSet(S), NEW f, NEW g, \A x \in S : f[x] \in Int /\ f[x] = g[x]
  PROVE  SumFunctionOnSet(f, S) = SumFunctionOnSet(g, S)
<1>. DEFINE h == [x \in S |-> x]
<1>1. h \in [S -> S] /\ \A x \in S : h[x] = x
  OBVIOUS
<1>. HIDE DEF h
<1>2. SumFunctionOnSet(f, S) = SumFunctionOnSet(g, {h[x] : x \in S})
  <2>1. (\A x \in S : f[x] \in Int) /\ (\A y \in S : g[y] \in Int)
        /\ (\A x \in S : g[h[x]] = f[x]) /\ (\A x, y \in S : h[x] = h[y] => x = y)
    BY <1>1
  <2>. QED
    BY <1>1, <2>1, SumOfImage
<1>3. {h[x] : x \in S} = S
  BY <1>1
<1>. QED
  BY <1>2, <1>3

LEMMA SumOfNaturals ==
  ASSUME NEW S, IsFiniteSet(S), NEW f, \A x \in S : f[x] \in Nat
  PROVE  SumFunctionOnSet(f, S) \in Nat
<1>. DEFINE P == {T \in SUBSET S : SumFunctionOnSet(f, T) \in Nat}
<1>0. \A x \in S : f[x] \in Int
  OBVIOUS
<1>1. {} \in P
  BY SumOfNone
<1>2. ASSUME NEW T \in SUBSET S, NEW x \in S \ T, T \in P PROVE T \cup {x} \in P
  <2>1. SumFunctionOnSet(f, T \cup {x}) = f[x] + SumFunctionOnSet(f, T)
    BY <1>0, SumGrows
  <2>2. SumFunctionOnSet(f, T) \in Nat /\ f[x] \in Nat
    BY <1>2
  <2>. QED
    BY <2>1, <2>2
<1>3. S \in P
  <2>. HIDE DEF P
  <2>. QED
    BY <1>1, <1>2, SubsetInduction
<1>. QED
  BY <1>3

\* The sum over two sets that have nothing in common.
LEMMA SumOfUnion ==
  ASSUME NEW S, IsFiniteSet(S), NEW f, \A x \in S : f[x] \in Int,
         NEW A \in SUBSET S, NEW B \in SUBSET S, A \cap B = {}
  PROVE  SumFunctionOnSet(f, A \cup B) = SumFunctionOnSet(f, A) + SumFunctionOnSet(f, B)
<1>. DEFINE sum(U) == SumFunctionOnSet(f, U)
            P == {U \in SUBSET B : sum(A \cup U) = sum(A) + sum(U)}
<1>1. ASSUME NEW U \in SUBSET S PROVE sum(U) \in Int
  BY SumUnfolds
<1>2. {} \in P
  <2>1. sum({}) = 0 /\ sum(A) \in Int
    BY <1>1, SumOfNone
  <2>. HIDE DEF sum
  <2>. QED
    BY <2>1
<1>3. ASSUME NEW U \in SUBSET B, NEW x \in B \ U, U \in P PROVE U \cup {x} \in P
  <2>1. A \cup U \in SUBSET S /\ x \in S \ (A \cup U) /\ x \in S \ U /\ U \in SUBSET S
    OBVIOUS
  <2>2. sum((A \cup U) \cup {x}) = f[x] + sum(A \cup U) /\ sum(U \cup {x}) = f[x] + sum(U)
    BY <2>1, SumGrows
  <2>3. sum(A) \in Int /\ sum(U) \in Int /\ f[x] \in Int
    BY <1>1, <2>1
  <2>4. (A \cup U) \cup {x} = A \cup (U \cup {x})
    OBVIOUS
  <2>5. sum(A \cup U) = sum(A) + sum(U)
    BY <1>3
  <2>. HIDE DEF sum
  <2>8. sum(A \cup (U \cup {x})) = f[x] + sum(A \cup U)
    BY <2>2, <2>4, Zenon
  <2>9. f[x] + (sum(A) + sum(U)) = sum(A) + (f[x] + sum(U))
    BY <2>3
  <2>6. sum(A \cup (U \cup {x})) = sum(A) + sum(U \cup {x})
    BY <2>2, <2>5, <2>8, <2>9, Zenon
  <2>7. U \cup {x} \in SUBSET B
    OBVIOUS
  <2>. QED
    BY <2>6, <2>7
<1>4. IsFiniteSet(B)
  BY FS_Subset
<1>. HIDE DEF P
<1>5. B \in P
  BY <1>2, <1>3, <1>4, SubsetInduction
<1>. QED
  BY <1>5 DEF P

\* One term more by one.
LEMMA SumIncrements ==
  ASSUME NEW S, IsFiniteSet(S), NEW f, NEW g, NEW e, NEW A \in SUBSET S,
         \A x \in S : f[x] \in Int /\ g[x] = IF x = e THEN f[x] + 1 ELSE f[x]
  PROVE  SumFunctionOnSet(g, A)
           = IF e \in A THEN SumFunctionOnSet(f, A) + 1 ELSE SumFunctionOnSet(f, A)
<1>1. IsFiniteSet(A) /\ IsFiniteSet(A \ {e})
  BY FS_Subset
<1>2. /\ \A x \in A : f[x] \in Int /\ g[x] \in Int
      /\ \A x \in A \ {e} : f[x] \in Int /\ f[x] = g[x]
  OBVIOUS
<1>3. SumFunctionOnSet(f, A \ {e}) = SumFunctionOnSet(g, A \ {e})
  BY <1>1, <1>2, SumOfEquals
<1>4. CASE e \in A
  <2>1. SumFunctionOnSet(f, A) = f[e] + SumFunctionOnSet(f, A \ {e})
    BY <1>1, <1>2, <1>4, SumSplits
  <2>2. SumFunctionOnSet(g, A) = g[e] + SumFunctionOnSet(g, A \ {e})
    BY <1>1, <1>2, <1>4, SumSplits
  <2>3. SumFunctionOnSet(f, A \ {e}) \in Int /\ f[e] \in Int /\ g[e] = f[e] + 1
    BY <1>1, <1>2, <1>4, SumUnfolds
  <2>4. SumFunctionOnSet(g, A) = SumFunctionOnSet(f, A) + 1
    BY <1>3, <2>1, <2>2, <2>3
  <2>. QED
    BY <1>4, <2>4
<1>5. CASE e \notin A
  <2>1. A \ {e} = A
    BY <1>5
  <2>. QED
    BY <1>3, <1>5, <2>1
<1>. QED
  BY <1>4, <1>5

(***************************************************************************)
(* Powers of two, by way of the number of subsets (FS_SUBSET).             *)
(***************************************************************************)
LEMMA PowersOfTwo ==
  ASSUME NEW k \in Nat
  PROVE  2 ^ 0 = 1 /\ 2 ^ k \in Nat \ {0} /\ 2 ^ (k + 1) = 2 * 2 ^ k
<1>. DEFINE A == SUBSET (1..k)
            B == {T \in SUBSET (1..(k + 1)) : k + 1 \in T}
            add == [T \in A |-> T \cup {k + 1}]
<1>1. \A n \in Nat : IsFiniteSet(SUBSET (1..n)) /\ Cardinality(SUBSET (1..n)) = 2 ^ n
  <2>. SUFFICES ASSUME NEW n \in Nat
                PROVE IsFiniteSet(SUBSET (1..n)) /\ Cardinality(SUBSET (1..n)) = 2 ^ n
    OBVIOUS
  <2>1. IsFiniteSet(1..n) /\ Cardinality(1..n) = n
    BY FS_Interval
  <2>. QED
    BY <2>1, FS_SUBSET
<1>2. 2 ^ 0 = 1
  <2>1. SUBSET (1..0) = {{}}
    OBVIOUS
  <2>. QED
    BY <1>1, <2>1, FS_Singleton
<1>3. 2 ^ k \in Nat /\ 2 ^ k # 0
  <2>1. IsFiniteSet(A) /\ Cardinality(A) = 2 ^ k /\ A # {}
    BY <1>1
  <2>. HIDE DEF A
  <2>. QED
    BY <2>1, FS_CardinalityType, FS_EmptySet
<1>4. IsFiniteSet(A) /\ Cardinality(A) = 2 ^ k
  BY <1>1
<1>5. IsFiniteSet(B) /\ Cardinality(B) = 2 ^ k
  <2>1. add \in [A -> B]
    <3>1. \A T \in A : T \cup {k + 1} \in B
      <4>1. SUFFICES ASSUME NEW T \in A PROVE T \cup {k + 1} \in B
        OBVIOUS
      <4>2. 1..k \subseteq 1..(k + 1) /\ k + 1 \in 1..(k + 1)
        OBVIOUS
      <4>. QED
        BY <4>2
    <3>. QED
      BY <3>1
  <2>2. \A T, U \in A : add[T] = add[U] => T = U
    <3>1. SUFFICES ASSUME NEW T \in A, NEW U \in A, T \cup {k + 1} = U \cup {k + 1} PROVE T = U
      OBVIOUS
    <3>2. k + 1 \notin 1..k
      OBVIOUS
    <3>. QED
      BY <3>1, <3>2
  <2>3. \A U \in B : \E T \in A : add[T] = U
    <3>1. SUFFICES ASSUME NEW U \in B PROVE \E T \in A : T \cup {k + 1} = U
      OBVIOUS
    <3>2. \A i \in 1..(k + 1) : i # k + 1 => i \in 1..k
      OBVIOUS
    <3>3. U \ {k + 1} \in A /\ (U \ {k + 1}) \cup {k + 1} = U
      BY <3>2
    <3>. QED
      BY <3>3
  <2>. HIDE DEF add, A, B
  <2>4. add \in Bijection(A, B)
    BY <2>1, <2>2, <2>3 DEF Bijection, Injection, Surjection, IsInjective
  <2>5. ExistsBijection(A, B)
    BY <2>4 DEF ExistsBijection
  <2>. QED
    BY <1>4, <2>5, FS_Bijection
<1>6. SUBSET (1..(k + 1)) = A \cup B /\ A \cap B = {}
  <2>1. k + 1 \notin 1..k /\ 1..k \subseteq 1..(k + 1)
        /\ \A i \in 1..(k + 1) : i # k + 1 => i \in 1..k
    OBVIOUS
  <2>. QED
    BY <2>1
<1>7. Cardinality(A \cup B) = 2 ^ k + 2 ^ k
  <2>1. Cardinality({}) = 0
    BY FS_EmptySet
  <2>. HIDE DEF A, B
  <2>2. Cardinality(A \cup B) = Cardinality(A) + Cardinality(B) - Cardinality(A \cap B)
    BY <1>4, <1>5, FS_Union
  <2>3. PICK m \in Nat : m = 2 ^ k
    BY <1>3
  <2>4. Cardinality(A) = m /\ Cardinality(B) = m /\ Cardinality(A \cap B) = 0
    BY <1>4, <1>5, <1>6, <2>1, <2>3
  <2>5. m + m - 0 = m + m
    OBVIOUS
  <2>. QED
    BY <2>2, <2>3, <2>4, <2>5
<1>8. 2 ^ (k + 1) = 2 ^ k + 2 ^ k
  <2>1. k + 1 \in Nat
    OBVIOUS
  <2>2. Cardinality(SUBSET (1..(k + 1))) = 2 ^ (k + 1)
    BY <1>1, <2>1
  <2>. HIDE DEF A, B
  <2>. QED
    BY <1>6, <1>7, <2>2
<1>9. \A m \in Nat : m + m = 2 * m
  OBVIOUS
<1>. QED
  BY <1>2, <1>3, <1>8, <1>9

(***************************************************************************)
(* Recursion in which a measure falls.  step makes of a function its next  *)
(* approximation, in which a value depends on values of lesser measure.    *)
(***************************************************************************)
LooksBelow(step, m, D, V) ==
  /\ \E bound \in Nat : \A x \in D : m[x] \in 0..bound
  /\ step \in [[D -> V] -> [D -> V]]
  /\ \A x \in D : \A g, h \in [D -> V] :
       (\A y \in D : m[y] < m[x] => g[y] = h[y]) => step[g][x] = step[h][x]

LEMMA RecursionExists ==
  ASSUME NEW D, NEW V, V # {}, NEW m, NEW step, LooksBelow(step, m, D, V)
  PROVE  \E f \in [D -> V] : f = step[f]
<1>. DEFINE upto(g, n) == \A x \in D : m[x] < n => g[x] = step[g][x]
            P == {n \in Nat : \E g \in [D -> V] : upto(g, n)}
<1>0. PICK bound \in Nat : \A x \in D : m[x] \in 0..bound
  BY DEF LooksBelow
<1>1. 0 \in P
  <2>1. PICK v \in V : TRUE
    BY <1>0
  <2>2. [x \in D |-> v] \in [D -> V] /\ upto([x \in D |-> v], 0)
    BY <1>0
  <2>. QED
    BY <1>0, <2>2
<1>2. ASSUME NEW n \in Nat, n \in P PROVE n + 1 \in P
  <2>1. PICK g \in [D -> V] : upto(g, n)
    BY <1>2
  <2>2. step[g] \in [D -> V]
    BY DEF LooksBelow
  <2>3. ASSUME NEW x \in D, m[x] < n + 1 PROVE step[g][x] = step[step[g]][x]
    <3>1. ASSUME NEW y \in D, m[y] < m[x] PROVE g[y] = step[g][y]
      <4>1. m[y] < n
        BY <1>0, <2>3, <3>1
      <4>. QED
        BY <2>1, <4>1
    <3>. QED
      BY <2>2, <3>1 DEF LooksBelow
  <2>. QED
    BY <2>2, <2>3
<1>3. bound + 1 \in P
  <2>. HIDE DEF P
  <2>. QED
    BY <1>1, <1>2, NatSetInduction
<1>4. PICK g \in [D -> V] : upto(g, bound + 1)
  BY <1>3
<1>5. step[g] \in [D -> V] /\ \A x \in D : g[x] = step[g][x]
  BY <1>0, <1>4 DEF LooksBelow
<1>. QED
  BY <1>5

\* Induction from the end of an interval.
LEMMA DownInduction ==
  ASSUME NEW n \in Nat, NEW P,
         \A i \in 1..n : (\A j \in (i + 1)..n : j \in P) => i \in P
  PROVE  \A i \in 1..n : i \in P
<1>. DEFINE Q == {k \in Nat : \A i \in 1..n : n - i < k => i \in P}
<1>1. 0 \in Q
  OBVIOUS
<1>2. ASSUME NEW k \in Nat, k \in Q PROVE k + 1 \in Q
  <2>1. SUFFICES ASSUME NEW i \in 1..n, n - i < k + 1 PROVE i \in P
    OBVIOUS
  <2>2. ASSUME NEW j \in (i + 1)..n PROVE j \in P
    <3>1. j \in 1..n /\ n - j < k
      BY <2>1, <2>2
    <3>. QED
      BY <1>2, <3>1
  <2>. QED
    BY <2>2
<1>3. n \in Q
  <2>. HIDE DEF Q
  <2>. QED
    BY <1>1, <1>2, NatSetInduction
<1>. QED
  BY <1>3

\* The least of a set of numbers.
LEMMA MinOfNaturals ==
  ASSUME NEW S \in SUBSET Nat, S # {}
  PROVE  Min(S) \in S /\ \A y \in S : Min(S) <= y
<1>. DEFINE least(x) == x \in S /\ \A y \in S : x <= y
            P == {n \in Nat : (\E x \in S : x <= n) => \E x : least(x)}
<1>1. 0 \in P
  OBVIOUS
<1>2. ASSUME NEW n \in Nat, n \in P PROVE n + 1 \in P
  <2>1. CASE \E x \in S : x <= n
    BY <1>2, <2>1
  <2>2. CASE ~\E x \in S : x <= n
    BY <2>2
  <2>. QED
    BY <2>1, <2>2
<1>3. PICK n \in S : TRUE
  OBVIOUS
<1>4. n \in P
  <2>. HIDE DEF P
  <2>. QED
    BY <1>1, <1>2, NatSetInduction
<1>5. \E x : least(x)
  BY <1>3, <1>4
<1>. QED
  BY <1>5 DEF Min
=============================================================================
