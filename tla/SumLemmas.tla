------------------------------ MODULE SumLemmas ------------------------------
(***************************************************************************)
(* What MapThenSumSet of FiniteSetsExt computes: the sum of a function     *)
(* over a finite set, whatever the set.                                    *)
(*                                                                         *)
(* MapThenSumSet is a CHOOSE of a recursive function.  That this function  *)
(* exists, and that the order of the sum does not matter, are shown by     *)
(* induction on the subsets of the set, that is by picking a minimal       *)
(* counterexample (WFMin).                                                 *)
(***************************************************************************)
EXTENDS Integers, FiniteSetsExt, FiniteSetTheorems, WellFoundedInduction, TLAPS

(* The sum of the f[x], x in S, in the form the models write it. *)
SumOver(f, S) == MapThenSumSet(LAMBDA x : f[x], S)

(* The element the sum takes first. *)
Pick(S) == CHOOSE x \in S : TRUE

(* g gives every subset of S its sum. *)
Solves(g, f, S) ==
  g = [s \in SUBSET S |-> IF s = {} THEN 0 ELSE f[Pick(s)] + g[s \ {Pick(s)}]]

Table(f, S) == CHOOSE g : Solves(g, f, S)

(***************************************************************************)
(* Induction on finite sets.                                               *)
(***************************************************************************)
(* What holds of a set when it holds of all its strict subsets holds of    *)
(* every subset of a finite set.                                           *)
LEMMA SubsetInduction ==
  ASSUME NEW S, IsFiniteSet(S), NEW Good,
         \A T \in SUBSET S : (\A U \in SUBSET T : U # T => U \in Good) => T \in Good
  PROVE  SUBSET S \subseteq Good
  <1> DEFINE Bad == (SUBSET S) \ Good
             R == StrictSubsetOrdering(S)
  <1> SUFFICES ASSUME Bad # {} PROVE FALSE
    OBVIOUS
  <1>1. IsWellFoundedOn(R, SUBSET S)
    <2>1. FiniteSubsetsOf(S) = SUBSET S
      BY FS_FiniteSubsetsOfFinite
    <2>2. IsWellFoundedOn(StrictSubsetOrdering(S), FiniteSubsetsOf(S))
      BY FS_StrictSubsetOrderingWellFounded
    <2> QED
      BY <2>1, <2>2
  <1>2. Bad \subseteq SUBSET S
    OBVIOUS
  <1> HIDE DEF Bad, R
  <1>3. PICK T \in Bad : \A U \in Bad : <<U, T>> \notin R
    BY <1>1, <1>2, WFMin
  <1> USE DEF Bad, R
  <1>4. \A U \in SUBSET T : U # T => U \in Good
    BY <1>3 DEF StrictSubsetOrdering
  <1> QED
    BY <1>3, <1>4

(* The element picked is in the set. *)
LEMMA PickIn == ASSUME NEW S, S # {} PROVE Pick(S) \in S
  BY DEF Pick

(* A set is reached from the empty one, an element at a time. *)
LEMMA OneByOne ==
  ASSUME NEW S, IsFiniteSet(S), NEW Good, {} \in Good,
         \A T \in SUBSET S : T # {} /\ T \ {Pick(T)} \in Good => T \in Good
  PROVE  S \in Good
  <1>1. ASSUME NEW T \in SUBSET S, \A U \in SUBSET T : U # T => U \in Good
        PROVE  T \in Good
    BY <1>1, PickIn
  <1>2. SUBSET S \subseteq Good
    BY <1>1, SubsetInduction
  <1> QED
    BY <1>2

(***************************************************************************)
(* The sum is the last entry of a table that exists.                       *)
(***************************************************************************)
LEMMA SumIsTable == ASSUME NEW f, NEW S PROVE SumOver(f, S) = Table(f, S)[S]
  BY DEF SumOver, MapThenSumSet, MapThenFoldSet, Table, Solves, Pick

(* A table at one subset. *)
LEMMA SolutionAt ==
  ASSUME NEW f, NEW S, NEW g, Solves(g, f, S), NEW s \in SUBSET S
  PROVE  g[s] = IF s = {} THEN 0 ELSE f[Pick(s)] + g[s \ {Pick(s)}]
  <1> HIDE DEF Pick
  <1> QED BY Zenon DEF Solves

(* The tables of two sets agree on what the sets share. *)
LEMMA SolutionsAgree ==
  ASSUME NEW f, NEW S, IsFiniteSet(S), NEW g, Solves(g, f, S),
         NEW T \in SUBSET S, NEW h, Solves(h, f, T)
  PROVE  \A s \in SUBSET T : g[s] = h[s]
  <1> DEFINE Good == {s \in SUBSET T : g[s] = h[s]}
  <1>1. ASSUME NEW s \in SUBSET T, \A u \in SUBSET s : u # s => u \in Good
        PROVE  s \in Good
    <2>0. s \in SUBSET S
      OBVIOUS
    <2>1. g[s] = IF s = {} THEN 0 ELSE f[Pick(s)] + g[s \ {Pick(s)}]
      BY <2>0, SolutionAt
    <2>3. h[s] = IF s = {} THEN 0 ELSE f[Pick(s)] + h[s \ {Pick(s)}]
      BY SolutionAt
    <2>2. s # {} => s \ {Pick(s)} \in Good
      BY <1>1, PickIn
    <2> QED
      BY <2>1, <2>2, <2>3
  <1>2. IsFiniteSet(T)
    BY FS_Subset
  <1> HIDE DEF Good
  <1>3. SUBSET T \subseteq Good
    BY <1>1, <1>2, SubsetInduction
  <1> QED
    BY <1>3 DEF Good

(* The table exists: it is put together from those of the strict subsets. *)
LEMMA TableSolves ==
  ASSUME NEW f, NEW S, IsFiniteSet(S)
  PROVE  Solves(Table(f, S), f, S)
  <1> DEFINE Good == {T \in SUBSET S : Solves(Table(f, T), f, T)}
  <1>1. ASSUME NEW T \in SUBSET S, \A U \in SUBSET T : U # T => U \in Good
        PROVE  T \in Good
    <2> DEFINE Rest(s) == s \ {Pick(s)}
               Value(s) == IF s = {} THEN 0 ELSE f[Pick(s)] + Table(f, Rest(s))[Rest(s)]
               g == [s \in SUBSET T |-> Value(s)]
    <2>1. ASSUME NEW s \in SUBSET T, s # {}
          PROVE  g[Rest(s)] = Table(f, Rest(s))[Rest(s)]
      <3> DEFINE u == Rest(s)
      <3>1. u \in SUBSET T /\ u # T
        BY <2>1, PickIn
      <3>2. Solves(Table(f, u), f, u) /\ IsFiniteSet(u)
        BY <1>1, <3>1, FS_Subset
      <3>6. u \in SUBSET u
        OBVIOUS
      <3> HIDE DEF u
      <3>3. Table(f, u)[u] = IF u = {} THEN 0 ELSE f[Pick(u)] + Table(f, u)[Rest(u)]
        BY <3>2, <3>6, SolutionAt DEF Rest
      <3> USE DEF u
      <3>4. g[u] = Value(u)
        BY <3>1
      <3>5. u # {} => Table(f, u)[Rest(u)] = Table(f, Rest(u))[Rest(u)]
        <4> SUFFICES ASSUME u # {} PROVE Table(f, u)[Rest(u)] = Table(f, Rest(u))[Rest(u)]
          OBVIOUS
        <4>1. Rest(u) \in SUBSET u /\ Rest(u) \in SUBSET T /\ Rest(u) # T
          BY <3>1, PickIn
        <4>2. Solves(Table(f, Rest(u)), f, Rest(u))
          BY <1>1, <4>1
        <4> QED
          BY <3>2, <4>1, <4>2, SolutionsAgree
      <3> QED
        BY <3>3, <3>4, <3>5
    <2>2. \A s \in SUBSET T : s # {} => g[Rest(s)] = Table(f, Rest(s))[Rest(s)]
      BY <2>1
    <2>3. Solves(g, f, T)
      <3> HIDE DEF g
      <3>1. g = [s \in SUBSET T |-> IF s = {} THEN 0 ELSE f[Pick(s)] + g[s \ {Pick(s)}]]
        BY <2>2 DEF g
      <3> QED
        BY <3>1 DEF Solves
    <2> HIDE DEF g
    <2> QED
      BY <2>3 DEF Table
  <1> HIDE DEF Good
  <1>2. SUBSET S \subseteq Good
    BY <1>1, SubsetInduction
  <1> QED
    BY <1>2 DEF Good

(***************************************************************************)
(* What the proofs use.                                                    *)
(***************************************************************************)
LEMMA SumOfNone == ASSUME NEW f PROVE SumOver(f, {}) = 0
  BY SumIsTable, TableSolves, SolutionAt, FS_EmptySet

(* The sum takes one element and goes on with the rest. *)
LEMMA SumOfPick ==
  ASSUME NEW f, NEW S, IsFiniteSet(S), S # {}
  PROVE  SumOver(f, S) = f[Pick(S)] + SumOver(f, S \ {Pick(S)})
  <1> DEFINE T == S \ {Pick(S)}
  <1>1. IsFiniteSet(T) /\ T \in SUBSET S
    BY FS_Subset
  <1>2. Solves(Table(f, S), f, S) /\ Solves(Table(f, T), f, T)
    BY <1>1, TableSolves
  <1>3. Table(f, S)[S] = f[Pick(S)] + Table(f, S)[T]
    BY <1>2, SolutionAt
  <1> HIDE DEF T
  <1>4. Table(f, S)[T] = Table(f, T)[T]
    BY <1>1, <1>2, SolutionsAgree
  <1> USE DEF T
  <1> QED
    BY <1>3, <1>4, SumIsTable

(* The sum of integers is one, and so is that of natural numbers. *)
LEMMA SumType ==
  ASSUME NEW f, NEW S, IsFiniteSet(S), NEW N \in {Nat, Int}, \A x \in S : f[x] \in N
  PROVE  SumOver(f, S) \in N
  <1> DEFINE Good == {T \in SUBSET S : SumOver(f, T) \in N}
  <1>1. 0 \in N /\ \A a, b \in N : a + b \in N
    OBVIOUS
  <1>2. {} \in Good
    BY <1>1, SumOfNone
  <1>3. ASSUME NEW T \in SUBSET S, T # {}, T \ {Pick(T)} \in Good PROVE T \in Good
    <2>1. SumOver(f, T) = f[Pick(T)] + SumOver(f, T \ {Pick(T)})
      BY <1>3, FS_Subset, SumOfPick
    <2>2. f[Pick(T)] \in N
      BY <1>3, PickIn
    <2>3. SumOver(f, T \ {Pick(T)}) \in N
      BY <1>3
    <2>4. SumOver(f, T) \in N
      BY <1>1, <2>1, <2>2, <2>3
    <2> QED
      BY <2>4
  <1> HIDE DEF Good
  <1>4. S \in Good
    BY <1>2, <1>3, OneByOne
  <1> QED
    BY <1>4 DEF Good

(* Any element may be taken apart, not only the first. *)
LEMMA SumRemove ==
  ASSUME NEW f, NEW S, IsFiniteSet(S), \A x \in S : f[x] \in Int, NEW x \in S
  PROVE  SumOver(f, S) = f[x] + SumOver(f, S \ {x})
  <1> DEFINE Good == {T \in SUBSET S : \A y \in T : SumOver(f, T) = f[y] + SumOver(f, T \ {y})}
  <1>1. ASSUME NEW T \in SUBSET S, \A U \in SUBSET T : U # T => U \in Good
        PROVE  T \in Good
    <2> SUFFICES ASSUME NEW y \in T PROVE SumOver(f, T) = f[y] + SumOver(f, T \ {y})
      OBVIOUS
    <2> DEFINE p == Pick(T)
    <2>1. p \in T /\ IsFiniteSet(T)
      BY FS_Subset, PickIn
    <2>2. SumOver(f, T) = f[p] + SumOver(f, T \ {p})
      BY <2>1, SumOfPick
    <2> HIDE DEF p
    <2>3. ASSUME y # p PROVE SumOver(f, T) = f[y] + SumOver(f, T \ {y})
      <3>1. T \ {p} \in Good /\ T \ {y} \in Good
        BY <1>1, <2>1
      <3> DEFINE rest == (T \ {p}) \ {y}
      <3>2. SumOver(f, T \ {p}) = f[y] + SumOver(f, rest)
        BY <3>1, <2>3
      <3>3. (T \ {y}) \ {p} = rest
        OBVIOUS
      <3>4. SumOver(f, T \ {y}) = f[p] + SumOver(f, rest)
        BY <3>1, <3>3, <2>1, <2>3
      <3>5. SumOver(f, rest) \in Int
        BY <2>1, FS_Subset, SumType
      <3> HIDE DEF rest
      <3>6. f[p] \in Int /\ f[y] \in Int
        BY <2>1
      <3> QED
        BY <2>2, <3>2, <3>4, <3>5, <3>6
    <2> QED
      BY <2>2, <2>3
  <1> HIDE DEF Good
  <1>2. SUBSET S \subseteq Good
    BY <1>1, SubsetInduction
  <1> QED
    BY <1>2 DEF Good

(* Only the values on the set count. *)
LEMMA SumOfSame ==
  ASSUME NEW f, NEW g, NEW S, IsFiniteSet(S), \A x \in S : f[x] = g[x]
  PROVE  SumOver(f, S) = SumOver(g, S)
  <1> DEFINE Good == {T \in SUBSET S : SumOver(f, T) = SumOver(g, T)}
  <1>1. {} \in Good
    BY SumOfNone
  <1>2. ASSUME NEW T \in SUBSET S, T # {}, T \ {Pick(T)} \in Good PROVE T \in Good
    <2>1. Pick(T) \in T /\ IsFiniteSet(T)
      BY <1>2, PickIn, FS_Subset
    <2>2. SumOver(f, T) = f[Pick(T)] + SumOver(f, T \ {Pick(T)})
      BY <1>2, <2>1, SumOfPick
    <2>3. SumOver(g, T) = g[Pick(T)] + SumOver(g, T \ {Pick(T)})
      BY <1>2, <2>1, SumOfPick
    <2> QED
      BY <1>2, <2>1, <2>2, <2>3
  <1> HIDE DEF Good
  <1>3. S \in Good
    BY <1>1, <1>2, OneByOne
  <1> QED
    BY <1>3 DEF Good

(* One value changes. *)
LEMMA SumChange ==
  ASSUME NEW f, NEW g, NEW S, IsFiniteSet(S), NEW x \in S,
         \A y \in S : f[y] \in Int /\ g[y] \in Int,
         \A y \in S : y # x => g[y] = f[y]
  PROVE  SumOver(g, S) = SumOver(f, S) - f[x] + g[x]
  <1>1. SumOver(f, S) = f[x] + SumOver(f, S \ {x})
    BY SumRemove
  <1>2. SumOver(g, S) = g[x] + SumOver(g, S \ {x})
    BY SumRemove
  <1>3. IsFiniteSet(S \ {x})
    BY FS_Subset
  <1>4. SumOver(f, S \ {x}) = SumOver(g, S \ {x})
    BY <1>3, SumOfSame
  <1>5. SumOver(f, S \ {x}) \in Int
    BY <1>3, SumType
  <1> QED
    BY <1>1, <1>2, <1>4, <1>5

(* Two sets apart add up. *)
LEMMA SumOfUnion ==
  ASSUME NEW f, NEW A, NEW B, IsFiniteSet(A), IsFiniteSet(B), A \cap B = {},
         \A x \in A \cup B : f[x] \in Int
  PROVE  SumOver(f, A \cup B) = SumOver(f, A) + SumOver(f, B)
  <1> DEFINE Good == {T \in SUBSET B : SumOver(f, A \cup T) = SumOver(f, A) + SumOver(f, T)}
  <1>1. SumOver(f, A) \in Int
    BY SumType
  <1>2. {} \in Good
    <2>1. A \cup {} = A
      OBVIOUS
    <2> QED
      BY <1>1, <2>1, SumOfNone
  <1>3. ASSUME NEW T \in SUBSET B, T # {}, T \ {Pick(T)} \in Good PROVE T \in Good
    <2> DEFINE p == Pick(T)
               rest == T \ {p}
    <2>1. p \in T /\ IsFiniteSet(T) /\ IsFiniteSet(rest) /\ IsFiniteSet(A \cup T)
      BY <1>3, PickIn, FS_Subset, FS_Union
    <2>2. (A \cup T) \ {p} = A \cup rest /\ p \in A \cup T
      BY <2>1
    <2>3. SumOver(f, T) = f[p] + SumOver(f, rest)
      BY <1>3, <2>1, SumOfPick
    <2> HIDE DEF p
    <2>4. SumOver(f, A \cup T) = f[p] + SumOver(f, (A \cup T) \ {p})
      BY <2>1, <2>2, SumRemove
    <2>5. SumOver(f, rest) \in Int /\ f[p] \in Int
      BY <2>1, SumType
    <2>6. SumOver(f, A \cup rest) = SumOver(f, A) + SumOver(f, rest)
      BY <1>3 DEF p
    <2> HIDE DEF rest
    <2>7. SumOver(f, A \cup T) = f[p] + (SumOver(f, A) + SumOver(f, rest))
      BY <2>2, <2>4, <2>6
    <2>8. SumOver(f, A \cup T) = SumOver(f, A) + SumOver(f, T)
      BY <1>1, <2>3, <2>5, <2>7
    <2> QED
      BY <2>8
  <1> HIDE DEF Good
  <1>4. B \in Good
    BY <1>2, <1>3, OneByOne
  <1> QED
    BY <1>4 DEF Good

(* The sum of sums. *)
LEMMA SumOfSums ==
  ASSUME NEW f, NEW g, NEW h, NEW S, IsFiniteSet(S),
         \A x \in S : g[x] \in Int /\ h[x] \in Int /\ f[x] = g[x] + h[x]
  PROVE  SumOver(f, S) = SumOver(g, S) + SumOver(h, S)
  <1> DEFINE Good == {T \in SUBSET S : SumOver(f, T) = SumOver(g, T) + SumOver(h, T)}
  <1>1. {} \in Good
    <2>1. SumOver(f, {}) = 0 /\ SumOver(g, {}) = 0 /\ SumOver(h, {}) = 0
      BY SumOfNone
    <2> QED
      BY <2>1
  <1>2. ASSUME NEW T \in SUBSET S, T # {}, T \ {Pick(T)} \in Good PROVE T \in Good
    <2> DEFINE p == Pick(T)
               rest == T \ {p}
    <2>1. p \in T /\ IsFiniteSet(T) /\ IsFiniteSet(rest)
      BY <1>2, PickIn, FS_Subset
    <2>2. SumOver(f, T) = f[p] + SumOver(f, rest)
      BY <1>2, <2>1, SumOfPick
    <2>3. SumOver(g, T) = g[p] + SumOver(g, rest)
      BY <1>2, <2>1, SumOfPick
    <2>4. SumOver(h, T) = h[p] + SumOver(h, rest)
      BY <1>2, <2>1, SumOfPick
    <2>5. SumOver(g, rest) \in Int /\ SumOver(h, rest) \in Int
      BY <2>1, SumType
    <2>6. SumOver(f, rest) = SumOver(g, rest) + SumOver(h, rest)
      BY <1>2
    <2>7. g[p] \in Int /\ h[p] \in Int /\ f[p] = g[p] + h[p]
      BY <2>1
    <2> HIDE DEF p, rest
    <2>8. SumOver(f, T) = SumOver(g, T) + SumOver(h, T)
      BY <2>2, <2>3, <2>4, <2>5, <2>6, <2>7
    <2> QED
      BY <2>8
  <1> HIDE DEF Good
  <1>3. S \in Good
    BY <1>1, <1>2, OneByOne
  <1> QED
    BY <1>3 DEF Good
=============================================================================
