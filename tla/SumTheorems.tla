---------------------------- MODULE SumTheorems ----------------------------
(***************************************************************************)
(* Sums over finite sets: what SumFunctionOnSet of module Functions is,    *)
(* whichever order it takes the elements in.  Requests counts the stock    *)
(* and the lines of orders with it.                                        *)
(*                                                                         *)
(* Induction is over sets: a set of subsets that contains each one of      *)
(* whose strict subsets it contains all is the set of all subsets.  That   *)
(* is the well-foundedness of strict inclusion, and needs no operator as   *)
(* a parameter.                                                            *)
(***************************************************************************)
EXTENDS Functions, FiniteSetTheorems, TLAPS

LEMMA SubsetInduction ==
    ASSUME NEW S, IsFiniteSet(S), NEW G,
           \A T \in SUBSET S : (\A U \in SUBSET T : U # T => U \in G) => T \in G
    PROVE  SUBSET S \subseteq G
<1> DEFINE Bad == {T \in SUBSET S : T \notin G}
<1>1. SUFFICES ASSUME Bad # {} PROVE FALSE
  OBVIOUS
<1>2. FiniteSubsetsOf(S) = SUBSET S
  BY FS_FiniteSubsetsOfFinite
<1>3. IsWellFoundedOn(StrictSubsetOrdering(S), SUBSET S)
  BY <1>2, FS_StrictSubsetOrderingWellFounded
<1>4. Bad \subseteq SUBSET S
  OBVIOUS
<1> HIDE DEF Bad
<1>5. PICK T \in Bad : \A U \in Bad : ~ (<<U, T>> \in StrictSubsetOrdering(S))
  BY <1>1, <1>3, <1>4, WFMin
<1>6. \A U \in SUBSET T : U # T => U \in G
  BY <1>4, <1>5 DEF StrictSubsetOrdering, Bad
<1> QED
  BY <1>4, <1>5, <1>6 DEF Bad

-----------------------------------------------------------------------------
(* The element that comes next, and the recursion the sum is defined by.   *)
Taken(s) == CHOOSE x \in s : TRUE
Partial(f, s, g) == IF s = {} THEN 0 ELSE f[Taken(s)] + g[s \ {Taken(s)}]
Sums(f, S, g) == g = [s \in SUBSET S |-> Partial(f, s, g)]

LEMMA TakenIn == \A s : s # {} => Taken(s) \in s
  BY DEF Taken

LEMMA SumsAgree ==
    ASSUME NEW V, IsFiniteSet(V), NEW U \in SUBSET V, NEW f, NEW g, NEW h,
           Sums(f, U, g), Sums(f, V, h)
    PROVE  \A s \in SUBSET U : g[s] = h[s]
<1> DEFINE G == {s \in SUBSET U : g[s] = h[s]}
<1>1. IsFiniteSet(U)
  BY FS_Subset
<1>2. ASSUME NEW T \in SUBSET U, \A s \in SUBSET T : s # T => s \in G
      PROVE  T \in G
  <2>1. g[T] = Partial(f, T, g) /\ h[T] = Partial(f, T, h)
    BY DEF Sums
  <2>2. CASE T = {}
    BY <2>1, <2>2 DEF Partial
  <2>3. CASE T # {}
    <3>1. Taken(T) \in T
      BY <2>3, TakenIn
    <3>2. T \ {Taken(T)} \in G
      BY <1>2, <3>1
    <3> QED
      BY <2>1, <2>3, <3>2 DEF Partial
  <2> QED
    BY <2>2, <2>3
<1> HIDE DEF G
<1>3. SUBSET U \subseteq G
  BY <1>1, <1>2, SubsetInduction
<1> QED
  BY <1>3 DEF G

LEMMA SumsExist ==
    ASSUME NEW S, IsFiniteSet(S), NEW f
    PROVE  \E g : Sums(f, S, g)
<1> DEFINE G == {T \in SUBSET S : \E g : Sums(f, T, g)}
           H(U) == CHOOSE g : Sums(f, U, g)
<1>1. ASSUME NEW T \in SUBSET S, \A U \in SUBSET T : U # T => U \in G
      PROVE  T \in G
  <2> DEFINE R(s) == s \ {Taken(s)}
             g == [s \in SUBSET T |-> IF s = {} THEN 0 ELSE f[Taken(s)] + H(R(s))[R(s)]]
  <2>1. ASSUME NEW s \in SUBSET T, s # {}
        PROVE  Sums(f, R(s), H(R(s))) /\ R(s) \in SUBSET T /\ R(s) # T
    BY <1>1, <2>1, TakenIn
  <2>2. ASSUME NEW s \in SUBSET T, s # {}
        PROVE  H(R(s))[R(s)] = g[R(s)]
    <3> DEFINE r == R(s)
    <3>1. Sums(f, r, H(r)) /\ r \in SUBSET T
      BY <2>1, <2>2
    <3> HIDE DEF r, H
    <3>2. H(r)[r] = Partial(f, r, H(r))
      BY <3>1 DEF Sums
    <3>3. CASE r = {}
      BY <3>1, <3>2, <3>3 DEF Partial, r
    <3>4. CASE r # {}
      <4> DEFINE q == R(r)
      <4>1. Sums(f, q, H(q)) /\ q \in SUBSET r
        BY <2>1, <3>1, <3>4 DEF H
      <4>2. IsFiniteSet(r)
        BY <3>1, FS_Subset
      <4> HIDE DEF q
      <4>3. H(q)[q] = H(r)[q]
        BY <3>1, <4>1, <4>2, SumsAgree
      <4>4. g[r] = f[Taken(r)] + H(q)[q]
        BY <3>1, <3>4 DEF q
      <4> QED
        BY <3>2, <3>4, <4>3, <4>4 DEF Partial, q, r
    <3> QED
      BY <3>3, <3>4
  <2>3. ASSUME NEW s \in SUBSET T
        PROVE  g[s] = Partial(f, s, g)
    <3>1. g[s] = IF s = {} THEN 0 ELSE f[Taken(s)] + H(R(s))[R(s)]
      OBVIOUS
    <3> HIDE DEF g, H
    <3> QED
      BY <2>2, <3>1 DEF Partial
  <2>4. g = [s \in SUBSET T |-> g[s]]
    OBVIOUS
  <2> HIDE DEF g
  <2>5. Sums(f, T, g)
    BY <2>3, <2>4 DEF Sums
  <2> QED
    BY <2>5
<1> HIDE DEF G
<1>2. SUBSET S \subseteq G
  BY <1>1, SubsetInduction
<1> QED
  BY <1>2 DEF G
-----------------------------------------------------------------------------
(* SumFunctionOnSet is that recursion.                                     *)
LEMMA SumIsPartial ==
    ASSUME NEW S, IsFiniteSet(S), NEW f
    PROVE  \E g : Sums(f, S, g) /\ SumFunctionOnSet(f, S) = g[S]
<1> DEFINE Is(g) == g = [s \in SUBSET S |->
                      IF s = {} THEN 0
                      ELSE f[CHOOSE x \in s : TRUE] + g[s \ {CHOOSE x \in s : TRUE}]]
           iter == CHOOSE g : Is(g)
<1>1. SumFunctionOnSet(f, S) = iter[S]
  BY DEF SumFunctionOnSet, FoldFunctionOnSet, MapThenFoldSet
<1>2. \A g : Sums(f, S, g) <=> Is(g)
  BY DEF Sums, Partial, Taken
<1> HIDE DEF Is
<1>3. Sums(f, S, iter)
  BY <1>2, SumsExist
<1> QED
  BY <1>1, <1>3

(* Two functions that agree on a set have the same sum over it.            *)
LEMMA SumEqual ==
    ASSUME NEW S, IsFiniteSet(S), NEW f, NEW g, \A x \in S : f[x] = g[x]
    PROVE  SumFunctionOnSet(f, S) = SumFunctionOnSet(g, S)
<1>1. PICK p : Sums(f, S, p) /\ SumFunctionOnSet(f, S) = p[S]
  BY SumIsPartial
<1>2. PICK q : Sums(g, S, q) /\ SumFunctionOnSet(g, S) = q[S]
  BY SumIsPartial
<1>3. ASSUME NEW s \in SUBSET S PROVE Partial(g, s, p) = Partial(f, s, p)
  BY TakenIn DEF Partial
<1>4. Sums(g, S, p)
  BY <1>1, <1>3 DEF Sums
<1> QED
  BY <1>1, <1>2, <1>4, SumsAgree

LEMMA SumEmpty == ASSUME NEW f PROVE SumFunctionOnSet(f, {}) = 0
<1>1. PICK p : Sums(f, {}, p) /\ SumFunctionOnSet(f, {}) = p[{}]
  BY SumIsPartial, FS_EmptySet
<1> QED
  BY <1>1 DEF Sums, Partial

(* The recursion, in terms of sums.                                        *)
LEMMA SumTaken ==
    ASSUME NEW S, IsFiniteSet(S), S # {}, NEW f
    PROVE  SumFunctionOnSet(f, S) = f[Taken(S)] + SumFunctionOnSet(f, S \ {Taken(S)})
<1> DEFINE r == S \ {Taken(S)}
<1>0. IsFiniteSet(r)
  BY FS_Subset
<1> HIDE DEF r
<1>1. PICK p : Sums(f, S, p) /\ SumFunctionOnSet(f, S) = p[S]
  BY SumIsPartial
<1>2. PICK q : Sums(f, r, q) /\ SumFunctionOnSet(f, r) = q[r]
  BY <1>0, SumIsPartial
<1>3. q[r] = p[r]
  <2>1. r \in SUBSET S
    BY DEF r
  <2> QED
    BY <1>1, <1>2, <2>1, SumsAgree
<1>4. p[S] = f[Taken(S)] + p[r]
  BY <1>1 DEF Sums, Partial, r
<1> QED
  BY <1>1, <1>2, <1>3, <1>4 DEF r

(* The sum of integers is one, and that of natural numbers too.            *)
LEMMA SumType ==
    ASSUME NEW S, IsFiniteSet(S), NEW Num, Num \in {Nat, Int}, NEW f,
           \A x \in S : f[x] \in Num
    PROVE  SumFunctionOnSet(f, S) \in Num
<1> DEFINE G == {T \in SUBSET S : SumFunctionOnSet(f, T) \in Num}
<1>1. ASSUME NEW T \in SUBSET S, \A U \in SUBSET T : U # T => U \in G
      PROVE  T \in G
  <2>1. CASE T = {}
    BY <2>1, SumEmpty
  <2>2. CASE T # {}
    <3> DEFINE x == Taken(T)
    <3>1. x \in T /\ IsFiniteSet(T)
      BY <2>2, TakenIn, FS_Subset
    <3>2. SumFunctionOnSet(f, T) = f[x] + SumFunctionOnSet(f, T \ {x})
      BY <2>2, <3>1, SumTaken
    <3>3. SumFunctionOnSet(f, T \ {x}) \in Num /\ f[x] \in Num
      BY <1>1, <3>1
    <3> HIDE DEF x
    <3> QED
      BY <3>2, <3>3
  <2> QED
    BY <2>1, <2>2
<1> HIDE DEF G
<1>2. SUBSET S \subseteq G
  BY <1>1, SubsetInduction
<1> QED
  BY <1>2 DEF G

(* Any element may be taken out first: addition does not care.             *)
LEMMA SumRemove ==
    ASSUME NEW S, IsFiniteSet(S), NEW f, \A x \in S : f[x] \in Int, NEW y \in S
    PROVE  SumFunctionOnSet(f, S) = f[y] + SumFunctionOnSet(f, S \ {y})
<1> DEFINE Sum(T) == SumFunctionOnSet(f, T)
           G == {T \in SUBSET S : \A z \in T : Sum(T) = f[z] + Sum(T \ {z})}
<1>1. ASSUME NEW T \in SUBSET S, \A U \in SUBSET T : U # T => U \in G
      PROVE  T \in G
  <2>1. SUFFICES ASSUME NEW z \in T PROVE Sum(T) = f[z] + Sum(T \ {z})
    OBVIOUS
  <2> DEFINE x == Taken(T)
  <2>2. x \in T /\ IsFiniteSet(T)
    BY TakenIn, FS_Subset
  <2>3. Sum(T) = f[x] + Sum(T \ {x})
    BY SumTaken, <2>2
  <2> HIDE DEF x
  <2>4. CASE x = z
    BY <2>3, <2>4
  <2>5. CASE x # z
    <3> DEFINE r == (T \ {x}) \ {z}
    <3>1. r = (T \ {z}) \ {x}
      OBVIOUS
    <3>2. T \ {x} \in G /\ T \ {z} \in G
      BY <1>1, <2>2
    <3>3. Sum(T \ {x}) = f[z] + Sum(r)
      BY <2>5, <3>2
    <3>4. Sum(T \ {z}) = f[x] + Sum(r)
      BY <2>2, <2>5, <3>1, <3>2
    <3>5. f[x] \in Int /\ f[z] \in Int
      BY <2>2
    <3>6. Sum(r) \in Int
      <4>1. IsFiniteSet(r) /\ \A w \in r : f[w] \in Int
        BY <2>2, FS_Subset
      <4> QED
        BY <4>1, SumType
    <3> HIDE DEF r, Sum
    <3> QED
      BY <2>3, <3>3, <3>4, <3>5, <3>6
  <2> QED
    BY <2>4, <2>5
<1> HIDE DEF G
<1>2. SUBSET S \subseteq G
  BY <1>1, SubsetInduction
<1> QED
  BY <1>2 DEF G

LEMMA SumAdd ==
    ASSUME NEW S, IsFiniteSet(S), NEW f, NEW y, y \notin S,
           \A x \in S \cup {y} : f[x] \in Int
    PROVE  SumFunctionOnSet(f, S \cup {y}) = SumFunctionOnSet(f, S) + f[y]
<1>1. IsFiniteSet(S \cup {y})
  BY FS_AddElement
<1>2. (S \cup {y}) \ {y} = S
  OBVIOUS
<1>3. SumFunctionOnSet(f, S) \in Int
  BY SumType
<1>4. SumFunctionOnSet(f, S \cup {y}) = f[y] + SumFunctionOnSet(f, S)
  BY <1>1, <1>2, SumRemove
<1> QED
  BY <1>3, <1>4

(* One value changes, and the sum by the difference.                       *)
LEMMA SumChange ==
    ASSUME NEW S, IsFiniteSet(S), NEW f, NEW g, NEW y \in S,
           \A x \in S : f[x] \in Int /\ g[x] \in Int,
           \A x \in S : x # y => g[x] = f[x]
    PROVE  SumFunctionOnSet(g, S) = SumFunctionOnSet(f, S) + g[y] - f[y]
<1> DEFINE r == S \ {y}
<1>1. IsFiniteSet(r)
  BY FS_Subset
<1>2. SumFunctionOnSet(g, r) = SumFunctionOnSet(f, r)
  BY <1>1, SumEqual
<1>3. SumFunctionOnSet(f, r) \in Int
  BY <1>1, SumType
<1>4. /\ SumFunctionOnSet(f, S) = f[y] + SumFunctionOnSet(f, r)
      /\ SumFunctionOnSet(g, S) = g[y] + SumFunctionOnSet(g, r)
  BY SumRemove
<1> HIDE DEF r
<1> QED
  BY <1>2, <1>3, <1>4

LEMMA SumZero ==
    ASSUME NEW S, IsFiniteSet(S), NEW f, \A x \in S : f[x] = 0
    PROVE  SumFunctionOnSet(f, S) = 0
<1> DEFINE G == {T \in SUBSET S : SumFunctionOnSet(f, T) = 0}
<1>1. ASSUME NEW T \in SUBSET S, \A U \in SUBSET T : U # T => U \in G
      PROVE  T \in G
  <2>1. CASE T = {}
    BY <2>1, SumEmpty
  <2>2. CASE T # {}
    <3>1. Taken(T) \in T /\ IsFiniteSet(T)
      BY <2>2, TakenIn, FS_Subset
    <3>2. SumFunctionOnSet(f, T) = f[Taken(T)] + SumFunctionOnSet(f, T \ {Taken(T)})
      BY <2>2, <3>1, SumTaken
    <3>3. f[Taken(T)] = 0 /\ SumFunctionOnSet(f, T \ {Taken(T)}) = 0
      BY <1>1, <3>1
    <3> QED
      BY <3>2, <3>3
  <2> QED
    BY <2>1, <2>2
<1> HIDE DEF G
<1>2. SUBSET S \subseteq G
  BY <1>1, SubsetInduction
<1> QED
  BY <1>2 DEF G
=============================================================================
