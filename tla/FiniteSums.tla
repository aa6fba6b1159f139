----------------------------- MODULE FiniteSums -----------------------------
(***************************************************************************)
(* Sums of integers over finite sets, as the fold SumFunctionOnSet of the  *)
(* community modules computes them: what the proofs about accounts, orders *)
(* and payouts use.  Induction is by a smallest counterexample, which      *)
(* exists because strict inclusion of finite sets is well-founded.         *)
(***************************************************************************)
EXTENDS Integers, FiniteSets, Functions, Folds, FiniteSetTheorems, TLAPS

\* A family of finite sets that is not empty has a member of which no proper
\* subset belongs to it.
LEMMA SmallestSet ==
  ASSUME NEW S, IsFiniteSet(S), NEW F \in SUBSET SUBSET S, F # {}
  PROVE  \E T \in F : \A U \in F : U \subseteq T => U = T
<1>1. F \subseteq FiniteSubsetsOf(S)
  BY FS_Subset DEF FiniteSubsetsOf
<1>2. PICK T \in F : \A U \in F : ~(<<U, T>> \in StrictSubsetOrdering(S))
  BY <1>1, FS_StrictSubsetOrderingWellFounded, WFMin
<1>3. \A U \in F : U \subseteq T => U = T
  BY <1>2 DEF StrictSubsetOrdering
<1> QED
  BY <1>3

\* The element the fold takes from a set.
ChosenElement(s) == CHOOSE x \in s : TRUE

\* What the sum over s is, given the sums over smaller sets.
SumStep(f, g, s) == IF s = {} THEN 0 ELSE f[ChosenElement(s)] + g[s \ {ChosenElement(s)}]

SumRecursion(f, g, S) == g = [s \in SUBSET S |-> SumStep(f, g, s)]

\* The fold is the value of a recursively defined function.
LEMMA SumUnfolded ==
  ASSUME NEW f, NEW S
  PROVE  SumFunctionOnSet(f, S) = (CHOOSE g : SumRecursion(f, g, S))[S]
BY DEF SumFunctionOnSet, FoldFunctionOnSet, MapThenFoldSet, SumRecursion, SumStep, ChosenElement

LEMMA ChosenIn ==
  ASSUME NEW s, s # {}
  PROVE  ChosenElement(s) \in s
BY DEF ChosenElement

\* Two such functions agree wherever both are defined.
LEMMA RecursiveUnique ==
  ASSUME NEW f, NEW S, IsFiniteSet(S), NEW T \in SUBSET S, NEW g, NEW h,
         SumRecursion(f, g, S), SumRecursion(f, h, T)
  PROVE  \A s \in SUBSET T : g[s] = h[s]
<1> DEFINE F == {s \in SUBSET T : g[s] # h[s]}
<1> SUFFICES ASSUME F # {} PROVE FALSE
  OBVIOUS
<1>1. PICK s \in F : \A u \in F : u \subseteq s => u = s
  <2>1. F \in SUBSET SUBSET S
    OBVIOUS
  <2> HIDE DEF F
  <2> QED
    BY <2>1, SmallestSet
<1>2. g[s] = SumStep(f, g, s) /\ h[s] = SumStep(f, h, s)
  BY DEF SumRecursion
<1>3. s # {}
  BY <1>1, <1>2 DEF SumStep
<1>4. ChosenElement(s) \in s
  BY <1>3, ChosenIn
<1>5. s \ {ChosenElement(s)} \notin F
  BY <1>1, <1>4
<1>6. g[s \ {ChosenElement(s)}] = h[s \ {ChosenElement(s)}]
  BY <1>5
<1> QED
  BY <1>1, <1>2, <1>3, <1>6 DEF SumStep

\* The value of the recursion at s, by whatever function on its subsets.
SumValue(f, s) == (CHOOSE g : SumRecursion(f, g, s))[s]

\* The recursion has a solution on the subsets of every finite set.
LEMMA RecursiveExists ==
  ASSUME NEW f, NEW S, IsFiniteSet(S)
  PROVE  \E g : SumRecursion(f, g, S)
<1> DEFINE F == {s \in SUBSET S : ~\E g : SumRecursion(f, g, s)}
<1> SUFFICES ASSUME F # {} PROVE FALSE
  OBVIOUS
<1>1. PICK T \in F : \A u \in F : u \subseteq T => u = T
  <2>1. F \in SUBSET SUBSET S
    OBVIOUS
  <2> HIDE DEF F
  <2> QED
    BY <2>1, SmallestSet
<1>2. IsFiniteSet(T) /\ \A s \in SUBSET T : IsFiniteSet(s)
  BY FS_Subset
<1>3. ASSUME NEW s \in SUBSET T, s # T
      PROVE  SumValue(f, s) = IF s = {} THEN 0 ELSE f[ChosenElement(s)] + SumValue(f, s \ {ChosenElement(s)})
  <2>1. \A u \in SUBSET s : u \notin F
    BY <1>1, <1>3
  <2>2. \A u \in SUBSET s : SumRecursion(f, CHOOSE g : SumRecursion(f, g, u), u)
    BY <2>1
  <2>3. PICK g : g = (CHOOSE x : SumRecursion(f, x, s))
    OBVIOUS
  <2>4. SumRecursion(f, g, s) /\ g[s] = SumValue(f, s)
    BY <2>2, <2>3 DEF SumValue
  <2>5. g[s] = SumStep(f, g, s)
    BY <2>4 DEF SumRecursion
  <2>6. CASE s = {}
    BY <2>4, <2>5, <2>6 DEF SumStep
  <2>7. CASE s # {}
    <3> DEFINE u == s \ {ChosenElement(s)}
               k == CHOOSE x : SumRecursion(f, x, u)
    <3>1. u \in SUBSET s
      OBVIOUS
    <3>2. SumRecursion(f, k, u)
      BY <2>2, <3>1
    <3>3. g[u] = k[u]
      <4> HIDE DEF k
      <4> QED
        BY <1>2, <2>4, <3>1, <3>2, RecursiveUnique
    <3>4. g[u] = SumValue(f, u)
      BY <3>3 DEF SumValue
    <3> QED
      BY <2>4, <2>5, <2>7, <3>4 DEF SumStep
  <2> QED
    BY <2>6, <2>7
<1> DEFINE G == [s \in SUBSET T |-> IF s = {} THEN 0 ELSE f[ChosenElement(s)] + SumValue(f, s \ {ChosenElement(s)})]
<1>4. ASSUME NEW s \in SUBSET T, s # T
      PROVE  G[s] = SumValue(f, s)
  BY <1>3, <1>4
<1>5. ASSUME NEW s \in SUBSET T
      PROVE  G[s] = SumStep(f, G, s)
  <2>1. CASE s = {}
    BY <2>1 DEF SumStep
  <2>2. CASE s # {}
    <3>1. s \ {ChosenElement(s)} \in SUBSET T /\ s \ {ChosenElement(s)} # T
      BY <2>2, ChosenIn
    <3>2. G[s \ {ChosenElement(s)}] = SumValue(f, s \ {ChosenElement(s)})
      BY <1>4, <3>1
    <3>3. G[s] = f[ChosenElement(s)] + SumValue(f, s \ {ChosenElement(s)})
      BY <2>2
    <3> QED
      BY <2>2, <3>2, <3>3 DEF SumStep
  <2> QED
    BY <2>1, <2>2
<1>6. G = [s \in SUBSET T |-> SumStep(f, G, s)]
  <2>1. G = [s \in SUBSET T |-> G[s]]
    OBVIOUS
  <2> HIDE DEF G
  <2> QED
    BY <1>5, <2>1
<1>7. SumRecursion(f, G, T)
  BY <1>6 DEF SumRecursion
<1> QED
  BY <1>1, <1>7

-----------------------------------------------------------------------------
(* What the sum is.                                                        *)

LEMMA SumIsValue ==
  ASSUME NEW f, NEW S, IsFiniteSet(S)
  PROVE  \E g : /\ SumRecursion(f, g, S)
                /\ \A T \in SUBSET S : SumFunctionOnSet(f, T) = g[T]
<1>1. \A T \in SUBSET S : IsFiniteSet(T)
  BY FS_Subset
<1> DEFINE G(T) == CHOOSE g : SumRecursion(f, g, T)
<1>2. \A T \in SUBSET S : SumRecursion(f, G(T), T) /\ SumFunctionOnSet(f, T) = G(T)[T]
  BY <1>1, RecursiveExists, SumUnfolded
<1> HIDE DEF G
<1>3. SumRecursion(f, G(S), S)
  BY <1>2
<1>4. \A T \in SUBSET S : G(S)[T] = G(T)[T]
  BY <1>2, <1>3, RecursiveUnique
<1> QED
  BY <1>2, <1>3, <1>4

LEMMA SumEmpty ==
  ASSUME NEW f
  PROVE  SumFunctionOnSet(f, {}) = 0
<1>1. PICK g : SumRecursion(f, g, {}) /\ SumFunctionOnSet(f, {}) = g[{}]
  BY SumIsValue, FS_EmptySet
<1>2. g[{}] = SumStep(f, g, {})
  BY <1>1 DEF SumRecursion
<1> QED
  BY <1>1, <1>2 DEF SumStep

LEMMA SumChosen ==
  ASSUME NEW f, NEW S, IsFiniteSet(S), S # {}
  PROVE  SumFunctionOnSet(f, S) = f[ChosenElement(S)] + SumFunctionOnSet(f, S \ {ChosenElement(S)})
<1>1. PICK g : SumRecursion(f, g, S) /\ \A T \in SUBSET S : SumFunctionOnSet(f, T) = g[T]
  BY SumIsValue
<1>2. g[S] = SumStep(f, g, S)
  BY <1>1 DEF SumRecursion
<1> QED
  BY <1>1, <1>2 DEF SumStep

\* A sum of integers is an integer.
LEMMA SumType ==
  ASSUME NEW f, NEW S, IsFiniteSet(S), \A x \in S : f[x] \in Int
  PROVE  SumFunctionOnSet(f, S) \in Int
<1> DEFINE F == {s \in SUBSET S : SumFunctionOnSet(f, s) \notin Int}
<1> SUFFICES ASSUME F # {} PROVE FALSE
  OBVIOUS
<1>1. PICK s \in F : \A u \in F : u \subseteq s => u = s
  <2>1. F \in SUBSET SUBSET S
    OBVIOUS
  <2> HIDE DEF F
  <2> QED
    BY <2>1, SmallestSet
<1>2. s # {}
  <2>1. SumFunctionOnSet(f, s) \notin Int
    BY <1>1
  <2>2. SumFunctionOnSet(f, {}) \in Int
    BY SumEmpty
  <2> QED
    BY <2>1, <2>2
<1>3. ChosenElement(s) \in s /\ IsFiniteSet(s)
  BY <1>2, ChosenIn, FS_Subset
<1>4. SumFunctionOnSet(f, s \ {ChosenElement(s)}) \in Int
  BY <1>1, <1>3
<1>5. SumFunctionOnSet(f, s) = f[ChosenElement(s)] + SumFunctionOnSet(f, s \ {ChosenElement(s)})
  BY <1>2, <1>3, SumChosen
<1>6. f[ChosenElement(s)] \in Int
  BY <1>3
<1> QED
  BY <1>1, <1>4, <1>5, <1>6

\* Any element can be taken out first.
LEMMA SumRemove ==
  ASSUME NEW f, NEW S, IsFiniteSet(S), \A x \in S : f[x] \in Int, NEW e \in S
  PROVE  SumFunctionOnSet(f, S) = f[e] + SumFunctionOnSet(f, S \ {e})
<1> DEFINE Sum(s) == SumFunctionOnSet(f, s)
           F == {s \in SUBSET S : \E x \in s : Sum(s) # f[x] + Sum(s \ {x})}
<1> SUFFICES ASSUME F # {} PROVE FALSE
  OBVIOUS
<1>1. PICK s \in F : \A u \in F : u \subseteq s => u = s
  <2>1. F \in SUBSET SUBSET S
    OBVIOUS
  <2> HIDE DEF F
  <2> QED
    BY <2>1, SmallestSet
<1>2. PICK x \in s : Sum(s) # f[x] + Sum(s \ {x})
  BY <1>1
<1> DEFINE c == ChosenElement(s)
<1>3. c \in s /\ \A u \in SUBSET s : IsFiniteSet(u)
  BY <1>2, ChosenIn, FS_Subset
<1>4. Sum(s) = f[c] + Sum(s \ {c})
  BY <1>2, <1>3, SumChosen
<1>5. x # c
  BY <1>2, <1>4
<1> HIDE DEF c
<1>6. Sum(s \ {c}) = f[x] + Sum((s \ {c}) \ {x})
  <2>1. s \ {c} \notin F /\ x \in s \ {c} /\ s \ {c} \in SUBSET S
    BY <1>1, <1>3, <1>5
  <2> QED
    BY <2>1
<1>7. Sum(s \ {x}) = f[c] + Sum((s \ {x}) \ {c})
  <2>1. s \ {x} \notin F /\ c \in s \ {x} /\ s \ {x} \in SUBSET S
    BY <1>1, <1>2, <1>3, <1>5
  <2> QED
    BY <2>1
<1>8. (s \ {c}) \ {x} = (s \ {x}) \ {c}
  OBVIOUS
<1>9. f[x] \in Int /\ f[c] \in Int /\ Sum((s \ {x}) \ {c}) \in Int
  <2>1. x \in S /\ c \in S /\ (s \ {x}) \ {c} \in SUBSET s
    BY <1>2, <1>3
  <2>2. IsFiniteSet((s \ {x}) \ {c}) /\ \A y \in (s \ {x}) \ {c} : f[y] \in Int
    BY <1>3, <2>1
  <2> QED
    BY <2>1, <2>2, SumType
<1>10. Sum((s \ {c}) \ {x}) = Sum((s \ {x}) \ {c})
  BY <1>8
<1> HIDE DEF Sum, F
<1>11. Sum(s) = f[c] + (f[x] + Sum((s \ {x}) \ {c}))
  BY <1>4, <1>6, <1>10
<1>12. f[c] + (f[x] + Sum((s \ {x}) \ {c})) = f[x] + (f[c] + Sum((s \ {x}) \ {c}))
  BY <1>9
<1> QED
  BY <1>2, <1>7, <1>11, <1>12

-----------------------------------------------------------------------------
(* How a sum changes with its terms.                                       *)

\* A new element adds its term.
LEMMA SumAdd ==
  ASSUME NEW f, NEW S, IsFiniteSet(S), \A x \in S : f[x] \in Int, NEW e, e \notin S, f[e] \in Int
  PROVE  SumFunctionOnSet(f, S \cup {e}) = SumFunctionOnSet(f, S) + f[e]
<1>1. IsFiniteSet(S \cup {e}) /\ (S \cup {e}) \ {e} = S
  BY FS_AddElement
<1>2. SumFunctionOnSet(f, S \cup {e}) = f[e] + SumFunctionOnSet(f, (S \cup {e}) \ {e})
  BY <1>1, SumRemove
<1>3. SumFunctionOnSet(f, (S \cup {e}) \ {e}) = SumFunctionOnSet(f, S)
  BY <1>1
<1>4. SumFunctionOnSet(f, S) \in Int
  BY SumType
<1> QED
  BY <1>2, <1>3, <1>4

\* The sum of the sums is the sum of the terms' sums.
LEMMA SumPlus ==
  ASSUME NEW S, IsFiniteSet(S), NEW f, NEW g, NEW h,
         \A x \in S : f[x] \in Int /\ g[x] \in Int /\ h[x] = f[x] + g[x]
  PROVE  SumFunctionOnSet(h, S) = SumFunctionOnSet(f, S) + SumFunctionOnSet(g, S)
<1> DEFINE Good(s) == SumFunctionOnSet(h, s) = SumFunctionOnSet(f, s) + SumFunctionOnSet(g, s)
           F == {s \in SUBSET S : ~Good(s)}
<1> SUFFICES ASSUME F # {} PROVE FALSE
  OBVIOUS
<1>1. PICK s \in F : \A u \in F : u \subseteq s => u = s
  <2>1. F \in SUBSET SUBSET S
    OBVIOUS
  <2> HIDE DEF F
  <2> QED
    BY <2>1, SmallestSet
<1>2. Good({})
  BY SumEmpty
<1>3. s # {}
  BY <1>1, <1>2
<1>4. PICK e \in s : TRUE
  BY <1>3
<1> DEFINE u == s \ {e}
<1>5. Good(u) /\ ~Good(s)
  BY <1>1, <1>4
<1>6. /\ IsFiniteSet(s) /\ IsFiniteSet(u)
      /\ \A x \in s : f[x] \in Int /\ g[x] \in Int /\ h[x] = f[x] + g[x]
  <2>1. s \in SUBSET S /\ u \in SUBSET S
    OBVIOUS
  <2> QED
    BY <2>1, FS_Subset
<1>7. \A x \in s : f[x] \in Int /\ g[x] \in Int /\ h[x] \in Int
  BY <1>6
<1>8. /\ SumFunctionOnSet(f, s) = f[e] + SumFunctionOnSet(f, u)
      /\ SumFunctionOnSet(g, s) = g[e] + SumFunctionOnSet(g, u)
      /\ SumFunctionOnSet(h, s) = h[e] + SumFunctionOnSet(h, u)
  BY <1>6, <1>7, SumRemove
<1>9. SumFunctionOnSet(f, u) \in Int /\ SumFunctionOnSet(g, u) \in Int
  BY <1>6, <1>7, SumType
<1>10. f[e] \in Int /\ g[e] \in Int /\ h[e] = f[e] + g[e]
  BY <1>6
<1> HIDE DEF u
<1> QED
  BY <1>5, <1>8, <1>9, <1>10

\* A sum of terms that are not negative is not negative.
LEMMA SumNonnegative ==
  ASSUME NEW S, IsFiniteSet(S), NEW f, \A x \in S : f[x] \in Nat
  PROVE  SumFunctionOnSet(f, S) \in Nat
<1> DEFINE F == {s \in SUBSET S : SumFunctionOnSet(f, s) \notin Nat}
<1> SUFFICES ASSUME F # {} PROVE FALSE
  OBVIOUS
<1>1. PICK s \in F : \A u \in F : u \subseteq s => u = s
  <2>1. F \in SUBSET SUBSET S
    OBVIOUS
  <2> HIDE DEF F
  <2> QED
    BY <2>1, SmallestSet
<1>2. SumFunctionOnSet(f, {}) \in Nat
  BY SumEmpty
<1>3. s # {}
  BY <1>1, <1>2
<1>4. PICK e \in s : TRUE
  BY <1>3
<1>5. SumFunctionOnSet(f, s \ {e}) \in Nat /\ SumFunctionOnSet(f, s) \notin Nat
  BY <1>1, <1>4
<1>6. IsFiniteSet(s) /\ \A x \in s : f[x] \in Int
  BY FS_Subset
<1>7. SumFunctionOnSet(f, s) = f[e] + SumFunctionOnSet(f, s \ {e})
  BY <1>6, SumRemove
<1>8. f[e] \in Nat
  OBVIOUS
<1> QED
  BY <1>5, <1>7, <1>8

LEMMA SumZero ==
  ASSUME NEW S, IsFiniteSet(S), NEW f, \A x \in S : f[x] = 0
  PROVE  SumFunctionOnSet(f, S) = 0
<1>1. SumFunctionOnSet(f, S) = SumFunctionOnSet(f, S) + SumFunctionOnSet(f, S)
  BY SumPlus
<1>2. SumFunctionOnSet(f, S) \in Int
  BY SumType
<1> QED
  BY <1>1, <1>2, SMTT(30)

\* Functions that agree on a set have the same sum over it.
LEMMA SumAgree ==
  ASSUME NEW S, IsFiniteSet(S), NEW f, NEW h, \A x \in S : f[x] \in Int /\ h[x] = f[x]
  PROVE  SumFunctionOnSet(h, S) = SumFunctionOnSet(f, S)
<1> DEFINE zero == [x \in S |-> 0]
<1>1. SumFunctionOnSet(h, S) = SumFunctionOnSet(f, S) + SumFunctionOnSet(zero, S)
  <2>1. \A x \in S : f[x] \in Int /\ zero[x] \in Int /\ h[x] = f[x] + zero[x]
    OBVIOUS
  <2> HIDE DEF zero
  <2> QED
    BY <2>1, SumPlus
<1>2. SumFunctionOnSet(zero, S) = 0
  BY SumZero
<1>3. SumFunctionOnSet(f, S) \in Int
  BY SumType
<1> QED
  BY <1>1, <1>2, <1>3

\* A changed term changes the sum by the difference.
LEMMA SumUpdate ==
  ASSUME NEW S, IsFiniteSet(S), NEW e \in S, NEW f, NEW h,
         \A x \in S : f[x] \in Int /\ h[x] \in Int,
         \A x \in S \ {e} : h[x] = f[x]
  PROVE  SumFunctionOnSet(h, S) = SumFunctionOnSet(f, S) + h[e] - f[e]
<1>1. IsFiniteSet(S \ {e})
  BY FS_RemoveElement
<1>2. SumFunctionOnSet(h, S \ {e}) = SumFunctionOnSet(f, S \ {e})
  BY <1>1, SumAgree
<1>3. SumFunctionOnSet(f, S) = f[e] + SumFunctionOnSet(f, S \ {e})
  BY SumRemove
<1>4. SumFunctionOnSet(h, S) = h[e] + SumFunctionOnSet(h, S \ {e})
  BY SumRemove
<1>5. SumFunctionOnSet(f, S \ {e}) \in Int
  BY <1>1, SumType
<1> QED
  BY <1>2, <1>3, <1>4, <1>5

\* No term of a sum of terms that are not negative exceeds it.
LEMMA SumBounds ==
  ASSUME NEW S, IsFiniteSet(S), NEW f, \A x \in S : f[x] \in Nat, NEW e \in S
  PROVE  f[e] <= SumFunctionOnSet(f, S)
<1>1. SumFunctionOnSet(f, S) = f[e] + SumFunctionOnSet(f, S \ {e})
  BY SumRemove
<1>2. SumFunctionOnSet(f, S \ {e}) \in Nat
  BY FS_RemoveElement, SumNonnegative
<1> QED
  BY <1>1, <1>2

LEMMA SumMonotone ==
  ASSUME NEW S, IsFiniteSet(S), NEW f, NEW h,
         \A x \in S : f[x] \in Int /\ h[x] \in Int /\ f[x] <= h[x]
  PROVE  SumFunctionOnSet(f, S) <= SumFunctionOnSet(h, S)
<1> DEFINE g == [x \in S |-> h[x] - f[x]]
<1>1. \A x \in S : g[x] \in Nat /\ h[x] = f[x] + g[x]
  OBVIOUS
<1> HIDE DEF g
<1>2. SumFunctionOnSet(h, S) = SumFunctionOnSet(f, S) + SumFunctionOnSet(g, S)
  BY <1>1, SumPlus
<1>3. SumFunctionOnSet(g, S) \in Nat /\ SumFunctionOnSet(f, S) \in Int
  BY <1>1, SumNonnegative, SumType
<1> QED
  BY <1>2, <1>3

\* A sum over two disjoint sets.
LEMMA SumUnion ==
  ASSUME NEW f, NEW A, NEW B, IsFiniteSet(A), IsFiniteSet(B), A \cap B = {},
         \A x \in A \cup B : f[x] \in Int
  PROVE  SumFunctionOnSet(f, A \cup B) = SumFunctionOnSet(f, A) + SumFunctionOnSet(f, B)
<1> DEFINE Good(s) == SumFunctionOnSet(f, s \cup B) = SumFunctionOnSet(f, s) + SumFunctionOnSet(f, B)
           F == {s \in SUBSET A : ~Good(s)}
<1> SUFFICES ASSUME F # {} PROVE FALSE
  OBVIOUS
<1>1. PICK s \in F : \A u \in F : u \subseteq s => u = s
  <2>1. F \in SUBSET SUBSET A
    OBVIOUS
  <2> HIDE DEF F
  <2> QED
    BY <2>1, SmallestSet
<1>2. Good({})
  <2>1. {} \cup B = B /\ SumFunctionOnSet(f, B) \in Int
    BY SumType
  <2> QED
    BY <2>1, SumEmpty
<1>3. PICK e \in s : TRUE
  BY <1>1, <1>2
<1> DEFINE u == s \ {e}
<1>4. Good(u) /\ ~Good(s)
  BY <1>1, <1>3
<1>5. IsFiniteSet(s) /\ IsFiniteSet(u) /\ IsFiniteSet(s \cup B) /\ IsFiniteSet(u \cup B)
  <2>1. s \in SUBSET A /\ u \in SUBSET A
    OBVIOUS
  <2> QED
    BY <2>1, FS_Subset, FS_Union
<1>6. (s \cup B) \ {e} = u \cup B /\ e \in s \cup B /\ f[e] \in Int
  BY <1>3
<1>7. /\ SumFunctionOnSet(f, s) = f[e] + SumFunctionOnSet(f, u)
      /\ SumFunctionOnSet(f, s \cup B) = f[e] + SumFunctionOnSet(f, (s \cup B) \ {e})
  <2>1. \A x \in s : f[x] \in Int
    OBVIOUS
  <2>2. \A x \in s \cup B : f[x] \in Int
    OBVIOUS
  <2> QED
    BY <1>3, <1>5, <1>6, <2>1, <2>2, SumRemove
<1>8. SumFunctionOnSet(f, u) \in Int /\ SumFunctionOnSet(f, B) \in Int
  BY <1>5, SumType
<1>9. SumFunctionOnSet(f, s \cup B) = f[e] + SumFunctionOnSet(f, u \cup B)
  BY <1>6, <1>7, Zenon
<1> HIDE DEF u, F
<1> QED
  BY <1>4, <1>6, <1>7, <1>8, <1>9

\* A part of a sum of terms that are not negative.
LEMMA SumSubset ==
  ASSUME NEW f, NEW A, NEW B, IsFiniteSet(B), A \subseteq B, \A x \in B : f[x] \in Nat
  PROVE  SumFunctionOnSet(f, A) <= SumFunctionOnSet(f, B)
<1> DEFINE C == B \ A
<1>1. IsFiniteSet(A) /\ IsFiniteSet(C) /\ A \cup C = B /\ A \cap C = {}
  <2>1. A \in SUBSET B /\ C \in SUBSET B
    OBVIOUS
  <2> QED
    BY <2>1, FS_Subset
<1>2. /\ \A x \in A \cup C : f[x] \in Int
      /\ \A x \in A : f[x] \in Nat
      /\ \A x \in C : f[x] \in Nat
  BY <1>1
<1> HIDE DEF C
<1>3. SumFunctionOnSet(f, A) \in Nat /\ SumFunctionOnSet(f, C) \in Nat
  BY <1>1, <1>2, SumNonnegative
<1>4. SumFunctionOnSet(f, A \cup C) = SumFunctionOnSet(f, A) + SumFunctionOnSet(f, C)
  BY <1>1, <1>2, SumUnion
<1>5. SumFunctionOnSet(f, B) = SumFunctionOnSet(f, A) + SumFunctionOnSet(f, C)
  BY <1>1, <1>4, Zenon
<1> QED
  BY <1>3, <1>5
=============================================================================
