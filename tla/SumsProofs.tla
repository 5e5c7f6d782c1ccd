------------------------------ MODULE SumsProofs ------------------------------
(***************************************************************************)
(* What a sum over a finite set is, and how it changes with the set and with *)
(* the function.  A sum is a fold, a function defined by recursion over the  *)
(* subsets of the set.  That it exists, and what it is, is shown by looking  *)
(* at a smallest subset for which the claim would fail (SmallestSet).        *)
(***************************************************************************)
EXTENDS Sums, Integers, FiniteSetTheorems, WellFoundedInduction, TLAPS

\* A collection of subsets of a finite set has a smallest member.
LEMMA SmallestSet ==
  ASSUME NEW S, IsFiniteSet(S), NEW Bad \in SUBSET SUBSET S, Bad # {}
  PROVE  \E T \in Bad : \A U \in SUBSET T : U # T => U \notin Bad
<1>1. IsWellFoundedOn(StrictSubsetOrdering(S), SUBSET S)
  BY FS_StrictSubsetOrderingWellFounded, FS_FiniteSubsetsOfFinite
<1>2. \E T \in Bad : \A U \in Bad : ~(<<U, T>> \in StrictSubsetOrdering(S))
  BY <1>1, WFMin
<1> QED
  BY <1>2 DEF StrictSubsetOrdering

-----------------------------------------------------------------------------
\* The fold behind SumOver

Pick(s) == CHOOSE x \in s : TRUE

\* g adds f up over every subset of S, element by element.
Adds(f, S, g) ==
  g = [s \in SUBSET S |-> IF s = {} THEN 0 ELSE f[Pick(s)] + g[s \ {Pick(s)}]]

LEMMA SumIsFold ==
  ASSUME NEW f, NEW S
  PROVE  SumOver(f, S) = (CHOOSE g : Adds(f, S, g))[S]
BY DEF SumOver, MapThenSumSet, MapThenFoldSet, Adds, Pick

LEMMA PickIsMember ==
  ASSUME NEW s, s # {}
  PROVE  Pick(s) \in s
BY DEF Pick

\* Two such functions agree where both are defined.
LEMMA AddsAgree ==
  ASSUME NEW f, NEW S, IsFiniteSet(S), NEW T, NEW g, NEW h, Adds(f, S, g), Adds(f, T, h),
         NEW U \in SUBSET S, U \subseteq T
  PROVE  g[U] = h[U]
<1> DEFINE Bad == {V \in SUBSET S : V \subseteq T /\ g[V] # h[V]}
<1> SUFFICES ASSUME Bad # {} PROVE FALSE
  OBVIOUS
<1> HIDE DEF Bad
<1>1. PICK V \in Bad : \A W \in SUBSET V : W # V => W \notin Bad
  BY SmallestSet DEF Bad
<1>2. V \in SUBSET S /\ V \in SUBSET T /\ g[V] # h[V]
  BY DEF Bad
<1>3. g[V] = IF V = {} THEN 0 ELSE f[Pick(V)] + g[V \ {Pick(V)}]
  BY <1>2 DEF Adds
<1>4. h[V] = IF V = {} THEN 0 ELSE f[Pick(V)] + h[V \ {Pick(V)}]
  BY <1>2 DEF Adds
<1>5. V # {} => g[V \ {Pick(V)}] = h[V \ {Pick(V)}]
  BY <1>1, <1>2, PickIsMember DEF Bad
<1> QED
  BY <1>2, <1>3, <1>4, <1>5

LEMMA AddsAt ==
  ASSUME NEW f, NEW S, NEW g, Adds(f, S, g), NEW T \in SUBSET S
  PROVE  g[T] = IF T = {} THEN 0 ELSE f[Pick(T)] + g[T \ {Pick(T)}]
BY DEF Adds

\* The function that adds f up over the subsets of S, if there is one.
Adder(f, S) == CHOOSE g : Adds(f, S, g)

\* What it adds up over S, from what smaller ones add up over smaller sets.
Onward(f, s) ==
  IF s = {} THEN 0 ELSE f[Pick(s)] + Adder(f, s \ {Pick(s)})[s \ {Pick(s)}]

LEMMA AddsExists ==
  ASSUME NEW f, NEW S, IsFiniteSet(S)
  PROVE  Adds(f, S, Adder(f, S))
<1> DEFINE Bad == {U \in SUBSET S : ~Adds(f, U, Adder(f, U))}
<1> SUFFICES ASSUME Bad # {} PROVE FALSE
  BY DEF Adder
<1>0. Bad \in SUBSET SUBSET S
  OBVIOUS
<1> HIDE DEF Bad
<1>1. PICK U \in Bad : \A V \in SUBSET U : V # U => V \notin Bad
  BY <1>0, SmallestSet
<1>2. U \in SUBSET S /\ IsFiniteSet(U) /\ ~Adds(f, U, Adder(f, U))
  BY FS_Subset DEF Bad
<1>3. ASSUME NEW V \in SUBSET U, V # U PROVE Adds(f, V, Adder(f, V)) /\ IsFiniteSet(V)
  BY <1>1, <1>2, <1>3, FS_Subset DEF Bad
<1>4. ASSUME NEW V \in SUBSET U, V # U PROVE Onward(f, V) = Adder(f, V)[V]
  <2> DEFINE W == V \ {Pick(V)}
  <2>1. Adder(f, V)[V] = IF V = {} THEN 0 ELSE f[Pick(V)] + Adder(f, V)[W]
    BY <1>3, <1>4, AddsAt
  <2>2. V # {} => W \in SUBSET V /\ W \in SUBSET U /\ W # U
    BY PickIsMember
  <2>3. V # {} => Adder(f, V)[W] = Adder(f, W)[W]
    BY <1>3, <1>4, <2>2, AddsAgree
  <2> QED
    BY <2>1, <2>3 DEF Onward
<1> DEFINE g == [s \in SUBSET U |-> Onward(f, s)]
<1>5. \A s \in SUBSET U : g[s] = Onward(f, s)
  OBVIOUS
<1>6. g = [s \in SUBSET U |-> g[s]]
  OBVIOUS
<1> HIDE DEF g
<1>7. ASSUME NEW s \in SUBSET U
      PROVE  g[s] = IF s = {} THEN 0 ELSE f[Pick(s)] + g[s \ {Pick(s)}]
  <2>1. s # {} => s \ {Pick(s)} \in SUBSET U /\ s \ {Pick(s)} # U
    BY PickIsMember
  <2>2. s # {} => g[s \ {Pick(s)}] = Adder(f, s \ {Pick(s)})[s \ {Pick(s)}]
    BY <1>4, <1>5, <2>1
  <2> QED
    BY <1>5, <2>2 DEF Onward
<1>8. Adds(f, U, g)
  BY <1>6, <1>7 DEF Adds
<1> QED
  BY <1>2, <1>8 DEF Adder

LEMMA SumIsAdder ==
  ASSUME NEW f, NEW S
  PROVE  SumOver(f, S) = Adder(f, S)[S]
BY SumIsFold DEF Adder

LEMMA SumOfEmpty ==
  ASSUME NEW f
  PROVE  SumOver(f, {}) = 0
BY FS_EmptySet, AddsExists, AddsAt, SumIsAdder

LEMMA SumPicks ==
  ASSUME NEW f, NEW S, IsFiniteSet(S), S # {}
  PROVE  SumOver(f, S) = f[Pick(S)] + SumOver(f, S \ {Pick(S)})
<1> DEFINE T == S \ {Pick(S)}
<1>1. IsFiniteSet(T) /\ T \in SUBSET S
  BY FS_Subset
<1>2. Adds(f, S, Adder(f, S)) /\ Adds(f, T, Adder(f, T))
  BY <1>1, AddsExists
<1>3. Adder(f, S)[S] = f[Pick(S)] + Adder(f, S)[T]
  BY <1>2, AddsAt
<1>4. Adder(f, S)[T] = Adder(f, T)[T]
  BY <1>1, <1>2, AddsAgree
<1> QED
  BY <1>3, <1>4, SumIsAdder
-----------------------------------------------------------------------------
\* Sums of natural numbers

\* f is defined on S and takes natural numbers for its values there.
Counts(f, S) == \A x \in S : f[x] \in Nat

\* The sum of natural numbers is one.
LEMMA SumIsNat ==
  ASSUME NEW f, NEW S, IsFiniteSet(S), Counts(f, S)
  PROVE  SumOver(f, S) \in Nat
<1> DEFINE Bad == {U \in SUBSET S : SumOver(f, U) \notin Nat}
<1> SUFFICES ASSUME Bad # {} PROVE FALSE
  OBVIOUS
<1>0. Bad \in SUBSET SUBSET S
  OBVIOUS
<1> HIDE DEF Bad
<1>1. PICK U \in Bad : \A V \in SUBSET U : V # U => V \notin Bad
  BY <1>0, SmallestSet
<1>2. U \in SUBSET S /\ IsFiniteSet(U) /\ SumOver(f, U) \notin Nat
  BY FS_Subset DEF Bad
<1>3. U # {}
  BY <1>2, SumOfEmpty
<1> DEFINE V == U \ {Pick(U)}
<1>4. V \in SUBSET U /\ V # U /\ Pick(U) \in S
  BY <1>2, <1>3, PickIsMember
<1>5. SumOver(f, V) \in Nat
  BY <1>1, <1>2, <1>4 DEF Bad
<1>6. f[Pick(U)] \in Nat
  BY <1>4 DEF Counts
<1> QED
  BY <1>2, <1>3, <1>5, <1>6, SumPicks

\* Any member can be taken out first.
LEMMA SumTakesOut ==
  ASSUME NEW f, NEW S, IsFiniteSet(S), Counts(f, S), NEW x \in S
  PROVE  SumOver(f, S) = f[x] + SumOver(f, S \ {x})
<1> DEFINE Bad == {U \in SUBSET S : \E y \in U : SumOver(f, U) # f[y] + SumOver(f, U \ {y})}
<1> SUFFICES ASSUME Bad # {} PROVE FALSE
  OBVIOUS
<1>0. Bad \in SUBSET SUBSET S
  OBVIOUS
<1> HIDE DEF Bad
<1>1. PICK U \in Bad : \A V \in SUBSET U : V # U => V \notin Bad
  BY <1>0, SmallestSet
<1>2. U \in SUBSET S /\ IsFiniteSet(U)
  BY FS_Subset DEF Bad
<1>3. PICK y \in U : SumOver(f, U) # f[y] + SumOver(f, U \ {y})
  BY <1>1 DEF Bad
<1> DEFINE z == Pick(U)
           W == U \ {y, z}
<1>4. z \in U /\ SumOver(f, U) = f[z] + SumOver(f, U \ {z}) /\ z # y
  BY <1>2, <1>3, SumPicks, PickIsMember
<1> HIDE DEF z
<1>5. SumOver(f, U \ {z}) = f[y] + SumOver(f, (U \ {z}) \ {y})
  BY <1>1, <1>2, <1>4 DEF Bad
<1>6. SumOver(f, U \ {y}) = f[z] + SumOver(f, (U \ {y}) \ {z})
  BY <1>1, <1>2, <1>4 DEF Bad
<1>7. (U \ {z}) \ {y} = W /\ (U \ {y}) \ {z} = W
  OBVIOUS
<1>8. f[y] \in Nat /\ f[z] \in Nat
  BY <1>2, <1>4 DEF Counts
<1>9. SumOver(f, W) \in Nat
  BY <1>2, FS_Subset, SumIsNat DEF Counts
<1> QED
  BY <1>3, <1>4, <1>5, <1>6, <1>7, <1>8, <1>9

LEMMA SumAddsOne ==
  ASSUME NEW f, NEW S, IsFiniteSet(S), NEW x, x \notin S, Counts(f, S \cup {x})
  PROVE  SumOver(f, S \cup {x}) = SumOver(f, S) + f[x]
<1>1. IsFiniteSet(S \cup {x}) /\ (S \cup {x}) \ {x} = S
  BY FS_AddElement
<1>2. SumOver(f, S \cup {x}) = f[x] + SumOver(f, S)
  BY <1>1, SumTakesOut
<1> QED
  BY <1>2, SumIsNat DEF Counts

\* Only the values on the set count.
LEMMA SumDependsOnValues ==
  ASSUME NEW f, NEW g, NEW S, IsFiniteSet(S), \A x \in S : f[x] = g[x]
  PROVE  SumOver(f, S) = SumOver(g, S)
<1> DEFINE Bad == {U \in SUBSET S : SumOver(f, U) # SumOver(g, U)}
<1> SUFFICES ASSUME Bad # {} PROVE FALSE
  OBVIOUS
<1>0. Bad \in SUBSET SUBSET S
  OBVIOUS
<1> HIDE DEF Bad
<1>1. PICK U \in Bad : \A V \in SUBSET U : V # U => V \notin Bad
  BY <1>0, SmallestSet
<1>2. U \in SUBSET S /\ IsFiniteSet(U) /\ SumOver(f, U) # SumOver(g, U)
  BY FS_Subset DEF Bad
<1>3. U # {}
  BY <1>2, SumOfEmpty
<1> DEFINE V == U \ {Pick(U)}
<1>4. V \in SUBSET U /\ V # U /\ Pick(U) \in S
  BY <1>2, <1>3, PickIsMember
<1>5. SumOver(f, V) = SumOver(g, V) /\ f[Pick(U)] = g[Pick(U)]
  BY <1>1, <1>2, <1>4 DEF Bad
<1> QED
  BY <1>2, <1>3, <1>5, SumPicks

\* What is zero can be left out.
LEMMA SumIgnoresZeros ==
  ASSUME NEW f, NEW S, IsFiniteSet(S), Counts(f, S),
         NEW T \in SUBSET S, \A x \in S \ T : f[x] = 0
  PROVE  SumOver(f, S) = SumOver(f, T)
<1> DEFINE Bad == {U \in SUBSET S : T \subseteq U /\ SumOver(f, U) # SumOver(f, T)}
<1> SUFFICES ASSUME Bad # {} PROVE FALSE
  OBVIOUS
<1>0. Bad \in SUBSET SUBSET S
  OBVIOUS
<1> HIDE DEF Bad
<1>1. PICK U \in Bad : \A V \in SUBSET U : V # U => V \notin Bad
  BY <1>0, SmallestSet
<1>2. U \in SUBSET S /\ IsFiniteSet(U) /\ T \subseteq U /\ SumOver(f, U) # SumOver(f, T)
  BY FS_Subset DEF Bad
<1>3. PICK x \in U : x \notin T
  BY <1>2
<1>4. SumOver(f, U) = f[x] + SumOver(f, U \ {x})
  BY <1>2, SumTakesOut DEF Counts
<1>5. SumOver(f, U \ {x}) = SumOver(f, T) /\ f[x] = 0
  BY <1>1, <1>2, <1>3 DEF Bad
<1>6. SumOver(f, T) \in Nat
  BY FS_Subset, SumIsNat DEF Counts
<1> QED
  BY <1>2, <1>4, <1>5, <1>6

LEMMA SumOfOne ==
  ASSUME NEW f, NEW x, f[x] \in Nat
  PROVE  SumOver(f, {x}) = f[x]
<1>1. IsFiniteSet({x}) /\ Counts(f, {x}) /\ {x} \ {x} = {}
  BY FS_Singleton DEF Counts
<1>2. SumOver(f, {x}) = f[x] + SumOver(f, {x} \ {x})
  BY <1>1, SumTakesOut
<1> QED
  BY <1>1, <1>2, SumOfEmpty

\* A smaller set has no larger sum.
LEMMA SumGrows ==
  ASSUME NEW f, NEW S, IsFiniteSet(S), Counts(f, S), NEW T \in SUBSET S
  PROVE  SumOver(f, T) <= SumOver(f, S)
<1> DEFINE Bad == {U \in SUBSET S : T \subseteq U /\ ~(SumOver(f, T) <= SumOver(f, U))}
<1> SUFFICES ASSUME Bad # {} PROVE FALSE
  OBVIOUS
<1>0. Bad \in SUBSET SUBSET S
  OBVIOUS
<1> HIDE DEF Bad
<1>1. PICK U \in Bad : \A V \in SUBSET U : V # U => V \notin Bad
  BY <1>0, SmallestSet
<1>2. U \in SUBSET S /\ IsFiniteSet(U) /\ T \subseteq U /\ ~(SumOver(f, T) <= SumOver(f, U))
  BY FS_Subset DEF Bad
<1>3. SumOver(f, T) \in Nat
  BY FS_Subset, SumIsNat DEF Counts
<1>4. PICK x \in U : x \notin T
  BY <1>2, <1>3
<1>5. SumOver(f, U) = f[x] + SumOver(f, U \ {x})
  BY <1>2, SumTakesOut DEF Counts
<1>6. SumOver(f, T) <= SumOver(f, U \ {x}) /\ f[x] \in Nat
  BY <1>1, <1>2, <1>4 DEF Bad, Counts
<1>7. SumOver(f, U \ {x}) \in Nat
  BY <1>2, FS_Subset, SumIsNat DEF Counts
<1> QED
  BY <1>2, <1>3, <1>5, <1>6, <1>7

\* A change of one value changes the sum by as much.
LEMMA SumOfChanged ==
  ASSUME NEW f, NEW g, NEW S, IsFiniteSet(S), Counts(f, S), Counts(g, S),
         NEW x \in S, \A y \in S \ {x} : g[y] = f[y]
  PROVE  SumOver(g, S) + f[x] = SumOver(f, S) + g[x]
<1>1. SumOver(f, S) = f[x] + SumOver(f, S \ {x}) /\ SumOver(g, S) = g[x] + SumOver(g, S \ {x})
  BY SumTakesOut
<1>2. IsFiniteSet(S \ {x})
  BY FS_Subset
<1>3. SumOver(f, S \ {x}) = SumOver(g, S \ {x})
  BY <1>2, SumDependsOnValues
<1>4. SumOver(f, S \ {x}) \in Nat
  BY <1>2, SumIsNat DEF Counts
<1> QED
  BY <1>1, <1>3, <1>4 DEF Counts

\* Two sets that have no member in common.
LEMMA SumOfUnion ==
  ASSUME NEW f, NEW S, IsFiniteSet(S), NEW T, IsFiniteSet(T), S \cap T = {},
         Counts(f, S), Counts(f, T)
  PROVE  SumOver(f, S \cup T) = SumOver(f, S) + SumOver(f, T)
<1> DEFINE Bad == {U \in SUBSET T : SumOver(f, S \cup U) # SumOver(f, S) + SumOver(f, U)}
<1> SUFFICES ASSUME Bad # {} PROVE FALSE
  OBVIOUS
<1>0. Bad \in SUBSET SUBSET T
  OBVIOUS
<1> HIDE DEF Bad
<1>1. PICK U \in Bad : \A V \in SUBSET U : V # U => V \notin Bad
  BY <1>0, SmallestSet
<1>2. U \in SUBSET T /\ IsFiniteSet(U) /\ SumOver(f, S \cup U) # SumOver(f, S) + SumOver(f, U)
  BY FS_Subset DEF Bad
<1>3. SumOver(f, S) \in Nat
  BY SumIsNat
<1>4. PICK x \in U : TRUE
  <2>1. U # {}
    BY <1>2, <1>3, SumOfEmpty
  <2> QED
    BY <2>1
<1> DEFINE V == U \ {x}
<1>5. SumOver(f, U) = f[x] + SumOver(f, V) /\ Counts(f, V)
  BY <1>2, SumTakesOut DEF Counts
<1>6. SumOver(f, S \cup U) = f[x] + SumOver(f, S \cup V)
  <2>1. IsFiniteSet(S \cup U) /\ Counts(f, S \cup U) /\ x \in S \cup U
    BY <1>2, FS_Union DEF Counts
  <2>2. (S \cup U) \ {x} = S \cup V
    BY <1>2
  <2> QED
    BY <2>1, <2>2, SumTakesOut
<1>7. SumOver(f, S \cup V) = SumOver(f, S) + SumOver(f, V)
  BY <1>1, <1>2 DEF Bad
<1>8. SumOver(f, V) \in Nat /\ f[x] \in Nat
  BY <1>2, <1>5, FS_Subset, SumIsNat DEF Counts
<1> QED
  BY <1>2, <1>3, <1>5, <1>6, <1>7, <1>8

\* The members of T are those of S under other names.
Renames(h, S, T, f, g) ==
  /\ \A x \in S : h[x] \in T /\ g[x] \in Nat /\ f[h[x]] = g[x]
  /\ \A x, y \in S : h[x] = h[y] => x = y
  /\ \A y \in T : \E x \in S : h[x] = y

LEMMA SumOfRenamed ==
  ASSUME NEW S, IsFiniteSet(S), NEW T, NEW h, NEW f, NEW g, Renames(h, S, T, f, g)
  PROVE  SumOver(f, T) = SumOver(g, S)
<1> USE DEF Renames
<1> DEFINE Image(U) == {h[x] : x \in U}
           Bad == {U \in SUBSET S : ~(IsFiniteSet(Image(U)) /\ SumOver(f, Image(U)) = SumOver(g, U))}
<1> SUFFICES ASSUME Bad # {} PROVE FALSE
  BY Image(S) = T
<1>0. Bad \in SUBSET SUBSET S
  OBVIOUS
<1> HIDE DEF Bad
<1>1. PICK U \in Bad : \A V \in SUBSET U : V # U => V \notin Bad
  BY <1>0, SmallestSet
<1>2. /\ U \in SUBSET S /\ IsFiniteSet(U)
      /\ ~(IsFiniteSet(Image(U)) /\ SumOver(f, Image(U)) = SumOver(g, U))
  BY FS_Subset DEF Bad
<1>3. PICK x \in U : TRUE
  <2>1. Image({}) = {}
    OBVIOUS
  <2>2. U # {}
    BY <1>2, <2>1, SumOfEmpty, FS_EmptySet
  <2> QED
    BY <2>2
<1> DEFINE V == U \ {x}
<1>4. IsFiniteSet(Image(V)) /\ SumOver(f, Image(V)) = SumOver(g, V)
  BY <1>1, <1>2 DEF Bad
<1>5. Image(U) = Image(V) \cup {h[x]} /\ h[x] \notin Image(V) /\ Counts(f, Image(U))
  BY <1>2 DEF Counts
<1>6. SumOver(f, Image(U)) = SumOver(f, Image(V)) + f[h[x]]
  BY <1>4, <1>5, SumAddsOne
<1>7. SumOver(g, U) = g[x] + SumOver(g, V) /\ SumOver(g, V) \in Nat
  BY <1>2, FS_Subset, SumTakesOut, SumIsNat DEF Counts
<1>8. IsFiniteSet(Image(U))
  <2>1. IsFiniteSet(Image(V) \cup {h[x]})
    BY <1>4, FS_AddElement
  <2> QED
    BY <1>5, <2>1
<1>9. f[h[x]] = g[x] /\ g[x] \in Nat
  BY <1>2
<1> QED
  BY <1>2, <1>4, <1>6, <1>7, <1>8, <1>9
=============================================================================
