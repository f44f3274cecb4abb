----------------------------- MODULE Sums_proofs ----------------------------
(***************************************************************************)
(* What sums over finite sets do: how they are made up, change, compare    *)
(* and add.                                                                *)
(*                                                                         *)
(* The prover cannot instantiate an induction rule, but it can take a      *)
(* smallest counterexample: each proof begins with one.                    *)
(***************************************************************************)
EXTENDS Sums, Integers, FiniteSetTheorems, TLAPS

Chosen(s) == CHOOSE x \in s : TRUE
Sums(g, f, S) ==
  g = [s \in SUBSET S |-> IF s = {} THEN 0 ELSE f[Chosen(s)] + g[s \ {Chosen(s)}]]

LEMMA SumIsRecursive == \A f, S : SumOver(f, S) = (CHOOSE g : Sums(g, f, S))[S]
BY DEF SumOver, MapThenSumSet, MapThenFoldSet, Sums, Chosen

LEMMA ChosenType == \A s : s # {} => Chosen(s) \in s
BY DEF Chosen

LEMMA MinimalSet ==
  ASSUME NEW S, IsFiniteSet(S), NEW B \in SUBSET SUBSET S, B # {}
  PROVE  \E s \in B : \A t \in B : t \subseteq s => t = s
<1>1. IsWellFoundedOn(StrictSubsetOrdering(S), FiniteSubsetsOf(S))
  BY FS_StrictSubsetOrderingWellFounded
<1>2. FiniteSubsetsOf(S) = SUBSET S
  BY FS_FiniteSubsetsOfFinite
<1>3. \E s \in B : \A t \in B : ~(<<t, s>> \in StrictSubsetOrdering(S))
  BY <1>1, <1>2, WFMin
<1> QED BY <1>3 DEF StrictSubsetOrdering

LEMMA SumsUnique ==
  ASSUME NEW f, NEW S, IsFiniteSet(S), NEW T \in SUBSET S,
         NEW g, NEW h, Sums(g, f, S), Sums(h, f, T)
  PROVE  \A s \in SUBSET T : g[s] = h[s]
<1> DEFINE B == {s \in SUBSET T : g[s] # h[s]}
<1> SUFFICES ASSUME B # {} PROVE FALSE
  OBVIOUS
<1>1. IsFiniteSet(T) /\ B \in SUBSET SUBSET T
  BY FS_Subset
<1> HIDE DEF B
<1>2. PICK s \in B : \A t \in B : t \subseteq s => t = s
  BY <1>1, MinimalSet
<1> USE DEF B
<1>3. /\ g[s] = IF s = {} THEN 0 ELSE f[Chosen(s)] + g[s \ {Chosen(s)}]
      /\ h[s] = IF s = {} THEN 0 ELSE f[Chosen(s)] + h[s \ {Chosen(s)}]
  BY DEF Sums
<1>4. s # {}
  BY <1>3
<1>5. s \ {Chosen(s)} \notin B /\ s \ {Chosen(s)} \in SUBSET T
  BY <1>2, <1>4, ChosenType
<1> QED BY <1>3, <1>4, <1>5

LEMMA SumsExists ==
  ASSUME NEW f, NEW S, IsFiniteSet(S)
  PROVE  \E g : Sums(g, f, S)
<1> DEFINE B == {s \in SUBSET S : ~ \E g : Sums(g, f, s)}
<1> SUFFICES ASSUME B # {} PROVE FALSE
  OBVIOUS
<1>0. B \in SUBSET SUBSET S
  OBVIOUS
<1> HIDE DEF B
<1>1. PICK s \in B : \A t \in B : t \subseteq s => t = s
  BY <1>0, MinimalSet
<1> USE DEF B
<1> DEFINE F(t) == (CHOOSE g : Sums(g, f, t))
           Body(t) == IF t = {} THEN 0
                      ELSE f[Chosen(t)] + F(t \ {Chosen(t)})[t \ {Chosen(t)}]
           G == [t \in SUBSET s |-> Body(t)]
<1>2. ASSUME NEW t \in SUBSET s, t # s PROVE Sums(F(t), f, t) /\ IsFiniteSet(t)
  BY <1>1, <1>2, FS_Subset
<1> HIDE DEF F
<1>3. ASSUME NEW t \in SUBSET s, t # s PROVE F(t)[t] = Body(t)
  <2>1. CASE t = {}
    BY <1>2, <1>3, <2>1 DEF Sums
  <2>2. CASE t # {}
    <3> DEFINE u == t \ {Chosen(t)}
    <3>1. u \in SUBSET t /\ u \in SUBSET s /\ u # s
      BY <1>3
    <3>2. F(t)[t] = f[Chosen(t)] + F(t)[u]
      BY <1>2, <1>3, <2>2 DEF Sums
    <3>3. F(t)[u] = F(u)[u]
      BY <1>2, <1>3, <3>1, SumsUnique
    <3> QED BY <2>2, <3>2, <3>3
  <2> QED BY <2>1, <2>2
<1>4. ASSUME NEW t \in SUBSET s, t # {}
      PROVE G[t \ {Chosen(t)}] = F(t \ {Chosen(t)})[t \ {Chosen(t)}]
  <2>1. t \ {Chosen(t)} # s /\ t \ {Chosen(t)} \in SUBSET s
    BY <1>4, ChosenType
  <2> QED BY <1>3, <2>1
<1>5. Sums(G, f, s)
  BY <1>4 DEF Sums
<1> QED BY <1>5

LEMMA SumEmpty == \A f : SumOver(f, {}) = 0
<1> SUFFICES ASSUME NEW f PROVE SumOver(f, {}) = 0
  OBVIOUS
<1>1. \E g : Sums(g, f, {})
  BY SumsExists, FS_EmptySet
<1>2. PICK g : SumOver(f, {}) = g[{}] /\ Sums(g, f, {})
  BY <1>1, SumIsRecursive
<1> QED BY <1>2 DEF Sums

LEMMA SumChosen ==
  ASSUME NEW f, NEW S, IsFiniteSet(S), S # {}
  PROVE  SumOver(f, S) = f[Chosen(S)] + SumOver(f, S \ {Chosen(S)})
<1> DEFINE T == S \ {Chosen(S)}
<1>1. IsFiniteSet(T) /\ T \in SUBSET S
  BY FS_Subset
<1>2. PICK g : SumOver(f, S) = g[S] /\ Sums(g, f, S)
  BY SumsExists, SumIsRecursive
<1>3. PICK h : SumOver(f, T) = h[T] /\ Sums(h, f, T)
  BY <1>1, SumsExists, SumIsRecursive
<1>4. g[T] = h[T]
  BY <1>1, <1>2, <1>3, SumsUnique
<1>5. g[S] = f[Chosen(S)] + g[T]
  BY <1>2 DEF Sums
<1> QED BY <1>2, <1>3, <1>4, <1>5

LEMMA SumNat ==
  ASSUME NEW S, IsFiniteSet(S), NEW f, \A x \in S : f[x] \in Nat
  PROVE  SumOver(f, S) \in Nat
<1> DEFINE B == {s \in SUBSET S : SumOver(f, s) \notin Nat}
<1> SUFFICES ASSUME B # {} PROVE FALSE
  OBVIOUS
<1>1. B \in SUBSET SUBSET S
  OBVIOUS
<1> HIDE DEF B
<1>2. PICK s \in B : \A t \in B : t \subseteq s => t = s
  BY <1>1, MinimalSet
<1> USE DEF B
<1>3. s # {} /\ IsFiniteSet(s)
  <2>1. s # {}
    BY SumEmpty
  <2> QED BY <2>1, FS_Subset
<1>4. SumOver(f, s) = f[Chosen(s)] + SumOver(f, s \ {Chosen(s)})
  BY <1>3, SumChosen
<1>5. Chosen(s) \in s /\ s \ {Chosen(s)} \notin B
  BY <1>2, <1>3, ChosenType
<1> QED BY <1>4, <1>5

LEMMA SumTakeOut ==
  ASSUME NEW S, IsFiniteSet(S), NEW f, \A x \in S : f[x] \in Nat, NEW x \in S
  PROVE  SumOver(f, S) = f[x] + SumOver(f, S \ {x})
<1> DEFINE B == {s \in SUBSET S : \E y \in s : SumOver(f, s) # f[y] + SumOver(f, s \ {y})}
<1> SUFFICES ASSUME B # {} PROVE FALSE
  OBVIOUS
<1>1. B \in SUBSET SUBSET S
  OBVIOUS
<1> HIDE DEF B
<1>2. PICK s \in B : \A t \in B : t \subseteq s => t = s
  BY <1>1, MinimalSet
<1> USE DEF B
<1>3. PICK y \in s : SumOver(f, s) # f[y] + SumOver(f, s \ {y})
  OBVIOUS
<1> DEFINE z == Chosen(s)
           r == (s \ {y}) \ {z}
<1>4. /\ IsFiniteSet(s) /\ IsFiniteSet(s \ {y}) /\ IsFiniteSet(s \ {z}) /\ IsFiniteSet(r)
      /\ z \in s
  BY FS_Subset, ChosenType
<1>5. SumOver(f, s) = f[z] + SumOver(f, s \ {z})
  BY <1>4, SumChosen
<1> HIDE DEF z
<1>6. y # z
  BY <1>3, <1>5
<1>7. s \ {z} \notin B /\ s \ {y} \notin B
  BY <1>2, <1>4
<1>8. SumOver(f, s \ {z}) = f[y] + SumOver(f, r)
  <2>1. (s \ {z}) \ {y} = r
    OBVIOUS
  <2> QED BY <1>6, <1>7, <2>1
<1>9. SumOver(f, s \ {y}) = f[z] + SumOver(f, r)
  BY <1>4, <1>6, <1>7
<1>10. SumOver(f, r) \in Nat /\ f[y] \in Nat /\ f[z] \in Nat
  BY <1>4, SumNat
<1> QED BY <1>3, <1>5, <1>8, <1>9, <1>10

LEMMA SumEqual ==
  ASSUME NEW S, IsFiniteSet(S), NEW f, NEW g, \A x \in S : f[x] = g[x]
  PROVE  SumOver(f, S) = SumOver(g, S)
<1> DEFINE B == {s \in SUBSET S : SumOver(f, s) # SumOver(g, s)}
<1> SUFFICES ASSUME B # {} PROVE FALSE
  OBVIOUS
<1>1. B \in SUBSET SUBSET S
  OBVIOUS
<1> HIDE DEF B
<1>2. PICK s \in B : \A t \in B : t \subseteq s => t = s
  BY <1>1, MinimalSet
<1> USE DEF B
<1>3. s # {} /\ IsFiniteSet(s)
  <2>1. s # {}
    BY SumEmpty
  <2> QED BY <2>1, FS_Subset
<1>4. /\ SumOver(f, s) = f[Chosen(s)] + SumOver(f, s \ {Chosen(s)})
      /\ SumOver(g, s) = g[Chosen(s)] + SumOver(g, s \ {Chosen(s)})
  BY <1>3, SumChosen
<1>5. Chosen(s) \in s /\ s \ {Chosen(s)} \notin B
  BY <1>2, <1>3, ChosenType
<1> QED BY <1>4, <1>5

LEMMA SumUpdate ==
  ASSUME NEW S, IsFiniteSet(S), NEW f, NEW g, NEW x \in S,
         \A y \in S : f[y] \in Nat /\ g[y] \in Nat,
         \A y \in S \ {x} : f[y] = g[y]
  PROVE  SumOver(g, S) + f[x] = SumOver(f, S) + g[x]
<1>1. IsFiniteSet(S \ {x})
  BY FS_Subset
<1>2. SumOver(f, S \ {x}) = SumOver(g, S \ {x})
  BY <1>1, SumEqual
<1>3. /\ SumOver(f, S) = f[x] + SumOver(f, S \ {x})
      /\ SumOver(g, S) = g[x] + SumOver(g, S \ {x})
  BY SumTakeOut
<1>4. SumOver(f, S \ {x}) \in Nat
  BY <1>1, SumNat
<1> QED BY <1>2, <1>3, <1>4

LEMMA SumAtMost ==
  ASSUME NEW S, IsFiniteSet(S), NEW f, NEW g,
         \A x \in S : f[x] \in Nat /\ g[x] \in Nat /\ f[x] <= g[x]
  PROVE  SumOver(f, S) <= SumOver(g, S)
<1> DEFINE B == {s \in SUBSET S : ~(SumOver(f, s) <= SumOver(g, s))}
<1> SUFFICES ASSUME B # {} PROVE FALSE
  OBVIOUS
<1>1. B \in SUBSET SUBSET S
  OBVIOUS
<1> HIDE DEF B
<1>2. PICK s \in B : \A t \in B : t \subseteq s => t = s
  BY <1>1, MinimalSet
<1> USE DEF B
<1>3. s # {} /\ IsFiniteSet(s)
  <2>1. s # {}
    BY SumEmpty
  <2> QED BY <2>1, FS_Subset
<1> DEFINE y == Chosen(s)
           r == s \ {y}
<1>4. /\ SumOver(f, s) = f[y] + SumOver(f, r)
      /\ SumOver(g, s) = g[y] + SumOver(g, r)
  BY <1>3, SumChosen
<1>5. y \in s /\ r \notin B /\ IsFiniteSet(r) /\ r \subseteq S
  BY <1>2, <1>3, ChosenType, FS_Subset
<1>6. SumOver(f, r) \in Nat /\ SumOver(g, r) \in Nat
  BY <1>5, SumNat
<1> HIDE DEF y, r
<1>7. f[y] <= g[y] /\ f[y] \in Nat /\ g[y] \in Nat /\ SumOver(f, r) <= SumOver(g, r)
  BY <1>5
<1> QED BY <1>4, <1>6, <1>7

LEMMA SumOfSums ==
  ASSUME NEW S, IsFiniteSet(S), NEW f, NEW g, NEW h,
         \A x \in S : f[x] \in Nat /\ g[x] \in Nat /\ h[x] = f[x] + g[x]
  PROVE  SumOver(h, S) = SumOver(f, S) + SumOver(g, S)
<1> DEFINE B == {s \in SUBSET S : SumOver(h, s) # SumOver(f, s) + SumOver(g, s)}
<1> SUFFICES ASSUME B # {} PROVE FALSE
  OBVIOUS
<1>1. B \in SUBSET SUBSET S
  OBVIOUS
<1> HIDE DEF B
<1>2. PICK s \in B : \A t \in B : t \subseteq s => t = s
  BY <1>1, MinimalSet
<1> USE DEF B
<1>3. s # {} /\ IsFiniteSet(s)
  <2>1. s # {}
    BY SumEmpty
  <2> QED BY <2>1, FS_Subset
<1> DEFINE y == Chosen(s)
           r == s \ {y}
<1>4. /\ SumOver(f, s) = f[y] + SumOver(f, r)
      /\ SumOver(g, s) = g[y] + SumOver(g, r)
      /\ SumOver(h, s) = h[y] + SumOver(h, r)
  BY <1>3, SumChosen
<1>5. y \in s /\ r \notin B /\ IsFiniteSet(r) /\ r \subseteq S
  BY <1>2, <1>3, ChosenType, FS_Subset
<1>6. SumOver(f, r) \in Nat /\ SumOver(g, r) \in Nat
  BY <1>5, SumNat
<1> HIDE DEF y, r
<1>7. /\ f[y] \in Nat /\ g[y] \in Nat /\ h[y] = f[y] + g[y]
      /\ SumOver(h, r) = SumOver(f, r) + SumOver(g, r)
  BY <1>5
<1> QED BY <1>3, <1>4, <1>6, <1>7

LEMMA SumZero ==
  ASSUME NEW S, IsFiniteSet(S), NEW f, \A x \in S : f[x] = 0
  PROVE  SumOver(f, S) = 0
<1> DEFINE B == {s \in SUBSET S : SumOver(f, s) # 0}
<1> SUFFICES ASSUME B # {} PROVE FALSE
  OBVIOUS
<1>1. B \in SUBSET SUBSET S
  OBVIOUS
<1> HIDE DEF B
<1>2. PICK s \in B : \A t \in B : t \subseteq s => t = s
  BY <1>1, MinimalSet
<1> USE DEF B
<1>3. s # {} /\ IsFiniteSet(s)
  <2>1. s # {}
    BY SumEmpty
  <2> QED BY <2>1, FS_Subset
<1>4. SumOver(f, s) = f[Chosen(s)] + SumOver(f, s \ {Chosen(s)})
  BY <1>3, SumChosen
<1>5. Chosen(s) \in s /\ s \ {Chosen(s)} \notin B
  BY <1>2, <1>3, ChosenType
<1> QED BY <1>4, <1>5

LEMMA SumOne ==
  ASSUME NEW S, IsFiniteSet(S), NEW f, NEW y \in S, f[y] \in Nat,
         \A x \in S \ {y} : f[x] = 0
  PROVE  SumOver(f, S) = f[y]
<1>1. IsFiniteSet(S \ {y}) /\ \A x \in S : f[x] \in Nat
  BY FS_Subset
<1>2. SumOver(f, S \ {y}) = 0
  BY <1>1, SumZero
<1> QED BY <1>1, <1>2, SumTakeOut

LEMMA SumOnes ==
  ASSUME NEW S, IsFiniteSet(S), NEW f, \A x \in S : f[x] = 1
  PROVE  SumOver(f, S) = Cardinality(S)
<1> DEFINE B == {s \in SUBSET S : SumOver(f, s) # Cardinality(s)}
<1> SUFFICES ASSUME B # {} PROVE FALSE
  OBVIOUS
<1>1. B \in SUBSET SUBSET S
  OBVIOUS
<1> HIDE DEF B
<1>2. PICK s \in B : \A t \in B : t \subseteq s => t = s
  BY <1>1, MinimalSet
<1> USE DEF B
<1>3. s # {} /\ IsFiniteSet(s)
  <2>1. s # {}
    BY SumEmpty, FS_EmptySet
  <2> QED BY <2>1, FS_Subset
<1> DEFINE y == Chosen(s)
           r == s \ {y}
<1>4. SumOver(f, s) = f[y] + SumOver(f, r)
  BY <1>3, SumChosen
<1>5. y \in s /\ r \notin B /\ r \subseteq S
  BY <1>2, <1>3, ChosenType
<1> HIDE DEF y
<1>6. Cardinality(r) = Cardinality(s) - 1 /\ Cardinality(s) \in Nat
  BY <1>3, <1>5, FS_RemoveElement, FS_CardinalityType
<1> QED BY <1>4, <1>5, <1>6

LEMMA SumImage ==
  ASSUME NEW S, IsFiniteSet(S), NEW f, NEW g, NEW h, NEW T,
         \A x \in S : h[x] \in T /\ g[h[x]] \in Nat /\ f[x] = g[h[x]],
         \A x, y \in S : h[x] = h[y] => x = y,
         \A y \in T : \E x \in S : y = h[x]
  PROVE  SumOver(f, S) = SumOver(g, T)
<1> DEFINE Im(s) == {h[x] : x \in s}
           B == {s \in SUBSET S : SumOver(f, s) # SumOver(g, Im(s))}
<1>0. Im(S) = T
  OBVIOUS
<1> SUFFICES ASSUME B # {} PROVE FALSE
  BY <1>0
<1>1. B \in SUBSET SUBSET S
  OBVIOUS
<1> HIDE DEF B
<1>2. PICK s \in B : \A t \in B : t \subseteq s => t = s
  BY <1>1, MinimalSet
<1> USE DEF B
<1>3. s # {} /\ IsFiniteSet(s)
  <2>1. s # {}
    BY SMTT(30), SumEmpty
  <2> QED BY <2>1, FS_Subset
<1> DEFINE y == Chosen(s)
           r == s \ {y}
<1>4. SumOver(f, s) = f[y] + SumOver(f, r)
  BY <1>3, SumChosen
<1>5. y \in s /\ r \notin B /\ r \subseteq S
  BY <1>2, <1>3, ChosenType
<1> HIDE DEF y
<1>6. IsFiniteSet(Im(s))
  <2>1. [x \in s |-> h[x]] \in Surjection(s, Im(s))
    BY DEF Surjection
  <2> QED BY <1>3, <2>1, FS_Surjection
<1>7. Im(s) \ {h[y]} = Im(r)
  BY <1>5
<1>8. SumOver(g, Im(s)) = g[h[y]] + SumOver(g, Im(r))
  BY <1>5, <1>6, <1>7, SumTakeOut
<1> QED BY <1>4, <1>5, <1>8

LEMMA UpToFinite == \A n \in Nat : IsFiniteSet(1..n)
<1> SUFFICES ASSUME NEW n \in Nat PROVE IsFiniteSet(1..n)
  OBVIOUS
<1>1. 1 \in Int /\ n \in Int
  OBVIOUS
<1> QED BY ONLY <1>1, FS_Interval
=============================================================================
