--------------------------- MODULE CountingLemmas ---------------------------
(***************************************************************************)
(* Documents are numbered in the order they are created, so that "the      *)
(* newest" is the greatest number and "the next" the one above it; amounts *)
(* and nights are added up over finite sets.  The library has no facts     *)
(* about Max and MapThenSumSet; these are the ones the proofs use.         *)
(***************************************************************************)
EXTENDS Naturals, FiniteSetsExt, WellFoundedInduction, FiniteSetTheorems,
        TLAPS

-----------------------------------------------------------------------------
(* Least and greatest                                                      *)

\* A nonempty set of naturals has a least element.
LEMMA LeastNatural ==
    ASSUME NEW S, S \subseteq Nat, S # {}
    PROVE  \E m \in S : \A y \in S : m <= y
PROOF
<1> DEFINE R == OpToRel(<, Nat)
<1>1. IsWellFoundedOn(R, Nat)
  BY NatLessThanWellFounded
<1>2. \A x, y \in Nat : y < x => <<y, x>> \in R
  BY DEF OpToRel
<1> HIDE DEF R
<1>3. PICK m \in S : \A y \in S : ~(<<y, m>> \in R)
  BY <1>1, WFMin
<1>4. ASSUME NEW y \in S PROVE m <= y
  <2>1. m \in Nat /\ y \in Nat
    OBVIOUS
  <2>2. ~(y < m)
    BY <1>2, <1>3, <2>1
  <2>. QED BY <2>1, <2>2
<1>. QED BY <1>4

\* Max is in the set and bounds it.
LEMMA MaxIn ==
    ASSUME NEW S, NEW N \in Nat, S \subseteq 0..N, S # {}
    PROVE  Max(S) \in S /\ \A y \in S : y <= Max(S)
PROOF
<1> DEFINE T == {N - x : x \in S}
<1>0. \A x \in S : x \in Nat /\ x <= N
  OBVIOUS
<1>1. T \subseteq Nat /\ T # {}
  <2>1. \A x \in S : N - x \in Nat
    BY <1>0
  <2>. QED BY <2>1, Zenon
<1>2. PICK m \in T : \A y \in T : m <= y
  BY <1>1, LeastNatural
<1>3. PICK x \in S : m = N - x
  OBVIOUS
<1>4. ASSUME NEW y \in S PROVE x >= y
  <2>1. m <= N - y
    BY <1>2
  <2>. QED BY <1>0, <1>3, <2>1
<1>5. \E z \in S : \A y \in S : z >= y
  BY <1>4
<1>6. Max(S) \in S /\ \A y \in S : Max(S) >= y
  BY <1>5, Zenon DEF Max
<1>7. ASSUME NEW y \in S PROVE y <= Max(S)
  <2>1. Max(S) \in Nat /\ y \in Nat /\ Max(S) >= y
    BY <1>0, <1>6
  <2>. QED BY <2>1
<1>. QED BY <1>6, <1>7

\* The greatest of an empty or nonempty set of numbers, zero if empty.
LEMMA MaxOrZero ==
    ASSUME NEW S, NEW N \in Nat, S \subseteq 1..N
    PROVE  /\ Max(S \cup {0}) \in S \cup {0}
           /\ S # {} => Max(S \cup {0}) \in S
           /\ \A y \in S : y <= Max(S \cup {0})
PROOF
<1> DEFINE m == Max(S \cup {0})
<1>1. S \cup {0} \subseteq 0..N
  OBVIOUS
<1>2. m \in S \cup {0} /\ \A y \in S \cup {0} : y <= m
  BY <1>1, MaxIn
<1>. HIDE DEF m
<1>3. ASSUME S # {} PROVE m \in S
  <2>1. PICK y \in S : TRUE
    BY <1>3
  <2>2. y >= 1 /\ y <= m
    BY <1>2
  <2>. QED BY <1>2, <2>2
<1>. QED BY <1>2, <1>3 DEF m

-----------------------------------------------------------------------------
(* Sums                                                                    *)

\* What is wrong for some subset of a finite set is wrong for one all of
\* whose smaller ones are right.
LEMMA SmallestSet ==
    ASSUME NEW T, IsFiniteSet(T), NEW B, B \subseteq SUBSET T, B # {}
    PROVE  \E s \in B : IsFiniteSet(s) /\ \A x \in s : s \ {x} \notin B
PROOF
<1> DEFINE S == {Cardinality(s) : s \in B}
<1>1. \A s \in B : IsFiniteSet(s) /\ Cardinality(s) \in Nat
  BY FS_Subset, FS_CardinalityType
<1>2. S \subseteq Nat /\ S # {}
  BY <1>1
<1>3. PICK m \in S : \A y \in S : m <= y
  BY <1>2, LeastNatural
<1>4. PICK s \in B : m = Cardinality(s)
  OBVIOUS
<1>5. ASSUME NEW x \in s, s \ {x} \in B PROVE FALSE
  <2>1. Cardinality(s \ {x}) = Cardinality(s) - 1
    BY <1>1, FS_RemoveElement
  <2>2. Cardinality(s) <= Cardinality(s \ {x})
    BY <1>3, <1>4, <1>5
  <2>. QED BY <1>1, <2>1, <2>2
<1>. QED BY <1>1, <1>5

\* F adds g up over every set in D, an element at a time.
Adds(D, g, F) ==
    F = [s \in D |-> IF s = {} THEN 0
                     ELSE LET x == CHOOSE x \in s : TRUE
                          IN  g[x] + F[s \ {x}]]

SumOf(S, g) == (CHOOSE F : Adds(SUBSET S, g, F))[S]

\* There are such sums for the sets of any size,
LEMMA SumsUpTo ==
    ASSUME NEW T, IsFiniteSet(T), NEW g, NEW n \in Nat
    PROVE  \E F : Adds({s \in SUBSET T : Cardinality(s) <= n}, g, F)
PROOF
<1> DEFINE D(k) == {s \in SUBSET T : Cardinality(s) <= k}
           Bad == {k \in Nat : ~\E F : Adds(D(k), g, F)}
<1>1. SUFFICES ASSUME Bad # {} PROVE FALSE
  OBVIOUS
<1>2. PICK m \in Bad : \A k \in Bad : m <= k
  BY <1>1, LeastNatural
<1>3. \A s \in SUBSET T : /\ IsFiniteSet(s) /\ Cardinality(s) \in Nat
                          /\ Cardinality(s) = 0 => s = {}
  BY FS_Subset, FS_CardinalityType, FS_EmptySet
<1>4. CASE m = 0
  <2>. DEFINE F == [s \in D(m) |-> 0]
  <2>1. \A s \in D(m) : s = {}
    BY <1>3, <1>4
  <2>2. Adds(D(m), g, F)
    BY <2>1 DEF Adds
  <2>. QED BY <2>2
<1>5. CASE m # 0
  <2>1. m \in Nat /\ m - 1 \in Nat
    BY <1>2, <1>5
  <2>2. \E F : Adds(D(m - 1), g, F)
    <3>1. m - 1 \notin Bad
      <4>1. \A k \in Bad : m <= k
        BY <1>2
      <4>. HIDE DEF Bad
      <4>. QED BY <2>1, <4>1
    <3>. HIDE DEF D
    <3>. QED BY <2>1, <3>1
  <2>3. PICK F : Adds(D(m - 1), g, F)
    BY <2>2
  <2>. DEFINE G == [s \in D(m) |-> IF s = {} THEN 0
                                   ELSE LET x == CHOOSE x \in s : TRUE
                                        IN  g[x] + F[s \ {x}]]
  <2>4. D(m - 1) \subseteq D(m)
    BY <1>3, <2>1
  <2>5. \A s \in D(m) : \A x \in s : s \ {x} \in D(m - 1)
    <3>1. ASSUME NEW s \in SUBSET T, Cardinality(s) <= m, NEW x \in s
          PROVE  Cardinality(s \ {x}) <= m - 1
      <4>1. Cardinality(s \ {x}) = Cardinality(s) - 1
        BY <1>3, FS_RemoveElement
      <4>. QED BY <1>3, <2>1, <3>1, <4>1
    <3>. QED BY <3>1
  <2>. HIDE DEF D
  <2>6. \A s \in D(m - 1) : F[s] = G[s]
    BY <2>3, <2>4 DEF Adds
  <2>7. \A s \in D(m) : s # {} => (CHOOSE x \in s : TRUE) \in s
    OBVIOUS
  <2>8. \A s \in D(m) :
           G[s] = IF s = {} THEN 0
                  ELSE LET x == CHOOSE x \in s : TRUE
                       IN  g[x] + G[s \ {x}]
    <3>1. ASSUME NEW s \in D(m), s # {}
          PROVE  LET x == CHOOSE x \in s : TRUE
                 IN  G[s] = g[x] + G[s \ {x}]
      <4>. DEFINE x == CHOOSE x \in s : TRUE
      <4>1. G[s] = g[x] + F[s \ {x}]
        BY <3>1
      <4>2. x \in s
        BY <2>7, <3>1
      <4>. HIDE DEF x, G
      <4>3. F[s \ {x}] = G[s \ {x}]
        BY <2>5, <2>6, <4>2
      <4>. QED BY <4>1, <4>3 DEF x
    <3>. QED BY <3>1
  <2>9. G = [s \in D(m) |-> G[s]]
    OBVIOUS
  <2>. HIDE DEF G
  <2>10. Adds(D(m), g, G)
    BY <2>8, <2>9 DEF Adds
  <2>. HIDE DEF Bad
  <2>11. m \notin Bad
    BY <2>1, <2>10 DEF Bad
  <2>. QED BY <1>2, <2>11
<1>. QED BY <1>4, <1>5

\* so that the fold adds up.
LEMMA SumsExist ==
    ASSUME NEW T, IsFiniteSet(T), NEW g
    PROVE  Adds(SUBSET T, g, CHOOSE F : Adds(SUBSET T, g, F))
PROOF
<1>1. {s \in SUBSET T : Cardinality(s) <= Cardinality(T)} = SUBSET T
  BY FS_Subset
<1>2. Cardinality(T) \in Nat
  BY FS_CardinalityType
<1>3. \E F : Adds(SUBSET T, g, F)
  <2>1. \E F : Adds({s \in SUBSET T : Cardinality(s) <= Cardinality(T)}, g, F)
    BY <1>2, SumsUpTo
  <2>. QED BY <1>1, <2>1, Zenon
<1>. QED BY <1>3

LEMMA AddsAt ==
    ASSUME NEW D, NEW g, NEW F, Adds(D, g, F), NEW s \in D, s # {}
    PROVE  \E x \in s : F[s] = g[x] + F[s \ {x}]
PROOF
<1>1. (CHOOSE x \in s : TRUE) \in s
  OBVIOUS
<1>. QED BY <1>1 DEF Adds

\* The sum does not depend on the set it is a part of.
LEMMA SumsAgree ==
    ASSUME NEW T, IsFiniteSet(T), NEW U, U \subseteq T,
           NEW g, NEW h, NEW F, NEW G,
           Adds(SUBSET T, g, F), Adds(SUBSET U, h, G),
           \A x \in U : g[x] = h[x]
    PROVE  \A s \in SUBSET U : F[s] = G[s]
PROOF
<1> DEFINE B == {s \in SUBSET U : F[s] # G[s]}
<1>1. SUFFICES ASSUME B # {} PROVE FALSE
  OBVIOUS
<1>2. B \subseteq SUBSET T
  OBVIOUS
<1>3. PICK s \in B : \A x \in s : s \ {x} \notin B
  BY <1>1, <1>2, SmallestSet
<1>4. CASE s = {}
  BY <1>4 DEF Adds
<1>5. CASE s # {}
  <2>. DEFINE x == CHOOSE x \in s : TRUE
  <2>1. x \in s
    BY <1>5
  <2>2. F[s] = g[x] + F[s \ {x}] /\ G[s] = h[x] + G[s \ {x}]
    BY <1>5 DEF Adds
  <2>. HIDE DEF x
  <2>3. F[s \ {x}] = G[s \ {x}] /\ g[x] = h[x]
    BY <1>3, <2>1
  <2>. QED BY <2>2, <2>3
<1>. QED BY <1>4, <1>5

LEMMA SumsWithin ==
    ASSUME NEW T, IsFiniteSet(T), NEW U, U \subseteq T,
           NEW g, NEW F, NEW G,
           Adds(SUBSET T, g, F), Adds(SUBSET U, g, G),
           NEW s \in SUBSET U
    PROVE  F[s] = G[s]
PROOF
BY SumsAgree

LEMMA SumsNat ==
    ASSUME NEW T, IsFiniteSet(T), NEW g, \A x \in T : g[x] \in Nat,
           NEW F, Adds(SUBSET T, g, F)
    PROVE  \A s \in SUBSET T : F[s] \in Nat
PROOF
<1> DEFINE B == {s \in SUBSET T : F[s] \notin Nat}
<1>1. SUFFICES ASSUME B # {} PROVE FALSE
  OBVIOUS
<1>2. PICK s \in B : \A x \in s : s \ {x} \notin B
  BY <1>1, SmallestSet
<1>3. CASE s = {}
  BY <1>3 DEF Adds
<1>4. CASE s # {}
  <2>1. PICK x \in s : F[s] = g[x] + F[s \ {x}]
    BY <1>4, AddsAt
  <2>2. F[s \ {x}] \in Nat /\ g[x] \in Nat
    BY <1>2
  <2>. QED BY <2>1, <2>2
<1>. QED BY <1>3, <1>4

\* Any element may be added last.
LEMMA SumsLast ==
    ASSUME NEW T, IsFiniteSet(T), NEW g, \A x \in T : g[x] \in Nat,
           NEW F, Adds(SUBSET T, g, F)
    PROVE  \A s \in SUBSET T : \A x \in s : F[s] = g[x] + F[s \ {x}]
PROOF
<1> DEFINE B == {s \in SUBSET T : \E x \in s : F[s] # g[x] + F[s \ {x}]}
<1>1. SUFFICES ASSUME B # {} PROVE FALSE
  OBVIOUS
<1>2. PICK s \in B : \A x \in s : s \ {x} \notin B
  BY <1>1, SmallestSet
<1>3. PICK x \in s : F[s] # g[x] + F[s \ {x}]
  OBVIOUS
<1>4. PICK y \in s : F[s] = g[y] + F[s \ {y}]
  BY <1>3, AddsAt
<1>5. x # y
  BY <1>3, <1>4
<1>6. F[s \ {y}] = g[x] + F[(s \ {y}) \ {x}]
  BY <1>2, <1>5
<1>7. F[s \ {x}] = g[y] + F[(s \ {x}) \ {y}]
  BY <1>2, <1>5
<1>8. (s \ {y}) \ {x} = (s \ {x}) \ {y}
  OBVIOUS
<1>9. /\ F[(s \ {x}) \ {y}] \in Nat /\ g[x] \in Nat /\ g[y] \in Nat
  BY SumsNat
<1>10. F[s] = g[y] + (g[x] + F[(s \ {x}) \ {y}])
  BY <1>4, <1>6, <1>8
<1>. HIDE DEF B
<1>. QED BY <1>3, <1>7, <1>9, <1>10

\* The sum over the empty set,
LEMMA SumEmpty ==
    ASSUME NEW g
    PROVE  SumOf({}, g) = 0
PROOF
BY SumsExist, FS_EmptySet DEF SumOf, Adds

\* its type,
LEMMA SumNat ==
    ASSUME NEW S, IsFiniteSet(S), NEW g, \A x \in S : g[x] \in Nat
    PROVE  SumOf(S, g) \in Nat
PROOF
BY SumsExist, SumsNat DEF SumOf

\* what it depends on,
LEMMA SumSame ==
    ASSUME NEW S, IsFiniteSet(S), NEW g, NEW h, \A x \in S : g[x] = h[x]
    PROVE  SumOf(S, g) = SumOf(S, h)
PROOF
<1> DEFINE F == CHOOSE F : Adds(SUBSET S, g, F)
           G == CHOOSE G : Adds(SUBSET S, h, G)
<1>1. Adds(SUBSET S, g, F) /\ Adds(SUBSET S, h, G)
  BY SumsExist
<1>2. SumOf(S, g) = F[S] /\ SumOf(S, h) = G[S]
  BY DEF SumOf
<1>. HIDE DEF F, G
<1>3. S \subseteq S
  OBVIOUS
<1>4. ASSUME NEW s \in SUBSET S PROVE F[s] = G[s]
  BY <1>1, <1>3, SumsAgree
<1>. QED BY <1>2, <1>3, <1>4

\* and how an element adds to it.
LEMMA SumRemove ==
    ASSUME NEW S, IsFiniteSet(S), NEW g, \A x \in S : g[x] \in Nat,
           NEW x \in S
    PROVE  SumOf(S, g) = SumOf(S \ {x}, g) + g[x]
PROOF
<1> DEFINE F == CHOOSE F : Adds(SUBSET S, g, F)
           U == S \ {x}
           G == CHOOSE G : Adds(SUBSET U, g, G)
<1>1. Adds(SUBSET S, g, F) /\ Adds(SUBSET U, g, G)
  BY SumsExist, FS_Subset
<1>2. SumOf(S, g) = F[S] /\ SumOf(U, g) = G[U]
  BY DEF SumOf
<1>. HIDE DEF F, G
<1>3. F[S] = g[x] + F[U]
  BY <1>1, SumsLast
<1>4. F[U] = G[U]
  <2>1. PICK V : V = U
    OBVIOUS
  <2>2. IsFiniteSet(S) /\ V \subseteq S /\ V \in SUBSET V
    BY <2>1
  <2>3. Adds(SUBSET S, g, F) /\ Adds(SUBSET V, g, G)
    BY <1>1, <2>1
  <2>4. F[V] = G[V]
    BY <2>2, <2>3, SumsWithin, SMTT(60)
  <2>. QED BY <2>1, <2>4
<1>5. F[U] \in Nat /\ g[x] \in Nat
  BY <1>1, SumsNat
<1>. QED BY <1>2, <1>3, <1>4, <1>5

LEMMA SumAdd ==
    ASSUME NEW S, IsFiniteSet(S), NEW g, NEW x, x \notin S,
           \A y \in S \cup {x} : g[y] \in Nat
    PROVE  SumOf(S \cup {x}, g) = SumOf(S, g) + g[x]
PROOF
<1>1. IsFiniteSet(S \cup {x}) /\ (S \cup {x}) \ {x} = S
  BY FS_AddElement
<1>. QED BY <1>1, SumRemove

\* A part is not more than the whole.
LEMMA SumPart ==
    ASSUME NEW S, IsFiniteSet(S), NEW g, \A x \in S : g[x] \in Nat,
           NEW U \in SUBSET S
    PROVE  SumOf(U, g) <= SumOf(S, g)
PROOF
<1> DEFINE B == {s \in SUBSET S : U \subseteq s /\ ~(SumOf(U, g) <= SumOf(s, g))}
<1>1. SUFFICES ASSUME B # {} PROVE FALSE
  OBVIOUS
<1>2. PICK s \in B : IsFiniteSet(s) /\ \A x \in s : s \ {x} \notin B
  <2>1. B \subseteq SUBSET S
    OBVIOUS
  <2>. HIDE DEF B
  <2>. QED BY <1>1, <2>1, SmallestSet
<1>3. SumOf(U, g) \in Nat /\ SumOf(s, g) \in Nat
  BY <1>2, SumNat, FS_Subset
<1>4. CASE s = U
  BY <1>3, <1>4
<1>5. CASE s # U
  <2>1. PICK x \in s : x \notin U
    BY <1>5
  <2>2. SumOf(U, g) <= SumOf(s \ {x}, g)
    BY <1>2, <2>1
  <2>3. SumOf(s, g) = SumOf(s \ {x}, g) + g[x]
    BY <1>2, SumRemove
  <2>4. SumOf(s \ {x}, g) \in Nat /\ g[x] \in Nat
    BY <1>2, SumNat, FS_Subset
  <2>. QED BY <1>3, <2>2, <2>3, <2>4
<1>. QED BY <1>4, <1>5

-----------------------------------------------------------------------------
(* Sums of sums                                                            *)

LEMMA SumPlus ==
    ASSUME NEW S, IsFiniteSet(S), NEW f, NEW g, NEW h,
           \A x \in S : f[x] \in Nat /\ g[x] \in Nat /\ h[x] = f[x] + g[x]
    PROVE  SumOf(S, h) = SumOf(S, f) + SumOf(S, g)
PROOF
<1> DEFINE B == {s \in SUBSET S : SumOf(s, h) # SumOf(s, f) + SumOf(s, g)}
<1>1. SUFFICES ASSUME B # {} PROVE FALSE
  OBVIOUS
<1>2. PICK s \in B : IsFiniteSet(s) /\ \A x \in s : s \ {x} \notin B
  <2>1. B \subseteq SUBSET S
    OBVIOUS
  <2>. HIDE DEF B
  <2>. QED BY <1>1, <2>1, SmallestSet
<1>3. CASE s = {}
  BY <1>3, SumEmpty
<1>4. CASE s # {}
  <2>1. PICK x : x \in s
    BY <1>4
  <2>2. PICK r : r = s \ {x}
    OBVIOUS
  <2>3. SumOf(r, h) = SumOf(r, f) + SumOf(r, g)
    BY <1>2, <2>1, <2>2
  <2>4. \A y \in s : f[y] \in Nat /\ g[y] \in Nat /\ h[y] \in Nat
    OBVIOUS
  <2>5. /\ SumOf(s, f) = SumOf(r, f) + f[x]
        /\ SumOf(s, g) = SumOf(r, g) + g[x]
        /\ SumOf(s, h) = SumOf(r, h) + h[x]
    BY <1>2, <2>1, <2>2, <2>4, SumRemove
  <2>6. IsFiniteSet(r) /\ r \subseteq s
    BY <1>2, <2>2, FS_Subset
  <2>7. SumOf(r, f) \in Nat /\ SumOf(r, g) \in Nat
    BY <2>4, <2>6, SumNat
  <2>8. f[x] \in Nat /\ g[x] \in Nat /\ h[x] = f[x] + g[x]
    BY <2>1
  <2>9. SumOf(s, h) = SumOf(s, f) + SumOf(s, g)
    BY <2>3, <2>5, <2>7, <2>8
  <2>. QED BY <2>9
<1>. QED BY <1>3, <1>4

LEMMA SumZero ==
    ASSUME NEW S, IsFiniteSet(S), NEW g, \A x \in S : g[x] = 0
    PROVE  SumOf(S, g) = 0
PROOF
<1>1. SumOf(S, g) = SumOf(S, g) + SumOf(S, g)
  <2>1. \A x \in S : g[x] \in Nat /\ g[x] = g[x] + g[x]
    OBVIOUS
  <2>. QED BY <2>1, SumPlus
<1>2. SumOf(S, g) \in Nat
  <2>1. \A x \in S : g[x] \in Nat
    OBVIOUS
  <2>. QED BY <2>1, SumNat
<1>3. PICK n : n = SumOf(S, g)
  OBVIOUS
<1>4. n \in Nat /\ n = n + n
  BY <1>1, <1>2, <1>3
<1>5. n = 0
  BY <1>4
<1>. QED BY <1>3, <1>5

\* What adds nothing may be left out.
LEMMA SumSupport ==
    ASSUME NEW S, IsFiniteSet(S), NEW W \in SUBSET S, NEW g,
           \A x \in S : g[x] \in Nat /\ (x \notin W => g[x] = 0)
    PROVE  SumOf(S, g) = SumOf(W, g)
PROOF
<1> DEFINE B == {s \in SUBSET S : W \subseteq s /\ SumOf(s, g) # SumOf(W, g)}
<1>1. SUFFICES ASSUME B # {} PROVE FALSE
  OBVIOUS
<1>2. PICK s \in B : IsFiniteSet(s) /\ \A x \in s : s \ {x} \notin B
  <2>1. B \subseteq SUBSET S
    OBVIOUS
  <2>. HIDE DEF B
  <2>. QED BY <1>1, <2>1, SmallestSet
<1>3. PICK x \in s : x \notin W
  OBVIOUS
<1>4. SumOf(s \ {x}, g) = SumOf(W, g)
  BY <1>2, <1>3
<1>5. SumOf(s, g) = SumOf(s \ {x}, g) + g[x]
  BY <1>2, SumRemove
<1>6. g[x] = 0 /\ SumOf(W, g) \in Nat
  BY <1>3, SumNat, FS_Subset
<1>. QED BY <1>4, <1>5, <1>6

\* The sum over two sets without a common element.
LEMMA SumSplit ==
    ASSUME NEW S, IsFiniteSet(S), NEW U, NEW V, S = U \cup V, U \cap V = {},
           NEW g, \A x \in S : g[x] \in Nat
    PROVE  SumOf(S, g) = SumOf(U, g) + SumOf(V, g)
PROOF
<1>1. PICK a, b : /\ a = [x \in S |-> IF x \in U THEN g[x] ELSE 0]
                  /\ b = [x \in S |-> IF x \in V THEN g[x] ELSE 0]
  OBVIOUS
<1>2. \A x \in S : a[x] \in Nat /\ b[x] \in Nat /\ g[x] = a[x] + b[x]
  BY <1>1
<1>3. SumOf(S, g) = SumOf(S, a) + SumOf(S, b)
  BY <1>2, SumPlus
<1>4. SumOf(S, a) = SumOf(U, a) /\ SumOf(S, b) = SumOf(V, b)
  <2>1. \A x \in S : x \notin U => a[x] = 0
    BY <1>1
  <2>2. \A x \in S : x \notin V => b[x] = 0
    BY <1>1
  <2>3. U \in SUBSET S /\ V \in SUBSET S
    OBVIOUS
  <2>. QED BY <1>2, <2>1, <2>2, <2>3, SumSupport
<1>5. SumOf(U, a) = SumOf(U, g)
  BY <1>1, FS_Subset, SumSame
<1>6. SumOf(V, b) = SumOf(V, g)
  BY <1>1, FS_Subset, SumSame
<1>. QED BY <1>3, <1>4, <1>5, <1>6

\* S is climbed in steps: up[x] is what is left of it from x on, and from x to
\* the next one, f grows by g.
Climbs(S, up, f, g, last) ==
    /\ \A x \in S : up[x] \in SUBSET S /\ x \in up[x] /\ f[x] \in Nat
    /\ last \in S /\ up[last] = {last}
    /\ \A x \in S \ {last} :
          /\ g[x] \in Nat
          /\ \E y \in S : up[y] = up[x] \ {x} /\ f[y] = f[x] + g[x]

\* What is climbed in all is the sum of the steps.
LEMMA Climbed ==
    ASSUME NEW S, IsFiniteSet(S), NEW up, NEW f, NEW g, NEW last,
           Climbs(S, up, f, g, last), NEW a \in S
    PROVE  f[last] = f[a] + SumOf(up[a] \ {last}, g)
PROOF
<1> DEFINE Bad == {x \in S : f[last] # f[x] + SumOf(up[x] \ {last}, g)}
           B == {up[x] : x \in Bad}
<1>1. SUFFICES ASSUME B # {} PROVE FALSE
  OBVIOUS
<1>2. /\ \A x \in S : up[x] \in SUBSET S /\ x \in up[x] /\ f[x] \in Nat
      /\ last \in S /\ up[last] = {last}
      /\ \A x \in S \ {last} :
            /\ g[x] \in Nat
            /\ \E y \in S : up[y] = up[x] \ {x} /\ f[y] = f[x] + g[x]
  BY DEF Climbs
<1>3. PICK s \in B : IsFiniteSet(s) /\ \A x \in s : s \ {x} \notin B
  <2>1. \A x \in Bad : up[x] \in SUBSET S
    BY <1>2
  <2>2. B \subseteq SUBSET S
    BY <2>1
  <2>. HIDE DEF B
  <2>. QED BY <1>1, <2>2, SmallestSet
<1>4. PICK x \in Bad : s = up[x]
  OBVIOUS
<1>5. x \in S /\ x \in up[x] /\ f[last] # f[x] + SumOf(up[x] \ {last}, g)
  BY <1>2
<1>6. x # last
  <2>1. SUFFICES ASSUME x = last PROVE FALSE
    OBVIOUS
  <2>2. up[x] \ {last} = {}
    BY <1>2, <2>1
  <2>3. SumOf(up[x] \ {last}, g) = 0
    BY <2>2, SumEmpty
  <2>4. f[x] \in Nat
    BY <1>2
  <2>. QED BY <1>5, <2>1, <2>3, <2>4
<1>7. PICK y \in S : up[y] = up[x] \ {x} /\ f[y] = f[x] + g[x]
  BY <1>2, <1>5, <1>6
<1>8. f[last] = f[y] + SumOf(up[y] \ {last}, g)
  <2>1. up[y] \notin B
    BY <1>3, <1>4, <1>5, <1>7
  <2>2. y \notin Bad
    BY <2>1
  <2>. QED BY <2>2
<1>9. PICK W : W = up[y] \ {last}
  OBVIOUS
<1>10. /\ W \cup {x} = up[x] \ {last} /\ x \notin W
       /\ IsFiniteSet(W) /\ W \subseteq S \ {last}
  <2>1. W \subseteq S \ {last}
    BY <1>2, <1>9
  <2>2. IsFiniteSet(W)
    BY <2>1, FS_Subset
  <2>. QED BY <1>5, <1>6, <1>7, <1>9, <2>1, <2>2
<1>11. \A z \in W \cup {x} : g[z] \in Nat
  BY <1>2, <1>5, <1>6, <1>10
<1>. HIDE DEF B, Bad
<1>12. SumOf(W \cup {x}, g) = SumOf(W, g) + g[x]
  BY <1>10, <1>11, SumAdd
<1>13. SumOf(W, g) \in Nat
  BY <1>10, <1>11, SumNat
<1>14. f[x] \in Nat /\ g[x] \in Nat
  BY <1>2, <1>5, <1>6
<1>15. f[last] = f[x] + SumOf(up[x] \ {last}, g)
  <2>1. SumOf(up[x] \ {last}, g) = SumOf(W, g) + g[x]
    BY <1>10, <1>12, Zenon
  <2>2. f[last] = f[y] + SumOf(W, g) /\ f[y] = f[x] + g[x]
    BY <1>7, <1>8, <1>9
  <2>. QED BY <1>13, <1>14, <2>1, <2>2
<1>. QED BY <1>5, <1>15

\* G is the table H by columns; row and col are the sums of its lines.
Crossed(T, K, H, G, row, col) ==
    /\ \A t \in T : \A k \in K : H[t][k] \in Nat /\ G[k][t] = H[t][k]
    /\ \A t \in T : row[t] = SumOf(K, H[t])
    /\ \A k \in K : col[k] = SumOf(T, G[k])

\* A table adds up to the same by rows and by columns.
LEMMA SumTable ==
    ASSUME NEW T, IsFiniteSet(T), NEW K, IsFiniteSet(K),
           NEW H, NEW G, NEW row, NEW col, Crossed(T, K, H, G, row, col)
    PROVE  SumOf(T, row) = SumOf(K, col)
PROOF
<1> DEFINE part(s) == [t \in T |-> SumOf(s, H[t])]
           B == {s \in SUBSET K : SumOf(T, part(s)) # SumOf(s, col)}
<1>0. /\ \A t \in T : \A k \in K : H[t][k] \in Nat /\ G[k][t] = H[t][k]
      /\ \A t \in T : row[t] = SumOf(K, H[t])
      /\ \A k \in K : col[k] = SumOf(T, G[k])
  BY DEF Crossed
<1>1. \A k \in K : col[k] \in Nat
  <2>1. TAKE k \in K
  <2>2. \A t \in T : G[k][t] \in Nat
    BY <1>0
  <2>. QED BY <1>0, <2>2, SumNat
<1>2. \A s \in SUBSET K : \A t \in T :
         part(s)[t] = SumOf(s, H[t]) /\ part(s)[t] \in Nat
  <2>1. ASSUME NEW s \in SUBSET K, NEW t \in T PROVE SumOf(s, H[t]) \in Nat
    <3>1. IsFiniteSet(s) /\ \A k \in s : H[t][k] \in Nat
      BY <1>0, FS_Subset
    <3>. QED BY <3>1, SumNat
  <2>. QED BY <2>1
<1>3. SUFFICES ASSUME B # {} PROVE FALSE
  <2>1. K \in SUBSET K /\ K \notin B
    BY <1>3
  <2>2. SumOf(T, part(K)) = SumOf(K, col)
    BY <2>1
  <2>3. PICK p : p = part(K)
    OBVIOUS
  <2>4. \A t \in T : row[t] = p[t]
    BY <1>0, <2>3
  <2>5. SumOf(T, row) = SumOf(T, p)
    BY <2>4, SumSame
  <2>. QED BY <2>2, <2>3, <2>5
<1>4. PICK s \in B : IsFiniteSet(s) /\ \A x \in s : s \ {x} \notin B
  <2>1. B \subseteq SUBSET K
    OBVIOUS
  <2>. HIDE DEF B
  <2>. QED BY <1>3, <2>1, SmallestSet
<1>5. CASE s = {}
  <2>1. SumOf(s, col) = 0
    BY <1>5, SumEmpty
  <2>2. \A t \in T : part(s)[t] = 0
    BY <1>5, SumEmpty
  <2>3. SumOf(T, part(s)) = 0
    <3>. HIDE DEF part
    <3>. QED BY <2>2, SumZero
  <2>. QED BY <2>1, <2>3
<1>6. CASE s # {}
  <2>1. PICK k : k \in s
    BY <1>6
  <2>2. PICK r : r = s \ {k}
    OBVIOUS
  <2>3. s \in SUBSET K /\ r \in SUBSET K /\ k \in K
    BY <2>1, <2>2
  <2>4. SumOf(T, part(r)) = SumOf(r, col)
    BY <1>4, <2>1, <2>2, <2>3
  <2>5. PICK c : c = [t \in T |-> H[t][k]]
    OBVIOUS
  <2>6. \A t \in T : c[t] \in Nat /\ c[t] = H[t][k]
    BY <1>0, <2>3, <2>5
  <2>7. SumOf(T, c) = col[k]
    <3>1. \A t \in T : c[t] = G[k][t]
      BY <1>0, <2>3, <2>6
    <3>. QED BY <1>0, <2>3, <3>1, SumSame
  <2>8. ASSUME NEW t \in T PROVE part(s)[t] = part(r)[t] + c[t]
    <3>1. SumOf(s, H[t]) = SumOf(s \ {k}, H[t]) + H[t][k]
      <4>1. \A i \in s : H[t][i] \in Nat
        BY <1>0, <2>3
      <4>. QED BY <1>4, <2>1, <4>1, SumRemove
    <3>. QED BY <2>2, <2>6, <3>1
  <2>9. SumOf(T, part(s)) = SumOf(T, part(r)) + SumOf(T, c)
    <3>1. PICK p, q : p = part(s) /\ q = part(r)
      OBVIOUS
    <3>2. \A t \in T : q[t] \in Nat /\ c[t] \in Nat /\ p[t] = q[t] + c[t]
      <4>1. \A t \in T : part(r)[t] \in Nat
        BY <1>2, <2>3
      <4>. HIDE DEF part
      <4>. QED BY <2>6, <2>8, <3>1, <4>1
    <3>3. SumOf(T, p) = SumOf(T, q) + SumOf(T, c)
      BY <3>2, SumPlus
    <3>. QED BY <3>1, <3>3
  <2>10. SumOf(s, col) = SumOf(r, col) + col[k]
    <3>1. \A x \in s : col[x] \in Nat
      BY <1>1, <2>3
    <3>. QED BY <1>4, <2>1, <2>2, <3>1, SumRemove
  <2>11. SumOf(T, part(s)) = SumOf(s, col)
    BY <2>4, <2>7, <2>9, <2>10
  <2>. QED BY <2>11
<1>. QED BY <1>5, <1>6

-----------------------------------------------------------------------------
(* Equal parts                                                             *)

\* A finite nonempty set of naturals has a greatest element.
LEMMA Greatest ==
    ASSUME NEW S, IsFiniteSet(S), S \subseteq Nat, S # {}
    PROVE  \E m \in S : \A y \in S : y <= m
PROOF
<1> DEFINE B == {s \in SUBSET S : s # {} /\ ~\E m \in s : \A y \in s : y <= m}
<1>1. SUFFICES ASSUME B # {} PROVE FALSE
  OBVIOUS
<1>2. PICK s \in B : \A x \in s : s \ {x} \notin B
  <2>1. B \subseteq SUBSET S
    OBVIOUS
  <2>. HIDE DEF B
  <2>. QED BY <1>1, <2>1, SmallestSet
<1>3. PICK x \in s : TRUE
  OBVIOUS
<1>4. x \in Nat
  OBVIOUS
<1>5. s \ {x} # {}
  <2>1. ASSUME s \ {x} = {} PROVE \A y \in s : y <= x
    BY <1>4, <2>1
  <2>. QED BY <2>1
<1>6. PICK m \in s \ {x} : \A y \in s \ {x} : y <= m
  BY <1>2, <1>5
<1>7. m \in Nat
  OBVIOUS
<1>8. CASE m <= x
  <2>1. \A y \in s : y <= x
    BY <1>4, <1>6, <1>7, <1>8
  <2>. QED BY <2>1
<1>9. CASE x <= m
  <2>1. \A y \in s : y <= m
    BY <1>6, <1>9
  <2>. QED BY <2>1
<1>. QED BY <1>4, <1>7, <1>8, <1>9

\* Everyone gets b, and the r smallest one more.
LEMMA PartsAddUp ==
    ASSUME NEW W, IsFiniteSet(W), W \subseteq Nat, NEW b \in Nat, NEW r \in Nat,
           NEW g, \A t \in W : g[t] = IF Cardinality({u \in W : u < t}) < r
                                      THEN b + 1 ELSE b,
           r <= Cardinality(W)
    PROVE  SumOf(W, g) = b * Cardinality(W) + r
PROOF
<1> DEFINE part(s) == [t \in s |-> IF Cardinality({u \in s : u < t}) < r
                                   THEN b + 1 ELSE b]
           odd(n) == IF n < r THEN n ELSE r
           B == {s \in SUBSET W :
                   SumOf(s, part(s)) # b * Cardinality(s) + odd(Cardinality(s))}
<1>1. \A s \in SUBSET W : IsFiniteSet(s) /\ Cardinality(s) \in Nat
  BY FS_Subset, FS_CardinalityType
<1>2. \A s \in SUBSET W : \A t \in s : part(s)[t] \in Nat
  OBVIOUS
<1>3. B = {}
  <2>1. SUFFICES ASSUME B # {} PROVE FALSE
    OBVIOUS
  <2>2. PICK s \in B : \A x \in s : s \ {x} \notin B
    <3>1. B \subseteq SUBSET W
      OBVIOUS
    <3>. HIDE DEF B
    <3>. QED BY <2>1, <3>1, SmallestSet
  <2>3. CASE s = {}
    <3>1. SumOf(s, part(s)) = 0 /\ Cardinality(s) = 0
      BY <2>3, SumEmpty, FS_EmptySet
    <3>. QED BY <3>1
  <2>4. CASE s # {}
    <3>0. s \in SUBSET W /\ IsFiniteSet(s) /\ Cardinality(s) \in Nat
      BY <1>1
    <3>1. PICK m \in s : \A y \in s : y <= m
      BY <2>4, <3>0, Greatest
    <3>2. PICK q : q = s \ {m}
      OBVIOUS
    <3>3. /\ q \in SUBSET W /\ q \in SUBSET s /\ IsFiniteSet(q)
          /\ Cardinality(q) \in Nat
      BY <1>1, <3>0, <3>2
    <3>4. Cardinality(q) = Cardinality(s) - 1
      BY <3>0, <3>1, <3>2, FS_RemoveElement
    <3>5. PICK n : n = Cardinality(q)
      OBVIOUS
    <3>6. SumOf(q, part(q)) = b * n + odd(n)
      BY <2>2, <3>1, <3>2, <3>3, <3>5
    <3>7. \A t \in q : part(s)[t] = part(q)[t]
      <4>1. TAKE t \in q
      <4>2. t <= m /\ t \in Nat /\ m \in Nat
        BY <3>1, <3>3
      <4>3. {u \in s : u < t} = {u \in q : u < t}
        BY <3>2, <4>2
      <4>. QED BY <3>3, <4>3
    <3>8. {u \in s : u < m} = q
      <4>1. m \in Nat /\ \A u \in s : u \in Nat /\ u <= m
        BY <3>0, <3>1
      <4>2. \A u \in s : u < m <=> u # m
        BY <4>1
      <4>. QED BY <3>2, <4>2
    <3>9. part(s)[m] = IF n < r THEN b + 1 ELSE b
      BY <3>5, <3>8
    <3>10. SumOf(s, part(s)) = SumOf(q, part(s)) + part(s)[m]
      <4>1. PICK p : p = part(s)
        OBVIOUS
      <4>2. \A t \in s : p[t] \in Nat
        BY <1>2, <3>0, <4>1
      <4>3. SumOf(s, p) = SumOf(q, p) + p[m]
        BY <3>0, <3>1, <3>2, <4>2, SumRemove
      <4>. QED BY <4>1, <4>3
    <3>11. SumOf(q, part(s)) = SumOf(q, part(q))
      <4>. HIDE DEF part
      <4>. QED BY <3>3, <3>7, SumSame
    <3>12. SumOf(s, part(s)) = b * n + odd(n) + (IF n < r THEN b + 1 ELSE b)
      <4>. HIDE DEF part, odd
      <4>. QED BY <3>6, <3>9, <3>10, <3>11
    <3>13. n \in Nat /\ Cardinality(s) = n + 1
      BY <3>0, <3>3, <3>4, <3>5
    <3>14. b * (n + 1) = b * n + b /\ b * n \in Nat
      BY <3>13
    <3>15. SumOf(s, part(s)) = b * Cardinality(s) + odd(Cardinality(s))
      <4>. HIDE DEF part
      <4>1. odd(n) + (IF n < r THEN b + 1 ELSE b) = b + odd(n + 1)
        BY <3>13
      <4>2. odd(n) \in Nat /\ odd(n + 1) \in Nat
        BY <3>13
      <4>. HIDE DEF odd
      <4>3. PICK x, y, z : x = odd(n) /\ y = odd(n + 1)
                           /\ z = IF n < r THEN b + 1 ELSE b
        OBVIOUS
      <4>4. b * n + x + z = b * n + b + y
        BY <3>14, <4>1, <4>2, <4>3
      <4>. QED BY <3>12, <3>13, <3>14, <4>3, <4>4
    <3>. QED BY <3>15
  <2>. QED BY <2>3, <2>4
<1>4. W \in SUBSET W /\ W \notin B
  BY <1>3
<1>5. SumOf(W, part(W)) = b * Cardinality(W) + odd(Cardinality(W))
  BY <1>4
<1>6. SumOf(W, g) = SumOf(W, part(W))
  <2>1. \A t \in W : g[t] = part(W)[t]
    OBVIOUS
  <2>. HIDE DEF part
  <2>. QED BY <2>1, SumSame
<1>7. odd(Cardinality(W)) = r
  <2>1. Cardinality(W) \in Nat
    BY <1>1
  <2>. QED BY <2>1
<1>. QED BY <1>5, <1>6, <1>7
=============================================================================
