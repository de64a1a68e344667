------------------------------- MODULE EpsSums -------------------------------
(***************************************************************************)
(* Lemmas the proofs about job data share: least and greatest numbers of a *)
(* set, and what SumFunctionOnSet of module Functions computes.            *)
(*                                                                         *)
(* Induction is by a smallest counterexample: a set of finite sets has a   *)
(* minimal element, which needs no operator as a parameter.                *)
(***************************************************************************)
EXTENDS Integers, Functions, FiniteSetTheorems, TLAPS

LEMMA MinimalSet ==
    ASSUME NEW S, IsFiniteSet(S), NEW B \in SUBSET (SUBSET S), B # {}
    PROVE  \E T \in B : \A U \in B : U \subseteq T => U = T
<1>1. IsWellFoundedOn(StrictSubsetOrdering(S), SUBSET S)
  BY FS_StrictSubsetOrderingWellFounded, FS_FiniteSubsetsOfFinite
<1>2. \E T \in B : \A U \in B : <<U, T>> \notin StrictSubsetOrdering(S)
  BY <1>1, WFMin
<1> QED BY <1>2 DEF StrictSubsetOrdering

LEMMA LeastNat ==
    ASSUME NEW B \in SUBSET Nat, B # {}
    PROVE  \E m \in B : \A n \in B : m <= n
<1>1. \A m, n \in Nat : n < m => <<n, m>> \in OpToRel(<, Nat)
  BY Zenon DEF OpToRel
<1>2. \E m \in B : \A n \in B : <<n, m>> \notin OpToRel(<, Nat)
  BY NatLessThanWellFounded, WFMin, Zenon
<1>3. \E m \in B : \A n \in B : ~ (n < m)
  BY <1>1, <1>2, Zenon
<1> QED BY <1>3

LEMMA GreatestNat ==
    ASSUME NEW B \in SUBSET Nat, B # {}, NEW k \in Nat, \A n \in B : n <= k
    PROVE  \E m \in B : \A n \in B : n <= m
<1> DEFINE C == {c \in Nat : \A n \in B : n <= c}
<1>1. PICK c \in C : \A x \in C : c <= x
  BY LeastNat
<1>2. CASE c \in B BY <1>2
<1>3. CASE c \notin B
  <2>1. c > 0
    <3>1. PICK n \in B : TRUE OBVIOUS
    <3>2. n <= c /\ n # c BY <1>3
    <3> QED BY <3>2
  <2>2. c - 1 \in C BY <1>1, <1>3, <2>1
  <2> QED BY <1>1, <2>1, <2>2
<1> QED BY <1>2, <1>3

-----------------------------------------------------------------------------
(* The recursion that SumFunctionOnSet is defined by has a solution.       *)

Pick(s) == CHOOSE x \in s : TRUE
Iterates(g, f, S) ==
    g = [s \in SUBSET S |-> IF s = {} THEN 0 ELSE f[Pick(s)] + g[s \ {Pick(s)}]]

LEMMA SumIterates ==
    ASSUME NEW f, NEW S PROVE SumFunctionOnSet(f, S) = (CHOOSE g : Iterates(g, f, S))[S]
BY DEF SumFunctionOnSet, FoldFunctionOnSet, MapThenFoldSet, Iterates, Pick

LEMMA IteratesAgree ==
    ASSUME NEW f, NEW S, IsFiniteSet(S), NEW T \in SUBSET S, NEW g, NEW h,
           Iterates(g, f, S), Iterates(h, f, T)
    PROVE  \A s \in SUBSET T : g[s] = h[s]
<1> DEFINE B == {s \in SUBSET T : g[s] # h[s]}
<1>1. SUFFICES ASSUME B # {} PROVE FALSE OBVIOUS
<1>2. PICK s \in B : \A u \in B : u \subseteq s => u = s
  <2>1. IsFiniteSet(T) BY FS_Subset
  <2>2. B \in SUBSET (SUBSET T) OBVIOUS
  <2> HIDE DEF B
  <2> QED BY <1>1, <2>1, <2>2, MinimalSet
<1>3. s # {} BY DEF Iterates
<1>4. Pick(s) \in s BY <1>3 DEF Pick
<1>5. s \ {Pick(s)} \notin B BY <1>2, <1>4
<1>6. g[s \ {Pick(s)}] = h[s \ {Pick(s)}] BY <1>5
<1>7. /\ g[s] = f[Pick(s)] + g[s \ {Pick(s)}]
      /\ h[s] = f[Pick(s)] + h[s \ {Pick(s)}]
  BY <1>3 DEF Iterates
<1> QED BY <1>6, <1>7

LEMMA IteratesExist ==
    ASSUME NEW f, NEW S, IsFiniteSet(S) PROVE \E g : Iterates(g, f, S)
<1> DEFINE B == {T \in SUBSET S : ~ \E g : Iterates(g, f, T)}
<1>1. SUFFICES ASSUME B # {} PROVE FALSE OBVIOUS
<1>2. PICK T \in B : \A U \in B : U \subseteq T => U = T
  <2>1. B \in SUBSET (SUBSET S) OBVIOUS
  <2> HIDE DEF B
  <2> QED BY <1>1, <2>1, MinimalSet
<1> DEFINE G(U) == CHOOSE g : Iterates(g, f, U)
           rest(s) == s \ {Pick(s)}
           h == [s \in SUBSET T |-> IF s = {} THEN 0 ELSE f[Pick(s)] + G(rest(s))[rest(s)]]
<1>3. \A U \in SUBSET T : U # T => Iterates(G(U), f, U)
  BY <1>2
<1>4. ASSUME NEW s \in SUBSET T, s # {} PROVE h[rest(s)] = G(rest(s))[rest(s)]
  <2> DEFINE u == rest(s)
  <2>1. u \in SUBSET T /\ u # T BY <1>4 DEF Pick
  <2>2. Iterates(G(u), f, u) BY <1>3, <2>1
  <2>3. CASE u = {} BY <2>1, <2>2, <2>3 DEF Iterates
  <2>4. CASE u # {}
    <3>1. rest(u) \in SUBSET T /\ rest(u) # T /\ rest(u) \in SUBSET u BY <2>1
    <3>2. Iterates(G(rest(u)), f, rest(u)) BY <1>3, <3>1
    <3>3. G(u)[rest(u)] = G(rest(u))[rest(u)]
      <4>1. IsFiniteSet(u) BY <2>1, FS_Subset
      <4>2. \A g, k : Iterates(g, f, u) /\ Iterates(k, f, rest(u))
                        => \A t \in SUBSET rest(u) : g[t] = k[t]
        <5> HIDE DEF u, rest
        <5> QED BY <3>1, <4>1, IteratesAgree
      <4> HIDE DEF G, u, rest
      <4> QED BY <2>2, <3>2, <4>2
    <3>4. G(u)[u] = f[Pick(u)] + G(u)[rest(u)] BY <2>2, <2>4 DEF Iterates
    <3>5. h[u] = f[Pick(u)] + G(rest(u))[rest(u)] BY <2>1, <2>4
    <3> QED BY <3>3, <3>4, <3>5
  <2> QED BY <2>3, <2>4
<1>5. Iterates(h, f, T)
  <2>1. \A s \in SUBSET T : h[s] = IF s = {} THEN 0 ELSE f[Pick(s)] + h[rest(s)]
    <3> HIDE DEF G
    <3> QED BY <1>4
  <2>2. h = [s \in SUBSET T |-> h[s]] OBVIOUS
  <2> HIDE DEF h
  <2> QED BY <2>1, <2>2 DEF Iterates
<1> QED BY <1>2, <1>5

LEMMA SumSatisfies ==
    ASSUME NEW f, NEW S, IsFiniteSet(S)
    PROVE  \E g : Iterates(g, f, S) /\ SumFunctionOnSet(f, S) = g[S]
<1> DEFINE g == CHOOSE k : Iterates(k, f, S)
<1>1. Iterates(g, f, S) BY IteratesExist
<1>2. SumFunctionOnSet(f, S) = g[S] BY SumIterates
<1> QED BY <1>1, <1>2

-----------------------------------------------------------------------------
(* What a sum is, by induction over its set.                               *)

LEMMA SumEmpty == ASSUME NEW f PROVE SumFunctionOnSet(f, {}) = 0
<1>1. PICK g : Iterates(g, f, {}) /\ SumFunctionOnSet(f, {}) = g[{}]
  BY SumSatisfies, FS_EmptySet
<1> QED BY <1>1 DEF Iterates

LEMMA SumPick ==
    ASSUME NEW f, NEW S, IsFiniteSet(S), S # {}
    PROVE  /\ Pick(S) \in S
           /\ SumFunctionOnSet(f, S) = f[Pick(S)] + SumFunctionOnSet(f, S \ {Pick(S)})
<1> DEFINE R == S \ {Pick(S)}
<1>1. Pick(S) \in S BY DEF Pick
<1>2. PICK g : Iterates(g, f, S) /\ SumFunctionOnSet(f, S) = g[S] BY SumSatisfies
<1>3. R \in SUBSET S /\ IsFiniteSet(R) BY FS_Subset
<1>4. PICK h : Iterates(h, f, R) /\ SumFunctionOnSet(f, R) = h[R] BY <1>3, SumSatisfies
<1>5. g[R] = h[R]
  <2> HIDE DEF R
  <2> QED BY <1>2, <1>3, <1>4, IteratesAgree
<1>6. g[S] = f[Pick(S)] + g[R] BY <1>2 DEF Iterates
<1> QED BY <1>1, <1>2, <1>4, <1>5, <1>6

LEMMA SumInt ==
    ASSUME NEW f, NEW S, IsFiniteSet(S), \A x \in S : f[x] \in Int
    PROVE  SumFunctionOnSet(f, S) \in Int
<1> DEFINE B == {T \in SUBSET S : SumFunctionOnSet(f, T) \notin Int}
<1>1. SUFFICES ASSUME B # {} PROVE FALSE BY DEF B
<1>2. PICK T \in B : \A U \in B : U \subseteq T => U = T
  <2>1. B \in SUBSET (SUBSET S) OBVIOUS
  <2> HIDE DEF B
  <2> QED BY <1>1, <2>1, MinimalSet
<1>3. T # {} BY SumEmpty
<1>4. IsFiniteSet(T) BY FS_Subset
<1>5. /\ Pick(T) \in T
      /\ SumFunctionOnSet(f, T) = f[Pick(T)] + SumFunctionOnSet(f, T \ {Pick(T)})
  BY <1>3, <1>4, SumPick
<1>6. SumFunctionOnSet(f, T \ {Pick(T)}) \in Int BY <1>2, <1>5
<1> QED BY <1>5, <1>6

\* A sum does not depend on the order: any summand may be taken out.
LEMMA SumRemove ==
    ASSUME NEW f, NEW S, IsFiniteSet(S), \A x \in S : f[x] \in Int, NEW d \in S
    PROVE  SumFunctionOnSet(f, S) = f[d] + SumFunctionOnSet(f, S \ {d})
<1> DEFINE Sum(T) == SumFunctionOnSet(f, T)
           Ok(T) == \A x \in T : Sum(T) = f[x] + Sum(T \ {x})
           B == {T \in SUBSET S : ~Ok(T)}
<1>1. SUFFICES ASSUME B # {} PROVE FALSE OBVIOUS
<1>2. PICK T \in B : \A U \in B : U \subseteq T => U = T
  <2>1. B \in SUBSET (SUBSET S) OBVIOUS
  <2> HIDE DEF B
  <2> QED BY <1>1, <2>1, MinimalSet
<1>3. PICK x \in T : Sum(T) # f[x] + Sum(T \ {x}) OBVIOUS
<1>4. \A U \in SUBSET S : IsFiniteSet(U) BY FS_Subset
<1> DEFINE p == Pick(T)
<1>5. p \in T /\ Sum(T) = f[p] + Sum(T \ {p})
  BY <1>3, <1>4, SumPick
<1>6. x # p BY <1>3, <1>5
<1>7. Ok(T \ {p}) /\ Ok(T \ {x})
  <2>1. T \ {p} \notin B /\ T \ {x} \notin B BY <1>2, <1>5
  <2> HIDE DEF Ok
  <2> QED BY <2>1
<1>8. Sum(T \ {p}) = f[x] + Sum((T \ {p}) \ {x}) BY <1>6, <1>7
<1>9. Sum(T \ {x}) = f[p] + Sum((T \ {x}) \ {p}) BY <1>5, <1>6, <1>7
<1>10. Sum((T \ {p}) \ {x}) = Sum((T \ {x}) \ {p})
  <2>1. (T \ {p}) \ {x} = (T \ {x}) \ {p} OBVIOUS
  <2> QED BY <2>1, Zenon
<1>11. f[x] \in Int /\ f[p] \in Int /\ Sum((T \ {p}) \ {x}) \in Int
  <2>1. (T \ {p}) \ {x} \in SUBSET S OBVIOUS
  <2>2. \A y \in (T \ {p}) \ {x} : f[y] \in Int OBVIOUS
  <2>3. Sum((T \ {p}) \ {x}) \in Int BY <1>4, <2>1, <2>2, SumInt
  <2> QED BY <1>3, <1>5, <2>3
<1> HIDE DEF Sum, p
<1> QED BY <1>3, <1>5, <1>8, <1>9, <1>10, <1>11

LEMMA SumAdd ==
    ASSUME NEW f, NEW S, IsFiniteSet(S), NEW d, d \notin S, \A x \in S \union {d} : f[x] \in Int
    PROVE  SumFunctionOnSet(f, S \union {d}) = SumFunctionOnSet(f, S) + f[d]
<1>1. IsFiniteSet(S \union {d}) BY FS_AddElement
<1>2. (S \union {d}) \ {d} = S OBVIOUS
<1>3. SumFunctionOnSet(f, S \union {d}) = f[d] + SumFunctionOnSet(f, (S \union {d}) \ {d})
  BY <1>1, SumRemove
<1>4. SumFunctionOnSet(f, S \union {d}) = f[d] + SumFunctionOnSet(f, S)
  BY <1>2, <1>3, Zenon
<1>5. SumFunctionOnSet(f, S) \in Int /\ f[d] \in Int BY SumInt
<1> QED BY <1>4, <1>5

LEMMA SumMinus ==
    ASSUME NEW f, NEW g, NEW h, NEW S, IsFiniteSet(S),
           \A x \in S : f[x] \in Int /\ g[x] \in Int /\ h[x] = f[x] - g[x]
    PROVE  SumFunctionOnSet(h, S) = SumFunctionOnSet(f, S) - SumFunctionOnSet(g, S)
<1> DEFINE Minus(T) == SumFunctionOnSet(h, T) = SumFunctionOnSet(f, T) - SumFunctionOnSet(g, T)
           B == {T \in SUBSET S : ~Minus(T)}
<1>1. SUFFICES ASSUME B # {} PROVE FALSE BY DEF B
<1>2. PICK T \in B : \A U \in B : U \subseteq T => U = T
  <2>1. B \in SUBSET (SUBSET S) OBVIOUS
  <2> HIDE DEF B
  <2> QED BY <1>1, <2>1, MinimalSet
<1>3. T # {}
  <2>1. Minus({}) BY SumEmpty
  <2>2. ~Minus(T) OBVIOUS
  <2> HIDE DEF Minus
  <2> QED BY <2>1, <2>2, Zenon
<1>4. PICK d \in T : TRUE BY <1>3
<1> DEFINE R == T \ {d}
<1>5. IsFiniteSet(T) /\ IsFiniteSet(R) BY FS_Subset
<1>6. \A x \in T : f[x] \in Int /\ g[x] \in Int /\ h[x] \in Int OBVIOUS
<1>7. /\ SumFunctionOnSet(f, T) = f[d] + SumFunctionOnSet(f, R)
      /\ SumFunctionOnSet(g, T) = g[d] + SumFunctionOnSet(g, R)
      /\ SumFunctionOnSet(h, T) = h[d] + SumFunctionOnSet(h, R)
  BY <1>5, <1>6, SumRemove
<1>8. SumFunctionOnSet(f, R) \in Int /\ SumFunctionOnSet(g, R) \in Int
  BY <1>5, <1>6, SumInt
<1>9. Minus(R) BY <1>2, <1>4
<1>10. ~Minus(T) OBVIOUS
<1>11. f[d] \in Int /\ g[d] \in Int /\ h[d] = f[d] - g[d] OBVIOUS
<1> HIDE DEF R
<1> QED BY <1>7, <1>8, <1>9, <1>10, <1>11

LEMMA SumNat ==
    ASSUME NEW f, NEW S, IsFiniteSet(S), \A x \in S : f[x] \in Nat
    PROVE  SumFunctionOnSet(f, S) \in Nat
<1> DEFINE B == {T \in SUBSET S : SumFunctionOnSet(f, T) \notin Nat}
<1>1. SUFFICES ASSUME B # {} PROVE FALSE BY DEF B
<1>2. PICK T \in B : \A U \in B : U \subseteq T => U = T
  <2>1. B \in SUBSET (SUBSET S) OBVIOUS
  <2> HIDE DEF B
  <2> QED BY <1>1, <2>1, MinimalSet
<1>3. T # {} BY SumEmpty
<1>4. PICK d \in T : TRUE BY <1>3
<1>5. IsFiniteSet(T) BY FS_Subset
<1>6. SumFunctionOnSet(f, T) = f[d] + SumFunctionOnSet(f, T \ {d})
  <2>1. \A x \in T : f[x] \in Int OBVIOUS
  <2> QED BY <1>5, <2>1, SumRemove
<1>7. SumFunctionOnSet(f, T \ {d}) \in Nat BY <1>2, <1>4
<1> QED BY <1>6, <1>7

\* Equal summands, equal sums.
LEMMA SumSame ==
    ASSUME NEW f, NEW g, NEW S, IsFiniteSet(S), \A x \in S : f[x] \in Int /\ f[x] = g[x]
    PROVE  SumFunctionOnSet(f, S) = SumFunctionOnSet(g, S)
<1> DEFINE z == [x \in S |-> 0]
<1>1. SumFunctionOnSet(f, S) = SumFunctionOnSet(g, S) - SumFunctionOnSet(z, S)
  BY SumMinus
<1>2. SumFunctionOnSet(z, S) = SumFunctionOnSet(z, S) - SumFunctionOnSet(z, S)
  BY SumMinus
<1>3. SumFunctionOnSet(g, S) \in Int /\ SumFunctionOnSet(z, S) \in Int BY SumInt
<1> QED BY <1>1, <1>2, <1>3

LEMMA SumGrows ==
    ASSUME NEW f, NEW S, IsFiniteSet(S), \A x \in S : f[x] \in Nat, NEW T \in SUBSET S
    PROVE  SumFunctionOnSet(f, T) <= SumFunctionOnSet(f, S)
<1> DEFINE Sum(U) == SumFunctionOnSet(f, U)
           Less(U) == T \subseteq U => Sum(T) <= Sum(U)
           B == {U \in SUBSET S : ~Less(U)}
<1>1. SUFFICES ASSUME B # {} PROVE FALSE BY DEF B
<1>2. PICK V \in B : \A U \in B : U \subseteq V => U = V
  <2>1. B \in SUBSET (SUBSET S) OBVIOUS
  <2> HIDE DEF B
  <2> QED BY <1>1, <2>1, MinimalSet
<1>3. V \in SUBSET S /\ T \subseteq V /\ ~(Sum(T) <= Sum(V)) OBVIOUS
<1>4. ASSUME NEW U \in SUBSET S PROVE IsFiniteSet(U) /\ Sum(U) \in Nat
  <2>1. IsFiniteSet(U) BY FS_Subset
  <2> QED BY <2>1, SumNat
<1>5. V # T BY <1>3, <1>4
<1>6. PICK d \in V \ T : TRUE BY <1>3, <1>5
<1>7. Less(V \ {d}) BY <1>2, <1>3, <1>6
<1>8. Sum(V) = f[d] + Sum(V \ {d})
  <2>1. \A x \in V : f[x] \in Int BY <1>3
  <2> QED BY <1>3, <1>4, <1>6, <2>1, SumRemove
<1>9. Sum(T) <= Sum(V \ {d}) BY <1>3, <1>6, <1>7
<1>10. Sum(T) \in Nat /\ Sum(V \ {d}) \in Nat /\ f[d] \in Nat
  <2>1. V \ {d} \in SUBSET S BY <1>3
  <2> QED BY <1>3, <1>4, <1>6, <2>1
<1> HIDE DEF Sum
<1> QED BY <1>3, <1>8, <1>9, <1>10
==============================================================================
