---------------------------- MODULE SumTheorems ----------------------------
(***************************************************************************)
(* Facts about SumFunction, the sum of the values of a function, in which  *)
(* the models state that gas is conserved: the recursion it is defined by  *)
(* has a solution on the subsets of a finite set, the order in which the   *)
(* indices are picked does not matter, and a change at one index changes   *)
(* the sum by as much.  Every induction is over the subsets of a finite    *)
(* set, by a smallest counterexample.                                      *)
(***************************************************************************)
EXTENDS Functions, FiniteSetTheorems, TLAPS

(* The index that the fold takes next.                                     *)
Pick(s) == CHOOSE x \in s : TRUE

(* g gives the sums of f over the subsets of S.                            *)
IsSum(g, f, S) ==
    g = [s \in SUBSET S |->
           IF s = {} THEN 0 ELSE f[Pick(s)] + g[s \ {Pick(s)}]]

(* The sum of the values of f over S, as its definition expands.           *)
LEMMA SumDef ==
    ASSUME NEW f, NEW S
    PROVE  SumFunctionOnSet(f, S) = (CHOOSE g : IsSum(g, f, S))[S]
BY DEF SumFunctionOnSet, FoldFunctionOnSet, MapThenFoldSet, IsSum, Pick

(* A family of subsets of a finite set has a smallest member.              *)
LEMMA SmallestSubset ==
    ASSUME NEW S, IsFiniteSet(S), NEW A, A \subseteq SUBSET S, A # {}
    PROVE  \E T \in A : \A U \in A : U \subseteq T => U = T
<1>1. IsWellFoundedOn(StrictSubsetOrdering(S), FiniteSubsetsOf(S))
  BY FS_StrictSubsetOrderingWellFounded
<1>2. A \subseteq FiniteSubsetsOf(S)
  BY FS_Subset DEF FiniteSubsetsOf
<1>3. \E T \in A : \A U \in A : ~(<<U, T>> \in StrictSubsetOrdering(S))
  BY <1>1, <1>2, WFMin
<1>4. QED
  BY Zenon, <1>3 DEF StrictSubsetOrdering

(* The index taken is one of the set.                                      *)
LEMMA PickInSet == ASSUME NEW s, s # {} PROVE Pick(s) \in s
BY DEF Pick

(* The sums over the subsets of S are those over the subsets of a part.    *)
LEMMA SumRestricts ==
    ASSUME NEW f, NEW S, NEW T \in SUBSET S, NEW g, IsSum(g, f, S)
    PROVE  IsSum([s \in SUBSET T |-> g[s]], f, T)
<1> DEFINE h == [s \in SUBSET T |-> g[s]]
<1>1. \A s \in SUBSET T : s # {} => s \ {Pick(s)} \in SUBSET T
  OBVIOUS
<1>2. \A s \in SUBSET T : s \in SUBSET S
  OBVIOUS
<1>3. \A s \in SUBSET S :
        g[s] = IF s = {} THEN 0 ELSE f[Pick(s)] + g[s \ {Pick(s)}]
  BY Zenon DEF IsSum
<1>4. \A s \in SUBSET T :
        h[s] = IF s = {} THEN 0 ELSE f[Pick(s)] + h[s \ {Pick(s)}]
  BY <1>1, <1>2, <1>3
<1>5. QED
  BY Zenon, <1>4 DEF IsSum

(* The recursion has at most one solution.                                 *)
LEMMA SumUnique ==
    ASSUME NEW f, NEW S, IsFiniteSet(S), NEW g, NEW h,
           IsSum(g, f, S), IsSum(h, f, S)
    PROVE  g = h
<1> DEFINE Bad == {s \in SUBSET S : g[s] # h[s]}
<1>1. \A s \in SUBSET S :
        /\ g[s] = IF s = {} THEN 0 ELSE f[Pick(s)] + g[s \ {Pick(s)}]
        /\ h[s] = IF s = {} THEN 0 ELSE f[Pick(s)] + h[s \ {Pick(s)}]
  BY Zenon DEF IsSum
<1>2. Bad = {}
  <2> SUFFICES ASSUME Bad # {} PROVE FALSE
    OBVIOUS
  <2>0. Bad \subseteq SUBSET S
    OBVIOUS
  <2> HIDE DEF Bad
  <2>1. PICK T \in Bad : \A U \in Bad : U \subseteq T => U = T
    BY <2>0, SmallestSubset
  <2> USE DEF Bad
  <2>2. T # {}
    BY Zenon, <2>1, <1>1
  <2>3. Pick(T) \in T
    BY <2>2, PickInSet
  <2>4. T \ {Pick(T)} \notin Bad
    BY <2>1, <2>3
  <2>5. g[T \ {Pick(T)}] = h[T \ {Pick(T)}]
    BY <2>4
  <2>6. QED
    BY <1>1, <2>1, <2>2, <2>5
<1>3. \A s \in SUBSET S : g[s] = h[s]
  BY <1>2
<1>4. g = [s \in SUBSET S |-> g[s]] /\ h = [s \in SUBSET S |-> h[s]]
  BY DEF IsSum
<1>5. QED
  BY Zenon, <1>3, <1>4

(* The recursion has a solution: in a smallest set without one, every      *)
(* smaller set has one, and those agree.                                   *)
LEMMA SumExists ==
    ASSUME NEW f, NEW S, IsFiniteSet(S)
    PROVE  \E g : IsSum(g, f, S)
<1> DEFINE Bad == {T \in SUBSET S : ~ \E g : IsSum(g, f, T)}
           G(U) == (CHOOSE g : IsSum(g, f, U))[U]
<1> SUFFICES ASSUME Bad # {} PROVE FALSE
  OBVIOUS
<1>0. Bad \subseteq SUBSET S
  OBVIOUS
<1> HIDE DEF Bad
<1>1. PICK T \in Bad : \A U \in Bad : U \subseteq T => U = T
  BY <1>0, SmallestSubset
<1> USE DEF Bad
<1>2. \A U \in SUBSET T : U # T => IsSum(CHOOSE g : IsSum(g, f, U), f, U)
  BY <1>1
<1>3. \A U \in SUBSET T : U # T /\ U # {} => G(U) = f[Pick(U)] + G(U \ {Pick(U)})
  <2> SUFFICES ASSUME NEW U \in SUBSET T, U # T, U # {}
               PROVE  G(U) = f[Pick(U)] + G(U \ {Pick(U)})
    OBVIOUS
  <2> DEFINE V == U \ {Pick(U)}
             gU == CHOOSE g : IsSum(g, f, U)
             gV == CHOOSE g : IsSum(g, f, V)
  <2>1. V \in SUBSET U /\ V \in SUBSET T /\ V # T
    OBVIOUS
  <2>2. IsSum(gU, f, U) /\ IsSum(gV, f, V)
    BY <1>2, <2>1
  <2> HIDE DEF gU, gV
  <2>3. IsSum([s \in SUBSET V |-> gU[s]], f, V)
    BY Zenon, <2>1, <2>2, SumRestricts
  <2>4. IsFiniteSet(V)
    BY <2>1, FS_Subset
  <2>5. gV = [s \in SUBSET V |-> gU[s]]
    BY Zenon, <2>2, <2>3, <2>4, SumUnique
  <2>6. gV[V] = gU[V]
    BY <2>5
  <2>7. gU[U] = f[Pick(U)] + gU[V]
    BY Zenon, <2>2 DEF IsSum
  <2>8. QED
    BY <2>6, <2>7 DEF gU, gV
<1>4. T # {} => G({}) = 0
  <2> SUFFICES ASSUME T # {} PROVE G({}) = 0
    OBVIOUS
  <2>1. IsSum(CHOOSE g : IsSum(g, f, {}), f, {})
    BY <1>2
  <2>2. QED
    BY Zenon, <2>1 DEF IsSum
<1> DEFINE h == [s \in SUBSET T |->
                   IF s = {} THEN 0 ELSE f[Pick(s)] + G(s \ {Pick(s)})]
<1> HIDE DEF G
<1>5. \A s \in SUBSET T : s # {} => h[s \ {Pick(s)}] = G(s \ {Pick(s)})
  <2> SUFFICES ASSUME NEW s \in SUBSET T, s # {}
               PROVE  h[s \ {Pick(s)}] = G(s \ {Pick(s)})
    BY Zenon
  <2> DEFINE V == s \ {Pick(s)}
  <2>1. Pick(s) \in s
    BY PickInSet
  <2>2. V \in SUBSET T /\ V # T /\ T # {}
    BY <2>1
  <2>3. CASE V = {}
    BY <2>2, <2>3, <1>4
  <2>4. CASE V # {}
    BY Zenon, <2>2, <2>4, <1>3
  <2>5. QED
    BY <2>3, <2>4
<1>6. \A s \in SUBSET T :
        h[s] = IF s = {} THEN 0 ELSE f[Pick(s)] + h[s \ {Pick(s)}]
  BY Zenon, <1>5
<1>7. IsSum(h, f, T)
  BY Zenon, <1>6 DEF IsSum
<1>8. QED
  BY <1>1, <1>7

(* One function gives the sums over all subsets.                           *)
LEMMA SumIsSum ==
    ASSUME NEW f, NEW S, IsFiniteSet(S)
    PROVE  \E g : /\ IsSum(g, f, S)
                  /\ \A T \in SUBSET S : SumFunctionOnSet(f, T) = g[T]
<1>1. PICK g : IsSum(g, f, S)
  BY SumExists
<1>2. ASSUME NEW T \in SUBSET S PROVE SumFunctionOnSet(f, T) = g[T]
  <2> DEFINE gT == CHOOSE h : IsSum(h, f, T)
  <2>1. IsFiniteSet(T)
    BY FS_Subset
  <2>2. \E h : IsSum(h, f, T)
    BY <2>1, SumExists
  <2>3. IsSum(gT, f, T)
    BY <2>2
  <2>4. SumFunctionOnSet(f, T) = gT[T]
    BY SumDef
  <2> HIDE DEF gT
  <2>5. IsSum([s \in SUBSET T |-> g[s]], f, T)
    BY <1>1, SumRestricts
  <2>6. gT = [s \in SUBSET T |-> g[s]]
    BY <2>1, <2>3, <2>5, SumUnique
  <2>7. QED
    BY <2>4, <2>6
<1>3. QED
  BY <1>1, <1>2

(* The sum over no index.                                                  *)
LEMMA SumEmpty ==
    ASSUME NEW f PROVE SumFunctionOnSet(f, {}) = 0
<1>1. IsFiniteSet({})
  BY FS_EmptySet
<1>2. PICK g : /\ IsSum(g, f, {})
               /\ \A T \in SUBSET {} : SumFunctionOnSet(f, T) = g[T]
  BY <1>1, SumIsSum
<1>3. QED
  BY Zenon, <1>2 DEF IsSum

(* The sum over a set of which one index is picked.                        *)
LEMMA SumPick ==
    ASSUME NEW f, NEW S, IsFiniteSet(S), S # {}
    PROVE  SumFunctionOnSet(f, S)
             = f[Pick(S)] + SumFunctionOnSet(f, S \ {Pick(S)})
<1>1. PICK g : /\ IsSum(g, f, S)
               /\ \A T \in SUBSET S : SumFunctionOnSet(f, T) = g[T]
  BY SumIsSum
<1>2. g[S] = f[Pick(S)] + g[S \ {Pick(S)}]
  BY Zenon, <1>1 DEF IsSum
<1>3. S \in SUBSET S /\ S \ {Pick(S)} \in SUBSET S
  OBVIOUS
<1>4. QED
  BY <1>1, <1>2, <1>3

(* A sum of naturals is one, and so for integers.                          *)
LEMMA SumType ==
    ASSUME NEW f, NEW S, IsFiniteSet(S), NEW N \in {Nat, Int},
           \A x \in S : f[x] \in N
    PROVE  SumFunctionOnSet(f, S) \in N
<1> DEFINE Bad == {T \in SUBSET S : SumFunctionOnSet(f, T) \notin N}
<1> SUFFICES ASSUME Bad # {} PROVE FALSE
  OBVIOUS
<1>0. Bad \subseteq SUBSET S
  OBVIOUS
<1> HIDE DEF Bad
<1>1. PICK T \in Bad : \A U \in Bad : U \subseteq T => U = T
  BY <1>0, SmallestSubset
<1>2. T \in SUBSET S /\ SumFunctionOnSet(f, T) \notin N
  BY <1>1 DEF Bad
<1>3. T # {}
  BY <1>2, SumEmpty
<1>4. IsFiniteSet(T) /\ Pick(T) \in T
  BY <1>2, <1>3, FS_Subset, PickInSet
<1>5. SumFunctionOnSet(f, T \ {Pick(T)}) \in N
  BY <1>1, <1>2, <1>4 DEF Bad
<1>6. f[Pick(T)] \in N
  BY <1>2, <1>4
<1>7. f[Pick(T)] + SumFunctionOnSet(f, T \ {Pick(T)}) \in N
  BY <1>5, <1>6
<1>8. QED
  BY <1>2, <1>3, <1>4, <1>7, SumPick

(* The order in which the indices are picked is of no consequence.         *)
LEMMA SumRemove ==
    ASSUME NEW f, NEW S, IsFiniteSet(S), \A x \in S : f[x] \in Int,
           NEW x \in S
    PROVE  SumFunctionOnSet(f, S) = f[x] + SumFunctionOnSet(f, S \ {x})
<1> DEFINE Ok(T, y) == SumFunctionOnSet(f, T) = f[y] + SumFunctionOnSet(f, T \ {y})
           Bad == {T \in SUBSET S : \E y \in T : ~Ok(T, y)}
<1> SUFFICES ASSUME Bad # {} PROVE FALSE
  BY Zenon
<1>0. Bad \subseteq SUBSET S
  OBVIOUS
<1> HIDE DEF Bad
<1>1. PICK T \in Bad : \A U \in Bad : U \subseteq T => U = T
  BY <1>0, SmallestSubset
<1>2. T \in SUBSET S
  BY <1>0, <1>1
<1>3. PICK y \in T : ~Ok(T, y)
  BY <1>1 DEF Bad
<1> DEFINE p == Pick(T)
<1>4. p \in T /\ Ok(T, p)
  <2>1. T # {} /\ IsFiniteSet(T)
    BY <1>2, <1>3, FS_Subset
  <2>2. QED
    BY <2>1, PickInSet, SumPick
<1>5. p # y
  BY <1>3, <1>4
<1> HIDE DEF p, Ok
<1>6. Ok(T \ {p}, y) /\ Ok(T \ {y}, p)
  BY <1>1, <1>2, <1>3, <1>4, <1>5 DEF Bad
<1>7. (T \ {p}) \ {y} = (T \ {y}) \ {p}
  OBVIOUS
<1> DEFINE V == (T \ {p}) \ {y}
<1>8. SumFunctionOnSet(f, V) \in Int
  <2>1. IsFiniteSet(V) /\ \A z \in V : f[z] \in Int
    BY <1>2, FS_Subset
  <2>2. QED
    BY <2>1, SumType
<1>9. f[y] \in Int /\ f[p] \in Int
  BY <1>2, <1>3, <1>4
<1>10. SumFunctionOnSet(f, T) = f[p] + (f[y] + SumFunctionOnSet(f, V))
  BY <1>4, <1>6 DEF Ok
<1>11. f[y] + SumFunctionOnSet(f, T \ {y}) = f[y] + (f[p] + SumFunctionOnSet(f, V))
  BY <1>6, <1>7 DEF Ok
<1> HIDE DEF V
<1>12. Ok(T, y)
  BY <1>8, <1>9, <1>10, <1>11 DEF Ok
<1>13. QED
  BY <1>3, <1>12

(* Only the values at the indices count.                                   *)
LEMMA SumSame ==
    ASSUME NEW f, NEW g, NEW S, IsFiniteSet(S), \A x \in S : f[x] = g[x]
    PROVE  SumFunctionOnSet(f, S) = SumFunctionOnSet(g, S)
<1> DEFINE Bad == {T \in SUBSET S : SumFunctionOnSet(f, T) # SumFunctionOnSet(g, T)}
<1> SUFFICES ASSUME Bad # {} PROVE FALSE
  OBVIOUS
<1>0. Bad \subseteq SUBSET S
  OBVIOUS
<1> HIDE DEF Bad
<1>1. PICK T \in Bad : \A U \in Bad : U \subseteq T => U = T
  BY <1>0, SmallestSubset
<1>2. T \in SUBSET S /\ SumFunctionOnSet(f, T) # SumFunctionOnSet(g, T)
  BY <1>1 DEF Bad
<1>3. T # {}
  BY <1>2, SumEmpty
<1>4. IsFiniteSet(T) /\ Pick(T) \in T
  BY <1>2, <1>3, FS_Subset, PickInSet
<1>5. SumFunctionOnSet(f, T \ {Pick(T)}) = SumFunctionOnSet(g, T \ {Pick(T)})
  BY <1>1, <1>2, <1>4 DEF Bad
<1>6. f[Pick(T)] = g[Pick(T)]
  BY <1>2, <1>4
<1>7. QED
  BY <1>2, <1>3, <1>4, <1>5, <1>6, SumPick

-----------------------------------------------------------------------------
(* The sum of all values of a function, as the models use it.              *)

(* Every value of a function to naturals is at most their sum.             *)
LEMMA SumFunctionNat ==
    ASSUME NEW f, IsFiniteSet(DOMAIN f), \A x \in DOMAIN f : f[x] \in Nat
    PROVE  /\ SumFunction(f) \in Nat
           /\ \A t \in DOMAIN f : f[t] <= SumFunction(f)
<1> DEFINE S == DOMAIN f
<1>1. SumFunctionOnSet(f, S) \in Nat
  BY SumType
<1>2. ASSUME NEW t \in S PROVE f[t] <= SumFunctionOnSet(f, S)
  <2>1. IsFiniteSet(S \ {t}) /\ \A x \in S \ {t} : f[x] \in Nat
    BY FS_Subset
  <2>2. SumFunctionOnSet(f, S \ {t}) \in Nat
    BY <2>1, SumType
  <2>3. \A x \in S : f[x] \in Int
    OBVIOUS
  <2>4. SumFunctionOnSet(f, S) = f[t] + SumFunctionOnSet(f, S \ {t})
    BY <2>3, SumRemove
  <2>5. f[t] \in Nat
    OBVIOUS
  <2>6. QED
    BY <1>1, <2>2, <2>4, <2>5
<1>3. QED
  BY <1>1, <1>2 DEF SumFunction

(* Functions that differ at one index have sums that differ by as much.    *)
LEMMA SumFunctionUpdate ==
    ASSUME NEW f, NEW g, IsFiniteSet(DOMAIN f), DOMAIN g = DOMAIN f,
           \A x \in DOMAIN f : f[x] \in Int /\ g[x] \in Int,
           NEW t \in DOMAIN f, \A x \in DOMAIN f \ {t} : g[x] = f[x]
    PROVE  SumFunction(g) = SumFunction(f) + (g[t] - f[t])
<1> DEFINE S == DOMAIN f
<1>1. IsFiniteSet(S \ {t}) /\ \A x \in S \ {t} : f[x] \in Int
  BY FS_Subset
<1>2. SumFunctionOnSet(f, S \ {t}) \in Int
  BY <1>1, SumType
<1>3. SumFunctionOnSet(g, S \ {t}) = SumFunctionOnSet(f, S \ {t})
  BY <1>1, SumSame
<1>4. /\ SumFunctionOnSet(f, S) = f[t] + SumFunctionOnSet(f, S \ {t})
      /\ SumFunctionOnSet(g, S) = g[t] + SumFunctionOnSet(g, S \ {t})
  BY SumRemove
<1>5. f[t] \in Int /\ g[t] \in Int
  OBVIOUS
<1>6. SumFunctionOnSet(g, S) = SumFunctionOnSet(f, S) + (g[t] - f[t])
  BY <1>2, <1>3, <1>4, <1>5
<1>7. QED
  BY <1>6 DEF SumFunction

(* A further index adds its value.                                         *)
LEMMA SumFunctionExtend ==
    ASSUME NEW f, NEW g, NEW t, IsFiniteSet(DOMAIN f), t \notin DOMAIN f,
           DOMAIN g = DOMAIN f \cup {t},
           \A x \in DOMAIN f : f[x] \in Int /\ g[x] = f[x], g[t] \in Int
    PROVE  SumFunction(g) = SumFunction(f) + g[t]
<1> DEFINE S == DOMAIN f
           T == S \cup {t}
<1>1. IsFiniteSet(T) /\ \A x \in T : g[x] \in Int
  BY FS_AddElement
<1>2. SumFunctionOnSet(g, T) = g[t] + SumFunctionOnSet(g, T \ {t})
  BY <1>1, SumRemove
<1>3. T \ {t} = S
  BY Zenon
<1>4. SumFunctionOnSet(g, S) = SumFunctionOnSet(f, S)
  BY SumSame
<1>5. SumFunctionOnSet(f, S) \in Int
  BY SumType
<1>6. SumFunctionOnSet(g, T) = SumFunctionOnSet(f, S) + g[t]
  BY <1>2, <1>3, <1>4, <1>5
<1>7. QED
  BY <1>6 DEF SumFunction

(* Zeros sum up to zero.                                                   *)
LEMMA SumFunctionZero ==
    ASSUME NEW f, IsFiniteSet(DOMAIN f), \A x \in DOMAIN f : f[x] = 0
    PROVE  SumFunction(f) = 0
<1> DEFINE S == DOMAIN f
           Bad == {T \in SUBSET S : SumFunctionOnSet(f, T) # 0}
<1>1. Bad = {}
  <2> SUFFICES ASSUME Bad # {} PROVE FALSE
    OBVIOUS
  <2>0. Bad \subseteq SUBSET S
    OBVIOUS
  <2> HIDE DEF Bad
  <2>1. PICK T \in Bad : \A U \in Bad : U \subseteq T => U = T
    BY <2>0, SmallestSubset
  <2>2. T \in SUBSET S /\ SumFunctionOnSet(f, T) # 0
    BY <2>1 DEF Bad
  <2>3. T # {}
    BY <2>2, SumEmpty
  <2>4. IsFiniteSet(T) /\ Pick(T) \in T
    BY <2>2, <2>3, FS_Subset, PickInSet
  <2>5. SumFunctionOnSet(f, T \ {Pick(T)}) = 0
    BY <2>1, <2>2, <2>4 DEF Bad
  <2>6. f[Pick(T)] = 0
    BY <2>2, <2>4
  <2>7. 0 + 0 = 0
    OBVIOUS
  <2>8. QED
    BY <2>2, <2>3, <2>4, <2>5, <2>6, <2>7, SumPick
<1>2. SumFunctionOnSet(f, S) = 0
  BY <1>1
<1>3. QED
  BY <1>2 DEF SumFunction

=============================================================================
