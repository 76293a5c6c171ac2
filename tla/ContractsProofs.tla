--------------------------- MODULE ContractsProofs ---------------------------
(***************************************************************************)
(* Proofs about the three contracts that hold money: the escrow of deals,  *)
(* the payment streams and the vesting wallet.                             *)
(***************************************************************************)
EXTENDS DealEscrow, PaymentStreams, VestingWallet, FiniteSetTheorems,
        WellFoundedInduction, TLAPS

(***************************************************************************)
(* Sums over finite sets. SumFunctionOnSet folds a function over a set, in *)
(* the order in which CHOOSE takes the elements out. That the fold exists  *)
(* at all, and what it does when one element comes, goes or changes, is    *)
(* proved by minimal counterexample: a set of subsets of a finite set has  *)
(* a member with no other one below it.                                    *)
(***************************************************************************)
LEMMA MinimalSubset ==
  ASSUME NEW S, IsFiniteSet(S), NEW C, C \subseteq SUBSET S, C # {}
  PROVE  \E U \in C : \A V \in C : V \subseteq U => V = U
<1>1. IsWellFoundedOn(StrictSubsetOrdering(S), SUBSET S)
  BY FS_StrictSubsetOrderingWellFounded, FS_FiniteSubsetsOfFinite
<1>2. PICK U \in C : \A V \in C : ~ (<<V, U>> \in StrictSubsetOrdering(S))
  BY <1>1, WFMin
<1>3. \A V \in C : V \subseteq U => V = U
  BY <1>2 DEF StrictSubsetOrdering
<1> QED BY <1>3

Chosen(s) == CHOOSE x \in s : TRUE

IsIter(g, f, S) ==
  g = [s \in SUBSET S |-> IF s = {} THEN 0 ELSE f[Chosen(s)] + g[s \ {Chosen(s)}]]

Iter(f, S) == CHOOSE g : IsIter(g, f, S)

LEMMA SumIsIter ==
  ASSUME NEW f, NEW S
  PROVE  SumFunctionOnSet(f, S) = Iter(f, S)[S]
BY DEF SumFunctionOnSet, FoldFunctionOnSet, MapThenFoldSet, Iter, IsIter, Chosen

LEMMA ChosenIn == ASSUME NEW s, s # {} PROVE Chosen(s) \in s
BY DEF Chosen

LEMMA IterEquation ==
  ASSUME NEW g, NEW f, NEW S, IsIter(g, f, S), NEW s, s \subseteq S
  PROVE  /\ s = {} => g[s] = 0
         /\ s # {} => g[s] = f[Chosen(s)] + g[s \ {Chosen(s)}]
BY DEF IsIter

LEMMA IterUnique ==
  ASSUME NEW f, NEW S, NEW T, IsFiniteSet(S), T \subseteq S,
         NEW g, IsIter(g, f, S), NEW h, IsIter(h, f, T)
  PROVE  g[T] = h[T]
<1> DEFINE C == {s \in SUBSET T : g[s] # h[s]}
<1> SUFFICES ASSUME C # {} PROVE FALSE
  OBVIOUS
<1>1. IsFiniteSet(T)
  BY FS_Subset
<1>2. PICK s \in C : \A V \in C : V \subseteq s => V = s
  <2> C \subseteq SUBSET T  OBVIOUS
  <2> HIDE DEF C
  <2> QED BY <1>1, MinimalSubset
<1>3. s # {}
  BY <1>2, IterEquation
<1>4. s \ {Chosen(s)} \notin C
  BY <1>2, <1>3, ChosenIn
<1>5. g[s \ {Chosen(s)}] = h[s \ {Chosen(s)}]
  BY <1>4
<1> QED BY <1>2, <1>3, <1>5, IterEquation

LEMMA IterExists ==
  ASSUME NEW f, NEW S, IsFiniteSet(S)
  PROVE  \E g : IsIter(g, f, S)
<1> DEFINE C == {T \in SUBSET S : ~ \E g : IsIter(g, f, T)}
<1> SUFFICES ASSUME C # {} PROVE FALSE
  OBVIOUS
<1>1. PICK T \in C : \A V \in C : V \subseteq T => V = T
  <2> C \subseteq SUBSET S  OBVIOUS
  <2> HIDE DEF C
  <2> QED BY MinimalSubset
<1>2. \A V \in SUBSET T : V # T => IsIter(Iter(f, V), f, V)
  <2> TAKE V \in SUBSET T
  <2> HAVE V # T
  <2>1. \E g : IsIter(g, f, V)
    BY <1>1
  <2> QED BY <2>1 DEF Iter
<1> DEFINE Value(s) == IF s = {} THEN 0 ELSE f[Chosen(s)] + Iter(f, s \ {Chosen(s)})[s \ {Chosen(s)}]
           g == [s \in SUBSET T |-> Value(s)]
<1>3. ASSUME NEW s \in SUBSET T, s # T PROVE g[s] = Iter(f, s)[s]
  <2>1. IsIter(Iter(f, s), f, s)
    BY <1>2, <1>3
  <2>2. CASE s = {}
    BY <2>1, <2>2, IterEquation
  <2>3. CASE s # {}
    <3> DEFINE r == s \ {Chosen(s)}
    <3>1. r \subseteq s /\ r \in SUBSET T /\ r # T
      BY <2>3, ChosenIn
    <3>2. IsIter(Iter(f, r), f, r)
      BY <3>1, <1>2
    <3>3. IsFiniteSet(s)
      BY FS_Subset
    <3>4. Iter(f, s)[r] = Iter(f, r)[r]
      BY <2>1, <3>1, <3>2, <3>3, IterUnique
    <3>5. Iter(f, s)[s] = f[Chosen(s)] + Iter(f, s)[r]
      BY <2>1, <2>3, IterEquation
    <3> QED BY <2>3, <3>4, <3>5
  <2> QED BY <2>2, <2>3
<1>4. \A s \in SUBSET T : g[s] = IF s = {} THEN 0 ELSE f[Chosen(s)] + g[s \ {Chosen(s)}]
  <2> TAKE s \in SUBSET T
  <2>1. CASE s = {} BY <2>1
  <2>2. CASE s # {}
    <3>1. s \ {Chosen(s)} \in SUBSET T /\ s \ {Chosen(s)} # T
      BY <2>2, ChosenIn
    <3>2. g[s \ {Chosen(s)}] = Iter(f, s \ {Chosen(s)})[s \ {Chosen(s)}]
      BY <1>3, <3>1
    <3>3. g[s] = f[Chosen(s)] + Iter(f, s \ {Chosen(s)})[s \ {Chosen(s)}]
      BY <2>2
    <3> QED BY <2>2, <3>2, <3>3
  <2> QED BY <2>1, <2>2
<1>5. IsIter(g, f, T)
  <2>1. g = [s \in SUBSET T |-> g[s]]
    OBVIOUS
  <2> HIDE DEF g
  <2> QED BY <1>4, <2>1 DEF IsIter
<1> QED BY <1>1, <1>5

LEMMA SumEmpty == ASSUME NEW f PROVE SumFunctionOnSet(f, {}) = 0
<1>1. IsIter(Iter(f, {}), f, {})
  BY IterExists, FS_EmptySet DEF Iter
<1> QED BY <1>1, IterEquation, SumIsIter

LEMMA SumChosen ==
  ASSUME NEW f, NEW S, IsFiniteSet(S), S # {}
  PROVE  SumFunctionOnSet(f, S) = f[Chosen(S)] + SumFunctionOnSet(f, S \ {Chosen(S)})
<1> DEFINE r == S \ {Chosen(S)}
<1>1. r \subseteq S /\ IsFiniteSet(r)
  BY FS_Subset
<1>2. IsIter(Iter(f, S), f, S) /\ IsIter(Iter(f, r), f, r)
  BY <1>1, IterExists DEF Iter
<1>3. Iter(f, S)[r] = Iter(f, r)[r]
  BY <1>1, <1>2, IterUnique
<1>4. Iter(f, S)[S] = f[Chosen(S)] + Iter(f, S)[r]
  BY <1>2, IterEquation
<1> QED BY <1>3, <1>4, SumIsIter

LEMMA SumType ==
  ASSUME NEW f, NEW S, IsFiniteSet(S), \A x \in S : f[x] \in Int
  PROVE  SumFunctionOnSet(f, S) \in Int
<1> DEFINE C == {s \in SUBSET S : SumFunctionOnSet(f, s) \notin Int}
<1> SUFFICES ASSUME C # {} PROVE FALSE
  OBVIOUS
<1>1. PICK s \in C : \A V \in C : V \subseteq s => V = s
  <2> C \subseteq SUBSET S  OBVIOUS
  <2> HIDE DEF C
  <2> QED BY MinimalSubset
<1>2. s # {}
  <2>1. SumFunctionOnSet(f, {}) \in Int
    BY SumEmpty
  <2> QED BY <1>1, <2>1
<1>3. SumFunctionOnSet(f, s \ {Chosen(s)}) \in Int
  BY <1>1, <1>2, ChosenIn
<1>4. IsFiniteSet(s) /\ f[Chosen(s)] \in Int
  BY <1>2, ChosenIn, FS_Subset
<1> QED BY <1>1, <1>2, <1>3, <1>4, SumChosen

LEMMA SumTakeOut ==
  ASSUME NEW f, NEW S, IsFiniteSet(S), \A x \in S : f[x] \in Int, NEW a \in S
  PROVE  SumFunctionOnSet(f, S) = f[a] + SumFunctionOnSet(f, S \ {a})
<1> DEFINE Sum(s) == SumFunctionOnSet(f, s)
           C == {s \in SUBSET S : \E x \in s : Sum(s) # f[x] + Sum(s \ {x})}
<1> SUFFICES ASSUME C # {} PROVE FALSE
  OBVIOUS
<1>1. PICK s \in C : \A V \in C : V \subseteq s => V = s
  <2> C \subseteq SUBSET S  OBVIOUS
  <2> HIDE DEF C
  <2> QED BY MinimalSubset
<1>2. PICK x \in s : Sum(s) # f[x] + Sum(s \ {x})
  BY <1>1
<1> DEFINE c == Chosen(s)
<1>3. c \in s /\ IsFiniteSet(s) /\ IsFiniteSet(s \ {x})
  BY <1>2, ChosenIn, FS_Subset
<1>4. Sum(s) = f[c] + Sum(s \ {c})
  BY <1>3, SumChosen
<1>5. x # c
  BY <1>2, <1>4
<1>6. Sum(s \ {c}) = f[x] + Sum((s \ {c}) \ {x})
  <2>1. s \ {c} \notin C
    BY <1>1, <1>3
  <2> QED BY <2>1, <1>5
<1>7. Sum(s \ {x}) = f[c] + Sum((s \ {x}) \ {c})
  <2>1. s \ {x} \notin C
    BY <1>1, <1>3
  <2> QED BY <2>1, <1>3, <1>5
<1>8. (s \ {c}) \ {x} = (s \ {x}) \ {c}
  OBVIOUS
<1>9. f[x] \in Int /\ f[c] \in Int /\ Sum((s \ {x}) \ {c}) \in Int
  <2>1. (s \ {x}) \ {c} \subseteq S /\ IsFiniteSet((s \ {x}) \ {c})
    BY FS_Subset
  <2>2. Sum((s \ {x}) \ {c}) \in Int
    BY <2>1, SumType
  <2> QED BY <2>2, <1>3
<1> DEFINE rest == Sum((s \ {x}) \ {c})
<1>10. Sum(s \ {c}) = f[x] + rest /\ Sum(s \ {x}) = f[c] + rest /\ rest \in Int
  BY <1>6, <1>7, <1>8, <1>9, Zenon
<1> HIDE DEF rest
<1>11. f[c] + (f[x] + rest) = f[x] + (f[c] + rest)
  BY <1>9, <1>10
<1>12. Sum(s) = f[x] + Sum(s \ {x})
  BY <1>4, <1>10, <1>11
<1> QED BY <1>2, <1>12

LEMMA SumNat ==
  ASSUME NEW f, NEW S, IsFiniteSet(S), \A x \in S : f[x] \in Nat
  PROVE  SumFunctionOnSet(f, S) \in Nat
<1> DEFINE C == {s \in SUBSET S : SumFunctionOnSet(f, s) \notin Nat}
<1> SUFFICES ASSUME C # {} PROVE FALSE
  OBVIOUS
<1>1. PICK s \in C : \A V \in C : V \subseteq s => V = s
  <2> C \subseteq SUBSET S  OBVIOUS
  <2> HIDE DEF C
  <2> QED BY MinimalSubset
<1>2. s # {}
  <2>1. SumFunctionOnSet(f, {}) \in Nat
    BY SumEmpty
  <2> QED BY <1>1, <2>1
<1>3. SumFunctionOnSet(f, s \ {Chosen(s)}) \in Nat
  BY <1>1, <1>2, ChosenIn
<1>4. IsFiniteSet(s) /\ f[Chosen(s)] \in Nat
  BY <1>2, ChosenIn, FS_Subset
<1> QED BY <1>1, <1>2, <1>3, <1>4, SumChosen

LEMMA SumElement ==
  ASSUME NEW f, NEW S, IsFiniteSet(S), \A x \in S : f[x] \in Nat, NEW a \in S
  PROVE  f[a] <= SumFunctionOnSet(f, S)
<1>1. IsFiniteSet(S \ {a})
  BY FS_Subset
<1>2. SumFunctionOnSet(f, S \ {a}) \in Nat
  BY <1>1, SumNat
<1> QED BY <1>2, SumTakeOut

LEMMA SumSame ==
  ASSUME NEW f, NEW g, NEW S, IsFiniteSet(S), \A x \in S : f[x] = g[x]
  PROVE  SumFunctionOnSet(f, S) = SumFunctionOnSet(g, S)
<1> DEFINE C == {s \in SUBSET S : SumFunctionOnSet(f, s) # SumFunctionOnSet(g, s)}
<1> SUFFICES ASSUME C # {} PROVE FALSE
  OBVIOUS
<1>1. PICK s \in C : \A V \in C : V \subseteq s => V = s
  <2> C \subseteq SUBSET S  OBVIOUS
  <2> HIDE DEF C
  <2> QED BY MinimalSubset
<1>2. s # {}
  BY <1>1, SumEmpty
<1>3. SumFunctionOnSet(f, s \ {Chosen(s)}) = SumFunctionOnSet(g, s \ {Chosen(s)})
  BY <1>1, <1>2, ChosenIn
<1>4. IsFiniteSet(s) /\ f[Chosen(s)] = g[Chosen(s)]
  BY <1>2, ChosenIn, FS_Subset
<1> QED BY <1>1, <1>2, <1>3, <1>4, SumChosen

LEMMA SumAdd ==
  ASSUME NEW f, NEW S, IsFiniteSet(S), NEW a, a \notin S,
         \A x \in S \cup {a} : f[x] \in Int
  PROVE  SumFunctionOnSet(f, S \cup {a}) = f[a] + SumFunctionOnSet(f, S)
<1>1. IsFiniteSet(S \cup {a}) /\ (S \cup {a}) \ {a} = S
  BY FS_AddElement
<1>2. SumFunctionOnSet(f, S \cup {a}) = f[a] + SumFunctionOnSet(f, (S \cup {a}) \ {a})
  BY <1>1, SumTakeOut
<1> QED BY <1>1, <1>2

\* One summand changes: the sum changes by as much.
LEMMA SumChange ==
  ASSUME NEW f, NEW g, NEW S, IsFiniteSet(S), NEW a \in S,
         \A x \in S : f[x] \in Int /\ g[x] \in Int,
         \A x \in S \ {a} : f[x] = g[x]
  PROVE  SumFunctionOnSet(g, S) = SumFunctionOnSet(f, S) - f[a] + g[a]
<1>1. IsFiniteSet(S \ {a})
  BY FS_Subset
<1>2. SumFunctionOnSet(f, S) = f[a] + SumFunctionOnSet(f, S \ {a})
  BY SumTakeOut
<1>3. SumFunctionOnSet(g, S) = g[a] + SumFunctionOnSet(g, S \ {a})
  BY SumTakeOut
<1>4. SumFunctionOnSet(f, S \ {a}) = SumFunctionOnSet(g, S \ {a})
  BY <1>1, SumSame
<1>5. SumFunctionOnSet(f, S \ {a}) \in Int
  BY <1>1, SumType
<1> QED BY <1>2, <1>3, <1>4, <1>5

LEMMA SumBelow ==
  ASSUME NEW f, NEW g, NEW S, IsFiniteSet(S),
         \A x \in S : f[x] \in Int /\ g[x] \in Int /\ f[x] <= g[x]
  PROVE  SumFunctionOnSet(f, S) <= SumFunctionOnSet(g, S)
<1> DEFINE C == {s \in SUBSET S : ~ (SumFunctionOnSet(f, s) <= SumFunctionOnSet(g, s))}
<1> SUFFICES ASSUME C # {} PROVE FALSE
  OBVIOUS
<1>1. PICK s \in C : \A V \in C : V \subseteq s => V = s
  <2> C \subseteq SUBSET S  OBVIOUS
  <2> HIDE DEF C
  <2> QED BY MinimalSubset
<1>2. s # {}
  <2>1. SumFunctionOnSet(f, {}) <= SumFunctionOnSet(g, {})
    BY SumEmpty
  <2> QED BY <1>1, <2>1
<1>3. SumFunctionOnSet(f, s \ {Chosen(s)}) <= SumFunctionOnSet(g, s \ {Chosen(s)})
  BY <1>1, <1>2, ChosenIn
<1>4. IsFiniteSet(s) /\ IsFiniteSet(s \ {Chosen(s)}) /\ Chosen(s) \in S
  BY <1>2, ChosenIn, FS_Subset
<1>5. SumFunctionOnSet(f, s \ {Chosen(s)}) \in Int /\ SumFunctionOnSet(g, s \ {Chosen(s)}) \in Int
  BY <1>4, SumType
<1> QED BY <1>1, <1>2, <1>3, <1>4, <1>5, SumChosen

\* The sum of a sum of functions.
LEMMA SumPlus ==
  ASSUME NEW f, NEW g, NEW h, NEW S, IsFiniteSet(S),
         \A x \in S : f[x] \in Int /\ g[x] \in Int /\ h[x] = f[x] + g[x]
  PROVE  SumFunctionOnSet(h, S) = SumFunctionOnSet(f, S) + SumFunctionOnSet(g, S)
<1> DEFINE C == {s \in SUBSET S :
                    SumFunctionOnSet(h, s) # SumFunctionOnSet(f, s) + SumFunctionOnSet(g, s)}
<1> SUFFICES ASSUME C # {} PROVE FALSE
  OBVIOUS
<1>1. PICK s \in C : \A V \in C : V \subseteq s => V = s
  <2> C \subseteq SUBSET S  OBVIOUS
  <2> HIDE DEF C
  <2> QED BY MinimalSubset
<1>2. s # {}
  <2>1. SumFunctionOnSet(h, {}) = SumFunctionOnSet(f, {}) + SumFunctionOnSet(g, {})
    BY SumEmpty
  <2> QED BY <1>1, <2>1
<1> DEFINE c == Chosen(s)
           r == s \ {c}
<1>3. SumFunctionOnSet(h, r) = SumFunctionOnSet(f, r) + SumFunctionOnSet(g, r)
  BY <1>1, <1>2, ChosenIn
<1>4. IsFiniteSet(s) /\ IsFiniteSet(r) /\ c \in S /\ r \subseteq S
  BY <1>2, ChosenIn, FS_Subset
<1>5. SumFunctionOnSet(f, r) \in Int /\ SumFunctionOnSet(g, r) \in Int
  BY <1>4, SumType
<1>6. /\ SumFunctionOnSet(f, s) = f[c] + SumFunctionOnSet(f, r)
      /\ SumFunctionOnSet(g, s) = g[c] + SumFunctionOnSet(g, r)
      /\ SumFunctionOnSet(h, s) = h[c] + SumFunctionOnSet(h, r)
  BY <1>2, <1>4, SumChosen
<1>7. f[c] \in Int /\ g[c] \in Int /\ h[c] = f[c] + g[c]
  BY <1>4
<1> HIDE DEF c, r
<1>8. SumFunctionOnSet(h, s) = SumFunctionOnSet(f, s) + SumFunctionOnSet(g, s)
  BY <1>3, <1>5, <1>6, <1>7
<1> QED BY <1>1, <1>8

\* Summands that are 0 can be left out.
LEMMA SumRestrict ==
  ASSUME NEW f, NEW S, IsFiniteSet(S), NEW T \in SUBSET S,
         \A x \in S : f[x] \in Int, \A x \in S \ T : f[x] = 0
  PROVE  SumFunctionOnSet(f, S) = SumFunctionOnSet(f, T)
<1> DEFINE C == {s \in SUBSET S : T \subseteq s /\ SumFunctionOnSet(f, s) # SumFunctionOnSet(f, T)}
<1> SUFFICES ASSUME C # {} PROVE FALSE
  OBVIOUS
<1>1. PICK s \in C : \A V \in C : V \subseteq s => V = s
  <2> C \subseteq SUBSET S  OBVIOUS
  <2> HIDE DEF C
  <2> QED BY MinimalSubset
<1>2. PICK a \in s : a \notin T
  <2>1. T \subseteq s /\ s # T
    BY <1>1
  <2> HIDE DEF C
  <2> QED BY <2>1
<1>3. SumFunctionOnSet(f, s \ {a}) = SumFunctionOnSet(f, T)
  BY <1>1, <1>2
<1>4. IsFiniteSet(s) /\ IsFiniteSet(s \ {a}) /\ f[a] = 0
  BY <1>1, <1>2, FS_Subset
<1>5. SumFunctionOnSet(f, s) = f[a] + SumFunctionOnSet(f, s \ {a})
  BY <1>1, <1>2, <1>4, SumTakeOut
<1>6. SumFunctionOnSet(f, s \ {a}) \in Int
  BY <1>1, <1>4, SumType
<1> QED BY <1>1, <1>3, <1>4, <1>5, <1>6

\* Leaving summands out does not make a sum larger.
LEMMA SumSubset ==
  ASSUME NEW f, NEW S, IsFiniteSet(S), NEW T \in SUBSET S, \A x \in S : f[x] \in Nat
  PROVE  SumFunctionOnSet(f, T) <= SumFunctionOnSet(f, S)
<1> DEFINE g == [x \in S |-> IF x \in T THEN f[x] ELSE 0]
<1>1. IsFiniteSet(T)
  BY FS_Subset
<1>2. SumFunctionOnSet(g, S) = SumFunctionOnSet(g, T)
  <2>1. (\A x \in S : g[x] \in Int) /\ \A x \in S \ T : g[x] = 0
    OBVIOUS
  <2> HIDE DEF g
  <2> QED BY <2>1, SumRestrict
<1>3. SumFunctionOnSet(g, T) = SumFunctionOnSet(f, T)
  <2>1. \A x \in T : g[x] = f[x]
    OBVIOUS
  <2> HIDE DEF g
  <2> QED BY <1>1, <2>1, SumSame
<1>4. SumFunctionOnSet(g, S) <= SumFunctionOnSet(f, S)
  <2>1. \A x \in S : g[x] \in Int /\ f[x] \in Int /\ g[x] <= f[x]
    OBVIOUS
  <2> HIDE DEF g
  <2> QED BY <2>1, SumBelow
<1> QED BY <1>2, <1>3, <1>4

(***************************************************************************)
(* The part a/b of an amount n is computed as (n * a) div b, by contracts  *)
(* that release in proportion to time and that keep a fee in ten           *)
(* thousandths.                                                            *)
(***************************************************************************)
LEMMA DivQuotient ==
  ASSUME NEW x \in Nat, NEW b \in Nat \ {0}
  PROVE  /\ x \div b \in Nat
         /\ b * (x \div b) <= x
         /\ x < b * (x \div b) + b
OBVIOUS

LEMMA TimesMonotone ==
  ASSUME NEW x \in Nat, NEW y \in Nat, NEW z \in Nat, x <= y
  PROVE  /\ z * x \in Nat /\ z * x <= z * y
         /\ x * z \in Nat /\ x * z <= y * z
OBVIOUS

LEMMA DivAtMost ==
  ASSUME NEW x \in Nat, NEW b \in Nat \ {0}, NEW q \in Nat, x <= b * q
  PROVE  x \div b <= q
<1> DEFINE p == x \div b
<1>1. p \in Nat /\ b * p <= x
  BY DivQuotient
<1> HIDE DEF p
<1>2. SUFFICES ASSUME p >= q + 1 PROVE FALSE
  BY <1>1 DEF p
<1>3. b * (q + 1) <= b * p
  BY <1>1, <1>2, TimesMonotone
<1>4. b * (q + 1) = b * q + b
  OBVIOUS
<1>5. b * q \in Nat /\ b * p \in Nat
  BY <1>1
<1> QED BY <1>1, <1>3, <1>4, <1>5

LEMMA DivMonotone ==
  ASSUME NEW x \in Nat, NEW y \in Nat, x <= y, NEW b \in Nat \ {0}
  PROVE  x \div b <= y \div b
<1> DEFINE p == x \div b
           q == y \div b
<1>1. p \in Nat /\ q \in Nat /\ b * p <= x /\ y < b * q + b
  BY DivQuotient
<1> HIDE DEF p, q
<1>2. SUFFICES ASSUME p >= q + 1 PROVE FALSE
  BY <1>1 DEF p, q
<1>3. b * (q + 1) <= b * p
  BY <1>1, <1>2, TimesMonotone
<1>4. b * (q + 1) = b * q + b
  BY <1>1
<1>5. b * q \in Nat /\ b * p \in Nat
  BY <1>1
<1> QED BY <1>1, <1>3, <1>4, <1>5

LEMMA DivExact ==
  ASSUME NEW n \in Nat, NEW b \in Nat \ {0}
  PROVE  (n * b) \div b = n
<1> DEFINE p == (n * b) \div b
<1>1. p \in Nat /\ b * p <= n * b /\ n * b < b * p + b /\ n * b \in Nat
  BY DivQuotient
<1> HIDE DEF p
<1>2. p <= n
  BY <1>1, DivAtMost DEF p
<1>3. SUFFICES ASSUME p + 1 <= n PROVE FALSE
  BY <1>1, <1>2 DEF p
<1>4. b * (p + 1) <= b * n
  BY <1>1, <1>3, TimesMonotone
<1>5. b * (p + 1) = b * p + b /\ b * n = n * b
  BY <1>1
<1>6. b * p \in Nat
  BY <1>1
<1> QED BY <1>1, <1>4, <1>5, <1>6

LEMMA ShareBounds ==
  ASSUME NEW n \in Nat, NEW a \in Nat, NEW b \in Nat \ {0}, a <= b
  PROVE  (n * a) \div b \in Nat /\ (n * a) \div b <= n
<1>1. n * a \in Nat /\ n * a <= n * b /\ n * b = b * n
  BY TimesMonotone
<1> QED BY <1>1, DivAtMost, DivQuotient

LEMMA ShareGrows ==
  ASSUME NEW n \in Nat, NEW a \in Nat, NEW c \in Nat, NEW b \in Nat \ {0}, a <= c
  PROVE  (n * a) \div b <= (n * c) \div b
<1>1. n * a \in Nat /\ n * c \in Nat /\ n * a <= n * c
  BY TimesMonotone
<1> QED BY <1>1, DivMonotone

(***************************************************************************)
(* The escrow of deals                                                     *)
(***************************************************************************)
EscrowMore ==
  /\ \A d \in Deals : d \notin Escrowed => paidOut[d] = 0
  /\ \A d \in Escrowed : escrow[d].fee <= escrow[d].amount

EscrowIInv == EscrowTypeOK /\ EscrowMore /\ EscrowCovered /\ DealsBacked

LEMMA EscrowRecord ==
  ASSUME NEW r \in EscrowRecords \cup {NoEscrow}
  PROVE  /\ r # NoEscrow <=> r \in EscrowRecords
         /\ r # NoEscrow => /\ r.token \in DealTokens /\ r.amount \in Nat /\ r.fee \in Nat
                            /\ r.released \in BOOLEAN /\ r.refunded \in BOOLEAN
<1>1. NoEscrow \notin EscrowRecords
  <2> SUFFICES ASSUME NoEscrow \in EscrowRecords PROVE FALSE
    OBVIOUS
  <2>1. DOMAIN NoEscrow = {"token"}
    BY DEF NoEscrow
  <2>2. DOMAIN NoEscrow = {"token", "amount", "fee", "released", "refunded"}
    BY DEF EscrowRecords
  <2> QED BY <2>1, <2>2
<1> QED BY <1>1 DEF EscrowRecords

LEMMA DealRecord ==
  ASSUME NEW r \in DealRecords \cup {NoDeal}
  PROVE  /\ r # NoDeal <=> r \in DealRecords
         /\ r.status \in {"Pending", "Funded", "Cancelled"} <=> r \in DealRecords
         /\ r # NoDeal => r.price \in DealPrices /\ r.token \in DealTokens /\ r.expires \in Nat
<1>1. NoDeal.status = "none"
  BY DEF NoDeal
<1>2. NoDeal \notin DealRecords
  BY <1>1 DEF DealRecords
<1> QED BY <1>1, <1>2 DEF DealRecords

FeeOf(n, f) == (n * f) \div 10000

LEMMA FeeBounds ==
  ASSUME NEW n \in Nat, NEW f \in 0 .. 500
  PROVE  /\ FeeOf(n, f) \in Nat
         /\ n - FeeOf(n, f) \in Nat
         /\ FeeOf(n, f) <= n - FeeOf(n, f)
<1> DEFINE fee == (n * f) \div 10000
<1>1. n * f \in Nat /\ n * f <= n * 500
  BY TimesMonotone
<1>2. fee \in Nat /\ 10000 * fee <= n * f
  BY <1>1, DivQuotient
<1> QED BY <1>1, <1>2 DEF FeeOf

\* What is still kept for each deal, and the deals kept in each token.
Kept == [d \in Escrowed |-> Held(d) - paidOut[d]]
KeptIn(k) == {d \in Escrowed : escrow[d].token = k}

LEMMA KeptTypes ==
  ASSUME EscrowTypeOK
  PROVE  /\ \A d \in Escrowed : Kept[d] \in Int /\ Held(d) \in Nat
         /\ IsFiniteSet(Escrowed)
         /\ \A k \in DealTokens : IsFiniteSet(KeptIn(k)) /\ KeptIn(k) \subseteq Escrowed
<1>1. \A d \in Escrowed : escrow[d].amount \in Nat /\ escrow[d].fee \in Nat
  BY EscrowRecord DEF EscrowTypeOK, Escrowed
<1>2. \A d \in Escrowed : paidOut[d] \in Nat /\ Held(d) \in Nat
  BY <1>1 DEF EscrowTypeOK, Escrowed, Held
<1>3. Escrowed \subseteq Deals
  BY DEF Escrowed
<1>4. IsFiniteSet(Escrowed) /\ \A k \in DealTokens : IsFiniteSet(KeptIn(k))
  BY <1>3, FS_Subset, EscrowAssumption DEF KeptIn
<1> QED BY <1>1, <1>2, <1>4 DEF Kept, KeptIn, Held

LEMMA EscrowOpensEffect ==
  ASSUME EscrowTypeOK, EscrowMore, NEW d \in Deals, NEW k \in DealTokens, NEW n \in Nat,
         CreateEscrow(d, k, n), UNCHANGED paidOut
  PROVE  /\ escrow' \in [Deals -> EscrowRecords \cup {NoEscrow}]
         /\ escrowHas' = [escrowHas EXCEPT ![k] = @ + n]
         /\ d \notin Escrowed /\ Escrowed' = Escrowed \cup {d}
         /\ \A e \in Escrowed : escrow'[e] = escrow[e] /\ Held(e)' = Held(e)
         /\ escrow'[d].token = k /\ Held(d)' = n /\ n > 0
         /\ ~escrow'[d].released /\ ~escrow'[d].refunded
         /\ escrow'[d].fee <= escrow'[d].amount
<1> DEFINE fee == (n * escrowFee) \div 10000
           new == [token |-> k, amount |-> n - fee, fee |-> fee, released |-> FALSE,
                   refunded |-> FALSE]
<1>1. fee \in Nat /\ n - fee \in Nat /\ fee <= n - fee
  <2>1. escrowFee \in 0 .. 500
    BY EscrowAssumption DEF EscrowTypeOK
  <2>2. fee = FeeOf(n, escrowFee)
    BY DEF FeeOf
  <2> HIDE DEF fee, new
  <2> QED BY <2>1, <2>2, FeeBounds
<1>2. /\ d \notin Escrowed /\ n > 0
      /\ escrow' = [escrow EXCEPT ![d] = new]
      /\ escrowHas' = [escrowHas EXCEPT ![k] = @ + n]
  BY DEF CreateEscrow
<1> HIDE DEF fee
<1>3. new \in EscrowRecords
  BY <1>1 DEF EscrowRecords
<1>4. new # NoEscrow
  BY <1>3, EscrowRecord
<1>5. new.token = k /\ new.amount = n - fee /\ new.fee = fee /\ ~new.released /\ ~new.refunded
  OBVIOUS
<1> HIDE DEF new
<1>6. escrow'[d] = new /\ (\A e \in Deals \ {d} : escrow'[e] = escrow[e]) /\ escrow \in [Deals -> EscrowRecords \cup {NoEscrow}]
  BY <1>2 DEF EscrowTypeOK
<1>7. escrow' \in [Deals -> EscrowRecords \cup {NoEscrow}]
  BY <1>2, <1>3 DEF EscrowTypeOK
<1>8. Escrowed' = Escrowed \cup {d} /\ d \notin Escrowed
  BY <1>2, <1>4, <1>6 DEF Escrowed
<1>9. \A e \in Escrowed : escrow'[e] = escrow[e] /\ Held(e)' = Held(e)
  BY <1>6, <1>8 DEF Escrowed, Held
<1>10. Held(d)' = n
  BY <1>1, <1>5, <1>6 DEF Held
<1> QED BY <1>1, <1>2, <1>5, <1>6, <1>7, <1>8, <1>9, <1>10

LEMMA EscrowOpens ==
  ASSUME EscrowTypeOK, EscrowMore, EscrowCovered,
         NEW d \in Deals, NEW k \in DealTokens, NEW n \in Nat,
         CreateEscrow(d, k, n), UNCHANGED paidOut
  PROVE  EscrowMore' /\ EscrowCovered' /\ escrowHas' \in [DealTokens -> Nat]
<1>1. /\ escrow' \in [Deals -> EscrowRecords \cup {NoEscrow}]
      /\ escrowHas' = [escrowHas EXCEPT ![k] = @ + n]
      /\ d \notin Escrowed /\ Escrowed' = Escrowed \cup {d}
      /\ \A e \in Escrowed : escrow'[e] = escrow[e] /\ Held(e)' = Held(e)
      /\ escrow'[d].token = k /\ Held(d)' = n /\ n > 0
      /\ ~escrow'[d].released /\ ~escrow'[d].refunded
      /\ escrow'[d].fee <= escrow'[d].amount
  BY EscrowOpensEffect
<1>2. paidOut' = paidOut /\ paidOut[d] = 0 /\ paidOut \in [Deals -> Nat]
  BY <1>1 DEF EscrowMore, EscrowTypeOK
<1>3. EscrowMore'
  BY <1>1, <1>2 DEF EscrowMore
<1>4. escrowHas \in [DealTokens -> Nat]
  BY DEF EscrowTypeOK
<1>5. escrowHas' \in [DealTokens -> Nat]
  BY <1>1, <1>4
<1>6. ASSUME NEW t \in DealTokens
      PROVE  escrowHas'[t] = SumFunctionOnSet(Kept', KeptIn(t)')
  <2>1. escrowHas[t] = SumFunctionOnSet(Kept, KeptIn(t))
    BY DEF EscrowCovered, Kept, KeptIn
  <2>2. \A e \in KeptIn(t) : Kept'[e] = Kept[e] /\ Kept[e] \in Int
    BY <1>1, <1>2, KeptTypes DEF Kept, KeptIn
  <2>3. IsFiniteSet(KeptIn(t)) /\ d \notin KeptIn(t)
    BY <1>1, KeptTypes
  <2>4. SumFunctionOnSet(Kept', KeptIn(t)) = escrowHas[t]
    BY <2>1, <2>2, <2>3, SumSame
  <2>5. CASE t = k
    <3>1. KeptIn(t)' = KeptIn(t) \cup {d}
      BY <1>1, <2>5 DEF KeptIn
    <3>2. Kept'[d] = n
      BY <1>1, <1>2 DEF Kept
    <3>3. \A e \in KeptIn(t) \cup {d} : Kept'[e] \in Int
      BY <2>2, <3>2
    <3>4. SumFunctionOnSet(Kept', KeptIn(t) \cup {d}) = n + escrowHas[t]
      BY <2>3, <2>4, <3>2, <3>3, SumAdd
    <3>5. escrowHas'[t] = n + escrowHas[t]
      BY <1>1, <1>4, <2>5
    <3> QED BY <3>1, <3>4, <3>5
  <2>6. CASE t # k
    <3>1. KeptIn(t)' = KeptIn(t)
      BY <1>1, <2>6 DEF KeptIn
    <3>2. escrowHas'[t] = escrowHas[t]
      BY <1>1, <1>4, <2>6
    <3> QED BY <2>4, <3>1, <3>2
  <2> QED BY <2>5, <2>6
<1>7. ASSUME NEW e \in Escrowed'
      PROVE  /\ Open(e)' => paidOut'[e] = 0
             /\ escrow'[e].refunded => paidOut'[e] = Held(e)' /\ ~escrow'[e].released
             /\ paidOut'[e] <= Held(e)'
  <2>1. CASE e = d
    BY <1>1, <1>2, <2>1
  <2>2. CASE e \in Escrowed
    BY <1>1, <1>2, <2>2 DEF EscrowCovered, Open
  <2> QED BY <1>1, <2>1, <2>2
<1> QED BY <1>3, <1>5, <1>6, <1>7 DEF EscrowCovered, Kept, KeptIn

\* A release or a refund of d: one of the flags, and money.
LEMMA EscrowSettles ==
  ASSUME EscrowTypeOK, EscrowMore, EscrowCovered,
         NEW d \in Deals, Open(d), NEW n \in Nat, n <= Held(d), EscrowPays(d, n),
         \/ escrow' = [escrow EXCEPT ![d].released = TRUE]
         \/ escrow' = [escrow EXCEPT ![d].refunded = TRUE] /\ n = Held(d)
  PROVE  /\ EscrowMore' /\ EscrowCovered'
         /\ escrow' \in [Deals -> EscrowRecords \cup {NoEscrow}]
         /\ escrowHas' \in [DealTokens -> Nat] /\ paidOut' \in [Deals -> Nat]
         /\ Escrowed' = Escrowed
         /\ \A e \in Escrowed : /\ Held(e)' = Held(e) /\ escrow'[e].token = escrow[e].token
                                /\ escrow[e].refunded => escrow'[e].refunded
<1> DEFINE settled == escrow'[d]
<1>1. /\ d \in Escrowed /\ ~escrow[d].released /\ ~escrow[d].refunded
      /\ escrow[d] \in EscrowRecords
      /\ \A e \in Escrowed : escrow[e] \in EscrowRecords
  BY EscrowRecord DEF Open, Escrowed, EscrowTypeOK
<1>2. escrow \in [Deals -> EscrowRecords \cup {NoEscrow}]
  BY DEF EscrowTypeOK
<1>3. /\ settled \in EscrowRecords
      /\ settled.token = escrow[d].token /\ settled.amount = escrow[d].amount
      /\ settled.fee = escrow[d].fee
      /\ settled.refunded => ~settled.released /\ n = Held(d)
      /\ settled.refunded \/ settled.released
  BY <1>1, <1>2 DEF EscrowRecords
<1>4. /\ \A e \in Deals \ {d} : escrow'[e] = escrow[e]
      /\ DOMAIN escrow' = Deals
  BY <1>2
<1>5. escrow' \in [Deals -> EscrowRecords \cup {NoEscrow}]
  <2>1. escrow' = [e \in Deals |-> escrow'[e]]
    BY <1>2
  <2> QED BY <1>2, <1>3, <1>4, <2>1
<1>6. Escrowed' = Escrowed
  <2>1. settled # NoEscrow
    BY <1>3, EscrowRecord
  <2> QED BY <1>1, <1>4, <2>1 DEF Escrowed
<1> HIDE DEF settled
<1>7. /\ Held(d)' = Held(d) /\ escrow'[d].token = escrow[d].token
      /\ \A e \in Escrowed \ {d} : Held(e)' = Held(e) /\ escrow'[e] = escrow[e]
  BY <1>3, <1>4 DEF settled, Held, Escrowed
<1>8. \A e \in Escrowed : /\ Held(e)' = Held(e) /\ escrow'[e].token = escrow[e].token
                          /\ escrow[e].refunded => escrow'[e].refunded
  BY <1>1, <1>7
<1> DEFINE k == escrow[d].token
<1>9. /\ escrowHas \in [DealTokens -> Nat] /\ k \in DealTokens
      /\ escrowHas[k] >= n /\ escrowHas' = [escrowHas EXCEPT ![k] = @ - n]
      /\ paidOut \in [Deals -> Nat] /\ paidOut[d] = 0
      /\ paidOut' = [paidOut EXCEPT ![d] = @ + n]
  BY <1>1 DEF EscrowTypeOK, EscrowPays, EscrowRecords, EscrowCovered
<1>10. escrowHas' \in [DealTokens -> Nat] /\ paidOut' \in [Deals -> Nat]
  <2>1. escrowHas[k] - n \in Nat /\ paidOut[d] + n \in Nat
    BY <1>9
  <2> QED BY <1>9, <2>1
<1>11. paidOut'[d] = n /\ \A e \in Deals \ {d} : paidOut'[e] = paidOut[e]
  BY <1>9
<1>12. EscrowMore'
  <2>1. \A e \in Deals : e \notin Escrowed' => paidOut'[e] = 0
    BY <1>1, <1>6, <1>11 DEF EscrowMore
  <2>2. \A e \in Escrowed' : escrow'[e].fee <= escrow'[e].amount
    BY <1>3, <1>6, <1>7 DEF EscrowMore, settled
  <2> QED BY <2>1, <2>2 DEF EscrowMore
<1>13. ASSUME NEW t \in DealTokens
       PROVE  escrowHas'[t] = SumFunctionOnSet(Kept', KeptIn(t)')
  <2>1. escrowHas[t] = SumFunctionOnSet(Kept, KeptIn(t))
    BY DEF EscrowCovered, Kept, KeptIn
  <2>2. KeptIn(t)' = KeptIn(t)
    BY <1>6, <1>8 DEF KeptIn
  <2>3. \A e \in KeptIn(t) \ {d} : Kept'[e] = Kept[e]
    BY <1>6, <1>7, <1>11 DEF Kept, KeptIn, Escrowed
  <2>4. IsFiniteSet(KeptIn(t)) /\ \A e \in KeptIn(t) : Kept[e] \in Int
    BY KeptTypes
  <2>5. CASE t = k
    <3>1. d \in KeptIn(t)
      BY <1>1, <2>5 DEF KeptIn
    <3>2. Kept[d] = Held(d) /\ Kept'[d] = Held(d) - n /\ Held(d) \in Nat
      BY <1>1, <1>6, <1>7, <1>9, <1>11, KeptTypes DEF Kept
    <3>3. \A e \in KeptIn(t) : Kept[e] \in Int /\ Kept'[e] \in Int
      BY <2>3, <2>4, <3>2
    <3>4. SumFunctionOnSet(Kept', KeptIn(t)) = SumFunctionOnSet(Kept, KeptIn(t)) - Kept[d] + Kept'[d]
      BY <2>3, <2>4, <3>1, <3>3, SumChange
    <3>5. escrowHas[t] \in Nat /\ escrowHas'[t] = escrowHas[t] - n
      BY <1>9, <2>5
    <3> QED BY <2>1, <2>2, <3>2, <3>4, <3>5
  <2>6. CASE t # k
    <3>1. d \notin KeptIn(t)
      BY <2>6 DEF KeptIn
    <3>2. SumFunctionOnSet(Kept', KeptIn(t)) = SumFunctionOnSet(Kept, KeptIn(t))
      BY <2>3, <2>4, <3>1, SumSame
    <3>3. escrowHas'[t] = escrowHas[t]
      BY <1>9, <2>6
    <3> QED BY <2>1, <2>2, <3>2, <3>3
  <2> QED BY <2>5, <2>6
<1>14. ASSUME NEW e \in Escrowed'
       PROVE  /\ Open(e)' => paidOut'[e] = 0
              /\ escrow'[e].refunded => paidOut'[e] = Held(e)' /\ ~escrow'[e].released
              /\ paidOut'[e] <= Held(e)'
  <2>1. CASE e = d
    BY <1>3, <1>7, <1>11, <2>1 DEF Open, settled
  <2>2. CASE e # d
    BY <1>6, <1>7, <1>11, <2>2 DEF EscrowCovered, Open, Escrowed
  <2> QED BY <2>1, <2>2
<1> QED BY <1>5, <1>6, <1>8, <1>10, <1>12, <1>13, <1>14 DEF EscrowCovered, Kept, KeptIn

\* What the escrow took for the deals of the marketplace in each token.
HeldOf == [d \in Escrowed |-> Held(d)]
HeldFor(k) == {d \in Escrowed : deal[d] # NoDeal /\ deal[d].token = k}

LEMMA HeldTypes ==
  ASSUME EscrowTypeOK, NEW k \in DealTokens
  PROVE  /\ IsFiniteSet(HeldFor(k)) /\ HeldFor(k) \subseteq Escrowed
         /\ \A d \in HeldFor(k) : HeldOf[d] \in Int
<1>1. HeldFor(k) \subseteq Escrowed
  BY DEF HeldFor
<1> QED BY <1>1, KeptTypes, FS_Subset DEF HeldOf

LEMMA HeldSumSame ==
  ASSUME EscrowTypeOK, NEW k \in DealTokens, HeldFor(k)' = HeldFor(k),
         \A e \in HeldFor(k) : e \in Escrowed' /\ Held(e)' = Held(e)
  PROVE  SumFunctionOnSet(HeldOf', HeldFor(k)') = SumFunctionOnSet(HeldOf, HeldFor(k))
<1>1. \A e \in HeldFor(k) : HeldOf'[e] = HeldOf[e]
  BY HeldTypes DEF HeldOf
<1> QED BY <1>1, HeldTypes, SumSame

\* DealsBacked in two parts: each deal, and the marketplace's own money.
DealBacked(d) ==
  /\ deal[d].status = "Pending" => d \notin Escrowed
  /\ deal[d].status = "Funded" =>
        d \in Escrowed /\ Held(d) = deal[d].price /\ escrow[d].token = deal[d].token
  /\ deal[d].status = "Cancelled" /\ d \in Escrowed => escrow[d].refunded

CommerceBacked ==
  /\ commerceHas[Native] = 0
  /\ \A k \in DealTokens : commerceHas[k] <= SumFunctionOnSet(HeldOf, HeldFor(k))

LEMMA DealsBackedParts == DealsBacked <=> (\A d \in Deals : DealBacked(d)) /\ CommerceBacked
BY DEF DealsBacked, DealBacked, CommerceBacked, HeldOf, HeldFor

LEMMA EscrowFrame ==
  ASSUME EscrowMore, EscrowCovered, UNCHANGED <<escrow, escrowHas, paidOut>>
  PROVE  /\ EscrowMore' /\ EscrowCovered' /\ Escrowed' = Escrowed
         /\ \A d \in Escrowed : Held(d)' = Held(d)
BY DEF EscrowMore, EscrowCovered, Escrowed, Held, Open

LEMMA EscrowStarts == EscrowInit => EscrowIInv
<1> SUFFICES ASSUME EscrowInit PROVE EscrowIInv
  OBVIOUS
<1>1. EscrowTypeOK
  <2>1. dealTime \in 0 .. DealHorizon /\ escrowFee \in EscrowFees
    BY EscrowAssumption DEF EscrowInit
  <2>2. /\ dealPaused \in BOOLEAN /\ commerceSet \in BOOLEAN
        /\ deal \in [Deals -> DealRecords \cup {NoDeal}]
        /\ escrow \in [Deals -> EscrowRecords \cup {NoEscrow}]
    BY DEF EscrowInit
  <2>3. /\ escrowHas \in [DealTokens -> Nat] /\ commerceHas \in [DealTokens -> Nat]
        /\ paidOut \in [Deals -> Nat]
    BY DEF EscrowInit
  <2> QED BY <2>1, <2>2, <2>3 DEF EscrowTypeOK
<1>2. Escrowed = {}
  BY DEF EscrowInit, Escrowed
<1>3. EscrowMore
  BY <1>2 DEF EscrowInit, EscrowMore
<1>4. EscrowCovered
  <2>1. \A k \in DealTokens : escrowHas[k] = 0 /\ KeptIn(k) = {}
    BY <1>2 DEF EscrowInit, KeptIn
  <2>2. \A k \in DealTokens : escrowHas[k] = SumFunctionOnSet(Kept, KeptIn(k))
    BY <2>1, SumEmpty
  <2> QED BY <1>2, <2>2 DEF EscrowCovered, Kept, KeptIn
<1>5. \A d \in Deals : DealBacked(d)
  BY <1>2 DEF EscrowInit, DealBacked, NoDeal
<1>6. CommerceBacked
  <2>1. \A k \in DealTokens : commerceHas[k] = 0 /\ HeldFor(k) = {}
    BY <1>2 DEF EscrowInit, HeldFor
  <2>2. \A k \in DealTokens : commerceHas[k] <= SumFunctionOnSet(HeldOf, HeldFor(k))
    BY <2>1, SumEmpty
  <2> QED BY <2>1, <2>2, EscrowAssumption DEF CommerceBacked
<1> QED BY <1>1, <1>3, <1>4, <1>5, <1>6, DealsBackedParts DEF EscrowIInv

\* Steps that touch neither deals nor money.
LEMMA SettingsKeepEscrow ==
  ASSUME EscrowIInv, UNCHANGED <<deal, escrow, escrowHas, commerceHas, paidOut>>,
         dealTime' \in 0 .. DealHorizon, dealPaused' \in BOOLEAN, commerceSet' \in BOOLEAN,
         escrowFee' \in EscrowFees
  PROVE  EscrowIInv'
<1>1. EscrowTypeOK'
  BY DEF EscrowIInv, EscrowTypeOK
<1>2. EscrowMore' /\ EscrowCovered'
  BY EscrowFrame DEF EscrowIInv
<1>3. DealsBacked'
  BY DEF EscrowIInv, DealsBacked, Escrowed, Held
<1> QED BY <1>1, <1>2, <1>3 DEF EscrowIInv

LEMMA CreateDealKeepsEscrow ==
  ASSUME EscrowIInv, NEW d \in Deals, NEW p \in DealPrices, NEW k \in DealTokens,
         NEW l \in DealLifetimes, CreateDeal(d, p, k, l)
  PROVE  EscrowIInv'
<1> DEFINE new == [status |-> "Pending", price |-> p, token |-> k, expires |-> dealTime + l]
<1>1. /\ d \notin Escrowed /\ deal[d] = NoDeal /\ deal' = [deal EXCEPT ![d] = new]
      /\ UNCHANGED <<dealTime, dealPaused, escrow, commerceSet, escrowFee, escrowHas, commerceHas, paidOut>>
  BY DEF CreateDeal
<1>2. new \in DealRecords /\ new.status = "Pending"
  BY EscrowAssumption DEF DealRecords, EscrowIInv, EscrowTypeOK
<1> HIDE DEF new
<1>3. EscrowTypeOK'
  BY <1>1, <1>2 DEF EscrowIInv, EscrowTypeOK
<1>4. /\ EscrowMore' /\ EscrowCovered' /\ Escrowed' = Escrowed
      /\ \A e \in Escrowed : Held(e)' = Held(e)
  BY <1>1, EscrowFrame DEF EscrowIInv
<1>5. deal'[d] = new /\ \A e \in Deals \ {d} : deal'[e] = deal[e]
  BY <1>1 DEF EscrowIInv, EscrowTypeOK
<1>6. \A e \in Deals : DealBacked(e)
  BY DealsBackedParts DEF EscrowIInv
<1>7. \A e \in Deals : DealBacked(e)'
  BY <1>1, <1>2, <1>4, <1>5, <1>6 DEF DealBacked
<1>8. CommerceBacked'
  <2>1. ASSUME NEW t \in DealTokens PROVE HeldFor(t)' = HeldFor(t)
    BY <1>1, <1>4, <1>5 DEF HeldFor, Escrowed
  <2>2. CommerceBacked
    BY DealsBackedParts DEF EscrowIInv
  <2>3. \A t \in DealTokens :
            SumFunctionOnSet(HeldOf', HeldFor(t)') = SumFunctionOnSet(HeldOf, HeldFor(t))
    BY <1>4, <2>1, HeldSumSame, HeldTypes DEF EscrowIInv
  <2> QED BY <1>1, <2>2, <2>3 DEF CommerceBacked
<1>9. DealsBacked'
  BY <1>7, <1>8 DEF DealsBacked, DealBacked, CommerceBacked, HeldOf, HeldFor
<1> QED BY <1>3, <1>4, <1>9 DEF EscrowIInv

LEMMA FundDealKeepsEscrow ==
  ASSUME EscrowIInv, NEW d \in Deals, FundDeal(d)
  PROVE  EscrowIInv'
<1> DEFINE k == deal[d].token
           n == deal[d].price
<1>1. /\ deal[d].status = "Pending" /\ CreateEscrow(d, k, n)
      /\ deal' = [deal EXCEPT ![d].status = "Funded"]
      /\ commerceHas' = IF k = Native THEN commerceHas ELSE [commerceHas EXCEPT ![k] = @ + n]
      /\ UNCHANGED <<dealTime, dealPaused, commerceSet, escrowFee, paidOut>>
  BY DEF FundDeal
<1>2. /\ EscrowTypeOK /\ EscrowMore /\ EscrowCovered
      /\ deal \in [Deals -> DealRecords \cup {NoDeal}]
      /\ commerceHas \in [DealTokens -> Nat]
  BY DEF EscrowIInv, EscrowTypeOK
<1>3. deal[d] \in DealRecords
  BY <1>1, <1>2, DealRecord
<1>4. k \in DealTokens /\ n \in Nat
  BY <1>3, EscrowAssumption DEF DealRecords
<1> DEFINE funded == deal'[d]
<1>5. /\ funded \in DealRecords /\ funded.status = "Funded"
      /\ funded.token = k /\ funded.price = n
      /\ \A e \in Deals \ {d} : deal'[e] = deal[e]
      /\ deal' \in [Deals -> DealRecords \cup {NoDeal}]
  BY <1>1, <1>2, <1>3 DEF DealRecords
<1> HIDE DEF funded
<1>6. funded # NoDeal /\ deal[d] # NoDeal
  BY <1>3, <1>5, DealRecord
<1> HIDE DEF k, n
<1>7. /\ escrow' \in [Deals -> EscrowRecords \cup {NoEscrow}]
      /\ escrowHas' = [escrowHas EXCEPT ![k] = @ + n]
      /\ d \notin Escrowed /\ Escrowed' = Escrowed \cup {d}
      /\ \A e \in Escrowed : escrow'[e] = escrow[e] /\ Held(e)' = Held(e)
      /\ escrow'[d].token = k /\ Held(d)' = n /\ n > 0
  BY <1>1, <1>2, <1>4, EscrowOpensEffect
<1>8. EscrowMore' /\ EscrowCovered' /\ escrowHas' \in [DealTokens -> Nat]
  BY <1>1, <1>2, <1>4, EscrowOpens
<1>9. commerceHas' \in [DealTokens -> Nat]
  <2>1. CASE k = Native
    BY <1>1, <1>2, <2>1
  <2>2. CASE k # Native
    BY <1>1, <1>2, <1>4, <2>2
  <2> QED BY <2>1, <2>2
<1>10. EscrowTypeOK'
  BY <1>1, <1>2, <1>5, <1>7, <1>8, <1>9 DEF EscrowTypeOK
<1>11. (\A e \in Deals : DealBacked(e)) /\ CommerceBacked
  BY DealsBackedParts DEF EscrowIInv
<1>12. \A e \in Deals : DealBacked(e)'
  <2> TAKE e \in Deals
  <2>1. CASE e = d
    BY <1>5, <1>7, <2>1 DEF DealBacked, funded
  <2>2. CASE e # d
    BY <1>5, <1>7, <1>11, <2>2 DEF DealBacked
  <2> QED BY <2>1, <2>2
<1>13. ASSUME NEW t \in DealTokens
       PROVE  commerceHas'[t] <= SumFunctionOnSet(HeldOf', HeldFor(t)')
  <2>1. IsFiniteSet(HeldFor(t)) /\ HeldFor(t) \subseteq Escrowed
        /\ \A e \in HeldFor(t) : HeldOf[e] \in Int
    BY <1>2, HeldTypes
  <2>2. \A e \in HeldFor(t) : HeldOf'[e] = HeldOf[e]
    BY <1>7, <2>1 DEF HeldOf
  <2>3. SumFunctionOnSet(HeldOf', HeldFor(t)) = SumFunctionOnSet(HeldOf, HeldFor(t))
    BY <2>1, <2>2, SumSame
  <2>4. /\ commerceHas[t] <= SumFunctionOnSet(HeldOf, HeldFor(t))
        /\ SumFunctionOnSet(HeldOf, HeldFor(t)) \in Int
    BY <1>11, <2>1, SumType DEF CommerceBacked
  <2>5. CASE t = k
    <3>1. HeldFor(t)' = HeldFor(t) \cup {d} /\ d \notin HeldFor(t)
      BY <1>5, <1>6, <1>7, <2>5 DEF HeldFor, Escrowed, funded
    <3>2. HeldOf'[d] = n
      BY <1>7 DEF HeldOf
    <3>3. \A e \in HeldFor(t) \cup {d} : HeldOf'[e] \in Int
      BY <1>4, <2>1, <2>2, <3>2
    <3>4. SumFunctionOnSet(HeldOf', HeldFor(t)') = n + SumFunctionOnSet(HeldOf, HeldFor(t))
      BY <2>1, <2>3, <3>1, <3>2, <3>3, SumAdd
    <3>5. commerceHas'[t] <= commerceHas[t] + n /\ commerceHas[t] \in Nat
      BY <1>1, <1>2, <1>4, <2>5
    <3>6. commerceHas'[t] \in Nat
      BY <1>9
    <3> QED BY <1>4, <2>4, <3>4, <3>5, <3>6
  <2>6. CASE t # k
    <3>1. HeldFor(t)' = HeldFor(t)
      BY <1>5, <1>7, <2>6 DEF HeldFor, Escrowed, funded
    <3>2. commerceHas'[t] = commerceHas[t]
      BY <1>1, <1>2, <2>6
    <3> QED BY <2>3, <2>4, <3>1, <3>2
  <2> QED BY <2>5, <2>6
<1>14. commerceHas'[Native] = 0
  <2>1. commerceHas[Native] = 0
    BY <1>11 DEF CommerceBacked
  <2> QED BY <1>1, <1>2, <2>1, EscrowAssumption
<1>15. DealsBacked'
  BY <1>12, <1>13, <1>14 DEF DealsBacked, DealBacked, HeldOf, HeldFor
<1> QED BY <1>8, <1>10, <1>15 DEF EscrowIInv

\* A deal gets another status; what the escrow holds for it does not change.
LEMMA StatusKeepsBacking ==
  ASSUME EscrowTypeOK, DealsBacked, NEW d \in Deals, deal[d] \in DealRecords,
         deal' = [deal EXCEPT ![d].status = "Cancelled"],
         commerceHas' = commerceHas, Escrowed' = Escrowed,
         \A e \in Escrowed : /\ Held(e)' = Held(e) /\ escrow'[e].token = escrow[e].token
                             /\ escrow[e].refunded => escrow'[e].refunded,
         d \in Escrowed => escrow'[d].refunded
  PROVE  DealsBacked' /\ deal' \in [Deals -> DealRecords \cup {NoDeal}]
<1> DEFINE new == deal'[d]
<1>1. deal \in [Deals -> DealRecords \cup {NoDeal}]
  BY DEF EscrowTypeOK
<1>2. /\ new \in DealRecords /\ new.status = "Cancelled"
      /\ new.token = deal[d].token
      /\ \A e \in Deals \ {d} : deal'[e] = deal[e]
      /\ deal' \in [Deals -> DealRecords \cup {NoDeal}]
  BY <1>1 DEF DealRecords
<1> HIDE DEF new
<1>3. new # NoDeal /\ deal[d] # NoDeal
  BY <1>2, DealRecord
<1>4. (\A e \in Deals : DealBacked(e)) /\ CommerceBacked
  BY DealsBackedParts
<1>5. \A e \in Deals : DealBacked(e)'
  <2> TAKE e \in Deals
  <2>1. CASE e = d
    BY <1>2, <2>1 DEF DealBacked, new
  <2>2. CASE e # d
    BY <1>2, <1>4, <2>2 DEF DealBacked
  <2> QED BY <2>1, <2>2
<1>6. ASSUME NEW t \in DealTokens PROVE HeldFor(t)' = HeldFor(t)
  BY <1>2, <1>3 DEF HeldFor, Escrowed, new
<1>7. \A t \in DealTokens :
          SumFunctionOnSet(HeldOf', HeldFor(t)') = SumFunctionOnSet(HeldOf, HeldFor(t))
  BY <1>6, HeldSumSame, HeldTypes
<1>8. CommerceBacked'
  BY <1>4, <1>7 DEF CommerceBacked
<1> QED BY <1>2, <1>5, <1>8 DEF DealsBacked, DealBacked, CommerceBacked, HeldOf, HeldFor

\* The escrow settles a deal the marketplace learns nothing of.
LEMMA SettlingKeepsBacking ==
  ASSUME EscrowTypeOK, DealsBacked, UNCHANGED <<deal, commerceHas>>, Escrowed' = Escrowed,
         \A e \in Escrowed : /\ Held(e)' = Held(e) /\ escrow'[e].token = escrow[e].token
                             /\ escrow[e].refunded => escrow'[e].refunded
  PROVE  DealsBacked'
<1>1. (\A e \in Deals : DealBacked(e)) /\ CommerceBacked
  BY DealsBackedParts
<1>2. \A e \in Deals : DealBacked(e)'
  BY <1>1 DEF DealBacked
<1>3. ASSUME NEW t \in DealTokens PROVE HeldFor(t)' = HeldFor(t)
  BY DEF HeldFor
<1>4. \A t \in DealTokens :
          SumFunctionOnSet(HeldOf', HeldFor(t)') = SumFunctionOnSet(HeldOf, HeldFor(t))
  BY <1>3, HeldSumSame, HeldTypes
<1>5. CommerceBacked'
  BY <1>1, <1>4 DEF CommerceBacked
<1> QED BY <1>2, <1>5 DEF DealsBacked, DealBacked, CommerceBacked, HeldOf, HeldFor

LEMMA RefundEffect ==
  ASSUME EscrowIInv, NEW d \in Deals, RefundEscrow(d)
  PROVE  /\ EscrowMore' /\ EscrowCovered'
         /\ escrow' \in [Deals -> EscrowRecords \cup {NoEscrow}]
         /\ escrowHas' \in [DealTokens -> Nat] /\ paidOut' \in [Deals -> Nat]
         /\ Escrowed' = Escrowed /\ d \in Escrowed /\ escrow'[d].refunded
         /\ \A e \in Escrowed : /\ Held(e)' = Held(e) /\ escrow'[e].token = escrow[e].token
                                /\ escrow[e].refunded => escrow'[e].refunded
<1>1. EscrowTypeOK /\ EscrowMore /\ EscrowCovered
  BY DEF EscrowIInv
<1>2. /\ Open(d) /\ escrow' = [escrow EXCEPT ![d].refunded = TRUE]
      /\ EscrowPays(d, Held(d))
  BY DEF RefundEscrow, Held
<1>3. d \in Escrowed /\ escrow[d] \in EscrowRecords
  BY <1>1, <1>2, EscrowRecord DEF Open, Escrowed, EscrowTypeOK
<1>4. Held(d) \in Nat /\ Held(d) <= Held(d)
  BY <1>1, <1>3, KeptTypes
<1>5. escrow'[d].refunded
  BY <1>1, <1>2, <1>3 DEF EscrowTypeOK, EscrowRecords
<1> QED BY <1>1, <1>2, <1>3, <1>4, <1>5, EscrowSettles

LEMMA ReleaseEffect ==
  ASSUME EscrowIInv, NEW d \in Deals, NEW m \in SellerAmounts, OtherReleases(d, m)
  PROVE  /\ EscrowMore' /\ EscrowCovered'
         /\ escrow' \in [Deals -> EscrowRecords \cup {NoEscrow}]
         /\ escrowHas' \in [DealTokens -> Nat] /\ paidOut' \in [Deals -> Nat]
         /\ Escrowed' = Escrowed
         /\ \A e \in Escrowed : /\ Held(e)' = Held(e) /\ escrow'[e].token = escrow[e].token
                                /\ escrow[e].refunded => escrow'[e].refunded
<1> DEFINE n == ForSeller(d, m) + escrow[d].fee
<1>1. EscrowTypeOK /\ EscrowMore /\ EscrowCovered
  BY DEF EscrowIInv
<1>2. /\ Open(d) /\ m <= escrow[d].amount /\ escrow' = [escrow EXCEPT ![d].released = TRUE]
      /\ EscrowPays(d, n)
  BY DEF OtherReleases
<1>3. d \in Escrowed /\ escrow[d].amount \in Nat /\ escrow[d].fee \in Nat
  BY <1>1, <1>2, EscrowRecord DEF Open, Escrowed, EscrowTypeOK
<1>4. escrow[d].fee <= escrow[d].amount
  BY <1>1, <1>3 DEF EscrowMore
<1>5. m \in Nat
  BY EscrowAssumption
<1>6. n \in Nat /\ n <= Held(d)
  BY <1>2, <1>3, <1>4, <1>5 DEF ForSeller, Held
<1> HIDE DEF n
<1> QED BY <1>1, <1>2, <1>6, EscrowSettles

LEMMA EscrowStep == EscrowIInv /\ [EscrowNext]_escrowVars => EscrowIInv'
<1> SUFFICES ASSUME EscrowIInv, [EscrowNext]_escrowVars PROVE EscrowIInv'
  OBVIOUS
<1>t. /\ EscrowTypeOK /\ EscrowMore /\ EscrowCovered /\ DealsBacked
      /\ dealTime \in 0 .. DealHorizon /\ dealPaused \in BOOLEAN /\ commerceSet \in BOOLEAN
      /\ escrowFee \in EscrowFees
      /\ deal \in [Deals -> DealRecords \cup {NoDeal}]
      /\ commerceHas \in [DealTokens -> Nat]
  BY DEF EscrowIInv, EscrowTypeOK
<1>1. CASE DealTick
  <2>1. dealTime' \in 0 .. DealHorizon
    BY <1>t, <1>1, EscrowAssumption DEF DealTick
  <2> QED BY <1>t, <1>1, <2>1, SettingsKeepEscrow DEF DealTick
<1>2. CASE SetA2ACommerce
  BY <1>t, <1>2, SettingsKeepEscrow DEF SetA2ACommerce
<1>3. CASE PauseOrUnpauseDeals
  BY <1>t, <1>3, SettingsKeepEscrow DEF PauseOrUnpauseDeals
<1>4. ASSUME NEW f \in EscrowFees, SetPlatformFee(f) PROVE EscrowIInv'
  BY <1>t, <1>4, SettingsKeepEscrow DEF SetPlatformFee
<1>5. ASSUME NEW k \in DealTokens, WithdrawCommerce(k) PROVE EscrowIInv'
  <2>1. PICK n \in DealPrices :
          /\ 0 < n /\ n <= commerceHas[k]
          /\ commerceHas' = [commerceHas EXCEPT ![k] = @ - n]
    BY <1>5 DEF WithdrawCommerce
  <2>2. UNCHANGED <<dealTime, dealPaused, deal, escrow, commerceSet, escrowFee, escrowHas, paidOut>>
    BY <1>5 DEF WithdrawCommerce
  <2>3. n \in Nat /\ commerceHas[k] - n \in Nat
    BY <1>t, <2>1, EscrowAssumption
  <2>4. commerceHas' \in [DealTokens -> Nat] /\ \A t \in DealTokens : commerceHas'[t] <= commerceHas[t]
    BY <1>t, <2>1, <2>3
  <2>5. EscrowTypeOK'
    BY <1>t, <2>2, <2>4 DEF EscrowTypeOK
  <2>6. /\ EscrowMore' /\ EscrowCovered' /\ Escrowed' = Escrowed
        /\ \A e \in Escrowed : Held(e)' = Held(e)
    BY <1>t, <2>2, EscrowFrame
  <2>7. (\A e \in Deals : DealBacked(e)) /\ CommerceBacked
    BY <1>t, DealsBackedParts
  <2>8. \A e \in Deals : DealBacked(e)'
    BY <2>2, <2>6, <2>7 DEF DealBacked
  <2>9. ASSUME NEW t \in DealTokens
        PROVE  commerceHas'[t] <= SumFunctionOnSet(HeldOf', HeldFor(t)')
    <3>1. SumFunctionOnSet(HeldOf', HeldFor(t)') = SumFunctionOnSet(HeldOf, HeldFor(t))
      <4>1. HeldFor(t)' = HeldFor(t)
        BY <2>2, <2>6 DEF HeldFor
      <4> QED BY <1>t, <2>6, <4>1, HeldSumSame, HeldTypes
    <3>2. SumFunctionOnSet(HeldOf, HeldFor(t)) \in Int
      BY <1>t, HeldTypes, SumType
    <3>3. commerceHas[t] <= SumFunctionOnSet(HeldOf, HeldFor(t))
      BY <2>7 DEF CommerceBacked
    <3>4. commerceHas[t] \in Nat /\ commerceHas'[t] \in Nat /\ commerceHas'[t] <= commerceHas[t]
      BY <1>t, <2>4
    <3> QED BY <3>1, <3>2, <3>3, <3>4
  <2>10. commerceHas'[Native] = 0
    <3>1. commerceHas[Native] = 0
      BY <2>7 DEF CommerceBacked
    <3>2. commerceHas'[Native] \in Nat /\ commerceHas'[Native] <= commerceHas[Native]
      BY <2>4, EscrowAssumption
    <3> QED BY <3>1, <3>2
  <2>11. DealsBacked'
    BY <2>8, <2>9, <2>10 DEF DealsBacked, DealBacked, HeldOf, HeldFor
  <2> QED BY <2>5, <2>6, <2>11 DEF EscrowIInv
<1>6. ASSUME NEW d \in Deals, NEW k \in DealTokens, NEW p \in DealPrices, OtherCreates(d, k, p)
      PROVE  EscrowIInv'
  <2>1. /\ deal[d] = NoDeal /\ CreateEscrow(d, k, p)
        /\ UNCHANGED <<dealTime, dealPaused, deal, commerceSet, escrowFee, commerceHas, paidOut>>
    BY <1>6 DEF OtherCreates
  <2>2. p \in Nat
    BY EscrowAssumption
  <2>3. EscrowMore' /\ EscrowCovered' /\ escrowHas' \in [DealTokens -> Nat]
    BY <1>t, <2>1, <2>2, EscrowOpens
  <2>4. /\ escrow' \in [Deals -> EscrowRecords \cup {NoEscrow}]
        /\ d \notin Escrowed /\ Escrowed' = Escrowed \cup {d}
        /\ \A e \in Escrowed : escrow'[e] = escrow[e] /\ Held(e)' = Held(e)
    BY <1>t, <2>1, <2>2, EscrowOpensEffect
  <2>5. EscrowTypeOK'
    BY <1>t, <2>1, <2>3, <2>4 DEF EscrowTypeOK
  <2>6. (\A e \in Deals : DealBacked(e)) /\ CommerceBacked
    BY <1>t, DealsBackedParts
  <2>7. \A e \in Deals : DealBacked(e)'
    <3> TAKE e \in Deals
    <3>1. CASE e = d
      BY <2>1, <3>1 DEF DealBacked, NoDeal
    <3>2. CASE e # d
      BY <2>1, <2>4, <2>6, <3>2 DEF DealBacked
    <3> QED BY <3>1, <3>2
  <2>8. ASSUME NEW t \in DealTokens
        PROVE  commerceHas'[t] <= SumFunctionOnSet(HeldOf', HeldFor(t)')
    <3>1. HeldFor(t)' = HeldFor(t) /\ HeldFor(t) \subseteq Escrowed
      BY <2>1, <2>4 DEF HeldFor
    <3>2. SumFunctionOnSet(HeldOf', HeldFor(t)') = SumFunctionOnSet(HeldOf, HeldFor(t))
      BY <1>t, <2>4, <3>1, HeldSumSame
    <3> QED BY <2>1, <2>6, <3>2 DEF CommerceBacked
  <2>9. DealsBacked'
    BY <2>1, <2>6, <2>7, <2>8 DEF DealsBacked, DealBacked, CommerceBacked, HeldOf, HeldFor
  <2> QED BY <2>3, <2>5, <2>9 DEF EscrowIInv
<1>7. ASSUME NEW d \in Deals, CancelPending(d) PROVE EscrowIInv'
  <2>1. /\ deal[d].status = "Pending" /\ deal' = [deal EXCEPT ![d].status = "Cancelled"]
        /\ UNCHANGED <<dealTime, dealPaused, escrow, commerceSet, escrowFee, escrowHas, commerceHas, paidOut>>
    BY <1>7 DEF CancelPending
  <2>2. deal[d] \in DealRecords
    BY <1>t, <2>1, DealRecord
  <2>3. /\ EscrowMore' /\ EscrowCovered' /\ Escrowed' = Escrowed
        /\ \A e \in Escrowed : Held(e)' = Held(e)
    BY <1>t, <2>1, EscrowFrame
  <2>4. d \notin Escrowed
    BY <1>t, <2>1 DEF DealsBacked
  <2>5. DealsBacked' /\ deal' \in [Deals -> DealRecords \cup {NoDeal}]
    BY <1>t, <2>1, <2>2, <2>3, <2>4, StatusKeepsBacking
  <2>6. EscrowTypeOK'
    BY <1>t, <2>1, <2>5 DEF EscrowTypeOK
  <2> QED BY <2>3, <2>5, <2>6 DEF EscrowIInv
<1>8. ASSUME NEW d \in Deals, CancelFunded(d) PROVE EscrowIInv'
  <2>1. /\ deal[d].status = "Funded" /\ deal' = [deal EXCEPT ![d].status = "Cancelled"]
        /\ RefundEscrow(d)
        /\ UNCHANGED <<dealTime, dealPaused, commerceSet, escrowFee, commerceHas>>
    BY <1>8 DEF CancelFunded
  <2>2. deal[d] \in DealRecords
    BY <1>t, <2>1, DealRecord
  <2>3. /\ EscrowMore' /\ EscrowCovered'
        /\ escrow' \in [Deals -> EscrowRecords \cup {NoEscrow}]
        /\ escrowHas' \in [DealTokens -> Nat] /\ paidOut' \in [Deals -> Nat]
        /\ Escrowed' = Escrowed /\ escrow'[d].refunded
        /\ \A e \in Escrowed : /\ Held(e)' = Held(e) /\ escrow'[e].token = escrow[e].token
                               /\ escrow[e].refunded => escrow'[e].refunded
    BY <2>1, RefundEffect
  <2>4. DealsBacked' /\ deal' \in [Deals -> DealRecords \cup {NoDeal}]
    BY <1>t, <2>1, <2>2, <2>3, StatusKeepsBacking
  <2>5. EscrowTypeOK'
    BY <1>t, <2>1, <2>3, <2>4 DEF EscrowTypeOK
  <2> QED BY <2>3, <2>4, <2>5 DEF EscrowIInv
<1>9. ASSUME NEW d \in Deals, RefundDirectly(d) PROVE EscrowIInv'
  <2>1. /\ RefundEscrow(d)
        /\ UNCHANGED <<dealTime, dealPaused, deal, commerceSet, escrowFee, commerceHas>>
    BY <1>9 DEF RefundDirectly
  <2>2. /\ EscrowMore' /\ EscrowCovered'
        /\ escrow' \in [Deals -> EscrowRecords \cup {NoEscrow}]
        /\ escrowHas' \in [DealTokens -> Nat] /\ paidOut' \in [Deals -> Nat]
        /\ Escrowed' = Escrowed
        /\ \A e \in Escrowed : /\ Held(e)' = Held(e) /\ escrow'[e].token = escrow[e].token
                               /\ escrow[e].refunded => escrow'[e].refunded
    BY <2>1, RefundEffect
  <2>3. DealsBacked'
    BY <1>t, <2>1, <2>2, SettlingKeepsBacking
  <2>4. EscrowTypeOK'
    BY <1>t, <2>1, <2>2 DEF EscrowTypeOK
  <2> QED BY <2>2, <2>3, <2>4 DEF EscrowIInv
<1>10. ASSUME NEW d \in Deals, NEW m \in SellerAmounts, OtherReleases(d, m) PROVE EscrowIInv'
  <2>1. UNCHANGED <<dealTime, dealPaused, deal, commerceSet, escrowFee, commerceHas>>
    BY <1>10 DEF OtherReleases
  <2>2. /\ EscrowMore' /\ EscrowCovered'
        /\ escrow' \in [Deals -> EscrowRecords \cup {NoEscrow}]
        /\ escrowHas' \in [DealTokens -> Nat] /\ paidOut' \in [Deals -> Nat]
        /\ Escrowed' = Escrowed
        /\ \A e \in Escrowed : /\ Held(e)' = Held(e) /\ escrow'[e].token = escrow[e].token
                               /\ escrow[e].refunded => escrow'[e].refunded
    BY <1>10, ReleaseEffect
  <2>3. DealsBacked'
    BY <1>t, <2>1, <2>2, SettlingKeepsBacking
  <2>4. EscrowTypeOK'
    BY <1>t, <2>1, <2>2 DEF EscrowTypeOK
  <2> QED BY <2>2, <2>3, <2>4 DEF EscrowIInv
<1>11. CASE UNCHANGED escrowVars
  BY <1>t, <1>11, SettingsKeepEscrow DEF escrowVars
<1> QED
  BY <1>1, <1>2, <1>3, <1>4, <1>5, <1>6, <1>7, <1>8, <1>9, <1>10, <1>11, CreateDealKeepsEscrow,
     FundDealKeepsEscrow DEF EscrowNext

\* The types of the two contracts' variables, for any fees up to the maximum,
\* prices and amounts (DealEscrow.sol, A2ACommerce.sol).
THEOREM EscrowTyping == EscrowSpec => []EscrowTypeOK
<1>1. EscrowIInv => EscrowTypeOK
  BY DEF EscrowIInv
<1> QED BY <1>1, EscrowStarts, EscrowStep, PTL DEF EscrowSpec

\* Every deal's money is where the deal says it is: no order of fundings,
\* cancellations, direct refunds, releases and changes of fee or of marketplace
\* makes the escrow pay a deal out of another's money (DealEscrow.sol:133-325,
\* A2ACommerce.sol:155-230). Inductive once two things are added: nothing was
\* paid out for a deal without an escrow, and no fee exceeds what it was taken
\* from, which is what a release of "everything" subtracts it from a second time.
THEOREM DealsAreCovered == EscrowSpec => []DealsCovered
<1>1. EscrowIInv => DealsCovered
  BY DEF EscrowIInv, DealsCovered
<1> QED BY <1>1, EscrowStarts, EscrowStep, PTL DEF EscrowSpec

(***************************************************************************)
(* The payment streams                                                     *)
(***************************************************************************)
\* What is known of each stream that was made, and of one that was not.
StreamFine(s) ==
  LET x == stream[s] IN
  /\ x.start <= payTime /\ x.start < x.end
  /\ x.released <= x.total
  /\ x.active => ~x.cancelled /\ refunded[s] = 0
  /\ paid[s] <= Entitled(x)
  /\ paid[s] + refunded[s] = x.released
  /\ ~x.active => x.released = x.total

StreamsFine ==
  /\ \A s \in Made : StreamFine(s)
  /\ \A s \in Streams : s \notin Made => paid[s] = 0 /\ refunded[s] = 0

\* What is owed to each stream, what each mandate drew, and of which token.
Owes == [s \in Made |-> stream[s].total - stream[s].released]
OwedFor(k) == {s \in Made : stream[s].token = k}
Drew == [m \in MandatesMade |-> mandate[m].used]
DrewFor(k) == {m \in MandatesMade : mandate[m].token = k}

Books(k) == payBalance[k] + withdrawn[k] + MandatesDrew(k) = Owed(k) + donated[k]

PaymentIInv == PaymentTypeOK /\ StreamsFine /\ \A k \in Tokens : Books(k)

LEMMA MinOfTwo ==
  ASSUME NEW a \in Int, NEW b \in Int
  PROVE  Min({a, b}) = IF a <= b THEN a ELSE b
<1> DEFINE m == IF a <= b THEN a ELSE b
<1>1. m \in {a, b} /\ \A y \in {a, b} : m <= y
  OBVIOUS
<1>2. \A x \in {a, b} : (\A y \in {a, b} : x <= y) => x = m
  OBVIOUS
<1> HIDE DEF m
<1>3. (CHOOSE x \in {a, b} : \A y \in {a, b} : x <= y) = m
  BY <1>1, <1>2
<1> QED BY <1>3 DEF Min, m

LEMMA StreamRecord ==
  ASSUME NEW r \in StreamRecords \cup {NoStream}
  PROVE  /\ r.exists \in BOOLEAN
         /\ r.exists <=> r \in StreamRecords
<1>1. r \in StreamRecords => r.exists = TRUE
  BY DEF StreamRecords
<1>2. NoStream.exists = FALSE
  BY DEF NoStream
<1> QED BY <1>1, <1>2

LEMMA MandateRecord ==
  ASSUME NEW r \in MandateRecords \cup {NoMandate}
  PROVE  /\ r.exists \in BOOLEAN
         /\ r.exists <=> r \in MandateRecords
<1>1. r \in MandateRecords => r.exists = TRUE
  BY DEF MandateRecords
<1>2. NoMandate.exists = FALSE
  BY DEF NoMandate
<1> QED BY <1>1, <1>2

LEMMA PaymentNumbers ==
  /\ StreamAmounts \subseteq Nat \ {0} /\ MandateLimits \subseteq Nat \ {0}
  /\ PayAmounts \subseteq Nat \ {0} /\ StreamDurations \subseteq Nat \ {0}
  /\ MandateValidities \subseteq Nat \ {0}
  /\ PayHorizon \in Nat /\ MaxStrayed \in Nat
BY PaymentAssumption

LEMMA PaymentTypes ==
  ASSUME PaymentTypeOK
  PROVE  /\ payTime \in Nat
         /\ \A s \in Made : /\ s \in Streams /\ stream[s] \in StreamRecords
                            /\ stream[s].token \in Tokens
                            /\ stream[s].total \in Nat /\ stream[s].released \in Nat
                            /\ stream[s].start \in Nat /\ stream[s].end \in Nat
                            /\ stream[s].active \in BOOLEAN /\ stream[s].cancelled \in BOOLEAN
                            /\ Owes[s] \in Int
         /\ \A m \in MandatesMade : /\ m \in Mandates /\ mandate[m] \in MandateRecords
                                    /\ mandate[m].token \in Tokens
                                    /\ mandate[m].used \in Nat /\ mandate[m].max \in Nat
                                    /\ Drew[m] \in Nat
         /\ \A k \in Tokens : /\ payBalance[k] \in Nat /\ withdrawn[k] \in Nat /\ donated[k] \in Nat
                              /\ IsFiniteSet(OwedFor(k)) /\ OwedFor(k) \subseteq Made
                              /\ IsFiniteSet(DrewFor(k)) /\ DrewFor(k) \subseteq MandatesMade
<1>1. payTime \in Nat
  BY PaymentNumbers DEF PaymentTypeOK
<1>2. \A s \in Made : s \in Streams /\ stream[s] \in StreamRecords
  BY StreamRecord DEF PaymentTypeOK, Made
<1>3. \A s \in Made : /\ stream[s].token \in Tokens
                      /\ stream[s].total \in Nat /\ stream[s].released \in Nat
                      /\ stream[s].start \in Nat /\ stream[s].end \in Nat
                      /\ stream[s].active \in BOOLEAN /\ stream[s].cancelled \in BOOLEAN
  <2> TAKE s \in Made
  <2> DEFINE r == stream[s]
  <2>1. r \in StreamRecords
    BY <1>2
  <2> HIDE DEF r
  <2>2. r.total \in StreamAmounts /\ r.start \in 0 .. PayHorizon
    BY <2>1 DEF StreamRecords
  <2>3. /\ r.token \in Tokens /\ r.released \in Nat /\ r.end \in Nat
        /\ r.active \in BOOLEAN /\ r.cancelled \in BOOLEAN
    BY <2>1 DEF StreamRecords
  <2>4. r.total \in Nat /\ r.start \in Nat
    <3>1. r.total \in Nat
      BY <2>2, PaymentNumbers, Zenon
    <3>2. \A n \in 0 .. PayHorizon : n \in Nat
      BY PaymentNumbers
    <3> QED BY <2>2, <3>1, <3>2, Zenon
  <2> QED BY <2>3, <2>4 DEF r
<1>4. \A s \in Made : Owes[s] \in Int
  BY <1>3 DEF Owes
<1>5. \A m \in MandatesMade : m \in Mandates /\ mandate[m] \in MandateRecords
  BY MandateRecord DEF PaymentTypeOK, MandatesMade
<1>6. \A m \in MandatesMade : /\ mandate[m].token \in Tokens
                              /\ mandate[m].used \in Nat /\ mandate[m].max \in Nat
                              /\ Drew[m] \in Nat
  BY <1>5, PaymentNumbers DEF MandateRecords, Drew
<1>7. \A k \in Tokens : payBalance[k] \in Nat /\ withdrawn[k] \in Nat /\ donated[k] \in Nat
  BY PaymentNumbers DEF PaymentTypeOK
<1>8. Made \subseteq Streams /\ MandatesMade \subseteq Mandates
  BY DEF Made, MandatesMade
<1>9. \A k \in Tokens : /\ IsFiniteSet(OwedFor(k)) /\ OwedFor(k) \subseteq Made
                        /\ IsFiniteSet(DrewFor(k)) /\ DrewFor(k) \subseteq MandatesMade
  BY <1>8, PaymentAssumption, FS_Subset DEF OwedFor, DrewFor
<1> QED BY <1>1, <1>2, <1>3, <1>4, <1>5, <1>6, <1>7, <1>9

\* What was earned when a of b time units have passed.
ShareOf(n, a, b) == (n * a) \div b

LEMMA ShareOfBounds ==
  ASSUME NEW n \in Nat, NEW a \in Nat, NEW b \in Nat \ {0}, a <= b
  PROVE  ShareOf(n, a, b) \in Nat /\ ShareOf(n, a, b) <= n
BY ShareBounds DEF ShareOf

LEMMA ShareOfGrows ==
  ASSUME NEW n \in Nat, NEW a \in Nat, NEW c \in Nat, NEW b \in Nat \ {0}, a <= c
  PROVE  ShareOf(n, a, b) <= ShareOf(n, c, b)
BY ShareGrows DEF ShareOf

LEMMA ShareOfAll ==
  ASSUME NEW n \in Nat, NEW b \in Nat \ {0}
  PROVE  ShareOf(n, b, b) = n
BY DivExact DEF ShareOf

\* The time of a stream that has passed.
Elapsed(x) == Min({payTime, x.end}) - x.start

LEMMA EntitledIsShare ==
  ASSUME NEW x
  PROVE  Entitled(x) = ShareOf(x.total, Elapsed(x), x.end - x.start)
BY DEF Entitled, ShareOf, Elapsed

LEMMA ElapsedBounds ==
  ASSUME payTime \in Nat, NEW x, x.start \in Nat, x.end \in Nat,
         x.start <= payTime, x.start < x.end
  PROVE  /\ Elapsed(x) \in Nat /\ x.end - x.start \in Nat \ {0}
         /\ Elapsed(x) <= x.end - x.start
         /\ payTime >= x.end => Elapsed(x) = x.end - x.start
<1>1. Min({payTime, x.end}) = IF payTime <= x.end THEN payTime ELSE x.end
  BY MinOfTwo
<1> QED BY <1>1 DEF Elapsed

LEMMA EntitledBounds ==
  ASSUME payTime \in Nat, NEW x, x.start \in Nat, x.end \in Nat, x.total \in Nat,
         x.start <= payTime, x.start < x.end
  PROVE  /\ Entitled(x) \in Nat /\ Entitled(x) <= x.total
         /\ payTime >= x.end => Entitled(x) = x.total
BY ElapsedBounds, EntitledIsShare, ShareOfBounds, ShareOfAll

LEMMA EntitledGrows ==
  ASSUME payTime \in Nat, NEW x, x.start \in Nat, x.end \in Nat, x.total \in Nat,
         x.start <= payTime, x.start < x.end, payTime' = payTime + 1
  PROVE  Entitled(x) <= Entitled(x)'
<1>1. payTime' \in Nat /\ x.start <= payTime'
  OBVIOUS
<1>2. /\ Min({payTime, x.end}) = IF payTime <= x.end THEN payTime ELSE x.end
      /\ Min({payTime', x.end}) = IF payTime' <= x.end THEN payTime' ELSE x.end
  BY <1>1, MinOfTwo
<1>3. /\ Elapsed(x) \in Nat /\ Elapsed(x)' \in Nat /\ Elapsed(x) <= Elapsed(x)'
      /\ x.end - x.start \in Nat \ {0}
  BY <1>1, <1>2 DEF Elapsed
<1>4. Entitled(x)' = ShareOf(x.total, Elapsed(x)', x.end - x.start)
  BY DEF Entitled, ShareOf, Elapsed
<1> QED BY <1>3, <1>4, EntitledIsShare, ShareOfGrows

LEMMA OwedIsInt ==
  ASSUME PaymentTypeOK, NEW k \in Tokens
  PROVE  /\ Owed(k) = SumFunctionOnSet(Owes, OwedFor(k)) /\ Owed(k) \in Int
         /\ MandatesDrew(k) \in Nat
         /\ k = Ether => MandatesDrew(k) = SumFunctionOnSet(Drew, DrewFor(k))
<1>1. Owed(k) = SumFunctionOnSet(Owes, OwedFor(k))
  BY DEF Owed, Owes, OwedFor
<1>2. SumFunctionOnSet(Owes, OwedFor(k)) \in Int
  <2>1. IsFiniteSet(OwedFor(k)) /\ \A s \in OwedFor(k) : Owes[s] \in Int
    BY PaymentTypes
  <2> QED BY <2>1, SumType
<1>3. MandatesDrew(k) = IF k # Ether THEN 0 ELSE SumFunctionOnSet(Drew, DrewFor(k))
  BY DEF MandatesDrew, Drew, DrewFor
<1>4. SumFunctionOnSet(Drew, DrewFor(k)) \in Nat
  <2>1. IsFiniteSet(DrewFor(k)) /\ \A m \in DrewFor(k) : Drew[m] \in Nat
    BY PaymentTypes
  <2> QED BY <2>1, SumNat
<1> QED BY <1>1, <1>2, <1>3, <1>4

\* What a step leaves alone.
LEMMA StreamsFrame ==
  ASSUME StreamsFine, UNCHANGED <<payTime, stream, paid, refunded>>
  PROVE  StreamsFine' /\ \A k \in Tokens : Owed(k)' = Owed(k)
BY DEF StreamsFine, StreamFine, Made, Entitled, Owed

LEMMA MandatesFrame ==
  ASSUME UNCHANGED mandate
  PROVE  \A k \in Tokens : MandatesDrew(k)' = MandatesDrew(k)
BY DEF MandatesDrew, MandatesMade

\* A stream is made: its whole amount is owed.
LEMMA OwedOfNewStream ==
  ASSUME PaymentTypeOK, NEW s \in Streams, ~stream[s].exists,
         NEW new \in StreamRecords, new.released = 0,
         stream' = [stream EXCEPT ![s] = new]
  PROVE  /\ Made' = Made \cup {s} /\ s \notin Made
         /\ \A k \in Tokens :
               Owed(k)' = IF k = new.token THEN Owed(k) + new.total ELSE Owed(k)
<1>1. stream \in [Streams -> StreamRecords \cup {NoStream}]
  BY DEF PaymentTypeOK
<1>2. stream'[s] = new /\ \A e \in Streams \ {s} : stream'[e] = stream[e]
  BY <1>1
<1>3. new.exists /\ new.total \in StreamAmounts /\ new.token \in Tokens
  BY DEF StreamRecords
<1>4. new.total \in Nat
  BY <1>3, PaymentNumbers, Zenon
<1>5. Made' = Made \cup {s} /\ s \notin Made
  BY <1>2, <1>3 DEF Made
<1>6. /\ Owes'[s] = new.total
      /\ \A e \in Made : Owes'[e] = Owes[e] /\ Owes[e] \in Int
  <2>1. Owes'[s] = new.total
    BY <1>2, <1>4, <1>5 DEF Owes
  <2>2. \A e \in Made : Owes'[e] = Owes[e]
    BY <1>2, <1>5 DEF Owes, Made
  <2> QED BY <2>1, <2>2, PaymentTypes
<1>7. ASSUME NEW k \in Tokens
      PROVE  Owed(k)' = IF k = new.token THEN Owed(k) + new.total ELSE Owed(k)
  <2>1. /\ IsFiniteSet(OwedFor(k)) /\ OwedFor(k) \subseteq Made /\ s \notin OwedFor(k)
    BY <1>5, PaymentTypes
  <2>2. SumFunctionOnSet(Owes', OwedFor(k)) = SumFunctionOnSet(Owes, OwedFor(k))
    BY <1>6, <2>1, SumSame
  <2>3. Owed(k)' = SumFunctionOnSet(Owes', OwedFor(k)')
    BY DEF Owed, Owes, OwedFor
  <2>4. Owed(k) = SumFunctionOnSet(Owes, OwedFor(k)) /\ Owed(k) \in Int
    BY OwedIsInt
  <2>5. CASE k = new.token
    <3>1. OwedFor(k)' = OwedFor(k) \cup {s}
      BY <1>2, <1>5, <2>5 DEF OwedFor, Made
    <3>2. \A e \in OwedFor(k) \cup {s} : Owes'[e] \in Int
      BY <1>4, <1>6, <2>1
    <3>3. Owed(k)' = new.total + Owed(k)
      BY <1>6, <2>1, <2>2, <2>3, <2>4, <3>1, <3>2, SumAdd
    <3> QED BY <1>4, <2>4, <2>5, <3>3
  <2>6. CASE k # new.token
    <3>1. OwedFor(k)' = OwedFor(k)
      BY <1>2, <1>5, <2>6 DEF OwedFor, Made
    <3> QED BY <2>2, <2>3, <2>4, <2>6, <3>1
  <2> QED BY <2>5, <2>6
<1> QED BY <1>5, <1>7

\* A stream releases n more of its amount.
LEMMA OwedOfRelease ==
  ASSUME PaymentTypeOK, NEW s \in Made, NEW new \in StreamRecords, NEW n \in Nat,
         new.token = stream[s].token, new.total = stream[s].total,
         new.released = stream[s].released + n,
         stream' = [stream EXCEPT ![s] = new]
  PROVE  /\ Made' = Made
         /\ \A k \in Tokens :
               Owed(k)' = IF k = new.token THEN Owed(k) - n ELSE Owed(k)
<1>1. /\ stream \in [Streams -> StreamRecords \cup {NoStream}] /\ s \in Streams
      /\ stream[s].total \in Nat /\ stream[s].released \in Nat /\ stream[s].exists
  BY PaymentTypes DEF PaymentTypeOK, Made
<1>2. stream'[s] = new /\ \A e \in Streams \ {s} : stream'[e] = stream[e]
  BY <1>1
<1>3. new.exists
  BY DEF StreamRecords
<1>4. Made' = Made
  BY <1>1, <1>2, <1>3 DEF Made
<1>5. /\ Owes'[s] = Owes[s] - n /\ Owes'[s] \in Int
      /\ \A e \in Made \ {s} : Owes'[e] = Owes[e]
      /\ \A e \in Made : Owes[e] \in Int
  <2>1. Owes'[s] = new.total - new.released
    BY <1>2, <1>4 DEF Owes
  <2>2. Owes[s] = stream[s].total - stream[s].released
    BY DEF Owes
  <2>3. Owes'[s] = Owes[s] - n /\ Owes'[s] \in Int
    BY <1>1, <2>1, <2>2
  <2>4. \A e \in Made \ {s} : Owes'[e] = Owes[e]
    BY <1>2, <1>4 DEF Owes, Made
  <2> QED BY <2>3, <2>4, PaymentTypes
<1>6. ASSUME NEW k \in Tokens
      PROVE  Owed(k)' = IF k = new.token THEN Owed(k) - n ELSE Owed(k)
  <2>1. IsFiniteSet(OwedFor(k)) /\ OwedFor(k) \subseteq Made
    BY PaymentTypes
  <2>2. OwedFor(k)' = OwedFor(k)
    BY <1>2, <1>4 DEF OwedFor, Made
  <2>3. Owed(k)' = SumFunctionOnSet(Owes', OwedFor(k)')
    BY DEF Owed, Owes, OwedFor
  <2>4. Owed(k) = SumFunctionOnSet(Owes, OwedFor(k)) /\ Owed(k) \in Int
    BY OwedIsInt
  <2>5. CASE k = new.token
    <3>1. s \in OwedFor(k)
      BY <2>5 DEF OwedFor
    <3>2. /\ \A e \in OwedFor(k) : Owes[e] \in Int /\ Owes'[e] \in Int
          /\ \A e \in OwedFor(k) \ {s} : Owes[e] = Owes'[e]
      BY <1>5, <2>1
    <3>3. Owed(k)' = Owed(k) - Owes[s] + Owes'[s]
      BY <2>1, <2>2, <2>3, <2>4, <3>1, <3>2, SumChange
    <3>4. Owes[s] \in Int
      BY <1>5
    <3> QED BY <1>5, <2>4, <2>5, <3>3, <3>4
  <2>6. CASE k # new.token
    <3>1. \A e \in OwedFor(k) : Owes'[e] = Owes[e]
      BY <1>5, <2>1, <2>6 DEF OwedFor
    <3> QED BY <2>1, <2>2, <2>3, <2>4, <2>6, <3>1, SumSame
  <2> QED BY <2>5, <2>6
<1> QED BY <1>4, <1>6

LEMMA DrewOfNewMandate ==
  ASSUME PaymentTypeOK, NEW m \in Mandates, ~mandate[m].exists,
         NEW new \in MandateRecords, new.used = 0,
         mandate' = [mandate EXCEPT ![m] = new]
  PROVE  \A k \in Tokens : MandatesDrew(k)' = MandatesDrew(k)
<1>1. mandate \in [Mandates -> MandateRecords \cup {NoMandate}]
  BY DEF PaymentTypeOK
<1>2. mandate'[m] = new /\ \A e \in Mandates \ {m} : mandate'[e] = mandate[e]
  BY <1>1
<1>3. new.exists
  BY DEF MandateRecords
<1>4. MandatesMade' = MandatesMade \cup {m} /\ m \notin MandatesMade
  BY <1>2, <1>3 DEF MandatesMade
<1>5. /\ Drew'[m] = 0
      /\ \A e \in MandatesMade : Drew'[e] = Drew[e] /\ Drew[e] \in Int
  <2>1. Drew'[m] = 0
    BY <1>2, <1>4 DEF Drew
  <2>2. \A e \in MandatesMade : Drew'[e] = Drew[e]
    BY <1>2, <1>4 DEF Drew, MandatesMade
  <2> QED BY <2>1, <2>2, PaymentTypes
<1>6. ASSUME NEW k \in Tokens, k = Ether
      PROVE  MandatesDrew(k)' = MandatesDrew(k)
  <2>1. /\ IsFiniteSet(DrewFor(k)) /\ DrewFor(k) \subseteq MandatesMade /\ m \notin DrewFor(k)
    BY <1>4, PaymentTypes
  <2>2. SumFunctionOnSet(Drew', DrewFor(k)) = SumFunctionOnSet(Drew, DrewFor(k))
    BY <1>5, <2>1, SumSame
  <2>3. MandatesDrew(k)' = SumFunctionOnSet(Drew', DrewFor(k)')
    BY <1>6 DEF MandatesDrew, Drew, DrewFor
  <2>4. MandatesDrew(k) = SumFunctionOnSet(Drew, DrewFor(k)) /\ MandatesDrew(k) \in Int
    BY <1>6, OwedIsInt
  <2>5. CASE k = new.token
    <3>1. DrewFor(k)' = DrewFor(k) \cup {m}
      BY <1>2, <1>4, <2>5 DEF DrewFor, MandatesMade
    <3>2. \A e \in DrewFor(k) \cup {m} : Drew'[e] \in Int
      BY <1>5, <2>1
    <3>3. MandatesDrew(k)' = 0 + MandatesDrew(k)
      BY <1>5, <2>1, <2>2, <2>3, <2>4, <3>1, <3>2, SumAdd
    <3> QED BY <2>4, <3>3
  <2>6. CASE k # new.token
    <3>1. DrewFor(k)' = DrewFor(k)
      BY <1>2, <1>4, <2>6 DEF DrewFor, MandatesMade
    <3> QED BY <2>2, <2>3, <2>4, <3>1
  <2> QED BY <2>5, <2>6
<1>7. ASSUME NEW k \in Tokens, k # Ether
      PROVE  MandatesDrew(k)' = MandatesDrew(k)
  BY <1>7 DEF MandatesDrew
<1> QED BY <1>6, <1>7

\* n more has been drawn on a mandate.
LEMMA DrewOfDraw ==
  ASSUME PaymentTypeOK, NEW m \in MandatesMade, NEW new \in MandateRecords, NEW n \in Nat,
         new.token = mandate[m].token, new.used = mandate[m].used + n,
         mandate' = [mandate EXCEPT ![m] = new]
  PROVE  \A k \in Tokens :
            MandatesDrew(k)' = IF k = Ether /\ new.token = Ether THEN MandatesDrew(k) + n
                               ELSE MandatesDrew(k)
<1>1. /\ mandate \in [Mandates -> MandateRecords \cup {NoMandate}] /\ m \in Mandates
      /\ mandate[m].used \in Nat /\ mandate[m].exists
  BY PaymentTypes DEF PaymentTypeOK, MandatesMade
<1>2. mandate'[m] = new /\ \A e \in Mandates \ {m} : mandate'[e] = mandate[e]
  BY <1>1
<1>3. new.exists
  BY DEF MandateRecords
<1>4. MandatesMade' = MandatesMade
  BY <1>1, <1>2, <1>3 DEF MandatesMade
<1>5. /\ Drew'[m] = Drew[m] + n /\ Drew'[m] \in Int
      /\ \A e \in MandatesMade \ {m} : Drew'[e] = Drew[e]
      /\ \A e \in MandatesMade : Drew[e] \in Int
  <2>1. Drew'[m] = new.used /\ Drew[m] = mandate[m].used
    BY <1>2, <1>4 DEF Drew
  <2>2. Drew'[m] = Drew[m] + n /\ Drew'[m] \in Int
    BY <1>1, <2>1
  <2>3. \A e \in MandatesMade \ {m} : Drew'[e] = Drew[e]
    BY <1>2, <1>4 DEF Drew, MandatesMade
  <2> QED BY <2>2, <2>3, PaymentTypes
<1>6. ASSUME NEW k \in Tokens, k = Ether
      PROVE  MandatesDrew(k)' = IF new.token = Ether THEN MandatesDrew(k) + n
                                ELSE MandatesDrew(k)
  <2>1. IsFiniteSet(DrewFor(k)) /\ DrewFor(k) \subseteq MandatesMade
    BY PaymentTypes
  <2>2. DrewFor(k)' = DrewFor(k)
    BY <1>2, <1>4 DEF DrewFor, MandatesMade
  <2>3. MandatesDrew(k)' = SumFunctionOnSet(Drew', DrewFor(k)')
    BY <1>6 DEF MandatesDrew, Drew, DrewFor
  <2>4. MandatesDrew(k) = SumFunctionOnSet(Drew, DrewFor(k)) /\ MandatesDrew(k) \in Int
    BY <1>6, OwedIsInt
  <2>5. CASE new.token = Ether
    <3>1. m \in DrewFor(k)
      BY <1>6, <2>5 DEF DrewFor
    <3>2. /\ \A e \in DrewFor(k) : Drew[e] \in Int /\ Drew'[e] \in Int
          /\ \A e \in DrewFor(k) \ {m} : Drew[e] = Drew'[e]
      BY <1>5, <2>1
    <3>3. MandatesDrew(k)' = MandatesDrew(k) - Drew[m] + Drew'[m]
      BY <2>1, <2>2, <2>3, <2>4, <3>1, <3>2, SumChange
    <3>4. Drew[m] \in Int
      BY <1>5
    <3> QED BY <1>5, <2>4, <2>5, <3>3, <3>4
  <2>6. CASE new.token # Ether
    <3>1. \A e \in DrewFor(k) : Drew'[e] = Drew[e]
      BY <1>5, <1>6, <2>1, <2>6 DEF DrewFor
    <3> QED BY <2>1, <2>2, <2>3, <2>4, <2>6, <3>1, SumSame
  <2> QED BY <2>5, <2>6
<1>7. ASSUME NEW k \in Tokens, k # Ether
      PROVE  MandatesDrew(k)' = MandatesDrew(k)
  BY <1>7 DEF MandatesDrew
<1> QED BY <1>6, <1>7

LEMMA PaymentStarts == PaymentInit => PaymentIInv
<1> SUFFICES ASSUME PaymentInit PROVE PaymentIInv
  OBVIOUS
<1>1. PaymentTypeOK
  <2>1. payTime \in 0 .. PayHorizon /\ payPaused \in BOOLEAN
    <3>1. 0 \in 0 .. PayHorizon
      BY PaymentNumbers
    <3> QED BY <3>1 DEF PaymentInit
  <2>2. /\ stream \in [Streams -> StreamRecords \cup {NoStream}]
        /\ mandate \in [Mandates -> MandateRecords \cup {NoMandate}]
    BY DEF PaymentInit
  <2>3. 0 \in Nat /\ 0 \in 0 .. MaxStrayed
    BY PaymentNumbers
  <2>4. /\ payBalance \in [Tokens -> Nat]
        /\ paid \in [Streams -> Nat] /\ refunded \in [Streams -> Nat]
        /\ donated \in [Tokens -> 0 .. MaxStrayed] /\ withdrawn \in [Tokens -> 0 .. MaxStrayed]
    BY <2>3 DEF PaymentInit
  <2> QED BY <2>1, <2>2, <2>4 DEF PaymentTypeOK
<1>2. Made = {} /\ MandatesMade = {}
  BY DEF PaymentInit, Made, MandatesMade, NoStream, NoMandate
<1>3. StreamsFine
  BY <1>2 DEF PaymentInit, StreamsFine
<1>4. ASSUME NEW k \in Tokens PROVE Books(k)
  <2>1. OwedFor(k) = {} /\ DrewFor(k) = {}
    BY <1>2 DEF OwedFor, DrewFor
  <2>2. Owed(k) = 0
    BY <1>1, <2>1, OwedIsInt, SumEmpty
  <2>3. MandatesDrew(k) = 0
    BY <2>1, SumEmpty DEF MandatesDrew, Drew, DrewFor
  <2>4. payBalance[k] = 0 /\ withdrawn[k] = 0 /\ donated[k] = 0
    BY DEF PaymentInit
  <2> QED BY <2>2, <2>3, <2>4 DEF Books
<1> QED BY <1>1, <1>3, <1>4 DEF PaymentIInv

LEMMA CreateStreamKeeps ==
  ASSUME PaymentIInv, NEW s \in Streams, NEW k \in Tokens, NEW amount \in StreamAmounts,
         NEW duration \in StreamDurations, CreateStream(s, k, amount, duration)
  PROVE  PaymentIInv'
<1> DEFINE new == [exists |-> TRUE, token |-> k, total |-> amount, released |-> 0,
                   start |-> payTime, end |-> payTime + duration,
                   active |-> TRUE, cancelled |-> FALSE]
<1>1. /\ ~stream[s].exists /\ stream' = [stream EXCEPT ![s] = new]
      /\ payBalance' = [payBalance EXCEPT ![k] = @ + amount]
      /\ UNCHANGED <<payTime, payPaused, mandate, paid, refunded, donated, withdrawn>>
  BY DEF CreateStream, payHistory
<1>2. PaymentTypeOK /\ StreamsFine /\ \A t \in Tokens : Books(t)
  BY DEF PaymentIInv
<1>3. payTime \in 0 .. PayHorizon /\ payTime \in Nat /\ amount \in Nat /\ duration \in Nat \ {0}
  <2>1. payTime \in 0 .. PayHorizon /\ payTime \in Nat
    BY <1>2, PaymentTypes DEF PaymentTypeOK
  <2>2. amount \in Nat
    BY PaymentNumbers, Zenon
  <2>3. duration \in Nat \ {0}
    BY PaymentNumbers, Zenon
  <2> QED BY <2>1, <2>2, <2>3
<1>4. new \in StreamRecords
  BY <1>3 DEF StreamRecords
<1>5. /\ new.released = 0 /\ new.token = k /\ new.total = amount /\ new.start = payTime
      /\ new.end = payTime + duration /\ new.active /\ ~new.cancelled
  OBVIOUS
<1> HIDE DEF new
<1>r. PICK r : r = new
  OBVIOUS
<1>6. /\ Made' = Made \cup {s} /\ s \notin Made
      /\ \A t \in Tokens : Owed(t)' = IF t = k THEN Owed(t) + amount ELSE Owed(t)
  BY <1>1, <1>2, <1>4, <1>5, OwedOfNewStream
<1>7. PaymentTypeOK'
  <2>1. stream' \in [Streams -> StreamRecords \cup {NoStream}]
    BY <1>1, <1>2, <1>4 DEF PaymentTypeOK
  <2>2. payBalance' \in [Tokens -> Nat]
    BY <1>1, <1>2, <1>3 DEF PaymentTypeOK
  <2> QED BY <1>1, <1>2, <2>1, <2>2 DEF PaymentTypeOK
<1>8. stream'[s] = r /\ \A e \in Streams \ {s} : stream'[e] = stream[e]
  BY <1>1, <1>2, <1>r DEF PaymentTypeOK
<1>9. StreamsFine'
  <2>1. ASSUME NEW e \in Made' PROVE StreamFine(e)'
    <3>1. CASE e = s
      <4>1. paid'[s] = 0 /\ refunded'[s] = 0
        BY <1>1, <1>2, <1>6 DEF StreamsFine
      <4>2. Entitled(r)' \in Nat
        <5>1. /\ payTime' \in Nat /\ r.start <= payTime' /\ r.start < r.end
              /\ r.start \in Nat /\ r.end \in Nat /\ r.total \in Nat
          BY <1>1, <1>3, <1>5, <1>r
        <5>2. Min({payTime', r.end}) = IF payTime' <= r.end THEN payTime' ELSE r.end
          BY <5>1, MinOfTwo
        <5>3. /\ Elapsed(r)' \in Nat /\ Elapsed(r)' <= r.end - r.start
              /\ r.end - r.start \in Nat \ {0}
          BY <5>1, <5>2 DEF Elapsed
        <5>4. Entitled(r)' = ShareOf(r.total, Elapsed(r)', r.end - r.start)
          BY DEF Entitled, ShareOf, Elapsed
        <5> QED BY <5>1, <5>3, <5>4, ShareOfBounds
      <4>3. Entitled(stream[s])' = Entitled(r)'
        BY <1>8 DEF Entitled
      <4> QED BY <1>1, <1>3, <1>5, <1>r, <1>8, <3>1, <4>1, <4>2, <4>3 DEF StreamFine
    <3>2. CASE e # s
      <4>1. e \in Made /\ stream'[e] = stream[e] /\ StreamFine(e)
        BY <1>2, <1>6, <1>8, <3>2 DEF StreamsFine, Made
      <4> QED BY <1>1, <4>1 DEF StreamFine, Entitled
    <3> QED BY <3>1, <3>2
  <2>2. \A e \in Streams : e \notin Made' => paid'[e] = 0 /\ refunded'[e] = 0
    BY <1>1, <1>2, <1>6 DEF StreamsFine
  <2> QED BY <2>1, <2>2 DEF StreamsFine
<1>10. ASSUME NEW t \in Tokens PROVE Books(t)'
  <2>1. /\ payBalance[t] + withdrawn[t] + MandatesDrew(t) = Owed(t) + donated[t]
        /\ payBalance[t] \in Nat /\ withdrawn[t] \in Nat /\ donated[t] \in Nat
        /\ Owed(t) \in Int /\ MandatesDrew(t) \in Nat
    BY <1>2, PaymentTypes, OwedIsInt DEF Books
  <2>2. MandatesDrew(t)' = MandatesDrew(t) /\ withdrawn'[t] = withdrawn[t] /\ donated'[t] = donated[t]
    BY <1>1, MandatesFrame
  <2>3. payBalance'[t] = IF t = k THEN payBalance[t] + amount ELSE payBalance[t]
    BY <1>1, <1>2 DEF PaymentTypeOK
  <2> QED BY <1>3, <1>6, <2>1, <2>2, <2>3 DEF Books
<1> QED BY <1>7, <1>9, <1>10 DEF PaymentIInv

\* n of what the contract owns leaves for a stream of token k.
LEMMA SendingForStream ==
  ASSUME PaymentIInv, NEW k \in Tokens, NEW n \in Nat, Sends(k, n),
         UNCHANGED <<mandate, donated, withdrawn>>,
         \A t \in Tokens : Owed(t)' = IF t = k THEN Owed(t) - n ELSE Owed(t)
  PROVE  payBalance' \in [Tokens -> Nat] /\ \A t \in Tokens : Books(t)'
<1>1. PaymentTypeOK /\ \A t \in Tokens : Books(t)
  BY DEF PaymentIInv
<1>2. /\ payBalance \in [Tokens -> Nat] /\ payBalance[k] >= n
      /\ payBalance' = [payBalance EXCEPT ![k] = @ - n]
  BY <1>1 DEF PaymentTypeOK, Sends
<1>3. payBalance[k] - n \in Nat
  BY <1>2
<1>4. payBalance' \in [Tokens -> Nat]
  BY <1>2, <1>3
<1>5. ASSUME NEW t \in Tokens PROVE Books(t)'
  <2>1. /\ payBalance[t] + withdrawn[t] + MandatesDrew(t) = Owed(t) + donated[t]
        /\ payBalance[t] \in Nat /\ withdrawn[t] \in Nat /\ donated[t] \in Nat
        /\ Owed(t) \in Int /\ MandatesDrew(t) \in Nat
    BY <1>1, PaymentTypes, OwedIsInt DEF Books
  <2>2. MandatesDrew(t)' = MandatesDrew(t) /\ withdrawn'[t] = withdrawn[t] /\ donated'[t] = donated[t]
    BY MandatesFrame
  <2>3. payBalance'[t] = IF t = k THEN payBalance[t] - n ELSE payBalance[t]
    BY <1>2
  <2> QED BY <2>1, <2>2, <2>3 DEF Books
<1> QED BY <1>4, <1>5

LEMMA WithdrawFromStreamKeeps ==
  ASSUME PaymentIInv, NEW s \in Streams, WithdrawFromStream(s)
  PROVE  PaymentIInv'
<1> DEFINE x == stream[s]
           n == Pending(x)
           new == [x EXCEPT !.released = x.released + n,
                            !.active = x.released + n < x.total /\ payTime < x.end]
<1>1. /\ s \in Made /\ x.active /\ ~x.cancelled /\ n > 0
      /\ Sends(x.token, n) /\ paid' = [paid EXCEPT ![s] = @ + n]
      /\ UNCHANGED <<payTime, payPaused, mandate, refunded, donated, withdrawn>>
  BY DEF WithdrawFromStream
<1>2. PaymentTypeOK /\ StreamsFine /\ StreamFine(s) /\ \A t \in Tokens : Books(t)
  BY <1>1 DEF PaymentIInv, StreamsFine
<1>3. /\ x \in StreamRecords /\ payTime \in Nat
      /\ x.token \in Tokens /\ x.total \in Nat /\ x.released \in Nat
      /\ x.start \in Nat /\ x.end \in Nat
  BY <1>1, <1>2, PaymentTypes
<1>4. /\ x.start <= payTime /\ x.start < x.end /\ x.released <= x.total
      /\ refunded[s] = 0 /\ paid[s] <= Entitled(x) /\ paid[s] + refunded[s] = x.released
  BY <1>1, <1>2 DEF StreamFine
<1>5. /\ Entitled(x) \in Nat /\ Entitled(x) <= x.total
      /\ payTime >= x.end => Entitled(x) = x.total
  BY <1>3, <1>4, EntitledBounds
<1>6. n = Entitled(x) - x.released
  BY <1>1 DEF Pending
<1>7. n \in Nat /\ x.released + n = Entitled(x)
  BY <1>1, <1>3, <1>5, <1>6
<1>8. stream' = [stream EXCEPT ![s] = new] /\ stream \in [Streams -> StreamRecords \cup {NoStream}]
  <2>1. stream' = [stream EXCEPT ![s].released = x.released + n,
                                 ![s].active = x.released + n < x.total /\ payTime < x.end]
    BY DEF WithdrawFromStream
  <2>2. stream \in [Streams -> StreamRecords \cup {NoStream}]
    BY <1>2 DEF PaymentTypeOK
  <2> HIDE DEF n
  <2> QED BY <2>1, <2>2
<1> HIDE DEF n
<1>9. /\ new \in StreamRecords
      /\ new.token = x.token /\ new.total = x.total /\ new.released = x.released + n
      /\ new.start = x.start /\ new.end = x.end /\ new.cancelled = x.cancelled
      /\ new.active <=> x.released + n < x.total /\ payTime < x.end
  <2> DEFINE goesOn == x.released + n < x.total /\ payTime < x.end
             m == x.released + n
  <2>1. goesOn \in BOOLEAN /\ m \in Nat
    BY <1>3, <1>7
  <2>2. new = [x EXCEPT !.released = m, !.active = goesOn]
    OBVIOUS
  <2> HIDE DEF goesOn, m, new
  <2>3. new \in StreamRecords
    BY <1>3, <2>1, <2>2 DEF StreamRecords
  <2>4. /\ new.token = x.token /\ new.total = x.total /\ new.released = m
        /\ new.start = x.start /\ new.end = x.end /\ new.cancelled = x.cancelled
        /\ new.active = goesOn
    BY <1>3, <2>2 DEF StreamRecords
  <2> QED BY <2>3, <2>4 DEF goesOn, m
<1> HIDE DEF new
<1>10. PICK r : r = new
  OBVIOUS
<1>11. stream'[s] = r /\ \A e \in Streams \ {s} : stream'[e] = stream[e]
  BY <1>8, <1>10
<1>12. /\ Made' = Made
       /\ \A t \in Tokens : Owed(t)' = IF t = x.token THEN Owed(t) - n ELSE Owed(t)
  BY <1>1, <1>2, <1>7, <1>8, <1>9, OwedOfRelease
<1>13. payBalance' \in [Tokens -> Nat] /\ \A t \in Tokens : Books(t)'
  BY <1>1, <1>3, <1>7, <1>12, SendingForStream
<1>14. PaymentTypeOK'
  <2>1. stream' \in [Streams -> StreamRecords \cup {NoStream}]
    BY <1>8, <1>9
  <2>2. paid' \in [Streams -> Nat]
    BY <1>1, <1>2, <1>7 DEF PaymentTypeOK
  <2> QED BY <1>1, <1>2, <1>13, <2>1, <2>2 DEF PaymentTypeOK
<1>15. StreamsFine'
  <2>1. ASSUME NEW e \in Made PROVE StreamFine(e)'
    <3>1. CASE e = s
      <4>1. Entitled(stream[s])' = Entitled(x)
        <5>1. Entitled(stream[s])' = (r.total * (Min({payTime, r.end}) - r.start)) \div (r.end - r.start)
          BY <1>1, <1>11 DEF Entitled
        <5> QED BY <1>9, <1>10, <5>1 DEF Entitled
      <4>2. paid'[s] = paid[s] + n /\ refunded'[s] = 0 /\ paid[s] \in Nat
        BY <1>1, <1>2, <1>4 DEF PaymentTypeOK
      <4>3. r.active => x.active /\ ~x.cancelled
        BY <1>1
      <4>4. ~r.active => r.released = r.total
        <5>1. r.released = Entitled(x) /\ r.total = x.total
          BY <1>7, <1>9, <1>10
        <5>2. r.active <=> Entitled(x) < x.total /\ payTime < x.end
          BY <1>7, <1>9, <1>10
        <5> QED BY <1>3, <1>5, <5>1, <5>2
      <4> QED BY <1>1, <1>3, <1>4, <1>5, <1>7, <1>9, <1>10, <1>11, <3>1, <4>1, <4>2, <4>4 DEF StreamFine
    <3>2. CASE e # s
      <4>1. stream'[e] = stream[e] /\ StreamFine(e) /\ paid'[e] = paid[e]
        BY <1>1, <1>2, <1>11, <3>2 DEF StreamsFine, Made, PaymentTypeOK
      <4> QED BY <1>1, <4>1 DEF StreamFine, Entitled
    <3> QED BY <3>1, <3>2
  <2>2. \A e \in Streams : e \notin Made' => paid'[e] = 0 /\ refunded'[e] = 0
    BY <1>1, <1>2, <1>12 DEF StreamsFine, PaymentTypeOK
  <2> QED BY <1>12, <2>1, <2>2 DEF StreamsFine
<1> QED BY <1>13, <1>14, <1>15 DEF PaymentIInv

LEMMA CancelStreamKeeps ==
  ASSUME PaymentIInv, NEW s \in Streams, CancelStream(s)
  PROVE  PaymentIInv'
<1> DEFINE x == stream[s]
           n == x.total - x.released
           new == [x EXCEPT !.active = FALSE, !.cancelled = TRUE, !.released = x.total]
<1>1. s \in Made /\ x.active /\ ~x.cancelled
  BY DEF CancelStream
<1>2. PaymentTypeOK /\ StreamsFine /\ StreamFine(s) /\ \A t \in Tokens : Books(t)
  BY <1>1 DEF PaymentIInv, StreamsFine
<1>3. /\ x \in StreamRecords /\ payTime \in Nat
      /\ x.token \in Tokens /\ x.total \in Nat /\ x.released \in Nat
      /\ x.start \in Nat /\ x.end \in Nat
      /\ stream \in [Streams -> StreamRecords \cup {NoStream}]
      /\ paid \in [Streams -> Nat] /\ refunded \in [Streams -> Nat]
  BY <1>1, <1>2, PaymentTypes DEF PaymentTypeOK
<1>4. /\ x.start <= payTime /\ x.start < x.end /\ x.released <= x.total
      /\ refunded[s] = 0 /\ paid[s] <= Entitled(x) /\ paid[s] + refunded[s] = x.released
  BY <1>1, <1>2 DEF StreamFine
<1>5. n \in Nat /\ x.released + n = x.total
  BY <1>3, <1>4
<1> DEFINE ended == [x EXCEPT !.active = FALSE, !.cancelled = TRUE]
<1>6. /\ ended.token = x.token /\ ended.total = x.total /\ ended.released = x.released
      /\ ~ended.active /\ new = [ended EXCEPT !.released = ended.total]
  BY <1>3 DEF StreamRecords
<1>7. /\ stream' = [stream EXCEPT ![s] = new]
      /\ Sends(x.token, 0 + (x.total - x.released - 0))
      /\ paid' = [paid EXCEPT ![s] = @ + 0]
      /\ refunded' = [refunded EXCEPT ![s] = @ + (x.total - x.released - 0)]
      /\ UNCHANGED <<payTime, payPaused, mandate, donated, withdrawn>>
  <2>1. Pending(ended) = 0
    BY <1>6 DEF Pending
  <2>2. /\ stream' = [stream EXCEPT ![s] = [ended EXCEPT !.released = ended.total]]
        /\ Sends(ended.token, Pending(ended) + (ended.total - ended.released - Pending(ended)))
        /\ paid' = [paid EXCEPT ![s] = @ + Pending(ended)]
        /\ refunded' = [refunded EXCEPT ![s] = @ + (ended.total - ended.released - Pending(ended))]
        /\ UNCHANGED <<payTime, payPaused, mandate, donated, withdrawn>>
    BY DEF CancelStream
  <2> HIDE DEF ended, new
  <2> QED BY <1>6, <2>1, <2>2
<1>8. /\ Sends(x.token, n) /\ paid' = paid /\ refunded' = [refunded EXCEPT ![s] = n]
  <2>1. 0 + (x.total - x.released - 0) = n /\ x.total - x.released - 0 = n
    BY <1>3
  <2>2. paid[s] + 0 = paid[s] /\ refunded[s] + n = n
    BY <1>3, <1>4, <1>5
  <2> HIDE DEF n
  <2> QED BY <1>3, <1>7, <2>1, <2>2
<1>9. /\ new \in StreamRecords
      /\ new.token = x.token /\ new.total = x.total /\ new.released = x.total
      /\ new.start = x.start /\ new.end = x.end /\ ~new.active
  BY <1>3 DEF StreamRecords
<1> HIDE DEF new, ended
<1>10. PICK r : r = new
  OBVIOUS
<1>11. stream'[s] = r /\ \A e \in Streams \ {s} : stream'[e] = stream[e]
  BY <1>3, <1>7, <1>10
<1>12. /\ Made' = Made
       /\ \A t \in Tokens : Owed(t)' = IF t = x.token THEN Owed(t) - n ELSE Owed(t)
  <2>1. new.released = x.released + n
    BY <1>5, <1>9
  <2> HIDE DEF n
  <2> QED BY <1>1, <1>2, <1>5, <1>7, <1>9, <2>1, OwedOfRelease
<1>13. payBalance' \in [Tokens -> Nat] /\ \A t \in Tokens : Books(t)'
  <2> HIDE DEF n
  <2> QED BY <1>3, <1>5, <1>7, <1>8, <1>12, SendingForStream
<1>14. PaymentTypeOK'
  <2>1. stream' \in [Streams -> StreamRecords \cup {NoStream}]
    BY <1>3, <1>7, <1>9
  <2>2. refunded' \in [Streams -> Nat]
    BY <1>3, <1>5, <1>8
  <2> QED BY <1>2, <1>7, <1>8, <1>13, <2>1, <2>2 DEF PaymentTypeOK
<1>15. StreamsFine'
  <2>1. ASSUME NEW e \in Made PROVE StreamFine(e)'
    <3>1. CASE e = s
      <4>1. Entitled(stream[s])' = Entitled(x)
        <5>1. Entitled(stream[s])' = (r.total * (Min({payTime, r.end}) - r.start)) \div (r.end - r.start)
          BY <1>7, <1>11 DEF Entitled
        <5> QED BY <1>9, <1>10, <5>1 DEF Entitled
      <4>2. paid'[s] = paid[s] /\ refunded'[s] = n
        BY <1>3, <1>8
      <4>3. paid[s] + n = x.total
        BY <1>3, <1>4
      <4> QED BY <1>3, <1>4, <1>7, <1>9, <1>10, <1>11, <3>1, <4>1, <4>2, <4>3 DEF StreamFine
    <3>2. CASE e # s
      <4>1. stream'[e] = stream[e] /\ StreamFine(e) /\ paid'[e] = paid[e] /\ refunded'[e] = refunded[e]
        BY <1>2, <1>3, <1>8, <1>11, <3>2 DEF StreamsFine, Made
      <4> QED BY <1>7, <4>1 DEF StreamFine, Entitled
    <3> QED BY <3>1, <3>2
  <2>2. \A e \in Streams : e \notin Made' => paid'[e] = 0 /\ refunded'[e] = 0
    BY <1>1, <1>2, <1>3, <1>8, <1>12 DEF StreamsFine
  <2> QED BY <1>12, <2>1, <2>2 DEF StreamsFine
<1> QED BY <1>13, <1>14, <1>15 DEF PaymentIInv

\* A step that concerns neither streams nor money.
LEMMA MandateStepKeeps ==
  ASSUME PaymentIInv,
         UNCHANGED <<payTime, payPaused, stream, payBalance, payHistory>>,
         mandate' \in [Mandates -> MandateRecords \cup {NoMandate}],
         \A k \in Tokens : MandatesDrew(k)' = MandatesDrew(k)
  PROVE  PaymentIInv'
<1>1. PaymentTypeOK'
  BY DEF PaymentIInv, PaymentTypeOK, payHistory
<1>2. StreamsFine' /\ \A k \in Tokens : Owed(k)' = Owed(k)
  BY StreamsFrame DEF PaymentIInv, payHistory
<1>3. \A k \in Tokens : Books(k)'
  BY <1>2 DEF PaymentIInv, Books, payHistory
<1> QED BY <1>1, <1>2, <1>3 DEF PaymentIInv

LEMMA CreateMandateKeeps ==
  ASSUME PaymentIInv, NEW m \in Mandates, NEW k \in Tokens, NEW max \in MandateLimits,
         NEW validity \in MandateValidities, CreateMandate(m, k, max, validity)
  PROVE  PaymentIInv'
<1> DEFINE new == [exists |-> TRUE, token |-> k, max |-> max, used |-> 0,
                   until |-> payTime + validity, active |-> TRUE]
<1>1. /\ ~mandate[m].exists /\ mandate' = [mandate EXCEPT ![m] = new]
      /\ UNCHANGED <<payTime, payPaused, stream, payBalance, payHistory>>
  BY DEF CreateMandate
<1>2. payTime + validity \in Nat
  <2>1. validity \in Nat
    BY PaymentNumbers, Zenon
  <2> QED BY <2>1, PaymentTypes DEF PaymentIInv
<1>3. new \in MandateRecords /\ new.used = 0
  BY <1>2 DEF MandateRecords
<1> HIDE DEF new
<1>4. \A t \in Tokens : MandatesDrew(t)' = MandatesDrew(t)
  BY <1>1, <1>3, DrewOfNewMandate DEF PaymentIInv
<1>5. mandate' \in [Mandates -> MandateRecords \cup {NoMandate}]
  BY <1>1, <1>3 DEF PaymentIInv, PaymentTypeOK
<1> QED BY <1>1, <1>4, <1>5, MandateStepKeeps

LEMMA RevokeMandateKeeps ==
  ASSUME PaymentIInv, NEW m \in Mandates, RevokeMandate(m)
  PROVE  PaymentIInv'
<1> DEFINE new == [mandate[m] EXCEPT !.active = FALSE]
<1>1. /\ m \in MandatesMade
      /\ mandate' = [mandate EXCEPT ![m].active = FALSE]
      /\ UNCHANGED <<payTime, payPaused, stream, payBalance, payHistory>>
  BY DEF RevokeMandate
<1>2. PaymentTypeOK
  BY DEF PaymentIInv
<1>3. mandate[m] \in MandateRecords /\ mandate[m].used \in Nat
      /\ mandate \in [Mandates -> MandateRecords \cup {NoMandate}]
  BY <1>1, <1>2, PaymentTypes DEF PaymentTypeOK
<1>4. mandate' = [mandate EXCEPT ![m] = new]
  BY <1>1, <1>3
<1>5. new \in MandateRecords /\ new.used = mandate[m].used + 0 /\ new.token = mandate[m].token
  <2>1. PICK x : x = mandate[m]
    OBVIOUS
  <2>2. [x EXCEPT !.active = FALSE] \in MandateRecords
    BY <1>3, <2>1 DEF MandateRecords
  <2>3. /\ [x EXCEPT !.active = FALSE].used = x.used
        /\ [x EXCEPT !.active = FALSE].token = x.token
    BY <1>3, <2>1 DEF MandateRecords
  <2>4. x.used = x.used + 0
    BY <1>3, <2>1
  <2> QED BY <2>1, <2>2, <2>3, <2>4
<1> HIDE DEF new
<1>6. \A t \in Tokens : MandatesDrew(t)' = MandatesDrew(t)
  <2>1. \A t \in Tokens :
            MandatesDrew(t)' = IF t = Ether /\ new.token = Ether THEN MandatesDrew(t) + 0
                               ELSE MandatesDrew(t)
    BY <1>1, <1>2, <1>4, <1>5, DrewOfDraw
  <2>2. \A t \in Tokens : MandatesDrew(t) + 0 = MandatesDrew(t)
    BY <1>2, OwedIsInt
  <2> QED BY <2>1, <2>2
<1>7. mandate' \in [Mandates -> MandateRecords \cup {NoMandate}]
  BY <1>3, <1>4, <1>5
<1> QED BY <1>1, <1>6, <1>7, MandateStepKeeps

LEMMA ExecuteFromMandateKeeps ==
  ASSUME PaymentIInv, NEW m \in Mandates, NEW n \in PayAmounts, ExecuteFromMandate(m, n)
  PROVE  PaymentIInv'
<1> DEFINE x == mandate[m]
           goesOn == x.used + n < x.max
           sum == x.used + n
           new == [x EXCEPT !.used = sum, !.active = goesOn]
<1>1. /\ m \in MandatesMade
      /\ mandate' = [mandate EXCEPT ![m].used = @ + n, ![m].active = x.used + n < x.max]
      /\ IF x.token = Ether THEN Sends(Ether, n) ELSE UNCHANGED payBalance
      /\ UNCHANGED <<payTime, payPaused, stream, payHistory>>
  BY DEF ExecuteFromMandate
<1>2. PaymentTypeOK /\ StreamsFine /\ \A t \in Tokens : Books(t)
  BY DEF PaymentIInv
<1>3. /\ x \in MandateRecords /\ x.used \in Nat /\ x.max \in Nat
      /\ mandate \in [Mandates -> MandateRecords \cup {NoMandate}]
      /\ payBalance \in [Tokens -> Nat]
  BY <1>1, <1>2, PaymentTypes DEF PaymentTypeOK
<1>4. n \in Nat
  BY PaymentNumbers, Zenon
<1>5. sum \in Nat /\ goesOn \in BOOLEAN
  BY <1>3, <1>4
<1>6. mandate' = [mandate EXCEPT ![m] = new]
  <2> HIDE DEF x
  <2> QED BY <1>1, <1>3 DEF x
<1> HIDE DEF goesOn
<1>7. new \in MandateRecords /\ new.used = x.used + n /\ new.token = x.token
  <2> HIDE DEF sum
  <2>1. new \in MandateRecords /\ new.used = sum /\ new.token = x.token
    BY <1>3, <1>5 DEF MandateRecords
  <2> QED BY <2>1 DEF sum
<1> HIDE DEF new
<1>8. \A t \in Tokens :
            MandatesDrew(t)' = IF t = Ether /\ x.token = Ether THEN MandatesDrew(t) + n
                               ELSE MandatesDrew(t)
  <2>1. m \in MandatesMade /\ new.used = mandate[m].used + n /\ new.token = mandate[m].token
    BY <1>1, <1>7
  <2>2. \A t \in Tokens :
            MandatesDrew(t)' = IF t = Ether /\ new.token = Ether THEN MandatesDrew(t) + n
                               ELSE MandatesDrew(t)
    <3> HIDE DEF x
    <3> QED BY <1>2, <1>4, <1>6, <1>7, <2>1, DrewOfDraw
  <2> QED BY <1>7, <2>2
<1>9. /\ payBalance' \in [Tokens -> Nat]
      /\ \A t \in Tokens : payBalance'[t] = IF t = Ether /\ x.token = Ether THEN payBalance[t] - n
                                            ELSE payBalance[t]
  <2>1. CASE x.token = Ether
    <3>1. /\ payBalance[Ether] >= n /\ payBalance' = [payBalance EXCEPT ![Ether] = @ - n]
          /\ Ether \in Tokens
      BY <1>1, <2>1, PaymentAssumption DEF Sends
    <3>2. payBalance[Ether] - n \in Nat
      BY <1>3, <1>4, <3>1
    <3> QED BY <1>3, <2>1, <3>1, <3>2
  <2>2. CASE x.token # Ether
    BY <1>1, <1>3, <2>2
  <2> QED BY <2>1, <2>2
<1>10. mandate' \in [Mandates -> MandateRecords \cup {NoMandate}]
  BY <1>3, <1>6, <1>7
<1>11. PaymentTypeOK'
  BY <1>1, <1>2, <1>9, <1>10 DEF PaymentTypeOK, payHistory
<1>12. StreamsFine' /\ \A t \in Tokens : Owed(t)' = Owed(t)
  BY <1>1, <1>2, StreamsFrame DEF payHistory
<1>13. ASSUME NEW t \in Tokens PROVE Books(t)'
  <2>1. /\ payBalance[t] + withdrawn[t] + MandatesDrew(t) = Owed(t) + donated[t]
        /\ payBalance[t] \in Nat /\ withdrawn[t] \in Nat /\ donated[t] \in Nat
        /\ Owed(t) \in Int /\ MandatesDrew(t) \in Nat
    BY <1>2, PaymentTypes, OwedIsInt DEF Books
  <2>2. withdrawn'[t] = withdrawn[t] /\ donated'[t] = donated[t]
    BY <1>1 DEF payHistory
  <2> QED BY <1>4, <1>8, <1>9, <1>12, <2>1, <2>2 DEF Books
<1> QED BY <1>11, <1>12, <1>13 DEF PaymentIInv

LEMMA SumWithin ==
  ASSUME NEW f \in [Tokens -> 0 .. MaxStrayed], NEW k \in Tokens, NEW n \in Nat,
         OverTokens(f) + n <= MaxStrayed
  PROVE  f[k] + n \in 0 .. MaxStrayed
<1>1. \A t \in Tokens : f[t] \in Nat
  BY PaymentNumbers
<1>2. f[k] <= SumFunctionOnSet(f, Tokens) /\ SumFunctionOnSet(f, Tokens) \in Nat
  BY <1>1, SumElement, SumNat, PaymentAssumption
<1> QED BY <1>1, <1>2, PaymentNumbers DEF OverTokens

LEMMA OwnerAndStraysKeep ==
  ASSUME PaymentIInv, NEW k \in Tokens, NEW n \in PayAmounts,
         EmergencyWithdraw(k, n) \/ ReceiveFunds(k, n)
  PROVE  PaymentIInv'
<1>1. PaymentTypeOK /\ StreamsFine /\ \A t \in Tokens : Books(t)
  BY DEF PaymentIInv
<1>2. n \in Nat
  BY PaymentNumbers, Zenon
<1>3. /\ payBalance \in [Tokens -> Nat]
      /\ withdrawn \in [Tokens -> 0 .. MaxStrayed] /\ donated \in [Tokens -> 0 .. MaxStrayed]
  BY <1>1 DEF PaymentTypeOK
<1>4. UNCHANGED <<payTime, payPaused, stream, mandate, paid, refunded>>
  BY DEF EmergencyWithdraw, ReceiveFunds
<1>5. StreamsFine' /\ \A t \in Tokens : Owed(t)' = Owed(t) /\ MandatesDrew(t)' = MandatesDrew(t)
  BY <1>1, <1>4, StreamsFrame, MandatesFrame
<1>6. \A t \in Tokens :
          /\ payBalance[t] + withdrawn[t] + MandatesDrew(t) = Owed(t) + donated[t]
          /\ payBalance[t] \in Nat /\ withdrawn[t] \in Nat /\ donated[t] \in Nat
          /\ Owed(t) \in Int /\ MandatesDrew(t) \in Nat
  BY <1>1, PaymentTypes, OwedIsInt DEF Books
<1>7. CASE EmergencyWithdraw(k, n)
  <2>1. /\ OverTokens(withdrawn) + n <= MaxStrayed
        /\ payBalance[k] >= n /\ payBalance' = [payBalance EXCEPT ![k] = @ - n]
        /\ withdrawn' = [withdrawn EXCEPT ![k] = @ + n] /\ donated' = donated
    BY <1>7 DEF EmergencyWithdraw, Sends
  <2>2. withdrawn[k] + n \in 0 .. MaxStrayed
    BY <1>2, <1>3, <2>1, SumWithin
  <2>3. payBalance[k] - n \in Nat
    BY <1>2, <1>3, <2>1
  <2>4. PaymentTypeOK'
    BY <1>1, <1>3, <1>4, <2>1, <2>2, <2>3 DEF PaymentTypeOK
  <2>5. ASSUME NEW t \in Tokens PROVE Books(t)'
    <3>1. /\ payBalance'[t] = IF t = k THEN payBalance[t] - n ELSE payBalance[t]
          /\ withdrawn'[t] = IF t = k THEN withdrawn[t] + n ELSE withdrawn[t]
          /\ donated'[t] = donated[t]
      BY <1>3, <2>1
    <3>2. payBalance'[t] + withdrawn'[t] = payBalance[t] + withdrawn[t]
      BY <1>2, <1>6, <3>1
    <3>3. payBalance'[t] + withdrawn'[t] + MandatesDrew(t)' = Owed(t)' + donated'[t]
      BY <1>5, <1>6, <3>1, <3>2
    <3> QED BY <3>3 DEF Books
  <2> QED BY <1>5, <2>4, <2>5 DEF PaymentIInv
<1>8. CASE ReceiveFunds(k, n)
  <2>1. /\ OverTokens(donated) + n <= MaxStrayed
        /\ payBalance' = [payBalance EXCEPT ![k] = @ + n]
        /\ donated' = [donated EXCEPT ![k] = @ + n] /\ withdrawn' = withdrawn
    BY <1>8 DEF ReceiveFunds
  <2>2. donated[k] + n \in 0 .. MaxStrayed
    BY <1>2, <1>3, <2>1, SumWithin
  <2>3. payBalance[k] + n \in Nat
    BY <1>2, <1>3
  <2>4. PaymentTypeOK'
    BY <1>1, <1>3, <1>4, <2>1, <2>2, <2>3 DEF PaymentTypeOK
  <2>5. ASSUME NEW t \in Tokens PROVE Books(t)'
    <3>1. /\ payBalance'[t] = IF t = k THEN payBalance[t] + n ELSE payBalance[t]
          /\ donated'[t] = IF t = k THEN donated[t] + n ELSE donated[t]
          /\ withdrawn'[t] = withdrawn[t]
      BY <1>3, <2>1
    <3>2. payBalance'[t] + donated[t] = payBalance[t] + donated'[t]
      BY <1>2, <1>6, <3>1
    <3>3. /\ payBalance'[t] \in Int /\ donated'[t] \in Int
      BY <1>2, <1>6, <3>1
    <3>4. payBalance'[t] + withdrawn'[t] + MandatesDrew(t)' = Owed(t)' + donated'[t]
      BY <1>5, <1>6, <3>1, <3>2, <3>3
    <3> QED BY <3>4 DEF Books
  <2> QED BY <1>5, <2>4, <2>5 DEF PaymentIInv
<1> QED BY <1>7, <1>8

LEMMA PayTickKeeps == PaymentIInv /\ PayTick => PaymentIInv'
<1> SUFFICES ASSUME PaymentIInv, PayTick PROVE PaymentIInv'
  OBVIOUS
<1>1. PaymentTypeOK /\ StreamsFine /\ \A t \in Tokens : Books(t)
  BY DEF PaymentIInv
<1>2. /\ payTime < PayHorizon /\ payTime' = payTime + 1
      /\ UNCHANGED <<payPaused, stream, mandate, payBalance, paid, refunded, donated, withdrawn>>
  BY DEF PayTick, payHistory
<1>3. payTime \in Nat /\ payTime' \in 0 .. PayHorizon
  BY <1>1, <1>2, PaymentNumbers, PaymentTypes
<1>4. PaymentTypeOK'
  BY <1>1, <1>2, <1>3 DEF PaymentTypeOK
<1>5. Made' = Made
  BY <1>2 DEF Made
<1>6. ASSUME NEW s \in Made PROVE StreamFine(s)'
  <2>1. PICK x : x = stream[s]
    OBVIOUS
  <2>2. StreamFine(s)
    BY <1>1 DEF StreamsFine
  <2>3. x.start \in Nat /\ x.end \in Nat /\ x.total \in Nat /\ x.released \in Nat
    BY <1>1, <2>1, PaymentTypes
  <2>4. /\ x.start <= payTime /\ x.start < x.end /\ x.released <= x.total
        /\ x.active => ~x.cancelled /\ refunded[s] = 0
        /\ paid[s] <= Entitled(x) /\ paid[s] + refunded[s] = x.released
        /\ ~x.active => x.released = x.total
    BY <2>1, <2>2 DEF StreamFine
  <2>5. Entitled(x) <= Entitled(x)' /\ Entitled(x) \in Nat
    BY <1>2, <1>3, <2>3, <2>4, EntitledGrows, EntitledBounds
  <2>6. Entitled(x)' \in Nat
    <3>1. payTime' \in Nat /\ x.start <= payTime'
      BY <1>2, <1>3, <2>3, <2>4
    <3>2. Min({payTime', x.end}) = IF payTime' <= x.end THEN payTime' ELSE x.end
      BY <2>3, <3>1, MinOfTwo
    <3>3. /\ Elapsed(x)' \in Nat /\ Elapsed(x)' <= x.end - x.start
          /\ x.end - x.start \in Nat \ {0}
      BY <2>3, <2>4, <3>1, <3>2 DEF Elapsed
    <3>4. Entitled(x)' = ShareOf(x.total, Elapsed(x)', x.end - x.start)
      BY DEF Entitled, ShareOf, Elapsed
    <3> QED BY <2>3, <3>3, <3>4, ShareOfBounds
  <2>7. paid[s] \in Nat
    BY <1>1 DEF PaymentTypeOK, Made
  <2>8. paid[s] <= Entitled(x)'
    BY <2>4, <2>5, <2>6, <2>7
  <2>9. x.start <= payTime'
    BY <1>2, <1>3, <2>3, <2>4
  <2>10. stream'[s] = x /\ Entitled(stream[s])' = Entitled(x)'
    BY <1>2, <2>1 DEF Entitled
  <2> QED BY <1>2, <2>4, <2>8, <2>9, <2>10 DEF StreamFine
<1>7. StreamsFine'
  BY <1>1, <1>2, <1>5, <1>6 DEF StreamsFine
<1>8. \A t \in Tokens : Books(t)'
  <2>1. \A t \in Tokens : Owed(t)' = Owed(t) /\ MandatesDrew(t)' = MandatesDrew(t)
    BY <1>2 DEF Owed, Made, MandatesDrew, MandatesMade
  <2> QED BY <1>1, <1>2, <2>1 DEF Books
<1> QED BY <1>4, <1>7, <1>8 DEF PaymentIInv

LEMMA PaymentStep == PaymentIInv /\ [PaymentNext]_paymentVars => PaymentIInv'
<1> SUFFICES ASSUME PaymentIInv, [PaymentNext]_paymentVars PROVE PaymentIInv'
  OBVIOUS
<1>1. CASE PayTick
  BY <1>1, PayTickKeeps
<1>2. ASSUME UNCHANGED <<payTime, stream, mandate, payBalance, payHistory>>, payPaused' \in BOOLEAN
      PROVE  PaymentIInv'
  <2>1. PaymentTypeOK'
    BY <1>2 DEF PaymentIInv, PaymentTypeOK, payHistory
  <2>2. StreamsFine' /\ \A t \in Tokens : Owed(t)' = Owed(t) /\ MandatesDrew(t)' = MandatesDrew(t)
    BY <1>2, StreamsFrame, MandatesFrame DEF PaymentIInv, payHistory
  <2>3. \A t \in Tokens : Books(t)'
    BY <1>2, <2>2 DEF PaymentIInv, Books, payHistory
  <2> QED BY <2>1, <2>2, <2>3 DEF PaymentIInv
<1>3. CASE PauseOrUnpause
  BY <1>2, <1>3 DEF PauseOrUnpause
<1>4. CASE UNCHANGED paymentVars
  <2>1. payPaused' \in BOOLEAN
    BY <1>4 DEF paymentVars, PaymentIInv, PaymentTypeOK
  <2> QED BY <1>2, <1>4, <2>1 DEF paymentVars, payHistory
<1> QED
  BY <1>1, <1>3, <1>4, CreateStreamKeeps, WithdrawFromStreamKeeps, CancelStreamKeeps,
     CreateMandateKeeps, RevokeMandateKeeps, ExecuteFromMandateKeeps, OwnerAndStraysKeep
     DEF PaymentNext

\* The types of the payment contract's variables, for any amounts, limits and
\* durations (AgentPayment.sol:176-438).
THEOREM PaymentTyping == PaymentSpec => []PaymentTypeOK
<1>1. PaymentIInv => PaymentTypeOK
  BY DEF PaymentIInv
<1> QED BY <1>1, PaymentStarts, PaymentStep, PTL DEF PaymentSpec

\* The books of the payment contract balance for any number of streams, mandates
\* and tokens: what it owns of a token is what it owes the streams and what
\* strayed in, less what the owner and the mandates took; no recipient is ahead
\* of the clock, and an ended stream has paid out its amount to the unit,
\* whatever the roundings on the way (AgentPayment.sol:176-438).
THEOREM StreamsAreAccountedFor == PaymentSpec => []StreamsAccounted
<1>1. PaymentIInv => StreamsAccounted
  BY DEF PaymentIInv, StreamsFine, StreamFine, Books, StreamsAccounted
<1> QED BY <1>1, PaymentStarts, PaymentStep, PTL DEF PaymentSpec

(***************************************************************************)
(* The vesting wallet                                                      *)
(***************************************************************************)
SchedulesFine ==
  \A i \in Scheduled : /\ schedule[i].cliff <= schedule[i].duration
                       /\ schedule[i].released <= schedule[i].total

VestingIInv == VestingTypeOK /\ SchedulesFine /\ SchedulesCovered

\* What has vested of a schedule x at time t.
VestedAt(x, t) ==
  IF x.revoked THEN x.released
  ELSE IF t < x.start + x.cliff THEN 0
  ELSE IF t >= x.start + x.duration THEN x.total
  ELSE ShareOf(x.total, t - (x.start + x.cliff), x.duration - x.cliff)

\* The shape every schedule has.
ScheduleFine(x) ==
  /\ x.total \in Nat /\ x.start \in Nat /\ x.cliff \in Nat /\ x.duration \in Nat
  /\ x.released \in Nat /\ x.revoked \in BOOLEAN
  /\ x.cliff <= x.duration /\ x.released <= x.total

LEMMA VestedCases ==
  ASSUME NEW x, NEW t \in Nat, ScheduleFine(x)
  PROVE  (CASE x.revoked -> x.released
            [] ~x.revoked /\ t < x.start + x.cliff -> 0
            [] ~x.revoked /\ t >= x.start + x.cliff /\ t >= x.start + x.duration -> x.total
            [] OTHER -> (x.total * (t - (x.start + x.cliff))) \div (x.duration - x.cliff))
         = VestedAt(x, t)
<1>1. x.start + x.cliff \in Nat /\ x.start + x.duration \in Nat /\ x.revoked \in BOOLEAN
  BY DEF ScheduleFine
<1>2. PICK c : c = x.start + x.cliff
  OBVIOUS
<1>3. PICK e : e = x.start + x.duration
  OBVIOUS
<1>4. PICK r : r = (x.total * (t - (x.start + x.cliff))) \div (x.duration - x.cliff)
  OBVIOUS
<1>5. VestedAt(x, t) = IF x.revoked THEN x.released ELSE IF t < c THEN 0
                       ELSE IF t >= e THEN x.total ELSE r
  BY <1>2, <1>3, <1>4 DEF VestedAt, ShareOf
<1>6. (t < c) \in BOOLEAN /\ (t >= c <=> ~ (t < c))
  BY <1>1, <1>2
<1>7. (CASE x.revoked -> x.released
         [] ~x.revoked /\ t < c -> 0
         [] ~x.revoked /\ t >= c /\ t >= e -> x.total
         [] OTHER -> r)
      = IF x.revoked THEN x.released ELSE IF t < c THEN 0 ELSE IF t >= e THEN x.total ELSE r
  BY <1>6
<1> QED BY <1>2, <1>3, <1>4, <1>5, <1>7, Zenon

\* Between the cliff and the end of a schedule.
LEMMA VestedBetween ==
  ASSUME NEW x, NEW t \in Nat, ScheduleFine(x), ~ (t < x.start + x.cliff), ~ (t >= x.start + x.duration)
  PROVE  /\ t - (x.start + x.cliff) \in Nat /\ x.duration - x.cliff \in Nat \ {0}
         /\ t - (x.start + x.cliff) <= x.duration - x.cliff
BY DEF ScheduleFine

LEMMA VestedAtBounds ==
  ASSUME NEW x, NEW t \in Nat, ScheduleFine(x)
  PROVE  VestedAt(x, t) \in Nat /\ VestedAt(x, t) <= x.total
<1>1. CASE ~x.revoked /\ ~ (t < x.start + x.cliff) /\ ~ (t >= x.start + x.duration)
  <2>1. x.total \in Nat
    BY DEF ScheduleFine
  <2>2. VestedAt(x, t) = ShareOf(x.total, t - (x.start + x.cliff), x.duration - x.cliff)
    BY <1>1 DEF VestedAt
  <2> QED BY <1>1, <2>1, <2>2, VestedBetween, ShareOfBounds
<1>2. CASE ~ (~x.revoked /\ ~ (t < x.start + x.cliff) /\ ~ (t >= x.start + x.duration))
  <2>1. VestedAt(x, t) \in {x.released, 0, x.total}
    BY <1>2 DEF VestedAt
  <2> QED BY <2>1 DEF ScheduleFine
<1> QED BY <1>1, <1>2

LEMMA VestedAtGrows ==
  ASSUME NEW x, NEW t \in Nat, ScheduleFine(x)
  PROVE  VestedAt(x, t) <= VestedAt(x, t + 1)
<1>1. /\ VestedAt(x, t) \in Nat /\ VestedAt(x, t) <= x.total
      /\ t + 1 \in Nat /\ VestedAt(x, t + 1) \in Nat
  BY VestedAtBounds
<1>2. CASE x.revoked
  BY <1>1, <1>2 DEF VestedAt
<1>3. CASE ~x.revoked /\ t < x.start + x.cliff
  <2>1. VestedAt(x, t) = 0
    BY <1>3 DEF VestedAt
  <2> QED BY <1>1, <2>1
<1>4. CASE ~x.revoked /\ ~ (t < x.start + x.cliff) /\ t + 1 >= x.start + x.duration
  <2>1. ~ (t + 1 < x.start + x.cliff)
    BY <1>4 DEF ScheduleFine
  <2>2. VestedAt(x, t + 1) = x.total
    BY <1>4, <2>1 DEF VestedAt
  <2> QED BY <1>1, <2>2
<1>5. CASE ~x.revoked /\ ~ (t < x.start + x.cliff) /\ ~ (t + 1 >= x.start + x.duration)
  <2>1. ~ (t + 1 < x.start + x.cliff) /\ ~ (t >= x.start + x.duration) /\ x.total \in Nat
    BY <1>5 DEF ScheduleFine
  <2>2. /\ VestedAt(x, t) = ShareOf(x.total, t - (x.start + x.cliff), x.duration - x.cliff)
        /\ VestedAt(x, t + 1) = ShareOf(x.total, (t + 1) - (x.start + x.cliff), x.duration - x.cliff)
    BY <1>5, <2>1 DEF VestedAt
  <2>3. /\ t - (x.start + x.cliff) \in Nat /\ x.duration - x.cliff \in Nat \ {0}
        /\ (t + 1) - (x.start + x.cliff) \in Nat
    BY <1>1, <1>5, <2>1, VestedBetween
  <2>4. t - (x.start + x.cliff) <= (t + 1) - (x.start + x.cliff)
    BY DEF ScheduleFine
  <2> QED BY <2>1, <2>2, <2>3, <2>4, ShareOfGrows
<1> QED BY <1>2, <1>3, <1>4, <1>5

LEMMA VestingNumbers ==
  /\ VestHorizon \in Nat /\ MaxDeposited \in Nat /\ IsFiniteSet(Schedules)
  /\ \A n \in VestAmounts : n \in Nat \ {0}
  /\ \A n \in VestDelays \cup VestDurations : n \in Nat
BY VestingAssumption

LEMMA ScheduleRecord ==
  ASSUME NEW r \in ScheduleRecords \cup {NoSchedule}
  PROVE  /\ r.exists \in BOOLEAN
         /\ r.exists <=> r \in ScheduleRecords
         /\ r.exists => /\ r.total \in Nat /\ r.start \in Nat /\ r.cliff \in Nat /\ r.duration \in Nat
                        /\ r.released \in Nat /\ r.revoked \in BOOLEAN
                        /\ r.beneficiary \in Beneficiaries
<1>1. CASE r \in ScheduleRecords
  <2>1. /\ r.exists = TRUE /\ r.total \in VestAmounts /\ r.start \in Nat /\ r.cliff \in VestDurations
        /\ r.duration \in VestDurations /\ r.released \in Nat /\ r.revoked \in BOOLEAN
        /\ r.beneficiary \in Beneficiaries
    BY <1>1 DEF ScheduleRecords
  <2> QED BY <1>1, <2>1, VestingNumbers
<1>2. CASE r = NoSchedule
  <2>1. r.exists = FALSE
    BY <1>2 DEF NoSchedule
  <2>2. r \notin ScheduleRecords
    BY <2>1 DEF ScheduleRecords
  <2> QED BY <2>1, <2>2
<1> QED BY <1>1, <1>2

\* Of the schedules made, in the state that an invariant describes.
LEMMA ScheduledFine ==
  ASSUME VestingIInv
  PROVE  /\ vestTime \in Nat /\ IsFiniteSet(Scheduled) /\ Scheduled \subseteq Schedules
         /\ \A i \in Scheduled :
              /\ ScheduleFine(schedule[i]) /\ schedule[i].beneficiary \in Beneficiaries
              /\ Vested(i) = VestedAt(schedule[i], vestTime)
              /\ Vested(i) \in Nat /\ Vested(i) <= schedule[i].total
              /\ Releasable(i) \in Nat /\ schedule[i].released + Releasable(i) = Vested(i)
<1>1. vestTime \in Nat /\ Scheduled \subseteq Schedules /\ IsFiniteSet(Scheduled)
  <2>1. Scheduled \subseteq Schedules
    BY DEF Scheduled
  <2> QED BY <2>1, FS_Subset, VestingNumbers DEF VestingIInv, VestingTypeOK
<1>2. ASSUME NEW i \in Scheduled
      PROVE  /\ ScheduleFine(schedule[i]) /\ schedule[i].beneficiary \in Beneficiaries
             /\ Vested(i) = VestedAt(schedule[i], vestTime)
             /\ Vested(i) \in Nat /\ Vested(i) <= schedule[i].total
             /\ Releasable(i) \in Nat /\ schedule[i].released + Releasable(i) = Vested(i)
  <2>1. schedule[i] \in ScheduleRecords \cup {NoSchedule} /\ schedule[i].exists
    BY DEF VestingIInv, VestingTypeOK, Scheduled
  <2>2. PICK x : x = schedule[i]
    OBVIOUS
  <2>3. ScheduleFine(x) /\ x.beneficiary \in Beneficiaries
    BY <2>1, <2>2, ScheduleRecord DEF VestingIInv, SchedulesFine, ScheduleFine
  <2>4. Vested(i) = VestedAt(x, vestTime)
    BY <1>1, <2>2, <2>3, VestedCases DEF Vested
  <2>5. Vested(i) \in Nat /\ Vested(i) <= x.total
    BY <1>1, <2>3, <2>4, VestedAtBounds
  <2>6. x.released <= Vested(i) /\ x.released \in Nat
    BY <2>2, <2>3 DEF VestingIInv, SchedulesCovered, ScheduleFine
  <2>7. Releasable(i) \in Nat /\ x.released + Releasable(i) = Vested(i)
    BY <2>2, <2>5, <2>6 DEF Releasable
  <2> QED BY <2>2, <2>3, <2>4, <2>5, <2>7
<1> QED BY <1>1, <1>2

\* The summands of the invariant.
Remaining == [i \in Scheduled |-> schedule[i].total - schedule[i].released]
Unrevoked == {i \in Scheduled : ~schedule[i].revoked}
ReleasedBy == [i \in Scheduled |-> schedule[i].released]
MadeFor(b) == {i \in Scheduled : schedule[i].beneficiary = b}

LEMMA ReleasedOfIs ==
  ASSUME IsFiniteSet(Scheduled), NEW T \in SUBSET Scheduled
  PROVE  ReleasedOf(T) = SumFunctionOnSet(ReleasedBy, T)
<1>1. IsFiniteSet(T)
  BY FS_Subset
<1> DEFINE f == [i \in T |-> schedule[i].released]
<1>2. \A i \in T : f[i] = ReleasedBy[i]
  BY DEF ReleasedBy
<1>3. ReleasedOf(T) = SumFunctionOnSet(f, T)
  BY DEF ReleasedOf
<1> HIDE DEF f
<1> QED BY <1>1, <1>2, <1>3, SumSame

LEMMA VestingSums ==
  ASSUME VestingIInv
  PROVE  /\ TotalVestedTokens = SumFunctionOnSet(Remaining, Unrevoked)
         /\ TotalVestedTokens \in Nat /\ vestBalance >= TotalVestedTokens
         /\ \A i \in Scheduled : Remaining[i] \in Nat /\ ReleasedBy[i] \in Nat
         /\ \A b \in Beneficiaries : totalReleased[b] = SumFunctionOnSet(ReleasedBy, MadeFor(b))
         /\ vestBalance + SumFunctionOnSet(ReleasedBy, Scheduled) = deposited
         /\ IsFiniteSet(Unrevoked) /\ \A b : IsFiniteSet(MadeFor(b)) /\ MadeFor(b) \subseteq Scheduled
<1>1. \A i \in Scheduled : Remaining[i] \in Nat /\ ReleasedBy[i] \in Nat
  BY ScheduledFine DEF Remaining, ReleasedBy, ScheduleFine
<1>2. IsFiniteSet(Scheduled)
  BY ScheduledFine
<1>3. IsFiniteSet(Unrevoked) /\ \A b : IsFiniteSet(MadeFor(b)) /\ MadeFor(b) \subseteq Scheduled
  BY <1>2, FS_Subset DEF Unrevoked, MadeFor
<1>4. TotalVestedTokens = SumFunctionOnSet(Remaining, Unrevoked)
  BY DEF TotalVestedTokens, Remaining, Unrevoked
<1>5. TotalVestedTokens \in Nat
  BY <1>1, <1>3, <1>4, SumNat DEF Unrevoked
<1>6. \A b \in Beneficiaries : totalReleased[b] = SumFunctionOnSet(ReleasedBy, MadeFor(b))
  BY <1>2, <1>3, ReleasedOfIs DEF VestingIInv, SchedulesCovered, MadeFor
<1>7. vestBalance + SumFunctionOnSet(ReleasedBy, Scheduled) = deposited
  BY <1>2, ReleasedOfIs DEF VestingIInv, SchedulesCovered
<1>8. vestBalance >= TotalVestedTokens
  BY DEF VestingIInv, SchedulesCovered
<1> QED BY <1>1, <1>3, <1>4, <1>5, <1>6, <1>7, <1>8

LEMMA VestingStarts == VestingInit => VestingIInv
<1> SUFFICES ASSUME VestingInit PROVE VestingIInv
  OBVIOUS
<1>1. Scheduled = {}
  BY DEF VestingInit, Scheduled, NoSchedule
<1>2. VestingTypeOK
  <2>1. vestTime = 0 /\ vestBalance = 0 /\ deposited = 0
    BY DEF VestingInit
  <2>2. totalReleased \in [Beneficiaries -> Nat]
    BY DEF VestingInit
  <2>3. schedule \in [Schedules -> ScheduleRecords \cup {NoSchedule}]
    BY DEF VestingInit
  <2> QED BY <2>1, <2>2, <2>3, VestingNumbers DEF VestingTypeOK
<1>3. SchedulesFine
  BY <1>1 DEF SchedulesFine
<1>4. ReleasedOf({}) = 0
  BY SumEmpty DEF ReleasedOf
<1>5. TotalVestedTokens = 0
  <2>1. {i \in Scheduled : ~schedule[i].revoked} = {}
    BY <1>1
  <2> QED BY <2>1, SumEmpty DEF TotalVestedTokens
<1>6. \A b \in Beneficiaries : totalReleased[b] = 0
  BY DEF VestingInit
<1>7. \A b \in Beneficiaries : {i \in Scheduled : schedule[i].beneficiary = b} = {}
  BY <1>1
<1>8. vestBalance = 0 /\ deposited = 0
  BY DEF VestingInit
<1>9. SchedulesCovered
  BY <1>1, <1>4, <1>5, <1>6, <1>7, <1>8 DEF SchedulesCovered
<1> QED BY <1>2, <1>3, <1>9 DEF VestingIInv

\* Time passes, or tokens come in.
LEMMA NothingScheduledKeeps ==
  ASSUME VestingIInv, UNCHANGED <<schedule, totalReleased>>, VestingTypeOK',
         vestBalance' - vestBalance = deposited' - deposited, vestBalance' >= vestBalance,
         \A i \in Scheduled : Vested(i) <= Vested(i)' /\ Vested(i)' \in Nat
                              /\ Vested(i)' <= schedule[i].total
  PROVE  VestingIInv'
<1>1. Scheduled' = Scheduled /\ TotalVestedTokens' = TotalVestedTokens
  BY DEF Scheduled, TotalVestedTokens
<1>2. SchedulesFine'
  BY <1>1 DEF VestingIInv, SchedulesFine
<1>3. ASSUME NEW i \in Scheduled'
      PROVE  schedule'[i].released <= Vested(i)' /\ Vested(i)' <= schedule'[i].total
  <2>1. schedule[i].released <= Vested(i) /\ schedule[i].released \in Nat /\ Vested(i) \in Nat
    BY <1>1, ScheduledFine DEF VestingIInv, SchedulesCovered, ScheduleFine
  <2> QED BY <1>1, <2>1
<1>4. \A b \in Beneficiaries :
          totalReleased'[b] = ReleasedOf({i \in Scheduled : schedule[i].beneficiary = b})'
  <2>1. \A b \in Beneficiaries :
          ReleasedOf({i \in Scheduled : schedule[i].beneficiary = b})'
          = ReleasedOf({i \in Scheduled : schedule[i].beneficiary = b})
    BY DEF ReleasedOf, Scheduled
  <2> QED BY <2>1 DEF VestingIInv, SchedulesCovered
<1>5. /\ vestBalance \in Nat /\ deposited \in Nat /\ vestBalance' \in Nat /\ deposited' \in Nat
      /\ TotalVestedTokens \in Nat /\ vestBalance >= TotalVestedTokens
  BY VestingSums, VestingNumbers DEF VestingIInv, VestingTypeOK
<1>6. ReleasedOf(Scheduled) \in Int /\ vestBalance + ReleasedOf(Scheduled) = deposited
  <2>1. IsFiniteSet(Scheduled) /\ \A i \in Scheduled : ReleasedBy[i] \in Int
    BY ScheduledFine, VestingSums
  <2>2. SumFunctionOnSet(ReleasedBy, Scheduled) \in Int
    BY <2>1, SumType
  <2> QED BY <2>1, <2>2, ReleasedOfIs DEF VestingIInv, SchedulesCovered
<1>7. vestBalance' >= TotalVestedTokens' /\ vestBalance' + ReleasedOf(Scheduled)' = deposited'
  <2>1. ReleasedOf(Scheduled)' = ReleasedOf(Scheduled)
    BY DEF ReleasedOf, Scheduled
  <2> QED BY <1>1, <1>5, <1>6, <2>1
<1>8. SchedulesCovered'
  BY <1>3, <1>4, <1>7 DEF SchedulesCovered
<1> QED BY <1>2, <1>8 DEF VestingIInv

LEMMA VestTickKeeps == VestingIInv /\ VestTick => VestingIInv'
<1> SUFFICES ASSUME VestingIInv, VestTick PROVE VestingIInv'
  OBVIOUS
<1>1. /\ vestTime < VestHorizon /\ vestTime' = vestTime + 1
      /\ UNCHANGED <<schedule, totalReleased, vestBalance, deposited>>
  BY DEF VestTick
<1>2. VestingTypeOK'
  <2>1. vestTime' \in 0 .. VestHorizon
    BY <1>1, VestingNumbers DEF VestingIInv, VestingTypeOK
  <2> QED BY <1>1, <2>1 DEF VestingIInv, VestingTypeOK
<1>3. ASSUME NEW i \in Scheduled
      PROVE  Vested(i) <= Vested(i)' /\ Vested(i)' \in Nat /\ Vested(i)' <= schedule[i].total
  <2>1. PICK x : x = schedule[i]
    OBVIOUS
  <2>2. ScheduleFine(x) /\ Vested(i) = VestedAt(x, vestTime) /\ vestTime \in Nat
    BY <2>1, ScheduledFine
  <2>3. vestTime' \in Nat /\ schedule'[i] = x
    BY <1>1, <2>1, <2>2
  <2>4. Vested(i)' = VestedAt(x, vestTime')
    BY <2>2, <2>3, VestedCases DEF Vested
  <2>5. VestedAt(x, vestTime) <= VestedAt(x, vestTime + 1)
    BY <2>2, VestedAtGrows
  <2> QED BY <1>1, <2>1, <2>2, <2>3, <2>4, <2>5, VestedAtBounds
<1>4. vestBalance' - vestBalance = deposited' - deposited /\ vestBalance' >= vestBalance
  BY <1>1, VestingNumbers DEF VestingIInv, VestingTypeOK
<1> QED BY <1>1, <1>2, <1>3, <1>4, NothingScheduledKeeps

LEMMA DepositKeeps ==
  ASSUME VestingIInv, NEW n \in VestAmounts, Deposit(n)
  PROVE  VestingIInv'
<1>1. /\ deposited + n <= MaxDeposited /\ deposited' = deposited + n
      /\ vestBalance' = vestBalance + n
      /\ UNCHANGED <<vestTime, schedule, totalReleased>>
  BY DEF Deposit
<1>2. n \in Nat /\ vestBalance \in Nat /\ deposited \in Nat
  BY VestingNumbers DEF VestingIInv, VestingTypeOK
<1>3. vestBalance <= deposited
  <2>1. SumFunctionOnSet(ReleasedBy, Scheduled) \in Nat
    BY ScheduledFine, VestingSums, SumNat
  <2>2. vestBalance + SumFunctionOnSet(ReleasedBy, Scheduled) = deposited
    BY VestingSums
  <2> QED BY <1>2, <2>1, <2>2
<1>4. VestingTypeOK'
  <2>1. vestBalance' \in 0 .. MaxDeposited /\ deposited' \in 0 .. MaxDeposited
    BY <1>1, <1>2, <1>3, VestingNumbers
  <2> QED BY <1>1, <2>1 DEF VestingIInv, VestingTypeOK
<1>5. ASSUME NEW i \in Scheduled
      PROVE  Vested(i) <= Vested(i)' /\ Vested(i)' \in Nat /\ Vested(i)' <= schedule[i].total
  <2>1. Vested(i)' = Vested(i)
    BY <1>1 DEF Vested
  <2> QED BY <2>1, ScheduledFine
<1>6. vestBalance' - vestBalance = deposited' - deposited /\ vestBalance' >= vestBalance
  BY <1>1, <1>2
<1> QED BY <1>1, <1>4, <1>5, <1>6, NothingScheduledKeeps

\* The effect of a new schedule.
LEMMA ScheduleMade ==
  ASSUME VestingIInv, NEW i \in Schedules, NEW b \in Beneficiaries, NEW n \in VestAmounts,
         NEW delay \in VestDelays, NEW cliff \in VestDurations, NEW duration \in VestDurations,
         NEW revocable \in BOOLEAN,
         CreateVestingSchedule(i, b, n, delay, cliff, duration, revocable)
  PROVE  /\ schedule' \in [Schedules -> ScheduleRecords \cup {NoSchedule}]
         /\ i \notin Scheduled /\ Scheduled' = Scheduled \cup {i}
         /\ \A j \in Scheduled : schedule'[j] = schedule[j] /\ Vested(j)' = Vested(j)
         /\ schedule'[i].total = n /\ schedule'[i].released = 0 /\ ~schedule'[i].revoked
         /\ schedule'[i].beneficiary = b /\ schedule'[i].cliff <= schedule'[i].duration
         /\ Vested(i)' \in Nat /\ Vested(i)' <= n
<1> DEFINE new == [exists |-> TRUE, beneficiary |-> b, total |-> n, start |-> vestTime + delay,
                   cliff |-> cliff, duration |-> duration, released |-> 0,
                   revocable |-> revocable, revoked |-> FALSE]
<1>1. /\ ~schedule[i].exists /\ cliff <= duration /\ duration > 0
      /\ schedule' = [schedule EXCEPT ![i] = new] /\ vestTime' = vestTime
  BY DEF CreateVestingSchedule
<1>2. vestTime \in Nat /\ n \in Nat /\ delay \in Nat /\ cliff \in Nat /\ duration \in Nat
  BY ScheduledFine, VestingNumbers
<1>3. new \in ScheduleRecords
  <2>1. vestTime + delay \in Nat /\ duration \in VestDurations \ {0}
    BY <1>1, <1>2
  <2> QED BY <2>1 DEF ScheduleRecords
<1>4. /\ new.exists = TRUE /\ new.total = n /\ new.released = 0 /\ new.revoked = FALSE
      /\ new.beneficiary = b /\ new.cliff = cliff /\ new.duration = duration
      /\ new.start \in Nat
  BY <1>2
<1>5. schedule \in [Schedules -> ScheduleRecords \cup {NoSchedule}]
  BY DEF VestingIInv, VestingTypeOK
<1> HIDE DEF new
<1>6. schedule'[i] = new /\ \A j \in Schedules \ {i} : schedule'[j] = schedule[j]
  BY <1>1, <1>5
<1>7. schedule' \in [Schedules -> ScheduleRecords \cup {NoSchedule}]
  BY <1>1, <1>3, <1>5
<1>8. i \notin Scheduled /\ Scheduled' = Scheduled \cup {i}
  BY <1>1, <1>4, <1>6 DEF Scheduled
<1>9. \A j \in Scheduled : schedule'[j] = schedule[j]
  BY <1>6, <1>8, ScheduledFine
<1>10. \A j \in Scheduled : Vested(j)' = Vested(j)
  BY <1>1, <1>9 DEF Vested
<1>11. Vested(i)' \in Nat /\ Vested(i)' <= n
  <2>1. PICK x : x = new
    OBVIOUS
  <2>2. ScheduleFine(x) /\ x.total = n
    <3>1. /\ x.total = n /\ x.released = 0 /\ x.cliff = cliff /\ x.duration = duration
          /\ x.start \in Nat
      BY <1>4, <2>1, Zenon
    <3>2. x.revoked \in BOOLEAN
      BY <1>4, <2>1, Zenon
    <3>3. /\ x.total \in Nat /\ x.cliff \in Nat /\ x.duration \in Nat /\ x.released \in Nat
          /\ x.cliff <= x.duration /\ x.released <= x.total
      BY <1>1, <1>2, <3>1
    <3> QED BY <3>1, <3>2, <3>3 DEF ScheduleFine
  <2>3. schedule'[i] = x
    BY <1>6, <2>1
  <2>4. Vested(i)' = VestedAt(x, vestTime)
    BY <1>1, <1>2, <2>2, <2>3, VestedCases DEF Vested
  <2> QED BY <1>2, <2>2, <2>4, VestedAtBounds
<1> QED BY <1>1, <1>4, <1>6, <1>7, <1>8, <1>9, <1>10, <1>11

LEMMA CreateVestingScheduleKeeps ==
  ASSUME VestingIInv, NEW i \in Schedules, NEW b \in Beneficiaries, NEW n \in VestAmounts,
         NEW delay \in VestDelays, NEW cliff \in VestDurations, NEW duration \in VestDurations,
         NEW revocable \in BOOLEAN,
         CreateVestingSchedule(i, b, n, delay, cliff, duration, revocable)
  PROVE  VestingIInv'
<1>1. /\ schedule' \in [Schedules -> ScheduleRecords \cup {NoSchedule}]
      /\ i \notin Scheduled /\ Scheduled' = Scheduled \cup {i}
      /\ \A j \in Scheduled : schedule'[j] = schedule[j] /\ Vested(j)' = Vested(j)
      /\ schedule'[i].total = n /\ schedule'[i].released = 0 /\ ~schedule'[i].revoked
      /\ schedule'[i].beneficiary = b /\ schedule'[i].cliff <= schedule'[i].duration
      /\ Vested(i)' \in Nat /\ Vested(i)' <= n
  BY ScheduleMade
<1>2. /\ UNCHANGED <<vestTime, totalReleased, vestBalance, deposited>>
      /\ vestBalance >= TotalVestedTokens + n
  BY DEF CreateVestingSchedule, Covers
<1>3. n \in Nat
  BY VestingNumbers
<1>4. VestingTypeOK'
  BY <1>1, <1>2 DEF VestingIInv, VestingTypeOK
<1>5. SchedulesFine'
  BY <1>1, <1>3 DEF VestingIInv, SchedulesFine
<1>6. ASSUME NEW j \in Scheduled'
      PROVE  schedule'[j].released <= Vested(j)' /\ Vested(j)' <= schedule'[j].total
  <2>1. CASE j = i
    BY <1>1, <1>3, <2>1
  <2>2. CASE j \in Scheduled
    BY <1>1, <2>2 DEF VestingIInv, SchedulesCovered
  <2> QED BY <1>1, <2>1, <2>2
<1>7. /\ \A j \in Scheduled : Remaining'[j] = Remaining[j] /\ ReleasedBy'[j] = ReleasedBy[j]
      /\ Remaining'[i] = n /\ ReleasedBy'[i] = 0
  BY <1>1, <1>3 DEF Remaining, ReleasedBy
<1>8. \A j \in Scheduled' : Remaining'[j] \in Int /\ ReleasedBy'[j] \in Int
  BY <1>1, <1>3, <1>7, VestingSums
<1>9. vestBalance' >= TotalVestedTokens'
  <2>1. Unrevoked' = Unrevoked \cup {i} /\ i \notin Unrevoked
    BY <1>1 DEF Unrevoked
  <2>2. TotalVestedTokens' = SumFunctionOnSet(Remaining', Unrevoked \cup {i})
    BY <2>1 DEF TotalVestedTokens, Remaining, Unrevoked
  <2>3. SumFunctionOnSet(Remaining', Unrevoked \cup {i})
        = n + SumFunctionOnSet(Remaining', Unrevoked)
    <3>1. IsFiniteSet(Unrevoked) /\ \A j \in Unrevoked \cup {i} : Remaining'[j] \in Int
      BY <1>1, <1>8, VestingSums DEF Unrevoked
    <3> QED BY <1>7, <2>1, <3>1, SumAdd
  <2>4. SumFunctionOnSet(Remaining', Unrevoked) = TotalVestedTokens
    <3>1. \A j \in Unrevoked : Remaining'[j] = Remaining[j]
      BY <1>7 DEF Unrevoked
    <3> QED BY <3>1, VestingSums, SumSame
  <2> QED BY <1>2, <1>3, <2>2, <2>3, <2>4, VestingSums
<1>10. ASSUME NEW T \in SUBSET Scheduled, NEW U, U = T \/ U = T \cup {i}
       PROVE  ReleasedOf(U)' = SumFunctionOnSet(ReleasedBy, T)
  <2>1. IsFiniteSet(T) /\ IsFiniteSet(U) /\ i \notin T /\ U \subseteq Scheduled'
    <3>1. IsFiniteSet(T) /\ i \notin T
      BY <1>1, ScheduledFine, FS_Subset
    <3>2. IsFiniteSet(T \cup {i})
      BY <3>1, FS_AddElement
    <3> QED BY <1>1, <1>10, <3>1, <3>2
  <2>2. ReleasedOf(U)' = SumFunctionOnSet(ReleasedBy', U)
    <3> DEFINE f == [j \in U |-> schedule'[j].released]
    <3>1. \A j \in U : f[j] = ReleasedBy'[j]
      BY <2>1 DEF ReleasedBy
    <3>2. ReleasedOf(U)' = SumFunctionOnSet(f, U)
      BY DEF ReleasedOf
    <3> HIDE DEF f
    <3> QED BY <2>1, <3>1, <3>2, SumSame
  <2>3. SumFunctionOnSet(ReleasedBy', T) = SumFunctionOnSet(ReleasedBy, T)
    <3>1. \A j \in T : ReleasedBy'[j] = ReleasedBy[j]
      BY <1>7
    <3> QED BY <2>1, <3>1, SumSame
  <2>4. CASE U = T
    BY <2>2, <2>3, <2>4
  <2>5. CASE U = T \cup {i}
    <3>1. \A j \in T \cup {i} : ReleasedBy'[j] \in Int
      BY <1>1, <1>8
    <3>2. SumFunctionOnSet(ReleasedBy', T \cup {i}) = 0 + SumFunctionOnSet(ReleasedBy', T)
      BY <1>7, <2>1, <3>1, SumAdd
    <3>3. SumFunctionOnSet(ReleasedBy, T) \in Int
      BY <1>7, <2>1, VestingSums, SumType
    <3> QED BY <2>2, <2>3, <2>5, <3>2, <3>3
  <2> QED BY <1>10, <2>4, <2>5
<1>11. ASSUME NEW c \in Beneficiaries
       PROVE  totalReleased'[c] = ReleasedOf(MadeFor(c))'
  <2>1. /\ MadeFor(c) \in SUBSET Scheduled
        /\ MadeFor(c)' = MadeFor(c) \/ MadeFor(c)' = MadeFor(c) \cup {i}
    BY <1>1 DEF MadeFor
  <2>2. PICK U : U = MadeFor(c)'
    OBVIOUS
  <2>3. ReleasedOf(U)' = SumFunctionOnSet(ReleasedBy, MadeFor(c))
    BY <1>10, <2>1, <2>2
  <2>4. ReleasedOf(MadeFor(c))' = ReleasedOf(U)'
    BY <2>2 DEF ReleasedOf
  <2> QED BY <1>2, <2>3, <2>4, VestingSums
<1>12. vestBalance' + ReleasedOf(Scheduled)' = deposited'
  <2>1. PICK U : U = Scheduled'
    OBVIOUS
  <2>2. ReleasedOf(U)' = SumFunctionOnSet(ReleasedBy, Scheduled)
    BY <1>1, <1>10, <2>1
  <2>3. ReleasedOf(Scheduled)' = ReleasedOf(U)'
    BY <2>1 DEF ReleasedOf
  <2> QED BY <1>2, <2>2, <2>3, VestingSums
<1>13. SchedulesCovered'
  BY <1>6, <1>9, <1>11, <1>12 DEF SchedulesCovered, MadeFor
<1> QED BY <1>4, <1>5, <1>13 DEF VestingIInv

\* What a transaction sends for each schedule.
Sent(ids) == [i \in Scheduled |-> IF i \in ids THEN Releasable(i) ELSE 0]

\* The effect of paying out, on each schedule.
LEMMA PaidOut ==
  ASSUME VestingIInv, NEW b \in Beneficiaries, NEW ids \in SUBSET Scheduled,
         NEW revoked \in BOOLEAN, PayOut(b, ids, revoked),
         \A i \in ids : ~schedule[i].revoked
  PROVE  /\ schedule' \in [Schedules -> ScheduleRecords \cup {NoSchedule}]
         /\ Scheduled' = Scheduled
         /\ \A i \in Scheduled :
              /\ schedule'[i].total = schedule[i].total /\ schedule'[i].cliff = schedule[i].cliff
              /\ schedule'[i].duration = schedule[i].duration
              /\ schedule'[i].beneficiary = schedule[i].beneficiary
              /\ schedule'[i].released = schedule[i].released + Sent(ids)[i]
              /\ schedule'[i].revoked = (IF i \in ids THEN revoked ELSE schedule[i].revoked)
              /\ schedule'[i].released <= Vested(i)' /\ Vested(i)' <= schedule'[i].total
<1>1. /\ vestTime' = vestTime
      /\ schedule' = [i \in Schedules |->
                        IF i \in ids THEN [schedule[i] EXCEPT !.released = Vested(i), !.revoked = revoked]
                        ELSE schedule[i]]
  BY DEF PayOut
<1>2. schedule \in [Schedules -> ScheduleRecords \cup {NoSchedule}]
  BY DEF VestingIInv, VestingTypeOK
<1>3. vestTime \in Nat /\ Scheduled \subseteq Schedules
  BY ScheduledFine
<1>4. ASSUME NEW i \in Schedules, i \notin ids
      PROVE  schedule'[i] = schedule[i] /\ Vested(i)' = Vested(i)
  <2>1. schedule'[i] = schedule[i]
    BY <1>1, <1>4
  <2> QED BY <1>1, <2>1 DEF Vested
<1>5. ASSUME NEW i \in ids
      PROVE  /\ schedule'[i] \in ScheduleRecords /\ schedule'[i].exists
             /\ schedule'[i].total = schedule[i].total /\ schedule'[i].cliff = schedule[i].cliff
             /\ schedule'[i].duration = schedule[i].duration
             /\ schedule'[i].beneficiary = schedule[i].beneficiary
             /\ schedule'[i].released = Vested(i) /\ schedule'[i].revoked = revoked
             /\ schedule'[i].released <= Vested(i)' /\ Vested(i)' <= schedule'[i].total
  <2>1. PICK x : x = schedule[i]
    OBVIOUS
  <2>2. PICK v : v = Vested(i)
    OBVIOUS
  <2>3. /\ x \in ScheduleRecords /\ ScheduleFine(x) /\ ~x.revoked
        /\ v \in Nat /\ v <= x.total /\ v = VestedAt(x, vestTime)
    <3>1. x \in ScheduleRecords /\ ~x.revoked
      BY <1>2, <1>3, <2>1, ScheduleRecord DEF Scheduled
    <3> QED BY <2>1, <2>2, <3>1, ScheduledFine
  <2>4. PICK y : y = [x EXCEPT !.released = v, !.revoked = revoked]
    OBVIOUS
  <2>5. schedule'[i] = y
    BY <1>1, <1>3, <2>1, <2>2, <2>4
  <2>6. y \in ScheduleRecords
    BY <2>3, <2>4 DEF ScheduleRecords
  <2>7. /\ y.exists = x.exists /\ y.beneficiary = x.beneficiary /\ y.total = x.total
        /\ y.start = x.start /\ y.cliff = x.cliff /\ y.duration = x.duration
    BY <2>3, <2>4 DEF ScheduleRecords
  <2>8. y.released = v /\ y.revoked = revoked
    BY <2>3, <2>4 DEF ScheduleRecords
  <2>9. ScheduleFine(y)
    BY <2>3, <2>7, <2>8 DEF ScheduleFine
  <2>10. Vested(i)' = VestedAt(y, vestTime)
    BY <1>1, <1>3, <2>5, <2>9, VestedCases DEF Vested
  <2>11. VestedAt(y, vestTime) = v
    <3>1. CASE revoked
      BY <2>8, <3>1 DEF VestedAt
    <3>2. CASE ~revoked
      BY <2>3, <2>7, <2>8, <3>2 DEF VestedAt
    <3> QED BY <3>1, <3>2
  <2>12. y.exists
    BY <2>6, ScheduleRecord
  <2>13. y.released <= v /\ v <= y.total
    BY <2>3, <2>7, <2>8 DEF ScheduleFine
  <2> QED BY <2>1, <2>2, <2>5, <2>6, <2>7, <2>8, <2>10, <2>11, <2>12, <2>13
<1>6. schedule' \in [Schedules -> ScheduleRecords \cup {NoSchedule}]
  BY <1>1, <1>2, <1>4, <1>5
<1>7. Scheduled' = Scheduled
  BY <1>3, <1>4, <1>5 DEF Scheduled
<1>8. ASSUME NEW i \in Scheduled
      PROVE  schedule'[i].released = schedule[i].released + Sent(ids)[i]
  <2>1. schedule[i].released \in Nat /\ schedule[i].released + Releasable(i) = Vested(i)
    BY ScheduledFine DEF ScheduleFine
  <2>2. CASE i \in ids
    BY <1>5, <2>1, <2>2 DEF Sent
  <2>3. CASE i \notin ids
    BY <1>3, <1>4, <2>1, <2>3 DEF Sent
  <2> QED BY <2>2, <2>3
<1>9. ASSUME NEW i \in Scheduled
      PROVE  schedule'[i].released <= Vested(i)' /\ Vested(i)' <= schedule'[i].total
  <2>1. schedule[i].released <= Vested(i) /\ Vested(i) <= schedule[i].total
    BY DEF VestingIInv, SchedulesCovered
  <2> QED BY <1>3, <1>4, <1>5, <2>1
<1>10. ASSUME NEW i \in Scheduled
       PROVE  /\ schedule'[i].total = schedule[i].total /\ schedule'[i].cliff = schedule[i].cliff
              /\ schedule'[i].duration = schedule[i].duration
              /\ schedule'[i].beneficiary = schedule[i].beneficiary
              /\ schedule'[i].revoked = (IF i \in ids THEN revoked ELSE schedule[i].revoked)
  BY <1>3, <1>4, <1>5
<1> QED BY <1>6, <1>7, <1>8, <1>9, <1>10

LEMMA PayOutKeeps ==
  ASSUME VestingIInv, NEW b \in Beneficiaries, NEW ids \in SUBSET Scheduled,
         NEW revoked \in BOOLEAN, PayOut(b, ids, revoked),
         \A i \in ids : ~schedule[i].revoked /\ schedule[i].beneficiary = b
  PROVE  VestingIInv'
<1> DEFINE sum == SumFunctionOnSet([i \in ids |-> Releasable(i)], ids)
           sent == Sent(ids)
<1>1. /\ vestBalance >= sum /\ vestBalance' = vestBalance - sum
      /\ totalReleased' = [totalReleased EXCEPT ![b] = @ + sum]
      /\ UNCHANGED <<vestTime, deposited>>
  BY DEF PayOut
<1>2. /\ schedule' \in [Schedules -> ScheduleRecords \cup {NoSchedule}]
      /\ Scheduled' = Scheduled
      /\ \A i \in Scheduled :
           /\ schedule'[i].total = schedule[i].total /\ schedule'[i].cliff = schedule[i].cliff
           /\ schedule'[i].duration = schedule[i].duration
           /\ schedule'[i].beneficiary = schedule[i].beneficiary
           /\ schedule'[i].released = schedule[i].released + sent[i]
           /\ schedule'[i].revoked = (IF i \in ids THEN revoked ELSE schedule[i].revoked)
           /\ schedule'[i].released <= Vested(i)' /\ Vested(i)' <= schedule'[i].total
  BY PaidOut
<1>3. /\ IsFiniteSet(Scheduled) /\ IsFiniteSet(ids) /\ IsFiniteSet(Unrevoked)
      /\ \A c : IsFiniteSet(MadeFor(c))
  BY ScheduledFine, VestingSums, FS_Subset
<1>4. /\ \A i \in Scheduled : sent[i] \in Nat
      /\ \A i \in ids : sent[i] = Releasable(i)
      /\ \A i \in Scheduled \ ids : sent[i] = 0
  BY ScheduledFine DEF Sent
<1> HIDE DEF sent
<1>5. sum = SumFunctionOnSet(sent, ids)
  <2> DEFINE f == [i \in ids |-> Releasable(i)]
  <2>1. \A i \in ids : f[i] = sent[i]
    BY <1>4
  <2> HIDE DEF f
  <2> QED BY <1>3, <2>1, SumSame DEF f
<1> HIDE DEF sum
<1>6. sum \in Nat
  BY <1>3, <1>4, <1>5, SumNat
<1>7. ASSUME NEW T \in SUBSET Scheduled, ids \subseteq T
      PROVE  SumFunctionOnSet(sent, T) = sum
  <2>1. IsFiniteSet(T) /\ (\A i \in T : sent[i] \in Int) /\ \A i \in T \ ids : sent[i] = 0
    BY <1>3, <1>4, FS_Subset
  <2> QED BY <1>5, <1>7, <2>1, SumRestrict
<1>8. ASSUME NEW T \in SUBSET Scheduled, T \cap ids = {}
      PROVE  SumFunctionOnSet(sent, T) = 0
  <2>1. IsFiniteSet(T) /\ (\A i \in T : sent[i] \in Int) /\ \A i \in T \ {} : sent[i] = 0
    BY <1>3, <1>4, <1>8, FS_Subset
  <2>2. SumFunctionOnSet(sent, T) = SumFunctionOnSet(sent, {})
    BY <2>1, SumRestrict
  <2> QED BY <2>2, SumEmpty
<1>9. ASSUME NEW T \in SUBSET Scheduled
      PROVE  /\ ReleasedOf(T)' = SumFunctionOnSet(ReleasedBy, T) + SumFunctionOnSet(sent, T)
             /\ SumFunctionOnSet(ReleasedBy, T) \in Nat
  <2>1. IsFiniteSet(T)
    BY <1>3, FS_Subset
  <2>2. \A i \in T : /\ ReleasedBy[i] \in Int /\ sent[i] \in Int /\ ReleasedBy[i] \in Nat
                     /\ ReleasedBy'[i] = ReleasedBy[i] + sent[i]
    BY <1>2, <1>4, VestingSums DEF ReleasedBy
  <2>3. SumFunctionOnSet(ReleasedBy', T)
        = SumFunctionOnSet(ReleasedBy, T) + SumFunctionOnSet(sent, T)
    BY <2>1, <2>2, SumPlus
  <2>4. ReleasedOf(T)' = SumFunctionOnSet(ReleasedBy', T)
    <3> DEFINE f == [j \in T |-> schedule'[j].released]
    <3>1. \A j \in T : f[j] = ReleasedBy'[j]
      BY <1>2 DEF ReleasedBy
    <3>2. ReleasedOf(T)' = SumFunctionOnSet(f, T)
      BY DEF ReleasedOf
    <3> HIDE DEF f
    <3> QED BY <2>1, <3>1, <3>2, SumSame
  <2> QED BY <2>1, <2>2, <2>3, <2>4, SumNat
<1>10. vestBalance \in Nat /\ deposited \in Nat /\ totalReleased \in [Beneficiaries -> Nat]
       /\ vestBalance \in 0 .. MaxDeposited
  BY VestingNumbers DEF VestingIInv, VestingTypeOK
<1>11. VestingTypeOK'
  <2>1. vestBalance' \in 0 .. MaxDeposited
    BY <1>1, <1>6, <1>10, VestingNumbers
  <2>2. totalReleased' \in [Beneficiaries -> Nat]
    BY <1>1, <1>6, <1>10
  <2> QED BY <1>1, <1>2, <2>1, <2>2 DEF VestingIInv, VestingTypeOK
<1>12. \A i \in Scheduled : ScheduleFine(schedule[i]) /\ Vested(i) <= schedule[i].total
       /\ sent[i] \in Nat /\ schedule[i].released + sent[i] <= schedule[i].total
  <2>1. ASSUME NEW i \in Scheduled PROVE schedule[i].released + sent[i] <= schedule[i].total
    BY <1>4, ScheduledFine DEF ScheduleFine
  <2> QED BY <1>4, <2>1, ScheduledFine
<1>13. SchedulesFine'
  <2>1. ASSUME NEW i \in Scheduled
        PROVE  schedule'[i].cliff <= schedule'[i].duration /\ schedule'[i].released <= schedule'[i].total
    BY <1>2, <1>12 DEF ScheduleFine
  <2> QED BY <1>2, <2>1 DEF SchedulesFine
<1>14. vestBalance' >= TotalVestedTokens'
  <2> DEFINE g == [i \in Scheduled |-> schedule[i].total - (schedule[i].released + sent[i])]
  <2>1. \A i \in Unrevoked : /\ Remaining[i] \in Int /\ g[i] \in Int /\ g[i] \in Nat /\ sent[i] \in Int
                             /\ Remaining[i] = g[i] + sent[i]
    BY <1>12 DEF Remaining, Unrevoked, ScheduleFine
  <2>2. /\ Unrevoked' \subseteq Unrevoked
        /\ \A i \in Unrevoked' : Remaining'[i] = g[i]
    BY <1>2 DEF Unrevoked, Remaining
  <2> HIDE DEF g
  <2>3. SumFunctionOnSet(Remaining, Unrevoked)
        = SumFunctionOnSet(g, Unrevoked) + SumFunctionOnSet(sent, Unrevoked)
    BY <1>3, <2>1, SumPlus
  <2>4. SumFunctionOnSet(sent, Unrevoked) = sum
    BY <1>7 DEF Unrevoked
  <2>5. PICK U : U = Unrevoked'
    OBVIOUS
  <2>6. SumFunctionOnSet(g, U) <= SumFunctionOnSet(g, Unrevoked)
        /\ SumFunctionOnSet(g, Unrevoked) \in Nat /\ SumFunctionOnSet(g, U) \in Nat
    <3>1. IsFiniteSet(U) /\ U \in SUBSET Unrevoked
      BY <1>3, <2>2, <2>5, FS_Subset
    <3>2. \A i \in U : g[i] \in Nat
      BY <2>1, <3>1
    <3> QED BY <1>3, <2>1, <3>1, <3>2, SumSubset, SumNat
  <2>7. TotalVestedTokens' = SumFunctionOnSet(g, U)
    <3>1. TotalVestedTokens' = SumFunctionOnSet(Remaining', U)
      BY <2>5 DEF TotalVestedTokens, Remaining, Unrevoked
    <3>2. IsFiniteSet(U) /\ \A i \in U : Remaining'[i] = g[i]
      BY <1>3, <2>2, <2>5, FS_Subset
    <3> QED BY <3>1, <3>2, SumSame
  <2>8. TotalVestedTokens = SumFunctionOnSet(g, Unrevoked) + sum /\ vestBalance >= TotalVestedTokens
    BY <2>3, <2>4, VestingSums
  <2> QED BY <1>1, <1>6, <1>10, <2>6, <2>7, <2>8
<1>15. ASSUME NEW c \in Beneficiaries
       PROVE  totalReleased'[c] = ReleasedOf(MadeFor(c))'
  <2>1. MadeFor(c) \in SUBSET Scheduled /\ MadeFor(c)' = MadeFor(c)
    BY <1>2 DEF MadeFor
  <2>2. ReleasedOf(MadeFor(c))' = SumFunctionOnSet(ReleasedBy, MadeFor(c)) + SumFunctionOnSet(sent, MadeFor(c))
    <3>1. PICK U : U = MadeFor(c)
      OBVIOUS
    <3>2. ReleasedOf(MadeFor(c))' = ReleasedOf(U)'
      BY <2>1, <3>1 DEF ReleasedOf
    <3> QED BY <1>9, <2>1, <3>1, <3>2
  <2>3. totalReleased[c] = SumFunctionOnSet(ReleasedBy, MadeFor(c)) /\ totalReleased[c] \in Nat
    BY <1>10, VestingSums
  <2>4. CASE c = b
    <3>1. ids \subseteq MadeFor(c)
      BY <2>4 DEF MadeFor
    <3>2. SumFunctionOnSet(sent, MadeFor(c)) = sum
      BY <1>7, <2>1, <3>1
    <3>3. totalReleased'[c] = totalReleased[c] + sum
      BY <1>1, <1>10, <2>4
    <3> QED BY <2>2, <2>3, <3>2, <3>3
  <2>5. CASE c # b
    <3>1. MadeFor(c) \cap ids = {}
      BY <2>5 DEF MadeFor
    <3>2. SumFunctionOnSet(sent, MadeFor(c)) = 0
      BY <1>8, <2>1, <3>1
    <3>3. totalReleased'[c] = totalReleased[c]
      BY <1>1, <1>10, <2>5
    <3> QED BY <2>2, <2>3, <3>2, <3>3
  <2> QED BY <2>4, <2>5
<1>16. vestBalance' + ReleasedOf(Scheduled)' = deposited'
  <2>1. PICK U : U = Scheduled
    OBVIOUS
  <2>2. ReleasedOf(Scheduled)' = ReleasedOf(U)'
    BY <1>2, <2>1 DEF ReleasedOf
  <2>3. ReleasedOf(U)' = SumFunctionOnSet(ReleasedBy, Scheduled) + sum
        /\ SumFunctionOnSet(ReleasedBy, Scheduled) \in Nat
    BY <1>7, <1>9, <2>1
  <2>4. vestBalance + SumFunctionOnSet(ReleasedBy, Scheduled) = deposited
    BY VestingSums
  <2> QED BY <1>1, <1>6, <1>10, <2>2, <2>3, <2>4
<1>17. SchedulesCovered'
  BY <1>2, <1>14, <1>15, <1>16 DEF SchedulesCovered, MadeFor
<1> QED BY <1>11, <1>13, <1>17 DEF VestingIInv

LEMMA VestingStep == VestingIInv /\ [VestingNext]_vestingVars => VestingIInv'
<1> SUFFICES ASSUME VestingIInv, [VestingNext]_vestingVars PROVE VestingIInv'
  OBVIOUS
<1>1. CASE VestTick
  BY <1>1, VestTickKeeps
<1>2. ASSUME NEW n \in VestAmounts, Deposit(n) PROVE VestingIInv'
  BY <1>2, DepositKeeps
<1>3. ASSUME NEW i \in Schedules, NEW b \in Beneficiaries, NEW n \in VestAmounts,
             NEW delay \in VestDelays, NEW cliff \in VestDurations, NEW duration \in VestDurations,
             NEW revocable \in BOOLEAN,
             CreateVestingSchedule(i, b, n, delay, cliff, duration, revocable)
      PROVE  VestingIInv'
  BY <1>3, CreateVestingScheduleKeeps
<1>4. ASSUME NEW i \in Schedules, Release(i) \/ Revoke(i) PROVE VestingIInv'
  <2>1. i \in Scheduled /\ ~schedule[i].revoked
    BY <1>4 DEF Release, Revoke
  <2>2. PICK b : b = schedule[i].beneficiary
    OBVIOUS
  <2>3. b \in Beneficiaries
    BY <2>1, <2>2, ScheduledFine
  <2>4. PayOut(b, {i}, FALSE) \/ PayOut(b, {i}, TRUE)
    BY <1>4, <2>2 DEF Release, Revoke
  <2>5. /\ {i} \in SUBSET Scheduled
        /\ \A j \in {i} : ~schedule[j].revoked /\ schedule[j].beneficiary = b
    BY <2>1, <2>2
  <2> QED BY <2>3, <2>4, <2>5, PayOutKeeps
<1>5. ASSUME NEW b \in Beneficiaries, ReleaseAll(b) PROVE VestingIInv'
  <2> DEFINE ids == {i \in Scheduled : schedule[i].beneficiary = b /\ ~schedule[i].revoked}
  <2>1. PayOut(b, ids, FALSE)
    BY <1>5 DEF ReleaseAll
  <2>2. /\ ids \in SUBSET Scheduled
        /\ \A j \in ids : ~schedule[j].revoked /\ schedule[j].beneficiary = b
    OBVIOUS
  <2> HIDE DEF ids
  <2> QED BY <2>1, <2>2, PayOutKeeps
<1>6. CASE UNCHANGED vestingVars
  <2>1. UNCHANGED <<vestTime, schedule, totalReleased, vestBalance, deposited>>
    BY <1>6 DEF vestingVars
  <2>2. VestingTypeOK'
    BY <2>1 DEF VestingIInv, VestingTypeOK
  <2>3. \A i \in Scheduled : Vested(i)' = Vested(i)
    BY <2>1 DEF Vested
  <2>4. vestBalance' - vestBalance = deposited' - deposited /\ vestBalance' >= vestBalance
    BY <2>1, VestingNumbers DEF VestingIInv, VestingTypeOK
  <2>5. \A i \in Scheduled : Vested(i) <= Vested(i)' /\ Vested(i)' \in Nat
                             /\ Vested(i)' <= schedule[i].total
    BY <2>3, ScheduledFine
  <2> QED BY <2>1, <2>2, <2>4, <2>5, NothingScheduledKeeps
<1> QED BY <1>1, <1>2, <1>3, <1>4, <1>5, <1>6 DEF VestingNext

\* In every reachable state the wallet's schedules, totals and balances have
\* the types of VestingWallet.sol:22-60.
THEOREM VestingTyping == VestingSpec => []VestingTypeOK
<1>1. VestingIInv => VestingTypeOK
  BY DEF VestingIInv
<1> QED BY <1>1, VestingStarts, VestingStep, PTL DEF VestingSpec

\* Whatever schedules are made, released and revoked, and however time passes
\* between, the wallet holds all that its unrevoked schedules have still to
\* release, none has released more than has vested, and the totals add up
\* (VestingWallet.sol:116-119, 201-260, 356-364).
THEOREM SchedulesAreCovered == VestingSpec => []SchedulesCovered
<1>1. VestingIInv => SchedulesCovered
  BY DEF VestingIInv
<1> QED BY <1>1, VestingStarts, VestingStep, PTL DEF VestingSpec
=============================================================================
