---------------------------- MODULE LedgerProofs ----------------------------
(***************************************************************************)
(* Proofs about HapiLedger and EvmLedger, for any users, keys, fees,       *)
(* transfer lists, transactions, cheats and number of records.             *)
(*                                                                         *)
(* The HAPI side comes first: sums over transfer lists and records, what   *)
(* each body does to the accounts, the invariant IInv and its theorems.    *)
(* The EVM side builds on the same lemmas: what an execution does to both  *)
(* stores; EInv, types and ids, kept by every step; and Named (each        *)
(* account has the one address its row says) and Supplied (what the two    *)
(* stores hold), kept as long as no address is taken for two things.       *)
(***************************************************************************)
EXTENDS EvmLedger, SequenceTheorems, FiniteSetTheorems, WellFoundedInduction, NaturalsInduction, TLAPS

-----------------------------------------------------------------------------
(* Numbers, finite sets and sums.  Induction is over a set: the theorems   *)
(* of NaturalsInduction take the formula as an operator.                   *)

(* A set of numbers that is not empty has a smallest one. *)
LEMMA Smallest ==
    ASSUME NEW T, T \subseteq Nat, T # {}
    PROVE  \E x \in T : \A y \in T : x <= y
<1> DEFINE R == OpToRel(<, Nat)
<1>1. IsWellFoundedOn(R, Nat)
  BY NatLessThanWellFounded
<1> HIDE DEF R
<1>2. PICK x \in T : \A y \in T : ~(<<y, x>> \in R)
  BY <1>1, WFMin
<1>3. \A y, z \in Nat : y < z => <<y, z>> \in R
  BY DEF R, OpToRel
<1>4. ASSUME NEW y \in T PROVE x <= y
  <2>1. x \in Nat /\ y \in Nat
    OBVIOUS
  <2>2. ~(y < x)
    BY <1>2, <1>3, <2>1
  <2> QED
    BY <2>1, <2>2
<1> QED
  BY <1>4

(* Induction: a set that holds 0, and with n also n + 1, holds every number. *)
LEMMA Induction ==
    ASSUME NEW S, 0 \in S, \A n \in Nat : n \in S => n + 1 \in S
    PROVE  Nat \subseteq S
<1> SUFFICES ASSUME Nat \ S # {} PROVE FALSE
  OBVIOUS
<1>1. PICK x \in Nat \ S : \A y \in Nat \ S : x <= y
  BY Smallest
<1>2. x # 0 /\ x - 1 \in Nat
  BY <1>1
<1>3. x - 1 \in S
  BY <1>1, <1>2
<1>4. x - 1 + 1 = x
  BY <1>2
<1> QED
  BY <1>1, <1>2, <1>3, <1>4

-----------------------------------------------------------------------------
(* Taking one element from a finite set takes one from its size. *)
LEMMA OneLess ==
    ASSUME NEW s, IsFiniteSet(s), NEW x \in s
    PROVE  Cardinality(s \ {x}) = Cardinality(s) - 1 /\ Cardinality(s \ {x}) < Cardinality(s)
<1>1. Cardinality(s \ {x}) = Cardinality(s) - 1
  BY FS_RemoveElement, Zenon
<1>2. Cardinality(s) \in Nat
  BY FS_CardinalityType
<1> QED
  BY <1>1, <1>2

(* Induction over the subsets of a finite set, one element at a time. *)
LEMMA SubsetInduction ==
    ASSUME NEW S, IsFiniteSet(S), NEW P, {} \in P,
           \A T \in SUBSET S : \A x \in S \ T : T \in P => T \cup {x} \in P
    PROVE  SUBSET S \subseteq P
<1> DEFINE N == {n \in Nat : \A T \in SUBSET S : Cardinality(T) = n => T \in P}
<1>1. 0 \in N
  <2> SUFFICES ASSUME NEW T \in SUBSET S, Cardinality(T) = 0 PROVE T \in P
    OBVIOUS
  <2>1. IsFiniteSet(T)
    BY FS_Subset
  <2> QED
    BY <2>1, FS_EmptySet
<1>2. ASSUME NEW n \in Nat, n \in N PROVE n + 1 \in N
  <2> SUFFICES ASSUME NEW T \in SUBSET S, Cardinality(T) = n + 1 PROVE T \in P
    OBVIOUS
  <2>1. IsFiniteSet(T) /\ T # {}
    BY FS_Subset, FS_EmptySet
  <2>2. PICK x \in T : TRUE
    BY <2>1
  <2>3. Cardinality(T \ {x}) = n
    <3>1. Cardinality(T \ {x}) = Cardinality(T) - 1
      BY <2>1, <2>2, OneLess
    <3> QED
      BY <3>1
  <2>4. T \ {x} \in P /\ T \ {x} \in SUBSET S /\ x \in S \ (T \ {x})
    BY <1>2, <2>2, <2>3
  <2>5. (T \ {x}) \cup {x} = T
    BY <2>2
  <2> QED
    BY <2>4, <2>5
<1>3. Nat \subseteq N
  <2> HIDE DEF N
  <2> QED
    BY <1>1, <1>2, Induction
<1> QED
  <2> SUFFICES ASSUME NEW T \in SUBSET S PROVE T \in P
    OBVIOUS
  <2>1. Cardinality(T) \in N
    BY <1>3, FS_Subset, FS_CardinalityType
  <2> QED
    BY <2>1

(* The recursion that SumFunctionOnSet is: g[s] is the sum over s. *)
Pick(s) == CHOOSE x \in s : TRUE
Add(g, f, s) == IF s = {} THEN 0 ELSE f[Pick(s)] + g[s \ {Pick(s)}]
Sums(g, f, S) == g = [s \in SUBSET S |-> Add(g, f, s)]

Integral(f, S) == \A x \in S : f[x] \in Int

(* The element a sum takes first is one of the set. *)
LEMMA PickIn == ASSUME NEW s, s # {} PROVE Pick(s) \in s
BY DEF Pick

(* A sum over S is the value at S of a function that obeys the sum's       *)
(* equation, if there is one.                                              *)
LEMMA SumsIs ==
    ASSUME NEW f, NEW S
    PROVE  \E g : SumFunctionOnSet(f, S) = g[S] /\ ((\E h : Sums(h, f, S)) => Sums(g, f, S))
<1> DEFINE g == CHOOSE g : Sums(g, f, S)
<1>1. SumFunctionOnSet(f, S) = g[S]
  BY DEF SumFunctionOnSet, FoldFunctionOnSet, MapThenFoldSet, Sums, Add, Pick
<1> QED
  BY <1>1

(* There is a function that obeys the equation: built for the subsets of   *)
(* one size after the other.                                               *)
LEMMA SumsExist ==
    ASSUME NEW f, NEW S, IsFiniteSet(S), Integral(f, S)
    PROVE  \E g : Sums(g, f, S)
<1> DEFINE Good(g, n) == /\ g \in [SUBSET S -> Int]
                         /\ \A s \in SUBSET S : Cardinality(s) <= n => g[s] = Add(g, f, s)
           N == {n \in Nat : \E g : Good(g, n)}
<1>c. \A s \in SUBSET S : Cardinality(s) \in Nat /\ IsFiniteSet(s)
  BY FS_Subset, FS_CardinalityType
<1>0. ASSUME NEW s \in SUBSET S, s # {}
      PROVE  /\ Pick(s) \in s /\ s \ {Pick(s)} \in SUBSET S /\ f[Pick(s)] \in Int
             /\ Cardinality(s \ {Pick(s)}) = Cardinality(s) - 1
  <2>1. Pick(s) \in s
    BY <1>0, PickIn
  <2> QED
    BY <2>1, <1>c, FS_RemoveElement DEF Integral
<1>1. 0 \in N
  <2> DEFINE g == [s \in SUBSET S |-> 0]
  <2>1. g \in [SUBSET S -> Int]
    OBVIOUS
  <2>2. ASSUME NEW s \in SUBSET S, Cardinality(s) <= 0 PROVE g[s] = Add(g, f, s)
    <3>1. s = {}
      BY <2>2, <1>c, FS_EmptySet
    <3> QED
      BY <3>1 DEF Add
  <2>3. Good(g, 0)
    BY <2>1, <2>2
  <2> QED
    BY <2>3
<1>2. ASSUME NEW n \in Nat, n \in N PROVE n + 1 \in N
  <2>1. PICK g : Good(g, n)
    BY <1>2
  <2> DEFINE h == [s \in SUBSET S |-> IF Cardinality(s) <= n THEN g[s] ELSE Add(g, f, s)]
  <2>2. ASSUME NEW s \in SUBSET S PROVE Add(g, f, s) \in Int
    <3>1. CASE s = {}
      BY <3>1 DEF Add
    <3>2. CASE s # {}
      <4>1. f[Pick(s)] \in Int /\ g[s \ {Pick(s)}] \in Int
        BY <3>2, <1>0, <2>1
      <4> QED
        BY <3>2, <4>1 DEF Add
    <3> QED
      BY <3>1, <3>2
  <2>3. h \in [SUBSET S -> Int]
    BY <2>1, <2>2
  <2>4. ASSUME NEW s \in SUBSET S, Cardinality(s) <= n + 1 PROVE h[s] = Add(h, f, s)
    <3>1. h[s] = Add(g, f, s)
      BY <2>1
    <3>2. CASE s = {}
      BY <3>1, <3>2 DEF Add
    <3>3. CASE s # {}
      <4>1. Cardinality(s \ {Pick(s)}) <= n
        BY SMTT(120), <1>0, <2>4, <3>3, <1>c
      <4>2. h[s \ {Pick(s)}] = g[s \ {Pick(s)}]
        BY <4>1, <1>0, <3>3
      <4> HIDE DEF h
      <4> QED
        BY <3>1, <3>3, <4>2 DEF Add
    <3> QED
      BY <3>2, <3>3
  <2>5. Good(h, n + 1)
    BY <2>3, <2>4
  <2> HIDE DEF h
  <2>6. n + 1 \in Nat /\ \E k : Good(k, n + 1)
    BY <2>5
  <2> QED
    BY <2>6
<1>3. Nat \subseteq N
  <2> HIDE DEF N
  <2> QED
    BY <1>1, <1>2, Induction
<1>4. PICK g : Good(g, Cardinality(S))
  BY <1>3, <1>c
<1>5. ASSUME NEW s \in SUBSET S PROVE g[s] = Add(g, f, s)
  BY <1>4, <1>c, FS_Subset
<1>6. g = [s \in SUBSET S |-> Add(g, f, s)]
  BY <1>4, <1>5
<1> QED
  BY <1>6 DEF Sums

(* The order in which elements are taken does not matter. *)
LEMMA SumsAdd ==
    ASSUME NEW f, NEW S, IsFiniteSet(S), Integral(f, S), NEW g, Sums(g, f, S)
    PROVE  /\ g[{}] = 0
           /\ \A s \in SUBSET S : g[s] \in Int /\ \A x \in S \ s : g[s \cup {x}] = g[s] + f[x]
<1>s. \A s \in SUBSET S : g[s] = Add(g, f, s)
  BY DEF Sums
<1>c. \A s \in SUBSET S : Cardinality(s) \in Nat /\ IsFiniteSet(s)
  BY FS_Subset, FS_CardinalityType
<1>e. g[{}] = 0
  BY <1>s DEF Add
<1> DEFINE Good(s) == g[s] \in Int /\ \A x \in S \ s : g[s \cup {x}] = g[s] + f[x]
           N == {n \in Nat : \A s \in SUBSET S : Cardinality(s) = n => Good(s)}
<1>g. ASSUME NEW s \in SUBSET S, s # {}
      PROVE  /\ Pick(s) \in s /\ s \ {Pick(s)} \in SUBSET S /\ f[Pick(s)] \in Int
             /\ Cardinality(s \ {Pick(s)}) = Cardinality(s) - 1
             /\ g[s] = f[Pick(s)] + g[s \ {Pick(s)}]
  <2>1. Pick(s) \in s
    BY <1>g, PickIn
  <2> QED
    BY <2>1, <1>c, <1>s, <1>g, FS_RemoveElement DEF Integral, Add
<1>1. ASSUME NEW n \in Nat, \A s \in SUBSET S : Cardinality(s) < n => Good(s),
             NEW s \in SUBSET S, Cardinality(s) = n
      PROVE  Good(s)
  <2>1. g[s] \in Int
    <3>1. CASE s = {}
      BY <3>1, <1>e
    <3>2. CASE s # {}
      <4>1. Cardinality(s \ {Pick(s)}) < n /\ s \ {Pick(s)} \in SUBSET S
        BY <1>1, <3>2, <1>g
      <4>2. g[s \ {Pick(s)}] \in Int
        BY <4>1, <1>1
      <4>3. g[s] = f[Pick(s)] + g[s \ {Pick(s)}] /\ f[Pick(s)] \in Int
        BY <3>2, <1>g
      <4> QED
        BY <4>2, <4>3
    <3> QED
      BY <3>1, <3>2
  <2>2. ASSUME NEW x \in S \ s PROVE g[s \cup {x}] = g[s] + f[x]
    <3> DEFINE u == s \cup {x}
               p == Pick(u)
    <3>1. u \in SUBSET S /\ u # {} /\ p \in u /\ g[u] = f[p] + g[u \ {p}] /\ f[p] \in Int /\ f[x] \in Int
      BY <1>g DEF Integral
    <3>2. CASE p = x
      <4>1. u \ {p} = s
        BY <3>2
      <4>2. g[u] = f[x] + g[s]
        BY <3>1, <3>2, <4>1
      <4>3. f[x] \in Int /\ g[s] \in Int
        BY <2>1, <3>1
      <4>4. \A a, b, c \in Int : a = b + c => a = c + b
        OBVIOUS
      <4> QED
        BY <4>2, <4>3, <4>4
    <3>3. CASE p # x
      <4>1. p \in s /\ u \ {p} = (s \ {p}) \cup {x} /\ x \in S \ (s \ {p}) /\ (s \ {p}) \in SUBSET S
        BY <3>1, <3>3
      <4>2. Cardinality(s \ {p}) < n
        BY <4>1, <1>1, <1>c, OneLess
      <4>3. Good(s \ {p})
        BY <4>1, <4>2, <1>1
      <4>4. g[u \ {p}] = g[s \ {p}] + f[x] /\ g[s \ {p}] \in Int
        BY <4>1, <4>3
      <4>5. (s \ {p}) \cup {p} = s /\ p \in S \ (s \ {p})
        BY <4>1
      <4>6. g[s] = g[s \ {p}] + f[p]
        BY <4>3, <4>5
      <4>7. g[u] = f[p] + (g[s \ {p}] + f[x])
        BY <3>1, <4>4
      <4>8. f[p] \in Int /\ f[x] \in Int /\ g[s \ {p}] \in Int
        BY <3>1, <4>4
      <4>9. \A a, b, c \in Int : a + (b + c) = (b + a) + c
        OBVIOUS
      <4> QED
        BY <4>6, <4>7, <4>8, <4>9
    <3> QED
      BY <3>2, <3>3
  <2> QED
    BY <2>1, <2>2
<1>2. \A n \in Nat : (\A m \in 0 .. n - 1 : m \in N) => n \in N
  <2> SUFFICES ASSUME NEW n \in Nat, \A m \in 0 .. n - 1 : m \in N, NEW s \in SUBSET S, Cardinality(s) = n
               PROVE Good(s)
    OBVIOUS
  <2>1. ASSUME NEW t \in SUBSET S, Cardinality(t) < n PROVE Good(t)
    <3>1. Cardinality(t) \in 0 .. n - 1
      BY <2>1, <1>c
    <3> QED
      BY <3>1
  <2> HIDE DEF Good
  <2> QED
    BY <2>1, <1>1
<1>3. Nat \subseteq N
  <2> DEFINE M == {n \in Nat : \A m \in 0 .. n - 1 : m \in N}
  <2> HIDE DEF N
  <2>1. 0 \in M
    OBVIOUS
  <2>2. ASSUME NEW n \in Nat, n \in M PROVE n + 1 \in M
    BY <2>2, <1>2
  <2>3. Nat \subseteq M
    <3> HIDE DEF M
    <3> QED
      BY <2>1, <2>2, Induction
  <2> QED
    BY <2>3, <1>2
<1>4. ASSUME NEW s \in SUBSET S PROVE Good(s)
  <2>1. Cardinality(s) \in N
    BY <1>3, <1>c
  <2> QED
    BY <2>1
<1> QED
  BY <1>4, <1>e

(* A sum is given by its summands. *)
LEMMA SumEqual ==
    ASSUME NEW f, NEW h, NEW S, IsFiniteSet(S), Integral(f, S), \A x \in S : h[x] = f[x]
    PROVE  SumFunctionOnSet(h, S) = SumFunctionOnSet(f, S)
<1>0. Integral(h, S)
  BY DEF Integral
<1>1. PICK g : SumFunctionOnSet(f, S) = g[S] /\ Sums(g, f, S)
  BY SumsIs, SumsExist
<1>2. PICK k : SumFunctionOnSet(h, S) = k[S] /\ Sums(k, h, S)
  BY <1>0, SumsIs, SumsExist
<1>3. /\ g[{}] = 0 /\ k[{}] = 0
      /\ \A s \in SUBSET S : \A x \in S \ s : g[s \cup {x}] = g[s] + f[x] /\ k[s \cup {x}] = k[s] + h[x]
  BY <1>0, <1>1, <1>2, SumsAdd
<1> DEFINE P == {s \in SUBSET S : k[s] = g[s]}
<1>4. {} \in P
  BY <1>3
<1>5. ASSUME NEW T \in SUBSET S, NEW x \in S \ T, T \in P PROVE T \cup {x} \in P
  BY <1>3, <1>5
<1>6. SUBSET S \subseteq P
  <2> HIDE DEF P
  <2> QED
    BY <1>4, <1>5, SubsetInduction
<1> QED
  BY <1>1, <1>2, <1>6

(* What a sum over part of a set is. *)
LEMMA SumPart ==
    ASSUME NEW f, NEW S, IsFiniteSet(S), Integral(f, S), NEW g, Sums(g, f, S), NEW T \in SUBSET S
    PROVE  SumFunctionOnSet(f, T) = g[T]
<1>0. IsFiniteSet(T) /\ Integral(f, T)
  BY FS_Subset DEF Integral
<1>1. PICK k : SumFunctionOnSet(f, T) = k[T] /\ Sums(k, f, T)
  BY <1>0, SumsIs, SumsExist
<1>2. g[{}] = 0 /\ \A s \in SUBSET S : \A x \in S \ s : g[s \cup {x}] = g[s] + f[x]
  BY SumsAdd
<1>3. k[{}] = 0 /\ \A s \in SUBSET T : \A x \in T \ s : k[s \cup {x}] = k[s] + f[x]
  BY SMTT(120), <1>0, <1>1, SumsAdd
<1> DEFINE P == {s \in SUBSET T : k[s] = g[s]}
<1>4. {} \in P
  BY <1>2, <1>3
<1>5. ASSUME NEW s \in SUBSET T, NEW x \in T \ s, s \in P PROVE s \cup {x} \in P
  BY <1>2, <1>3, <1>5
<1>6. SUBSET T \subseteq P
  <2> HIDE DEF P
  <2> QED
    BY <1>0, <1>4, <1>5, SubsetInduction
<1> QED
  BY <1>1, <1>6

(* A sum is an integer, nothing for no summand, and grows by a new one. *)
LEMMA SumAdd ==
    ASSUME NEW f, NEW S, IsFiniteSet(S), Integral(f, S)
    PROVE  /\ SumFunctionOnSet(f, {}) = 0
           /\ \A T \in SUBSET S : /\ SumFunctionOnSet(f, T) \in Int
                                  /\ \A x \in S \ T : SumFunctionOnSet(f, T \cup {x}) = SumFunctionOnSet(f, T) + f[x]
<1>1. PICK g : Sums(g, f, S)
  BY SumsExist
<1>2. /\ g[{}] = 0
      /\ \A s \in SUBSET S : g[s] \in Int /\ \A x \in S \ s : g[s \cup {x}] = g[s] + f[x]
  BY <1>1, SumsAdd
<1>3. \A T \in SUBSET S : SumFunctionOnSet(f, T) = g[T]
  BY <1>1, SumPart
<1>4. \A T \in SUBSET S : \A x \in S \ T : T \cup {x} \in SUBSET S
  OBVIOUS
<1> QED
  BY ZenonT(120), <1>2, <1>3, <1>4

(* Summands that are nothing may be left out. *)
LEMMA SumWithoutZeros ==
    ASSUME NEW f, NEW S, IsFiniteSet(S), Integral(f, S), NEW T \in SUBSET S, \A x \in S \ T : f[x] = 0
    PROVE  SumFunctionOnSet(f, S) = SumFunctionOnSet(f, T)
<1>1. \A s \in SUBSET S : \A x \in S \ s : SumFunctionOnSet(f, s \cup {x}) = SumFunctionOnSet(f, s) + f[x]
  BY SumAdd
<1>2. \A s \in SUBSET S : SumFunctionOnSet(f, s) \in Int
  BY SumAdd
<1> DEFINE P == {s \in SUBSET (S \ T) : SumFunctionOnSet(f, T \cup s) = SumFunctionOnSet(f, T)}
<1>3. {} \in P
  <2>1. T \cup {} = T
    OBVIOUS
  <2> QED
    BY <2>1
<1>4. ASSUME NEW s \in SUBSET (S \ T), NEW x \in (S \ T) \ s, s \in P PROVE s \cup {x} \in P
  <2>1. T \cup s \in SUBSET S /\ x \in S \ (T \cup s) /\ T \cup (s \cup {x}) = (T \cup s) \cup {x} /\ f[x] = 0
    BY <1>4
  <2>2. SumFunctionOnSet(f, T \cup (s \cup {x})) = SumFunctionOnSet(f, T \cup s) + 0
    BY <2>1, <1>1
  <2>3. SumFunctionOnSet(f, T \cup s) \in Int /\ SumFunctionOnSet(f, T \cup s) = SumFunctionOnSet(f, T)
    BY <2>1, <1>2, <1>4
  <2>4. SumFunctionOnSet(f, T \cup (s \cup {x})) = SumFunctionOnSet(f, T)
    BY <2>2, <2>3
  <2> QED
    BY <2>4
<1>5. SUBSET (S \ T) \subseteq P
  <2>1. IsFiniteSet(S \ T)
    BY FS_Subset
  <2> HIDE DEF P
  <2> QED
    BY <1>3, <1>4, <2>1, SubsetInduction
<1>6. S \ T \in P /\ T \cup (S \ T) = S
  BY <1>5
<1> QED
  BY <1>6

(* When one summand changes the sum changes by as much. *)
LEMMA SumChange ==
    ASSUME NEW f, NEW h, NEW S, IsFiniteSet(S), Integral(f, S), Integral(h, S),
           NEW x \in S, \A y \in S : y # x => h[y] = f[y]
    PROVE  SumFunctionOnSet(h, S) = SumFunctionOnSet(f, S) + (h[x] - f[x])
<1> DEFINE T == S \ {x}
<1>0. T \in SUBSET S /\ x \in S \ T /\ T \cup {x} = S /\ IsFiniteSet(T) /\ Integral(f, T) /\ f[x] \in Int /\ h[x] \in Int
  BY FS_Subset DEF Integral
<1> HIDE DEF T
<1>1. SumFunctionOnSet(h, T) = SumFunctionOnSet(f, T)
  <2>1. \A y \in T : h[y] = f[y]
    BY DEF T
  <2> QED
    BY <1>0, <2>1, SumEqual
<1>2. SumFunctionOnSet(f, S) = SumFunctionOnSet(f, T) + f[x] /\ SumFunctionOnSet(f, T) \in Int
  BY <1>0, SumAdd
<1>3. SumFunctionOnSet(h, S) = SumFunctionOnSet(h, T) + h[x]
  BY <1>0, SumAdd
<1> QED
  BY <1>0, <1>1, <1>2, <1>3

(* A sum of sums. *)
LEMMA SumPlus ==
    ASSUME NEW f, NEW g, NEW h, NEW S, IsFiniteSet(S), Integral(f, S), Integral(g, S),
           \A x \in S : h[x] = f[x] + g[x]
    PROVE  SumFunctionOnSet(h, S) = SumFunctionOnSet(f, S) + SumFunctionOnSet(g, S)
<1>0. Integral(h, S)
  BY DEF Integral
<1> DEFINE F(s) == SumFunctionOnSet(f, s)
           G(s) == SumFunctionOnSet(g, s)
           H(s) == SumFunctionOnSet(h, s)
<1>1. /\ F({}) = 0 /\ G({}) = 0 /\ H({}) = 0
      /\ \A s \in SUBSET S : F(s) \in Int /\ G(s) \in Int /\ H(s) \in Int
      /\ \A s \in SUBSET S : \A x \in S \ s : /\ F(s \cup {x}) = F(s) + f[x]
                                              /\ G(s \cup {x}) = G(s) + g[x]
                                              /\ H(s \cup {x}) = H(s) + h[x]
  <2>1. F({}) = 0 /\ \A s \in SUBSET S : F(s) \in Int /\ \A x \in S \ s : F(s \cup {x}) = F(s) + f[x]
    BY SumAdd
  <2>2. G({}) = 0 /\ \A s \in SUBSET S : G(s) \in Int /\ \A x \in S \ s : G(s \cup {x}) = G(s) + g[x]
    BY SumAdd
  <2>3. H({}) = 0 /\ \A s \in SUBSET S : H(s) \in Int /\ \A x \in S \ s : H(s \cup {x}) = H(s) + h[x]
    BY <1>0, SumAdd
  <2> QED
    BY <2>1, <2>2, <2>3
<1> HIDE DEF F, G, H
<1> DEFINE P == {s \in SUBSET S : H(s) = F(s) + G(s)}
<1>2. {} \in P
  BY <1>1
<1>3. ASSUME NEW s \in SUBSET S, NEW x \in S \ s, s \in P PROVE s \cup {x} \in P
  <2>1. f[x] \in Int /\ g[x] \in Int /\ h[x] = f[x] + g[x]
    BY DEF Integral
  <2>2. H(s) = F(s) + G(s) /\ F(s) \in Int /\ G(s) \in Int
    BY <1>1, <1>3
  <2>3. H(s \cup {x}) = H(s) + h[x] /\ F(s \cup {x}) = F(s) + f[x] /\ G(s \cup {x}) = G(s) + g[x]
    BY <1>1
  <2>4. H(s \cup {x}) = F(s \cup {x}) + G(s \cup {x})
    BY <2>1, <2>2, <2>3
  <2> QED
    BY <2>4
<1>4. SUBSET S \subseteq P
  <2> HIDE DEF P
  <2> QED
    BY <1>2, <1>3, SubsetInduction
<1> QED
  BY <1>4 DEF F, G, H

(* The same summand everywhere. *)
LEMMA SumConstant ==
    ASSUME NEW f, NEW S, IsFiniteSet(S), NEW c \in Int, \A x \in S : f[x] = c
    PROVE  SumFunctionOnSet(f, S) = Cardinality(S) * c
<1>0. Integral(f, S)
  BY DEF Integral
<1>1. SumFunctionOnSet(f, {}) = 0 /\ \A s \in SUBSET S : \A x \in S \ s : SumFunctionOnSet(f, s \cup {x}) = SumFunctionOnSet(f, s) + f[x]
  BY <1>0, SumAdd
<1> DEFINE P == {s \in SUBSET S : SumFunctionOnSet(f, s) = Cardinality(s) * c}
<1>2. {} \in P
  BY <1>1, FS_EmptySet
<1>3. ASSUME NEW s \in SUBSET S, NEW x \in S \ s, s \in P PROVE s \cup {x} \in P
  <2>1. IsFiniteSet(s)
    BY FS_Subset
  <2>2. Cardinality(s) \in Nat
    BY <2>1, FS_CardinalityType
  <2>3. Cardinality(s \cup {x}) = Cardinality(s) + 1
    BY <2>1, FS_AddElement, Zenon
  <2>4. SumFunctionOnSet(f, s \cup {x}) = Cardinality(s) * c + c
    BY <1>1, <1>3
  <2>5. \A n \in Nat : n * c + c = (n + 1) * c
    OBVIOUS
  <2>6. SumFunctionOnSet(f, s \cup {x}) = Cardinality(s \cup {x}) * c
    BY <2>2, <2>3, <2>4, <2>5
  <2> QED
    BY <2>6
<1>4. SUBSET S \subseteq P
  <2> HIDE DEF P
  <2> QED
    BY <1>2, <1>3, SubsetInduction
<1> QED
  BY <1>4

(* Summing group by group. *)
LEMMA SumOfGroups ==
    ASSUME NEW K, NEW B, IsFiniteSet(K), IsFiniteSet(B), NEW group \in [K -> B], NEW f, Integral(f, K)
    PROVE  SumFunctionOnSet([b \in B |-> SumFunctionOnSet(f, {k \in K : group[k] = b})], B) = SumFunctionOnSet(f, K)
<1> DEFINE In(T, b) == {k \in T : group[k] = b}
           G(T) == [b \in B |-> SumFunctionOnSet(f, In(T, b))]
           P == {T \in SUBSET K : SumFunctionOnSet(G(T), B) = SumFunctionOnSet(f, T)}
<1>1. /\ SumFunctionOnSet(f, {}) = 0
      /\ \A s \in SUBSET K : /\ SumFunctionOnSet(f, s) \in Int
                             /\ \A x \in K \ s : SumFunctionOnSet(f, s \cup {x}) = SumFunctionOnSet(f, s) + f[x]
  BY SumAdd
<1>i. ASSUME NEW T \in SUBSET K PROVE Integral(G(T), B)
  <2> SUFFICES ASSUME NEW b \in B PROVE G(T)[b] \in Int
    BY DEF Integral
  <2>1. In(T, b) \in SUBSET K
    OBVIOUS
  <2> QED
    BY <2>1, <1>1
<1>2. {} \in P
  <2>1. \A b \in B : In({}, b) = {}
    OBVIOUS
  <2>2. \A b \in B : G({})[b] = 0
    BY <2>1, <1>1
  <2>3. SumFunctionOnSet(G({}), B) = SumFunctionOnSet(G({}), {})
    BY ZenonT(120), <1>i, <2>2, SumWithoutZeros, {} \in SUBSET K, {} \in SUBSET B
  <2>4. SumFunctionOnSet(G({}), {}) = 0
    BY <1>i, SumAdd, {} \in SUBSET K
  <2> QED
    BY <2>3, <2>4, <1>1
<1>3. ASSUME NEW T \in SUBSET K, NEW x \in K \ T, T \in P PROVE T \cup {x} \in P
  <2> DEFINE c == group[x]
             U == T \cup {x}
  <2>0. c \in B /\ U \in SUBSET K /\ Integral(G(T), B) /\ Integral(G(U), B) /\ f[x] \in Int
    BY <1>i DEF Integral
  <2>1. ASSUME NEW b \in B, b # c PROVE G(U)[b] = G(T)[b]
    <3>1. In(U, b) = In(T, b)
      BY <2>1
    <3> QED
      BY <3>1
  <2>2. G(U)[c] = G(T)[c] + f[x] /\ G(T)[c] \in Int
    <3>1. In(U, c) = In(T, c) \cup {x} /\ In(T, c) \in SUBSET K /\ x \in K \ In(T, c)
      OBVIOUS
    <3>2. G(U)[c] = SumFunctionOnSet(f, In(T, c) \cup {x}) /\ G(T)[c] = SumFunctionOnSet(f, In(T, c))
      BY <2>0, <3>1
    <3> HIDE DEF In, G
    <3> QED
      BY <3>1, <3>2, <1>1
  <2> HIDE DEF G
  <2>3. SumFunctionOnSet(G(U), B) = SumFunctionOnSet(G(T), B) + (G(U)[c] - G(T)[c])
    <3> DEFINE g == G(T)
               h == G(U)
    <3>1. /\ Integral(g, B) /\ Integral(h, B) /\ c \in B
          /\ \A b \in B : b # c => h[b] = g[b]
      BY <2>0, <2>1
    <3> HIDE DEF g, h, P, In, U, c
    <3>2. SumFunctionOnSet(h, B) = SumFunctionOnSet(g, B) + (h[c] - g[c])
      BY <3>1, SumChange
    <3> QED
      BY <3>2 DEF g, h
  <2>4. SumFunctionOnSet(G(T), B) = SumFunctionOnSet(f, T) /\ SumFunctionOnSet(f, T) \in Int
    BY <1>1, <1>3
  <2>5. SumFunctionOnSet(G(U), B) = SumFunctionOnSet(f, T) + f[x]
    BY <2>0, <2>2, <2>3, <2>4
  <2>6. SumFunctionOnSet(f, U) = SumFunctionOnSet(f, T) + f[x]
    BY <1>1
  <2> QED
    BY <2>0, <2>5, <2>6
<1>4. SUBSET K \subseteq P
  <2> HIDE DEF P
  <2> QED
    BY <1>2, <1>3, SubsetInduction
<1>5. K \in P
  BY <1>4
<1> QED
  BY <1>5

(* The numbers m further on than those of K. *)
Further(m, K) == {m + j : j \in K}

(* The first n of g stand in h after the first m. *)
FollowedBy(h, g, m, n) ==
    /\ m \in Nat /\ n \in Nat /\ Integral(h, 1 .. m + n)
    /\ \A j \in 1 .. n : h[m + j] = g[j]

(* Summing what stands m places further on. *)
LEMMA SumShifted ==
    ASSUME NEW h, NEW g, NEW m, NEW n, FollowedBy(h, g, m, n)
    PROVE  \A A \in SUBSET (1 .. m) : \A K \in SUBSET (1 .. n) :
             SumFunctionOnSet(h, A \cup Further(m, K))
             = SumFunctionOnSet(h, A) + SumFunctionOnSet(g, K)
<1> SUFFICES ASSUME NEW A \in SUBSET (1 .. m), NEW K \in SUBSET (1 .. n), m \in Nat, n \in Nat,
                    Integral(h, 1 .. m + n), \A j \in 1 .. n : h[m + j] = g[j]
             PROVE  SumFunctionOnSet(h, A \cup Further(m, K))
                    = SumFunctionOnSet(h, A) + SumFunctionOnSet(g, K)
  BY DEF FollowedBy
<1> DEFINE S == 1 .. m + n
           Grown(T) == A \cup Further(m, T)
           P == {T \in SUBSET K : SumFunctionOnSet(h, Grown(T)) = SumFunctionOnSet(h, A) + SumFunctionOnSet(g, T)}
<1>0. IsFiniteSet(S) /\ IsFiniteSet(1 .. n)
  BY SMTT(120), FS_Interval
<1>g. IsFiniteSet(K) /\ Integral(g, K)
  <2>1. ASSUME NEW j \in K PROVE g[j] \in Int
    <3>1. j \in 1 .. n /\ m + j \in S
      OBVIOUS
    <3>2. g[j] = h[m + j]
      BY <3>1
    <3> QED
      BY <3>1, <3>2 DEF Integral
  <2> QED
    BY <1>0, <2>1, FS_Subset DEF Integral
<1>1. /\ \A s \in SUBSET S : /\ SumFunctionOnSet(h, s) \in Int
                             /\ \A x \in S \ s : SumFunctionOnSet(h, s \cup {x}) = SumFunctionOnSet(h, s) + h[x]
  BY ZenonT(120), <1>0, SumAdd
<1>2. /\ SumFunctionOnSet(g, {}) = 0
      /\ \A s \in SUBSET K : /\ SumFunctionOnSet(g, s) \in Int
                             /\ \A x \in K \ s : SumFunctionOnSet(g, s \cup {x}) = SumFunctionOnSet(g, s) + g[x]
  BY ZenonT(120), <1>g, SumAdd
<1>a. A \in SUBSET S
  OBVIOUS
<1>3. {} \in P
  <2>1. Grown({}) = A
    BY DEF Further
  <2>2. SumFunctionOnSet(h, A) \in Int /\ SumFunctionOnSet(g, {}) = 0
    BY <1>1, <1>2, <1>a
  <2> HIDE DEF Grown
  <2>3. SumFunctionOnSet(h, Grown({})) = SumFunctionOnSet(h, A) + SumFunctionOnSet(g, {})
    BY <2>1, <2>2
  <2> QED
    BY <2>3
<1>4. ASSUME NEW T \in SUBSET K, NEW x \in K \ T, T \in P PROVE T \cup {x} \in P
  <2>1. Grown(T \cup {x}) = Grown(T) \cup {m + x}
    BY DEF Further
  <2>2. x \in 1 .. n /\ m + x \in S /\ h[m + x] = g[x]
    <3> HIDE DEF Grown, P
    <3>1. x \in 1 .. n
      OBVIOUS
    <3>2. m + x \in 1 .. m + n
      BY <3>1
    <3> QED
      BY <3>1, <3>2
  <2>3. Grown(T) \in SUBSET S
    <3>1. \A j \in T : m + j \in S
      OBVIOUS
    <3> QED
      BY <3>1, <1>a DEF Further
  <2>4. m + x \notin Grown(T)
    <3>1. m + x \notin A
      <4>1. \A a \in A : a <= m
        OBVIOUS
      <4>2. m + x > m
        BY <2>2
      <4> QED
        BY <4>1, <4>2, <2>2
    <3>2. ASSUME NEW j \in T, m + x = m + j PROVE FALSE
      <4>1. j \in Int /\ x \in Int /\ x # j
        BY <3>2, <1>4
      <4> QED
        BY <4>1, <3>2
    <3> QED
      BY <3>1, <3>2 DEF Further
  <2> HIDE DEF Grown, S
  <2>5. SumFunctionOnSet(h, Grown(T \cup {x})) = SumFunctionOnSet(h, Grown(T)) + g[x]
    <3> DEFINE s == Grown(T)
    <3>1. s \in SUBSET S /\ m + x \in S \ s
      BY <2>2, <2>3, <2>4
    <3> HIDE DEF s, P
    <3>2. SumFunctionOnSet(h, s \cup {m + x}) = SumFunctionOnSet(h, s) + h[m + x]
      BY <3>1, <1>1
    <3> QED
      BY <3>2, <2>1, <2>2 DEF s
  <2>6. SumFunctionOnSet(g, T \cup {x}) = SumFunctionOnSet(g, T) + g[x] /\ SumFunctionOnSet(g, T) \in Int
    BY <1>2, <1>4
  <2>7. SumFunctionOnSet(h, Grown(T)) = SumFunctionOnSet(h, A) + SumFunctionOnSet(g, T) /\ SumFunctionOnSet(h, A) \in Int
    BY <1>4, <1>1, <1>a
  <2>8. g[x] \in Int
    BY <1>g, <1>4 DEF Integral
  <2>9. SumFunctionOnSet(h, Grown(T \cup {x})) = SumFunctionOnSet(h, A) + SumFunctionOnSet(g, T \cup {x})
    BY <2>5, <2>6, <2>7, <2>8
  <2> QED
    BY <2>9
<1>5. SUBSET K \subseteq P
  <2> HIDE DEF P
  <2> QED
    BY <1>3, <1>4, <1>g, SubsetInduction
<1>6. K \in P
  BY <1>5
<1> QED
  BY <1>6

(* A sum over two sets that share nothing. *)
LEMMA SumDisjoint ==
    ASSUME NEW f, NEW A, NEW B, IsFiniteSet(A), IsFiniteSet(B), Integral(f, A), Integral(f, B), A \cap B = {}
    PROVE  /\ SumFunctionOnSet(f, A \cup B) = SumFunctionOnSet(f, A) + SumFunctionOnSet(f, B)
           /\ SumFunctionOnSet(f, A) \in Int /\ SumFunctionOnSet(f, B) \in Int
<1> DEFINE S == A \cup B
           g == [x \in S |-> IF x \in A THEN f[x] ELSE 0]
           h == [x \in S |-> IF x \in B THEN f[x] ELSE 0]
<1>1. IsFiniteSet(S)
  BY FS_Union
<1>2. Integral(f, S) /\ Integral(g, S) /\ Integral(h, S)
  BY DEF Integral
<1>3. \A x \in S : f[x] = g[x] + h[x]
  BY DEF Integral
<1>4. \A x \in S \ A : g[x] = 0
  OBVIOUS
<1>5. \A x \in S \ B : h[x] = 0
  OBVIOUS
<1>6. (\A x \in A : g[x] = f[x]) /\ (\A x \in B : h[x] = f[x])
  OBVIOUS
<1>7. A \in SUBSET S /\ B \in SUBSET S
  OBVIOUS
<1> HIDE DEF S, g, h
<1>8. SumFunctionOnSet(f, S) = SumFunctionOnSet(g, S) + SumFunctionOnSet(h, S)
  BY <1>1, <1>2, <1>3, SumPlus
<1>9. SumFunctionOnSet(g, S) = SumFunctionOnSet(g, A)
  BY <1>1, <1>2, <1>4, <1>7, SumWithoutZeros
<1>10. SumFunctionOnSet(h, S) = SumFunctionOnSet(h, B)
  BY <1>1, <1>2, <1>5, <1>7, SumWithoutZeros
<1>11. SumFunctionOnSet(g, A) = SumFunctionOnSet(f, A)
  BY <1>6, SumEqual
<1>12. SumFunctionOnSet(h, B) = SumFunctionOnSet(f, B)
  BY <1>6, SumEqual
<1>13. SumFunctionOnSet(f, A) \in Int /\ SumFunctionOnSet(f, B) \in Int
  BY SumAdd
<1> QED
  BY <1>8, <1>9, <1>10, <1>11, <1>12, <1>13 DEF S

(* Summing under other names: each k of K is one b of B. *)
Renames(name, K, B) ==
  /\ name \in [K -> B]
  /\ \A j, k \in K : name[j] = name[k] => j = k
  /\ \A b \in B : \E k \in K : name[k] = b

LEMMA SumRenamed ==
    ASSUME NEW K, NEW B, IsFiniteSet(K), IsFiniteSet(B), NEW name, Renames(name, K, B),
           NEW f, Integral(f, K), NEW h, \A k \in K : h[name[k]] = f[k]
    PROVE  SumFunctionOnSet(h, B) = SumFunctionOnSet(f, K)
<1> DEFINE of(b) == {k \in K : name[k] = b}
           g == [b \in B |-> SumFunctionOnSet(f, of(b))]
<1>1. name \in [K -> B]
  BY DEF Renames
<1>2. SumFunctionOnSet(g, B) = SumFunctionOnSet(f, K)
  BY <1>1, SumOfGroups
<1>3. ASSUME NEW b \in B PROVE h[b] = g[b] /\ g[b] \in Int
  <2>1. PICK k \in K : name[k] = b
    BY DEF Renames
  <2>2. of(b) = {} \cup {k}
    BY <2>1 DEF Renames
  <2>3. SumFunctionOnSet(f, {} \cup {k}) = SumFunctionOnSet(f, {}) + f[k] /\ SumFunctionOnSet(f, {}) = 0
    BY SumAdd
  <2>4. f[k] \in Int
    BY DEF Integral
  <2>5. g[b] = SumFunctionOnSet(f, of(b))
    OBVIOUS
  <2>6. h[b] = f[k]
    BY <2>1
  <2> HIDE DEF g, of
  <2> QED
    BY <2>2, <2>3, <2>4, <2>5, <2>6
<1> HIDE DEF g
<1>4. Integral(g, B)
  BY <1>3 DEF Integral
<1>5. SumFunctionOnSet(h, B) = SumFunctionOnSet(g, B)
  BY <1>3, <1>4, SumEqual
<1> QED
  BY <1>2, <1>5

(* A finite set of numbers has a greatest. *)
LEMMA MaxIs ==
    ASSUME NEW S \in SUBSET Int, IsFiniteSet(S), S # {}
    PROVE  Max(S) \in S /\ \A y \in S : Max(S) >= y
<1> DEFINE P == {T \in SUBSET S : T = {} \/ \E x \in T : \A y \in T : x >= y}
<1>1. {} \in P
  OBVIOUS
<1>2. ASSUME NEW T \in SUBSET S, NEW z \in S \ T, T \in P PROVE T \cup {z} \in P
  <2>1. CASE T = {}
    <3>1. \A y \in T \cup {z} : z >= y
      BY <2>1
    <3> QED
      BY <3>1
  <2>2. CASE T # {}
    <3>1. PICK x \in T : \A y \in T : x >= y
      BY <1>2, <2>2
    <3>2. CASE x >= z
      <4>1. x \in T \cup {z} /\ \A y \in T \cup {z} : x >= y
        BY <3>1, <3>2
      <4> QED
        BY <4>1
    <3>3. CASE ~(x >= z)
      <4>1. \A y \in T \cup {z} : z >= y
        <5> TAKE y \in T \cup {z}
        <5>1. y = z \/ x >= y
          BY <3>1
        <5> QED
          BY <5>1, <3>3
      <4> QED
        BY <4>1
    <3> QED
      BY <3>2, <3>3
  <2> QED
    BY <2>1, <2>2
<1> HIDE DEF P
<1>3. S \in P
  BY <1>1, <1>2, SubsetInduction
<1>4. \E x \in S : \A y \in S : x >= y
  BY <1>3 DEF P
<1> QED
  BY <1>4 DEF Max

-----------------------------------------------------------------------------
(* Accounts and what moves between them.                                   *)

(* The addresses a HAPI client can give an account, and those any account  *)
(* can have: an EVM transaction or a cheat may open one anywhere it pays.  *)
Written == Aliases \cup {NoAlias} \cup LongZeros

Addresses ==
  Written \cup Senders \cup Targets \cup CheatTargets
  \cup {Created(from, nonce) : from \in Senders, nonce \in Nat}

Account == [key : Keys \cup {NoKey}, alias : Addresses, balance : Nat, deleted : BOOLEAN]

(* The legs of a transfer between the accounts D, and a record's transfers. *)
Leg(D) == [account : D, amount : Int]
Transfers == UNION {[S -> Int] : S \in SUBSET Ids}
Record == [id : TxIds, ok : BOOLEAN, transfers : Transfers, sequence : Nat]

Amounts(t) == [k \in DOMAIN t |-> t[k].amount]

(* What a list of legs moves to an account, and altogether. *)
Net(t, id) == SumFunctionOnSet(Amounts(t), {k \in DOMAIN t : t[k].account = id})
Total(t) == SumFunctionOnSet(Amounts(t), DOMAIN t)

Before(id) == IF id \in DOMAIN accounts THEN accounts[id].balance ELSE 0

(* The values the variables take. *)
Shape ==
  /\ accounts \in [DOMAIN accounts -> Account]
  /\ GenesisIds \subseteq DOMAIN accounts /\ DOMAIN accounts \subseteq Ids
  /\ by_evm \in [DOMAIN by_evm -> DOMAIN accounts]
  /\ next_id \in FIRST_USER_ID .. MaxId + 1
  /\ DOMAIN topics \subseteq Ids
  /\ records \in Seq(Record)
  /\ hapi_by_id \in [DOMAIN hapi_by_id -> 1 .. Len(records)]
  /\ signers \subseteq Keys

(* A record moves tinybar between accounts that are there. *)
Recorded == \A i \in DOMAIN records : DOMAIN records[i].transfers \subseteq DOMAIN accounts

(* A topic is a record whose messages are a sequence. *)
Listed(messages) == messages \in Seq({messages[n] : n \in DOMAIN messages})

Topic(x) ==
  /\ x = [submit_key |-> x.submit_key, sequence_number |-> x.sequence_number,
          running_hash |-> x.running_hash, messages |-> x.messages]
  /\ Listed(x.messages)

Chained == (\A t \in DOMAIN topics : Topic(topics[t])) /\ TopicsAreChains

(* What the EVM side keeps as well. *)
Base == Shape /\ IdsFresh /\ Recorded /\ Chained /\ MessagesHaveRecords

Aliased == \A id \in DOMAIN accounts : accounts[id].alias \in Written

IInv == Base /\ Aliased /\ TinybarAccountedFor /\ DeletedAreEmpty

(* An address no id stands for. *)
Plain(address) == address \notin LongZeros

Named ==
  /\ AddressesResolve
  /\ PlainAliases
  /\ \A id \in GenesisIds : accounts[id].alias = GenesisAlias[id]

-----------------------------------------------------------------------------
(* Ids are natural numbers, and finitely many. *)
LEMMA IdsFinite ==
  /\ Ids \subseteq Nat /\ IsFiniteSet(Ids) /\ GenesisIds \subseteq Ids
  /\ IsFiniteSet(Users) /\ IsFiniteSet(GenesisIds)
  /\ TREASURY \in GenesisIds /\ FEE_COLLECTOR \in GenesisIds
<1> USE LedgerAssumption
<1>1. Users \subseteq FIRST_USER_ID .. MaxId
  OBVIOUS
<1>2. IsFiniteSet(FIRST_USER_ID .. MaxId)
  BY FS_Interval
<1>3. IsFiniteSet(Users)
  BY <1>1, <1>2, FS_Subset
<1>4. IsFiniteSet({TREASURY, FEE_COLLECTOR})
  <2>1. IsFiniteSet({TREASURY})
    BY FS_Singleton
  <2>2. IsFiniteSet({TREASURY} \cup {FEE_COLLECTOR})
    BY <2>1, FS_AddElement
  <2>3. {TREASURY} \cup {FEE_COLLECTOR} = {TREASURY, FEE_COLLECTOR}
    OBVIOUS
  <2> QED
    BY <2>2, <2>3
<1>5. IsFiniteSet(GenesisIds)
  BY <1>3, <1>4, FS_Union DEF GenesisIds
<1>6. IsFiniteSet(Ids)
  BY <1>2, <1>5, FS_Union DEF Ids
<1> QED
  BY <1>3, <1>5, <1>6 DEF Ids, GenesisIds

(* A list of legs: its places, its sums, and where they are nothing. *)
LEMMA Legs ==
    ASSUME NEW D, NEW t \in Seq(Leg(D))
    PROVE  /\ Len(t) \in Nat /\ DOMAIN t = 1 .. Len(t) /\ IsFiniteSet(DOMAIN t)
           /\ \A k \in DOMAIN t : t[k].account \in D /\ t[k].amount \in Int
           /\ Integral(Amounts(t), DOMAIN t)
           /\ Total(t) \in Int
           /\ \A id : /\ Net(t, id) \in Int
                      /\ (\A k \in DOMAIN t : t[k].account # id) => Net(t, id) = 0
                      /\ \A k \in DOMAIN t :
                           t[k].account = id /\ (\A j \in DOMAIN t : t[j].account = id => j = k)
                             => Net(t, id) = t[k].amount
<1>1. Len(t) \in Nat /\ DOMAIN t = 1 .. Len(t)
  OBVIOUS
<1>2. IsFiniteSet(DOMAIN t)
  BY <1>1, FS_Interval
<1>3. \A k \in DOMAIN t : t[k] \in Leg(D)
  OBVIOUS
<1>4. \A k \in DOMAIN t : t[k].account \in D /\ t[k].amount \in Int
  BY <1>3 DEF Leg
<1>5. Integral(Amounts(t), DOMAIN t)
  BY <1>4 DEF Integral, Amounts
<1>6. /\ SumFunctionOnSet(Amounts(t), {}) = 0
      /\ \A T \in SUBSET (DOMAIN t) :
           /\ SumFunctionOnSet(Amounts(t), T) \in Int
           /\ \A x \in (DOMAIN t) \ T : SumFunctionOnSet(Amounts(t), T \cup {x}) = SumFunctionOnSet(Amounts(t), T) + Amounts(t)[x]
  BY <1>2, <1>5, SumAdd
<1>7. Total(t) \in Int
  BY <1>6 DEF Total
<1>8. ASSUME NEW id
      PROVE  /\ Net(t, id) \in Int
             /\ (\A k \in DOMAIN t : t[k].account # id) => Net(t, id) = 0
             /\ \A k \in DOMAIN t :
                  t[k].account = id /\ (\A j \in DOMAIN t : t[j].account = id => j = k)
                    => Net(t, id) = t[k].amount
  <2> DEFINE T == {k \in DOMAIN t : t[k].account = id}
  <2>1. Net(t, id) = SumFunctionOnSet(Amounts(t), T) /\ T \in SUBSET (DOMAIN t)
    BY DEF Net
  <2>2. (\A k \in DOMAIN t : t[k].account # id) => T = {}
    OBVIOUS
  <2>3. ASSUME NEW k \in DOMAIN t, t[k].account = id, \A j \in DOMAIN t : t[j].account = id => j = k
        PROVE  Net(t, id) = t[k].amount
    <3>1. T = {} \cup {k} /\ {} \in SUBSET (DOMAIN t) /\ k \in (DOMAIN t) \ {}
      BY <2>3
    <3>2. SumFunctionOnSet(Amounts(t), {} \cup {k}) = 0 + Amounts(t)[k]
      BY <1>6, <3>1
    <3>3. Amounts(t)[k] = t[k].amount /\ t[k].amount \in Int
      BY <1>4 DEF Amounts
    <3> HIDE DEF T
    <3> QED
      BY <2>1, <3>1, <3>2, <3>3
  <2> HIDE DEF T
  <2> QED
    BY <2>1, <2>2, <2>3, <1>6
<1> QED
  BY <1>1, <1>2, <1>4, <1>5, <1>7, <1>8

(* Legs added at the end. *)
LEMMA MoreLegs ==
    ASSUME NEW D, NEW t \in Seq(Leg(D)), NEW u \in Seq(Leg(D))
    PROVE  /\ t \o u \in Seq(Leg(D))
           /\ Total(t \o u) = Total(t) + Total(u)
           /\ \A id : Net(t \o u, id) = Net(t, id) + Net(u, id)
<1> DEFINE v == t \o u
           m == Len(t)
           n == Len(u)
<1>1. v \in Seq(Leg(D)) /\ Len(v) = m + n /\ m \in Nat /\ n \in Nat
  OBVIOUS
<1>2. (\A i \in 1 .. m : v[i] = t[i]) /\ (\A j \in 1 .. n : v[m + j] = u[j])
  OBVIOUS
<1>d. DOMAIN t = 1 .. m /\ DOMAIN u = 1 .. n /\ DOMAIN v = 1 .. m + n
  BY <1>1
<1> HIDE DEF v, m, n
<1>3. Integral(Amounts(v), 1 .. m + n) /\ Integral(Amounts(t), 1 .. m)
  BY <1>1, <1>d, Legs
<1>4. \A j \in 1 .. n : Amounts(v)[m + j] = Amounts(u)[j]
  <2> TAKE j \in 1 .. n
  <2>1. m + j \in 1 .. m + n
    BY <1>1
  <2> QED
    BY <2>1, <1>2, <1>d DEF Amounts
<1>5. \A i \in 1 .. m : Amounts(v)[i] = Amounts(t)[i] /\ i \in 1 .. m + n
  <2> TAKE i \in 1 .. m
  <2>1. i \in 1 .. m + n
    BY <1>1
  <2> QED
    BY <2>1, <1>2, <1>d DEF Amounts
<1>6. ASSUME NEW A \in SUBSET (1 .. m), NEW K \in SUBSET (1 .. n)
      PROVE  SumFunctionOnSet(Amounts(v), A \cup Further(m, K))
             = SumFunctionOnSet(Amounts(t), A) + SumFunctionOnSet(Amounts(u), K)
  <2>1. SumFunctionOnSet(Amounts(v), A \cup Further(m, K))
        = SumFunctionOnSet(Amounts(v), A) + SumFunctionOnSet(Amounts(u), K)
    <3>1. FollowedBy(Amounts(v), Amounts(u), m, n)
      BY <1>1, <1>3, <1>4 DEF FollowedBy
    <3> QED
      BY <3>1, SumShifted
  <2>2. IsFiniteSet(A) /\ Integral(Amounts(t), A)
    <3>1. IsFiniteSet(1 .. m)
      BY <1>1, FS_Interval
    <3> QED
      BY <3>1, <1>3, FS_Subset DEF Integral
  <2>3. SumFunctionOnSet(Amounts(v), A) = SumFunctionOnSet(Amounts(t), A)
    BY <1>5, <2>2, SumEqual
  <2> QED
    BY <2>1, <2>3
<1>7. \A k \in 1 .. m + n : k \in 1 .. m \/ \E j \in 1 .. n : k = m + j
  <2> TAKE k \in 1 .. m + n
  <2>1. CASE k <= m
    BY <2>1, <1>1
  <2>2. CASE k > m
    <3>1. k - m \in 1 .. n /\ k = m + (k - m)
      BY <2>2, <1>1
    <3> QED
      BY <3>1
  <2> QED
    BY <2>1, <2>2, <1>1
<1>8. \A j \in 1 .. n : m + j \in 1 .. m + n
  BY <1>1
<1>9. Total(v) = Total(t) + Total(u)
  <2>1. DOMAIN v = (DOMAIN t) \cup Further(m, DOMAIN u)
    BY <1>5, <1>7, <1>8, <1>d DEF Further
  <2> QED
    BY ZenonT(120), <2>1, <1>6, <1>d DEF Total
<1>10. ASSUME NEW id PROVE Net(v, id) = Net(t, id) + Net(u, id)
  <2> DEFINE A == {k \in DOMAIN t : t[k].account = id}
             K == {k \in DOMAIN u : u[k].account = id}
  <2>1. {k \in DOMAIN v : v[k].account = id} = A \cup Further(m, K)
    <3>1. ASSUME NEW k \in DOMAIN v, v[k].account = id PROVE k \in A \/ \E j \in K : k = m + j
      <4>1. CASE k \in 1 .. m
        BY <3>1, <4>1, <1>2, <1>d
      <4>2. ASSUME NEW j \in 1 .. n, k = m + j PROVE j \in K
        BY <3>1, <4>2, <1>2, <1>d
      <4> QED
        BY <4>1, <4>2, <1>7, <1>d, <3>1
    <3>2. ASSUME NEW k \in A PROVE k \in DOMAIN v /\ v[k].account = id
      BY <1>2, <1>5, <1>d
    <3>3. ASSUME NEW j \in K PROVE m + j \in DOMAIN v /\ v[m + j].account = id
      BY <1>2, <1>8, <1>d
    <3> QED
      BY <3>1, <3>2, <3>3 DEF Further
  <2>2. A \in SUBSET (1 .. m) /\ K \in SUBSET (1 .. n)
    BY <1>d
  <2>3. Net(t, id) = SumFunctionOnSet(Amounts(t), A) /\ Net(u, id) = SumFunctionOnSet(Amounts(u), K)
    BY DEF Net
  <2> HIDE DEF A, K
  <2> QED
    BY <2>1, <2>2, <2>3, <1>6 DEF Net
<1> QED
  BY <1>1, <1>9, <1>10 DEF v

(* What the legs move to all accounts together. *)
LEMMA NetOfAll ==
    ASSUME NEW D, IsFiniteSet(D), NEW t \in Seq(Leg(D))
    PROVE  SumFunctionOnSet([id \in D |-> Net(t, id)], D) = Total(t)
<1> DEFINE group == [k \in DOMAIN t |-> t[k].account]
<1>1. group \in [DOMAIN t -> D] /\ IsFiniteSet(DOMAIN t) /\ Integral(Amounts(t), DOMAIN t)
  BY Legs
<1>2. SumFunctionOnSet([id \in D |-> SumFunctionOnSet(Amounts(t), {k \in DOMAIN t : group[k] = id})], D)
      = SumFunctionOnSet(Amounts(t), DOMAIN t)
  <2> HIDE DEF group
  <2> QED
    BY <1>1, SumOfGroups
<1>3. \A id : {k \in DOMAIN t : group[k] = id} = {k \in DOMAIN t : t[k].account = id}
  OBVIOUS
<1>4. [id \in D |-> SumFunctionOnSet(Amounts(t), {k \in DOMAIN t : group[k] = id})] = [id \in D |-> Net(t, id)]
  <2> HIDE DEF group
  <2> QED
    BY <1>3 DEF Net
<1> QED
  BY <1>2, <1>4 DEF Total

-----------------------------------------------------------------------------
(* The tail of a submission: a list of legs is in the record, and the      *)
(* record is found under its id.                                           *)
Logged(t, txid, ok, sequence, signed) ==
  /\ DOMAIN accounts \subseteq DOMAIN accounts' /\ DOMAIN accounts' \subseteq Ids
  /\ t \in Seq(Leg(DOMAIN accounts'))
  /\ txid \in TxIds /\ ok \in BOOLEAN /\ sequence \in Nat /\ signed \subseteq Keys
  /\ Consensus(txid, ok, t, sequence, signed)

(* What the legs moved is what the balances changed by.                    *)
Settled(t, txid, ok, sequence, signed) ==
  /\ Logged(t, txid, ok, sequence, signed)
  /\ Total(t) = 0
  /\ \A id \in DOMAIN accounts' : accounts'[id].balance = Before(id) + Net(t, id)

(* aggregate keeps for each account what the legs net to. *)
LEMMA AggregateIs ==
    ASSUME NEW D \in SUBSET Ids, NEW t \in Seq(Leg(D))
    PROVE  /\ DOMAIN aggregate(t) \subseteq D /\ aggregate(t) \in Transfers
           /\ \A id \in DOMAIN aggregate(t) : aggregate(t)[id] = Net(t, id)
           /\ \A id : id \notin DOMAIN aggregate(t) => Net(t, id) = 0
<1> DEFINE S == {t[k].account : k \in DOMAIN t}
<1>1. S \subseteq D
  BY Legs
<1>2. aggregate(t) = [id \in S |-> Net(t, id)]
  BY DEF aggregate, Net, Amounts
<1>3. \A id : Net(t, id) \in Int
  BY Legs
<1>4. \A id : id \notin S => Net(t, id) = 0
  BY Legs
<1> HIDE DEF S
<1>5. [id \in S |-> Net(t, id)] \in [S -> Int] /\ S \in SUBSET Ids
  BY <1>1, <1>3
<1> QED
  BY <1>1, <1>2, <1>4, <1>5 DEF Transfers

(* A submission's record is the last one, and is found under its id. *)
LEMMA RecordsGrow ==
    ASSUME Shape, NEW t, NEW txid, NEW ok, NEW sequence, NEW signed, Logged(t, txid, ok, sequence, signed)
    PROVE  /\ records' \in Seq(Record) /\ Len(records') = Len(records) + 1
           /\ Len(records) \in Nat /\ DOMAIN records = 1 .. Len(records)
           /\ DOMAIN records' = 1 .. Len(records) + 1
           /\ \A i \in DOMAIN records : records'[i] = records[i] /\ records[i] \in Record
           /\ records'[Len(records) + 1]
                = [id |-> txid, ok |-> ok, transfers |-> aggregate(t), sequence |-> sequence]
           /\ hapi_by_id' \in [DOMAIN hapi_by_id' -> 1 .. Len(records')]
           /\ signers' = signed /\ signers' \subseteq Keys
<1> DEFINE r == [id |-> txid, ok |-> ok, transfers |-> aggregate(t), sequence |-> sequence]
<1>1. r \in Record
  BY AggregateIs DEF Logged, Record
<1>2. records \in Seq(Record) /\ records' = Append(records, r) /\ signers' = signed /\ signed \subseteq Keys
  BY DEF Logged, Consensus, Shape
<1>3. hapi_by_id' = [x \in DOMAIN hapi_by_id \cup {txid} |-> IF x = txid THEN Len(records) + 1 ELSE hapi_by_id[x]]
  BY DEF Logged, Consensus
<1>4. hapi_by_id \in [DOMAIN hapi_by_id -> 1 .. Len(records)]
  BY DEF Shape
<1> HIDE DEF r
<1>5. /\ records' \in Seq(Record) /\ Len(records') = Len(records) + 1 /\ Len(records) \in Nat
      /\ DOMAIN records = 1 .. Len(records) /\ DOMAIN records' = 1 .. Len(records) + 1
  BY <1>1, <1>2
<1>6. (\A i \in DOMAIN records : records'[i] = records[i] /\ records[i] \in Record) /\ records'[Len(records) + 1] = r
  BY <1>1, <1>2
<1>7. \A x \in DOMAIN hapi_by_id' : hapi_by_id'[x] \in 1 .. Len(records) + 1
  BY <1>3, <1>4, <1>5
<1>8. hapi_by_id' \in [DOMAIN hapi_by_id' -> 1 .. Len(records')]
  BY <1>3, <1>5, <1>7
<1> QED
  BY <1>2, <1>5, <1>6, <1>8 DEF r

(* What the accounts hold together. *)
Balances == SumFunction([id \in DOMAIN accounts |-> accounts[id].balance])

(* No submission creates or destroys tinybar. *)
LEMMA BalancesKept ==
    ASSUME Shape, accounts' \in [DOMAIN accounts' -> Account],
           NEW t, NEW txid, NEW ok, NEW sequence, NEW signed, Settled(t, txid, ok, sequence, signed)
    PROVE  Balances' = Balances /\ Balances \in Int
<1> DEFINE D == DOMAIN accounts
           E == DOMAIN accounts'
           b == [id \in E |-> Before(id)]
           n == [id \in E |-> Net(t, id)]
           c == [id \in D |-> accounts[id].balance]
           d == [id \in E |-> accounts'[id].balance]
<1>1. D \subseteq E /\ E \subseteq Ids /\ IsFiniteSet(E) /\ IsFiniteSet(D)
  BY IdsFinite, FS_Subset DEF Settled, Logged
<1>2. t \in Seq(Leg(E)) /\ Total(t) = 0
  BY DEF Settled, Logged
<1>3. \A id \in E : n[id] \in Int
  BY <1>2, Legs
<1>4. \A id \in D : accounts[id].balance \in Nat
  BY DEF Shape, Account
<1>5. \A id \in E : b[id] \in Int
  BY <1>4 DEF Before
<1>6. \A id \in E : d[id] = b[id] + n[id]
  BY DEF Settled
<1>7. \A id \in E \ D : b[id] = 0
  BY DEF Before
<1>8. \A id \in D : b[id] = c[id] /\ c[id] \in Int
  BY <1>1, <1>4 DEF Before
<1>9. SumFunctionOnSet(n, E) = 0
  BY <1>1, <1>2, NetOfAll
<1>10. Balances = SumFunctionOnSet(c, D)
  BY DEF Balances, SumFunction
<1>11. Balances' = SumFunctionOnSet(d, E)
  BY DEF Balances, SumFunction
<1> HIDE DEF b, n, c, d, D, E
<1>12. Integral(b, E) /\ Integral(n, E) /\ Integral(c, D)
  BY <1>3, <1>5, <1>8 DEF Integral
<1>13. SumFunctionOnSet(d, E) = SumFunctionOnSet(b, E) + SumFunctionOnSet(n, E)
  BY <1>1, <1>6, <1>12, SumPlus
<1>14. SumFunctionOnSet(b, E) = SumFunctionOnSet(b, D)
  BY <1>1, <1>7, <1>12, SumWithoutZeros
<1>15. SumFunctionOnSet(b, D) = SumFunctionOnSet(c, D)
  BY <1>1, <1>8, <1>12, SumEqual
<1>16. SumFunctionOnSet(c, D) \in Int
  BY <1>1, <1>12, SumAdd
<1> QED
  BY <1>9, <1>10, <1>11, <1>13, <1>14, <1>15, <1>16

(* A record's transfers are of accounts that are there. *)
LEMMA RecordedKept ==
    ASSUME Shape, Recorded,
           NEW t, NEW txid, NEW ok, NEW sequence, NEW signed, Logged(t, txid, ok, sequence, signed)
    PROVE  Recorded'
<1> DEFINE m == Len(records)
<1>1. /\ m \in Nat /\ DOMAIN records = 1 .. m /\ DOMAIN records' = 1 .. m + 1
      /\ \A i \in 1 .. m : records'[i] = records[i]
      /\ records'[m + 1].transfers = aggregate(t)
  <2>1. /\ Len(records) \in Nat /\ DOMAIN records = 1 .. Len(records)
        /\ DOMAIN records' = 1 .. Len(records) + 1
        /\ \A i \in DOMAIN records : records'[i] = records[i]
        /\ records'[Len(records) + 1]
             = [id |-> txid, ok |-> ok, transfers |-> aggregate(t), sequence |-> sequence]
    BY RecordsGrow
  <2>2. [id |-> txid, ok |-> ok, transfers |-> aggregate(t), sequence |-> sequence].transfers = aggregate(t)
    OBVIOUS
  <2> QED
    BY <2>1, <2>2
<1>2. DOMAIN accounts \subseteq DOMAIN accounts' /\ DOMAIN accounts' \subseteq Ids
      /\ t \in Seq(Leg(DOMAIN accounts'))
  BY DEF Logged
<1>3. DOMAIN aggregate(t) \subseteq DOMAIN accounts'
  BY <1>2, AggregateIs
<1> HIDE DEF m
<1>4. ASSUME NEW i \in 1 .. m PROVE DOMAIN records'[i].transfers \subseteq DOMAIN accounts'
  BY <1>1, <1>2 DEF Recorded
<1>5. DOMAIN records'[m + 1].transfers \subseteq DOMAIN accounts'
  BY <1>1, <1>3
<1>6. \A i \in 1 .. m + 1 : i \in 1 .. m \/ i = m + 1
  BY <1>1
<1> QED
  BY <1>1, <1>4, <1>5, <1>6 DEF Recorded

(* The records explain the balances. *)
LEMMA ExplanationKept ==
    ASSUME Shape, Recorded, RecordsExplainBalances,
           NEW t, NEW txid, NEW ok, NEW sequence, NEW signed, Settled(t, txid, ok, sequence, signed)
    PROVE  RecordsExplainBalances'
<1> DEFINE m == Len(records)
<1>1. /\ m \in Nat /\ DOMAIN records = 1 .. m /\ DOMAIN records' = 1 .. m + 1
      /\ \A i \in 1 .. m : records'[i] = records[i] /\ records[i] \in Record
      /\ records'[m + 1].transfers = aggregate(t)
  <2>1. /\ Len(records) \in Nat /\ DOMAIN records = 1 .. Len(records)
        /\ DOMAIN records' = 1 .. Len(records) + 1
        /\ \A i \in DOMAIN records : records'[i] = records[i] /\ records[i] \in Record
        /\ records'[Len(records) + 1]
             = [id |-> txid, ok |-> ok, transfers |-> aggregate(t), sequence |-> sequence]
    BY RecordsGrow DEF Settled
  <2>2. [id |-> txid, ok |-> ok, transfers |-> aggregate(t), sequence |-> sequence].transfers = aggregate(t)
    OBVIOUS
  <2> QED
    BY <2>1, <2>2
<1>2. /\ DOMAIN accounts \subseteq DOMAIN accounts' /\ DOMAIN accounts' \subseteq Ids
      /\ t \in Seq(Leg(DOMAIN accounts'))
      /\ \A id \in DOMAIN accounts' : accounts'[id].balance = Before(id) + Net(t, id)
  BY DEF Settled, Logged
<1>3. /\ DOMAIN aggregate(t) \subseteq DOMAIN accounts'
      /\ \A id \in DOMAIN aggregate(t) : aggregate(t)[id] = Net(t, id)
      /\ \A id : id \notin DOMAIN aggregate(t) => Net(t, id) = 0
      /\ \A id : Net(t, id) \in Int
  BY <1>2, AggregateIs, Legs
<1> HIDE DEF m
<1>5. ASSUME NEW id \in DOMAIN accounts' PROVE accounts'[id].balance = Replayed(id)'
  <2> DEFINE base == IF id \in GenesisIds THEN GenesisBalance(id) ELSE 0
             F == [i \in 1 .. m |-> IF id \in DOMAIN records[i].transfers THEN records[i].transfers[id] ELSE 0]
             G == [i \in 1 .. m + 1 |-> IF id \in DOMAIN records'[i].transfers THEN records'[i].transfers[id] ELSE 0]
  <2>1. Replayed(id) = base + SumFunctionOnSet(F, 1 .. m)
    BY <1>1 DEF Replayed, SumFunction
  <2>2. Replayed(id)' = base + SumFunctionOnSet(G, 1 .. m + 1)
    <3>1. Replayed(id)' = base + SumFunction(G)
      BY <1>1 DEF Replayed, GenesisBalance
    <3>2. DOMAIN G = 1 .. m + 1
      OBVIOUS
    <3> HIDE DEF G
    <3> QED
      BY <3>1, <3>2 DEF SumFunction
  <2>3. ASSUME NEW i \in 1 .. m PROVE F[i] \in Int
    <3>1. records[i] \in Record
      BY <1>1
    <3>2. PICK S \in SUBSET Ids : records[i].transfers \in [S -> Int]
      BY <3>1 DEF Record, Transfers
    <3> QED
      BY <3>2
  <2>4. \A i \in 1 .. m : G[i] = F[i]
    <3> TAKE i \in 1 .. m
    <3>1. i \in 1 .. m + 1
      BY <1>1
    <3> QED
      BY <3>1, <1>1
  <2>5. G[m + 1] = Net(t, id) /\ Net(t, id) \in Int
    <3>1. m + 1 \in 1 .. m + 1
      BY <1>1
    <3> QED
      BY <3>1, <1>1, <1>3
  <2>6. id \notin DOMAIN accounts => \A i \in 1 .. m : F[i] = 0
    BY <1>1 DEF Recorded
  <2>7. id \notin DOMAIN accounts => base = 0
    BY DEF Shape
  <2>8. base \in Int
    BY SMTT(120), LedgerAssumption, IdsFinite, FS_CardinalityType DEF GenesisBalance, GenesisIds
  <2>9. id \in DOMAIN accounts => Before(id) = Replayed(id)
    BY DEF Before, RecordsExplainBalances
  <2>10. id \notin DOMAIN accounts => Before(id) = 0
    BY DEF Before
  <2>11. accounts'[id].balance = Before(id) + Net(t, id)
    BY <1>2
  <2> HIDE DEF F, G, base
  <2>12. Integral(F, 1 .. m) /\ Integral(G, 1 .. m + 1) /\ IsFiniteSet(1 .. m) /\ IsFiniteSet(1 .. m + 1)
    <3>1. \A i \in 1 .. m + 1 : i \in 1 .. m \/ i = m + 1
      BY <1>1
    <3>2. IsFiniteSet(1 .. m) /\ IsFiniteSet(1 .. m + 1)
      <4>1. m \in Int /\ m + 1 \in Int /\ 1 \in Int
        BY <1>1
      <4> QED
        BY <4>1, FS_Interval
    <3>3. Integral(F, 1 .. m)
      BY <2>3 DEF Integral
    <3>4. ASSUME NEW i \in 1 .. m + 1 PROVE G[i] \in Int
      BY <3>1, <2>3, <2>4, <2>5
    <3>5. Integral(G, 1 .. m + 1)
      BY <3>4 DEF Integral
    <3> QED
      BY <3>2, <3>3, <3>5
  <2>13. SumFunctionOnSet(G, 1 .. m + 1) = SumFunctionOnSet(F, 1 .. m) + Net(t, id)
    <3>1. 1 .. m + 1 = (1 .. m) \cup {m + 1} /\ (1 .. m) \in SUBSET (1 .. m + 1) /\ m + 1 \in (1 .. m + 1) \ (1 .. m)
      BY <1>1
    <3>2. SumFunctionOnSet(G, (1 .. m) \cup {m + 1}) = SumFunctionOnSet(G, 1 .. m) + G[m + 1]
      <4>1. \A T \in SUBSET (1 .. m + 1) : \A x \in (1 .. m + 1) \ T :
               SumFunctionOnSet(G, T \cup {x}) = SumFunctionOnSet(G, T) + G[x]
        BY <2>12, SumAdd
      <4> QED
        BY <3>1, <4>1, Zenon
    <3>3. SumFunctionOnSet(G, 1 .. m) = SumFunctionOnSet(F, 1 .. m)
      BY <2>4, <2>12, SumEqual
    <3> QED
      BY <3>1, <3>2, <3>3, <2>5
  <2>14. SumFunctionOnSet(F, 1 .. m) \in Int
    <3>1. (1 .. m) \in SUBSET (1 .. m)
      OBVIOUS
    <3> QED
      BY <3>1, <2>12, SumAdd
  <2>15. id \notin DOMAIN accounts => SumFunctionOnSet(F, 1 .. m) = 0
    <3> SUFFICES ASSUME id \notin DOMAIN accounts PROVE SumFunctionOnSet(F, 1 .. m) = 0
      OBVIOUS
    <3>1. {} \in SUBSET (1 .. m) /\ \A i \in (1 .. m) \ {} : F[i] = 0
      BY <2>6
    <3>2. SumFunctionOnSet(F, 1 .. m) = SumFunctionOnSet(F, {})
      BY <3>1, <2>12, SumWithoutZeros
    <3>3. SumFunctionOnSet(F, {}) = 0
      BY <2>12, SumAdd
    <3> QED
      BY <3>2, <3>3
  <2>16. Before(id) = base + SumFunctionOnSet(F, 1 .. m)
    BY <2>1, <2>7, <2>9, <2>10, <2>15
  <2> QED
    BY <2>2, <2>5, <2>8, <2>11, <2>13, <2>14, <2>16
<1> QED
  BY <1>5 DEF RecordsExplainBalances

-----------------------------------------------------------------------------
(* What a body has done so far to the accounts D: their balances are what  *)
(* they were, and what the legs say, and the legs cancel out.              *)
Works(A, t, D) ==
  /\ DOMAIN accounts \subseteq D /\ D \subseteq Ids
  /\ A \in [D -> Account] /\ t \in Seq(Leg(D)) /\ Total(t) = 0
  /\ \A id \in D : Before(id) \in Int /\ A[id].balance = Before(id) + Net(t, id)

(* The accounts of B are those of A but for their balances. *)
Holds(B, A, D) ==
  \A id \in D : B[id].key = A[id].key /\ B[id].alias = A[id].alias /\ B[id].deleted = A[id].deleted

(* What a move changes a balance by. *)
Delta(id, from, to, amount) ==
  (IF id = to THEN amount ELSE 0) - (IF id = from THEN amount ELSE 0)

(* What one leg moves. *)
LEMMA OneLeg ==
    ASSUME NEW D, NEW a \in D, NEW n \in Int
    PROVE  LET t == << [account |-> a, amount |-> n] >>
           IN  /\ t \in Seq(Leg(D)) /\ Total(t) = n
               /\ \A id : Net(t, id) = IF id = a THEN n ELSE 0
<1> DEFINE x == [account |-> a, amount |-> n]
           t == << x >>
<1>1. x \in Leg(D) /\ x.account = a /\ x.amount = n
  BY DEF Leg
<1> HIDE DEF x
<1>2. t \in Seq(Leg(D)) /\ DOMAIN t = {1} /\ t[1] = x
  BY <1>1
<1> HIDE DEF t
<1>3. \A id : Net(t, id) = IF id = a THEN n ELSE 0
  BY <1>1, <1>2, Legs
<1>4. Total(t) = Net(t, a)
  <2>1. {k \in DOMAIN t : t[k].account = a} = DOMAIN t
    BY <1>1, <1>2
  <2> QED
    BY <2>1 DEF Total, Net
<1> QED
  BY <1>2, <1>3, <1>4 DEF t, x

(* The two legs of a move cancel out. *)
LEMMA TwoLegs ==
    ASSUME NEW D, NEW from \in D, NEW to \in D, NEW amount \in Int
    PROVE  LET t == << [account |-> from, amount |-> -amount], [account |-> to, amount |-> amount] >>
           IN  /\ t \in Seq(Leg(D)) /\ Total(t) = 0
               /\ \A id : Net(t, id) = Delta(id, from, to, amount)
<1> DEFINE x == [account |-> from, amount |-> -amount]
           y == [account |-> to, amount |-> amount]
<1>0. -amount \in Int
  OBVIOUS
<1> DEFINE p == << x >>
           q == << y >>
           r == << x, y >>
<1>1. p \in Seq(Leg(D)) /\ Total(p) = -amount /\ \A id : Net(p, id) = IF id = from THEN -amount ELSE 0
  BY <1>0, OneLeg
<1>2. q \in Seq(Leg(D)) /\ Total(q) = amount /\ \A id : Net(q, id) = IF id = to THEN amount ELSE 0
  BY OneLeg
<1>3. r = p \o q
  <2>1. x \in Leg(D) /\ y \in Leg(D)
    BY <1>0 DEF Leg
  <2> HIDE DEF x, y
  <2> DEFINE L == Leg(D)
  <2> HIDE DEF L
  <2>2. p \in Seq(L) /\ q \in Seq(L) /\ r \in Seq(L)
    BY <2>1 DEF L
  <2>3. Len(p) = 1 /\ p[1] = x /\ Len(q) = 1 /\ q[1] = y /\ Len(r) = 2 /\ r[1] = x /\ r[2] = y
    OBVIOUS
  <2> HIDE DEF p, q, r
  <2>4. /\ p \o q \in Seq(L) /\ Len(p \o q) = 2
        /\ \A i \in 1 .. 2 : (p \o q)[i] = IF i <= 1 THEN p[i] ELSE q[i - 1]
    <3>1. /\ p \o q \in Seq(L) /\ Len(p \o q) = Len(p) + Len(q)
          /\ \A i \in 1 .. Len(p) + Len(q) : (p \o q)[i] = IF i <= Len(p) THEN p[i] ELSE q[i - Len(p)]
      BY <2>2, ConcatProperties
    <3> QED
      BY <3>1, <2>3
  <2>5. \A i \in 1 .. 2 : r[i] = (p \o q)[i]
    BY <2>3, <2>4
  <2> QED
    BY <2>2, <2>3, <2>4, <2>5, SeqEqual
<1> HIDE DEF p, q, r
<1>4. r \in Seq(Leg(D)) /\ Total(r) = Total(p) + Total(q) /\ \A id : Net(r, id) = Net(p, id) + Net(q, id)
  BY <1>1, <1>2, <1>3, MoreLegs
<1>5. Total(r) = 0
  BY <1>1, <1>2, <1>4
<1>6. \A id : Net(r, id) = Delta(id, from, to, amount)
  BY <1>1, <1>2, <1>4 DEF Delta
<1> QED
  BY <1>4, <1>5, <1>6 DEF r

(* adjust changes one balance by the amount, when the balance covers it. *)
LEMMA AdjustIs ==
    ASSUME NEW D, NEW A \in [D -> Account], NEW a \in D, NEW n \in Int, A[a].balance + n >= 0
    PROVE  /\ adjust(A, a, n) \in [D -> Account] /\ Holds(adjust(A, a, n), A, D)
           /\ \A id \in D : adjust(A, a, n)[id].balance
                            = IF id = a THEN A[id].balance + n ELSE A[id].balance
           /\ \A id \in D : id # a => adjust(A, a, n)[id] = A[id]
<1>1. A[a] \in Account /\ A[a].balance \in Nat
  BY DEF Account
<1>2. adjust(A, a, n) = [A EXCEPT ![a] = [A[a] EXCEPT !.balance = A[a].balance + n]]
  <2>1. (IF A[a].balance + n < 0 THEN 0 ELSE A[a].balance + n) = A[a].balance + n
    BY <1>1
  <2> QED
    BY <2>1, Zenon DEF adjust
<1> DEFINE r == [A[a] EXCEPT !.balance = A[a].balance + n]
<1>3. r \in Account /\ r.balance = A[a].balance + n /\ r.key = A[a].key /\ r.alias = A[a].alias /\ r.deleted = A[a].deleted
  <2>1. A[a].balance + n \in Nat
    BY <1>1
  <2> QED
    BY <1>1, <2>1 DEF Account
<1> HIDE DEF r
<1>4. adjust(A, a, n) = [A EXCEPT ![a] = r]
  BY <1>2 DEF r
<1> QED
  BY <1>3, <1>4 DEF Holds

(* w is what a move of an amount makes of the accounts A. *)
Moved(w, A, D, from, to, amount) ==
  /\ Works(w.accounts, w.transfers, D) /\ Holds(w.accounts, A, D)
  /\ \A id \in D : w.accounts[id].balance = A[id].balance + Delta(id, from, to, amount)
  /\ \A id \in D : id # from /\ id # to => w.accounts[id] = A[id]
  /\ w = [accounts |-> w.accounts, transfers |-> w.transfers]

(* move_tinybar moves the amount, or leaves everything as it was. *)
LEMMA MoveIs ==
    ASSUME NEW A, NEW t, NEW D, Works(A, t, D), NEW from \in D, NEW to \in D, NEW amount \in Nat,
           A[from].balance >= amount
    PROVE  Moved(move_tinybar([accounts |-> A, transfers |-> t], from, to, amount), A, D, from, to, amount)
<1> DEFINE w == move_tinybar([accounts |-> A, transfers |-> t], from, to, amount)
           Goal == Moved(w, A, D, from, to, amount)
<1>1. A \in [D -> Account] /\ t \in Seq(Leg(D)) /\ Total(t) = 0
  BY DEF Works
<1>2. \A id \in D : A[id].balance \in Nat
  BY <1>1 DEF Account
<1>3. ASSUME amount = 0 PROVE Goal
  <2>1. w.accounts = A /\ w.transfers = t /\ w = [accounts |-> w.accounts, transfers |-> w.transfers]
    BY <1>3 DEF move_tinybar
  <2> HIDE DEF w
  <2>2. \A id \in D : w.accounts[id].balance = A[id].balance + Delta(id, from, to, amount)
    BY <2>1, <1>2, <1>3 DEF Delta
  <2> QED
    BY <2>1, <2>2 DEF Holds, Moved
<1>4. ASSUME amount # 0 PROVE Goal
  <2> DEFINE u == << [account |-> from, amount |-> -amount], [account |-> to, amount |-> amount] >>
             B == adjust(A, from, -amount)
             C == adjust(B, to, amount)
  <2>1. w.accounts = C /\ w.transfers = t \o u /\ w = [accounts |-> w.accounts, transfers |-> w.transfers]
    BY <1>4 DEF move_tinybar
  <2>2. u \in Seq(Leg(D)) /\ Total(u) = 0 /\ \A id : Net(u, id) = Delta(id, from, to, amount)
    BY TwoLegs
  <2>3. /\ B \in [D -> Account] /\ Holds(B, A, D)
        /\ \A id \in D : B[id].balance = IF id = from THEN A[id].balance + (-amount) ELSE A[id].balance
        /\ \A id \in D : id # from => B[id] = A[id]
    <3>1. -amount \in Int /\ A[from].balance + (-amount) >= 0
      BY <1>2
    <3> QED
      BY <3>1, <1>1, AdjustIs
  <2> HIDE DEF u, B, w
  <2>4. /\ C \in [D -> Account] /\ Holds(C, B, D)
        /\ \A id \in D : C[id].balance = IF id = to THEN B[id].balance + amount ELSE B[id].balance
        /\ \A id \in D : id # to => C[id] = B[id]
    <3>1. B[to].balance \in Nat
      BY <2>3 DEF Account
    <3>2. amount \in Int /\ B[to].balance + amount >= 0
      BY <3>1
    <3> QED
      BY <2>3, <3>2, AdjustIs
  <2> HIDE DEF C
  <2>5. t \o u \in Seq(Leg(D)) /\ Total(t \o u) = 0 /\ \A id : Net(t \o u, id) = Net(t, id) + Net(u, id)
    BY <1>1, <2>2, MoreLegs
  <2>6. \A id \in D : C[id].balance = A[id].balance + Delta(id, from, to, amount)
    BY <2>3, <2>4, <1>2 DEF Delta
  <2>7. \A id \in D : C[id].balance = Before(id) + Net(t \o u, id)
    <3> TAKE id \in D
    <3>1. A[id].balance = Before(id) + Net(t, id)
      BY DEF Works
    <3>2. Net(t, id) \in Int /\ Net(u, id) \in Int
      BY <1>1, <2>2, Legs
    <3>3. Before(id) \in Int
      BY DEF Works
    <3> QED
      BY <3>1, <3>2, <3>3, <2>2, <2>5, <2>6, <1>2
  <2>8. Works(C, t \o u, D)
    BY <2>4, <2>5, <2>7 DEF Works
  <2>9. Holds(C, A, D)
    BY <2>3, <2>4 DEF Holds
  <2>10. \A id \in D : id # from /\ id # to => C[id] = A[id]
    BY <2>3, <2>4
  <2> QED
    BY <2>1, <2>6, <2>8, <2>9, <2>10 DEF Moved
<1> QED
  BY <1>3, <1>4

-----------------------------------------------------------------------------
(* The fee moves from the payer to the collector, and nothing else.        *)
LEMMA ChargedIs ==
    ASSUME Shape, NEW payer, is_live(payer), accounts[payer].balance >= HAPI_FEE
    PROVE  LET w == Charged(payer)
               D == DOMAIN accounts
           IN  /\ Works(w.accounts, w.transfers, D) /\ Holds(w.accounts, accounts, D)
               /\ \A id \in D : w.accounts[id].balance
                                  = accounts[id].balance + Delta(id, payer, FEE_COLLECTOR, HAPI_FEE)
               /\ \A id \in D : id # payer /\ id # FEE_COLLECTOR => w.accounts[id] = accounts[id]
               /\ w = [accounts |-> w.accounts, transfers |-> w.transfers]
               /\ payer \in D /\ FEE_COLLECTOR \in D
<1> DEFINE D == DOMAIN accounts
<1>1. /\ accounts \in [D -> Account] /\ D \subseteq Ids
      /\ payer \in D /\ FEE_COLLECTOR \in D /\ HAPI_FEE \in Nat
  BY IdsFinite, LedgerAssumption DEF Shape, is_live
<1>2. \A id \in D : Before(id) = accounts[id].balance /\ accounts[id].balance \in Nat
  BY <1>1 DEF Before, Account
<1>3. << >> \in Seq(Leg(D)) /\ DOMAIN << >> = {}
  OBVIOUS
<1>4. \A id : Net(<< >>, id) = 0
  BY <1>3, Legs
<1>5. Total(<< >>) = 0
  <2>1. {k \in DOMAIN << >> : << >>[k].account = payer} = DOMAIN << >>
    BY <1>3
  <2> QED
    BY <1>4, <2>1 DEF Total, Net
<1>6. Works(accounts, << >>, D)
  <2>1. \A id \in D : Before(id) \in Int /\ accounts[id].balance = Before(id) + Net(<< >>, id)
    BY <1>2, <1>4
  <2> QED
    BY <1>1, <1>3, <1>5, <2>1 DEF Works
<1> HIDE DEF D
<1> QED
  <2>1. accounts[payer].balance >= HAPI_FEE
    OBVIOUS
  <2>2. Moved(Charged(payer), accounts, D, payer, FEE_COLLECTOR, HAPI_FEE)
    BY <1>1, <1>6, <2>1, MoveIs DEF Charged
  <2> QED
    BY <2>2, <1>1 DEF D, Moved

(* A submission that keeps the shape of the accounts keeps that of the     *)
(* ledger.                                                                 *)
LEMMA LoggedKeeps ==
    ASSUME Shape, Recorded,
           NEW t, NEW txid, NEW ok, NEW sequence, NEW signed, Logged(t, txid, ok, sequence, signed),
           accounts' \in [DOMAIN accounts' -> Account],
           by_evm' \in [DOMAIN by_evm' -> DOMAIN accounts'],
           next_id' \in FIRST_USER_ID .. MaxId + 1, DOMAIN topics' \subseteq Ids
    PROVE  Shape' /\ Recorded'
<1>1. DOMAIN accounts \subseteq DOMAIN accounts' /\ DOMAIN accounts' \subseteq Ids
  BY DEF Logged
<1>2. GenesisIds \subseteq DOMAIN accounts'
  BY <1>1 DEF Shape
<1>3. /\ records' \in Seq(Record) /\ hapi_by_id' \in [DOMAIN hapi_by_id' -> 1 .. Len(records')]
      /\ signers' \subseteq Keys
  BY RecordsGrow
<1>4. Shape'
  BY <1>1, <1>2, <1>3 DEF Shape
<1> QED
  BY <1>4, RecordedKept

(* What every submission does. *)
Submitted == \E t, txid, ok, sequence, signed : Settled(t, txid, ok, sequence, signed)

(* Accounts keep their aliases; a new one has an address a client wrote.   *)
Opens ==
  /\ \A id \in DOMAIN accounts : accounts'[id].alias = accounts[id].alias
  /\ \A id \in DOMAIN accounts' \ DOMAIN accounts : accounts'[id].alias \in Written

Kept ==
  /\ Base' /\ Submitted
  /\ DeletedAreEmpty => DeletedAreEmpty'
  /\ Opens

(* A submission that settles its legs keeps the tinybar. *)
LEMMA SubmittedKeeps ==
    ASSUME Shape, Recorded, TinybarAccountedFor, Shape', Submitted
    PROVE  TinybarAccountedFor'
<1>1. PICK t, txid, ok, sequence, signed : Settled(t, txid, ok, sequence, signed)
  BY DEF Submitted
<1>2. Balances' = Balances
  <2>1. accounts' \in [DOMAIN accounts' -> Account]
    BY DEF Shape
  <2> QED
    BY <1>1, <2>1, BalancesKept
<1>3. SupplyConserved'
  BY <1>2 DEF TinybarAccountedFor, SupplyConserved, Balances
<1>4. RecordsExplainBalances'
  BY <1>1, ExplanationKept DEF TinybarAccountedFor
<1> QED
  BY <1>3, <1>4 DEF TinybarAccountedFor

NewTopic(submit_key) ==
  [submit_key |-> submit_key, sequence_number |-> 0, running_hash |-> << >>, messages |-> << >>]

(* One topic is a chain: TopicsAreChains says so of each.                  *)
LastHash(x, n) == IF n = 0 THEN << >> ELSE x.messages[n].running_hash

Links(x, id) ==
  /\ x.sequence_number = Len(x.messages)
  /\ x.running_hash = LastHash(x, Len(x.messages))
  /\ \A n \in DOMAIN x.messages :
       x.messages[n].running_hash
         = running_hash_v3(LastHash(x, n - 1), x.messages[n].payer, id,
                           x.messages[n].consensus, n, x.messages[n].message)

(* Every topic is a chain of its own. *)
LEMMA ChainsAreLinks ==
  /\ TopicsAreChains <=> \A x \in DOMAIN topics : Links(topics[x], x)
  /\ TopicsAreChains' <=> \A x \in DOMAIN topics' : Links(topics'[x], x)
BY DEF TopicsAreChains, Links, LastHash

(* A record without a message, beside topics that are as they were or new. *)
LEMMA NoMessage ==
    ASSUME Shape, Chained, MessagesHaveRecords,
           NEW t, NEW txid, NEW ok, NEW signed, Logged(t, txid, ok, 0, signed),
           DOMAIN topics \subseteq DOMAIN topics',
           \A x \in DOMAIN topics : topics'[x] = topics[x],
           \A x \in DOMAIN topics' \ DOMAIN topics : \E key : topics'[x] = NewTopic(key)
    PROVE  Chained' /\ MessagesHaveRecords'
<1> DEFINE m == Len(records)
<1>1. /\ Len(records) \in Nat /\ DOMAIN records = 1 .. Len(records)
      /\ DOMAIN records' = 1 .. Len(records) + 1
      /\ \A i \in DOMAIN records : records'[i] = records[i] /\ records[i] \in Record
      /\ records'[Len(records) + 1]
           = [id |-> txid, ok |-> ok, transfers |-> aggregate(t), sequence |-> 0]
  BY RecordsGrow
<1>2. /\ m \in Nat /\ DOMAIN records = 1 .. m /\ DOMAIN records' = 1 .. m + 1
      /\ \A i \in 1 .. m : records'[i] = records[i]
      /\ records'[m + 1].sequence = 0
  BY <1>1
<1> HIDE DEF m
<1>3. \A i \in 1 .. m + 1 : i \in 1 .. m \/ i = m + 1
  BY <1>2
<1>4. \A i \in 1 .. m : i \in 1 .. m + 1
  BY <1>2
<1>5. ASSUME NEW x \in DOMAIN topics' \ DOMAIN topics
      PROVE  /\ topics'[x].messages = << >> /\ DOMAIN topics'[x].messages = {}
             /\ topics'[x].sequence_number = 0 /\ topics'[x].running_hash = << >>
             /\ Topic(topics'[x])
  <2>1. PICK key : topics'[x] = NewTopic(key)
    BY <1>5
  <2>2. Listed(<< >>)
    BY DEF Listed
  <2> QED
    BY <2>1, <2>2 DEF NewTopic, Topic
<1>6. Chained'
  <2>1. (\A x \in DOMAIN topics : Topic(topics[x])) /\ TopicsAreChains
    BY DEF Chained
  <2>2. \A x \in DOMAIN topics' : Topic(topics'[x])
    BY <1>5, <2>1
  <2>3. \A x \in DOMAIN topics' : Links(topics'[x], x)
    <3>1. \A x \in DOMAIN topics : Links(topics[x], x)
      BY <2>1, ChainsAreLinks
    <3>2. ASSUME NEW x \in DOMAIN topics' \ DOMAIN topics PROVE Links(topics'[x], x)
      <4>1. Len(<< >>) = 0 /\ DOMAIN << >> = {}
        OBVIOUS
      <4> QED
        BY <1>5, <4>1 DEF Links, LastHash
    <3> QED
      BY <3>1, <3>2
  <2> QED
    BY <2>2, <2>3, ChainsAreLinks DEF Chained
<1>7. ASSUME NEW x \in DOMAIN topics', NEW n \in DOMAIN topics'[x].messages
      PROVE  /\ topics'[x].messages[n].consensus \in 1 .. m
             /\ records'[topics'[x].messages[n].consensus].ok
             /\ records'[topics'[x].messages[n].consensus].id.payer = topics'[x].messages[n].payer
             /\ records'[topics'[x].messages[n].consensus].sequence = n
             /\ x \in DOMAIN topics /\ n \in DOMAIN topics[x].messages
  <2>1. x \in DOMAIN topics /\ n \in DOMAIN topics[x].messages /\ topics'[x] = topics[x]
    BY <1>7, <1>5
  <2>2. /\ topics[x].messages[n].consensus \in DOMAIN records
        /\ records[topics[x].messages[n].consensus].ok
        /\ records[topics[x].messages[n].consensus].id.payer = topics[x].messages[n].payer
        /\ records[topics[x].messages[n].consensus].sequence = n
    BY <2>1 DEF MessagesHaveRecords
  <2>3. topics[x].messages[n].consensus \in 1 .. m
    BY <2>2, <1>2
  <2>4. records'[topics[x].messages[n].consensus] = records[topics[x].messages[n].consensus]
    BY <2>3, <1>2
  <2> QED
    BY <2>1, <2>2, <2>3, <2>4
<1>8. ASSUME NEW i \in 1 .. m + 1, records'[i].sequence > 0
      PROVE  \E x \in DOMAIN topics' : \E n \in DOMAIN topics'[x].messages :
                /\ topics'[x].messages[n].consensus = i
                /\ \A u \in DOMAIN topics' : \A k \in DOMAIN topics'[u].messages :
                    topics'[u].messages[k].consensus = i => u = x /\ k = n
  <2>1. i \in 1 .. m /\ records[i].sequence > 0
    BY <1>8, <1>2, <1>3
  <2>2. PICK x \in DOMAIN topics : \E n \in DOMAIN topics[x].messages :
                /\ topics[x].messages[n].consensus = i
                /\ \A u \in DOMAIN topics : \A k \in DOMAIN topics[u].messages :
                    topics[u].messages[k].consensus = i => u = x /\ k = n
    BY <2>1, <1>2 DEF MessagesHaveRecords
  <2>3. PICK n \in DOMAIN topics[x].messages :
                /\ topics[x].messages[n].consensus = i
                /\ \A u \in DOMAIN topics : \A k \in DOMAIN topics[u].messages :
                    topics[u].messages[k].consensus = i => u = x /\ k = n
    BY <2>2
  <2>4. x \in DOMAIN topics' /\ n \in DOMAIN topics'[x].messages /\ topics'[x].messages[n].consensus = i
    BY <2>3
  <2>5. \A u \in DOMAIN topics' : \A k \in DOMAIN topics'[u].messages :
           topics'[u].messages[k].consensus = i => u = x /\ k = n
    BY <2>3, <1>7
  <2> QED
    BY <2>4, <2>5
<1>9. MessagesHaveRecords'
  <2>1. \A x \in DOMAIN topics' : \A n \in DOMAIN topics'[x].messages :
           /\ topics'[x].messages[n].consensus \in DOMAIN records'
           /\ records'[topics'[x].messages[n].consensus].ok
           /\ records'[topics'[x].messages[n].consensus].id.payer = topics'[x].messages[n].payer
           /\ records'[topics'[x].messages[n].consensus].sequence = n
    BY <1>2, <1>4, <1>7
  <2>2. \A i \in DOMAIN records' : records'[i].sequence > 0 =>
            \E x \in DOMAIN topics' : \E n \in DOMAIN topics'[x].messages :
                /\ topics'[x].messages[n].consensus = i
                /\ \A u \in DOMAIN topics' : \A k \in DOMAIN topics'[u].messages :
                    topics'[u].messages[k].consensus = i => u = x /\ k = n
    BY <1>2, <1>8
  <2> QED
    BY <2>1, <2>2, Zenon DEF MessagesHaveRecords
<1> QED
  BY <1>6, <1>9

-----------------------------------------------------------------------------
(* Submissions that move the fee and nothing else.                         *)
LEMMA FeeOnly ==
    ASSUME Shape, NEW txid \in TxIds, NEW must, NEW signed \in SUBSET Keys,
           Precheck(txid, must, signed), NEW ok \in BOOLEAN, NEW sequence \in Nat,
           accounts' = Charged(txid.payer).accounts,
           Consensus(txid, ok, Charged(txid.payer).transfers, sequence, signed)
    PROVE  /\ Settled(Charged(txid.payer).transfers, txid, ok, sequence, signed)
           /\ DOMAIN accounts' = DOMAIN accounts /\ accounts' \in [DOMAIN accounts -> Account]
           /\ DeletedAreEmpty => DeletedAreEmpty'
           /\ Opens
<1> DEFINE w == Charged(txid.payer)
           D == DOMAIN accounts
<1>1. is_live(txid.payer) /\ accounts[txid.payer].balance >= HAPI_FEE
  BY DEF Precheck
<1>2. /\ Works(w.accounts, w.transfers, D) /\ Holds(w.accounts, accounts, D)
      /\ \A id \in D : w.accounts[id].balance
                         = accounts[id].balance + Delta(id, txid.payer, FEE_COLLECTOR, HAPI_FEE)
      /\ \A id \in D : id # txid.payer /\ id # FEE_COLLECTOR => w.accounts[id] = accounts[id]
  BY <1>1, ChargedIs
<1>3. accounts' = w.accounts
  OBVIOUS
<1>4. Consensus(txid, ok, w.transfers, sequence, signed)
  OBVIOUS
<1> HIDE DEF w
<1>5. accounts' \in [D -> Account] /\ DOMAIN accounts' = D
  BY <1>2, <1>3 DEF Works
<1>6. Settled(w.transfers, txid, ok, sequence, signed)
  BY <1>2, <1>3, <1>4, <1>5 DEF Works, Settled, Logged
<1>7. ASSUME DeletedAreEmpty PROVE DeletedAreEmpty'
  <2>1. ASSUME NEW id \in D, id # FEE_COLLECTOR, accounts'[id].deleted PROVE accounts'[id].balance = 0
    <3>1. accounts[id].deleted
      BY <2>1, <1>2, <1>3 DEF Holds
    <3>2. id # txid.payer
      BY <3>1, <1>1 DEF is_live
    <3> QED
      BY <1>7, <2>1, <3>1, <3>2, <1>2, <1>3 DEF DeletedAreEmpty
  <2> QED
    BY <2>1, <1>5 DEF DeletedAreEmpty
<1>8. Opens
  BY <1>2, <1>3, <1>5 DEF Opens, Holds
<1> QED
  BY <1>5, <1>6, <1>7, <1>8 DEF w

(* A body that fails after the fee keeps the invariant. *)
LEMMA BodyFailsKeeps ==
    ASSUME Base, NEW txid \in TxIds, NEW must, NEW signed \in SUBSET Keys,
           Precheck(txid, must, signed), BodyFails(txid, signed)
    PROVE  Kept
<1> DEFINE t == Charged(txid.payer).transfers
<1>1. /\ accounts' = Charged(txid.payer).accounts /\ Consensus(txid, FALSE, t, 0, signed)
      /\ by_evm' = by_evm /\ next_id' = next_id /\ topics' = topics
  BY DEF BodyFails
<1>2. /\ Settled(t, txid, FALSE, 0, signed) /\ (DeletedAreEmpty => DeletedAreEmpty') /\ Opens
      /\ DOMAIN accounts' = DOMAIN accounts /\ accounts' \in [DOMAIN accounts -> Account]
  <2>1. Shape /\ FALSE \in BOOLEAN /\ 0 \in Nat
    BY DEF Base
  <2> QED
    BY <1>1, <2>1, FeeOnly
<1> HIDE DEF t
<1>3. Shape' /\ Recorded'
  <2>1. /\ by_evm' \in [DOMAIN by_evm' -> DOMAIN accounts'] /\ next_id' \in FIRST_USER_ID .. MaxId + 1
        /\ DOMAIN topics' \subseteq Ids
    BY <1>1, <1>2 DEF Base, Shape
  <2>2. Shape /\ Recorded
    BY DEF Base
  <2> QED
    BY <1>2, <2>1, <2>2, LoggedKeeps DEF Settled
<1>4. Chained' /\ MessagesHaveRecords'
  BY <1>1, <1>2, NoMessage DEF Base, Settled
<1>5. IdsFresh'
  BY <1>1, <1>2 DEF Base, IdsFresh
<1>6. Submitted
  BY <1>2, Zenon DEF Submitted
<1> QED
  BY <1>2, <1>3, <1>4, <1>5, <1>6 DEF Base, Kept

(* consensusCreateTopic keeps the invariant. *)
LEMMA CreateTopicKeeps ==
    ASSUME Base, NEW txid \in TxIds, NEW signed \in SUBSET Keys, NEW submit_key,
           CreateTopic(txid, signed, submit_key)
    PROVE  Kept
<1> DEFINE t == Charged(txid.payer).transfers
<1>1. /\ accounts' = Charged(txid.payer).accounts /\ Consensus(txid, TRUE, t, 0, signed)
      /\ Precheck(txid, {}, signed) /\ by_evm' = by_evm /\ next_id' = next_id + 1 /\ next_id <= MaxId
  BY DEF CreateTopic
<1>2. topics' = [id \in DOMAIN topics \cup {next_id} |->
                    IF id = next_id THEN NewTopic(submit_key) ELSE topics[id]]
  BY DEF CreateTopic, NewTopic
<1>3. /\ Settled(t, txid, TRUE, 0, signed) /\ (DeletedAreEmpty => DeletedAreEmpty') /\ Opens
      /\ DOMAIN accounts' = DOMAIN accounts /\ accounts' \in [DOMAIN accounts -> Account]
  <2>1. Shape /\ TRUE \in BOOLEAN /\ 0 \in Nat
    BY DEF Base
  <2> QED
    BY <1>1, <2>1, FeeOnly
<1> HIDE DEF t
<1>n. next_id \in FIRST_USER_ID .. MaxId /\ next_id + 1 \in FIRST_USER_ID .. MaxId + 1 /\ next_id \in Int
  BY <1>1, LedgerAssumption DEF Base, Shape
<1>f. IdsFresh /\ next_id \notin DOMAIN accounts \cup DOMAIN topics
  <2>1. \A id \in DOMAIN accounts \cup DOMAIN topics : id < next_id
    BY DEF Base, IdsFresh
  <2>2. ~(next_id < next_id)
    BY <1>n
  <2> QED
    BY <2>1, <2>2 DEF Base
<1>4. Shape' /\ Recorded'
  <2>1. /\ by_evm' \in [DOMAIN by_evm' -> DOMAIN accounts'] /\ next_id' \in FIRST_USER_ID .. MaxId + 1
    BY <1>1, <1>3, <1>n DEF Base, Shape
  <2>2. DOMAIN topics' \subseteq Ids
    BY <1>2, <1>n DEF Base, Shape, Ids
  <2>3. Shape /\ Recorded
    BY DEF Base
  <2> QED
    BY <1>3, <2>1, <2>2, <2>3, LoggedKeeps DEF Settled
<1>5. Chained' /\ MessagesHaveRecords'
  <2>1. DOMAIN topics \subseteq DOMAIN topics' /\ \A x \in DOMAIN topics : topics'[x] = topics[x]
    BY <1>2, <1>f
  <2>2. \A x \in DOMAIN topics' \ DOMAIN topics : \E key : topics'[x] = NewTopic(key)
    BY <1>2
  <2>3. Shape /\ Chained /\ MessagesHaveRecords
    BY DEF Base
  <2> QED
    BY <1>3, <2>1, <2>2, <2>3, NoMessage DEF Settled
<1>6. IdsFresh'
  <2>1. DOMAIN topics' = DOMAIN topics \cup {next_id}
    BY <1>2
  <2>2. ASSUME NEW id \in DOMAIN accounts' \cup DOMAIN topics' PROVE id < next_id'
    <3>1. (id < next_id /\ id \in Int) \/ id = next_id
      BY <2>1, <2>2, <1>3, <1>f, IdsFinite DEF IdsFresh, Base, Shape
    <3> QED
      BY <3>1, <1>1, <1>n
  <2> QED
    BY <2>1, <2>2, <1>3, <1>f DEF IdsFresh
<1>7. Submitted
  BY <1>3, Zenon DEF Submitted
<1> QED
  BY <1>3, <1>4, <1>5, <1>6, <1>7 DEF Base, Kept

(* One message more. *)
LEMMA Appended ==
    ASSUME NEW s, Listed(s), NEW e
    PROVE  /\ Len(s) \in Nat /\ DOMAIN s = 1 .. Len(s) /\ Len(Append(s, e)) = Len(s) + 1
           /\ DOMAIN Append(s, e) = 1 .. Len(s) + 1
           /\ \A n \in 1 .. Len(s) : Append(s, e)[n] = s[n]
           /\ Append(s, e)[Len(s) + 1] = e
           /\ Listed(Append(s, e))
<1> DEFINE S == {s[n] : n \in DOMAIN s}
           u == Append(s, e)
           U == {u[n] : n \in DOMAIN u}
<1>1. s \in Seq(S)
  BY DEF Listed
<1> HIDE DEF S
<1>2. s \in Seq(S \cup {e}) /\ e \in S \cup {e}
  BY <1>1
<1>3. /\ Len(s) \in Nat /\ DOMAIN s = 1 .. Len(s) /\ Len(u) = Len(s) + 1
      /\ DOMAIN u = 1 .. Len(s) + 1
      /\ \A n \in 1 .. Len(s) : u[n] = s[n]
      /\ u[Len(s) + 1] = e
  BY <1>2
<1> HIDE DEF u
<1>4. S \subseteq U
  <2>1. ASSUME NEW n \in 1 .. Len(s) PROVE s[n] \in U
    <3>1. n \in DOMAIN u /\ u[n] = s[n]
      BY <1>3
    <3> QED
      BY <3>1
  <2> QED
    BY <2>1, <1>3 DEF S
<1>5. e \in U
  <2>1. Len(s) + 1 \in DOMAIN u
    BY <1>3
  <2> QED
    BY <2>1, <1>3
<1> HIDE DEF U
<1>6. u \in Seq(U)
  <2>1. s \in Seq(U)
    BY <1>1, <1>4, SeqMonotonic
  <2> QED
    BY <2>1, <1>5 DEF u
<1> QED
  BY <1>3, <1>6 DEF u, U, Listed

(* consensusSubmitMessage keeps the invariant: the chain grows by one      *)
(* link, and its record is the last.                                       *)
LEMMA SubmitMessageKeeps ==
    ASSUME Base, NEW txid \in TxIds, NEW signed \in SUBSET Keys, NEW topic, NEW message,
           SubmitMessage(txid, signed, topic, message)
    PROVE  Kept
<1> DEFINE t == Charged(txid.payer).transfers
           x == topics[topic]
           number == x.sequence_number + 1
           hash == running_hash_v3(x.running_hash, txid.payer, topic, Len(records) + 1, number, message)
           y == WithMessage(x, number, hash, message, txid.payer)
           msg == [sequence_number |-> number, message |-> message, running_hash |-> hash,
                   consensus |-> Len(records) + 1, payer |-> txid.payer]
<1>1. Precheck(txid, SubmitKeys(topic), signed)
  BY DEF SubmitMessage
<1>2. ASSUME BodyFails(txid, signed) PROVE Kept
  BY <1>1, <1>2, BodyFailsKeeps
<1>3. ASSUME topic \in DOMAIN topics, accounts' = Charged(txid.payer).accounts,
             topics' = [topics EXCEPT ![topic] = y], Consensus(txid, TRUE, t, number, signed),
             by_evm' = by_evm, next_id' = next_id
      PROVE  Kept
  <2>1. Topic(x) /\ Links(x, topic)
    BY <1>3, ChainsAreLinks DEF Base, Chained
  <2> DEFINE L == Len(x.messages)
  <2>2. /\ L \in Nat /\ DOMAIN x.messages = 1 .. L /\ Len(Append(x.messages, msg)) = L + 1
        /\ DOMAIN Append(x.messages, msg) = 1 .. L + 1
        /\ \A n \in 1 .. L : Append(x.messages, msg)[n] = x.messages[n]
        /\ Append(x.messages, msg)[L + 1] = msg
        /\ Listed(Append(x.messages, msg))
    <3>1. Listed(x.messages)
      BY <2>1 DEF Topic
    <3> HIDE DEF msg, x
    <3> QED
      BY <3>1, Appended
  <2>3. x.sequence_number = L /\ x.running_hash = LastHash(x, L) /\ number = L + 1
    BY <2>1 DEF Links
  <2>4. /\ y.submit_key = x.submit_key /\ y.sequence_number = number /\ y.running_hash = hash
        /\ y.messages = Append(x.messages, msg) /\ Topic(y)
    <3>1. x = [submit_key |-> x.submit_key, sequence_number |-> x.sequence_number,
               running_hash |-> x.running_hash, messages |-> x.messages]
      BY <2>1 DEF Topic
    <3>2. y = [x EXCEPT !.sequence_number = number, !.running_hash = hash, !.messages = Append(@, msg)]
      BY DEF WithMessage
    <3> HIDE DEF x, y, number, hash, msg
    <3>3. y = [submit_key |-> x.submit_key, sequence_number |-> number, running_hash |-> hash,
               messages |-> Append(x.messages, msg)]
      BY <3>1, <3>2
    <3> QED
      BY <3>3, <2>2 DEF Topic
  <2>5. msg.running_hash = hash /\ msg.payer = txid.payer /\ msg.consensus = Len(records) + 1 /\ msg.message = message
    OBVIOUS
  <2>6. hash = running_hash_v3(LastHash(x, L), txid.payer, topic, Len(records) + 1, L + 1, message)
    BY <2>3
  <2> HIDE DEF x, y, number, hash, msg, L
  <2>a. \A n \in 1 .. L + 1 : n \in 1 .. L \/ n = L + 1
    BY <2>2
  <2>b. L + 1 \in 1 .. L + 1 /\ L + 1 - 1 = L /\ L + 1 # 0 /\ L + 1 \in Nat /\ L + 1 > 0
    BY <2>2
  <2>c. \A n \in 1 .. L : n \in 1 .. L + 1 /\ (n = 1 \/ n - 1 \in 1 .. L) /\ n # 0 /\ n # L + 1
    BY <2>2
  <2>7. \A n \in 1 .. L : y.messages[n] = x.messages[n]
    BY <2>2, <2>4
  <2>8. y.messages[L + 1] = msg /\ DOMAIN y.messages = 1 .. L + 1 /\ Len(y.messages) = L + 1
    BY <2>2, <2>4
  <2>9. Links(y, topic)
    <3>1. LastHash(y, L + 1) = hash
      BY <2>5, <2>8, <2>b DEF LastHash
    <3>2. \A n \in 0 .. L : LastHash(y, n) = LastHash(x, n)
      <4> TAKE n \in 0 .. L
      <4>1. n = 0 \/ n \in 1 .. L
        BY <2>2
      <4> QED
        BY <4>1, <2>7 DEF LastHash
    <3>3. ASSUME NEW n \in 1 .. L
          PROVE  y.messages[n].running_hash
                   = running_hash_v3(LastHash(y, n - 1), y.messages[n].payer, topic,
                                     y.messages[n].consensus, n, y.messages[n].message)
      <4>1. x.messages[n].running_hash
              = running_hash_v3(LastHash(x, n - 1), x.messages[n].payer, topic,
                                x.messages[n].consensus, n, x.messages[n].message)
        BY <2>1, <2>2, <3>3 DEF Links
      <4>2. n - 1 \in 0 .. L
        BY <2>2
      <4>3. LastHash(y, n - 1) = LastHash(x, n - 1) /\ y.messages[n] = x.messages[n]
        BY <4>2, <3>2, <2>7
      <4> QED
        BY <4>1, <4>3
    <3>4. ASSUME NEW n, n = L + 1
          PROVE  y.messages[n].running_hash
                   = running_hash_v3(LastHash(y, n - 1), y.messages[n].payer, topic,
                                     y.messages[n].consensus, n, y.messages[n].message)
      <4>1. LastHash(y, L) = LastHash(x, L)
        <5>1. L \in 0 .. L
          BY <2>2
        <5> QED
          BY <5>1, <3>2
      <4>2. n - 1 = L /\ y.messages[n] = msg
        BY <3>4, <2>2, <2>8
      <4> QED
        BY <4>1, <4>2, <3>4, <2>5, <2>6
    <3>5. \A n \in DOMAIN y.messages :
             y.messages[n].running_hash
               = running_hash_v3(LastHash(y, n - 1), y.messages[n].payer, topic,
                                 y.messages[n].consensus, n, y.messages[n].message)
      <4> TAKE n \in DOMAIN y.messages
      <4>1. n \in 1 .. L \/ n = L + 1
        BY <2>8, <2>a
      <4>2. CASE n \in 1 .. L
        BY <4>2, <3>3, Zenon
      <4>3. CASE n = L + 1
        BY <4>3, <3>4
      <4> QED
        BY <4>1, <4>2, <4>3
    <3>6. y.sequence_number = Len(y.messages) /\ y.running_hash = LastHash(y, Len(y.messages))
      BY <3>1, <2>3, <2>4, <2>8
    <3> QED
      BY <3>5, <3>6, Zenon DEF Links
  <2>10. Chained'
    <3>1. \A u \in DOMAIN topics : topics'[u] = IF u = topic THEN y ELSE topics[u]
      BY <1>3
    <3>2. DOMAIN topics' = DOMAIN topics
      BY <1>3
    <3>3. \A u \in DOMAIN topics : Topic(topics[u]) /\ Links(topics[u], u)
      BY ChainsAreLinks DEF Base, Chained
    <3>4. \A u \in DOMAIN topics' : Topic(topics'[u]) /\ Links(topics'[u], u)
      BY <3>1, <3>2, <3>3, <2>4, <2>9
    <3> QED
      BY <3>4, ChainsAreLinks DEF Chained
  <2>11. /\ Settled(t, txid, TRUE, number, signed) /\ (DeletedAreEmpty => DeletedAreEmpty') /\ Opens
         /\ DOMAIN accounts' = DOMAIN accounts /\ accounts' \in [DOMAIN accounts -> Account]
    <3>1. Shape /\ TRUE \in BOOLEAN /\ number \in Nat
      BY <2>3, <2>b DEF Base
    <3> QED
      BY <1>1, <1>3, <3>1, FeeOnly
  <2> HIDE DEF t
  <2>12. Shape' /\ Recorded'
    <3>1. /\ by_evm' \in [DOMAIN by_evm' -> DOMAIN accounts'] /\ next_id' \in FIRST_USER_ID .. MaxId + 1
          /\ DOMAIN topics' \subseteq Ids
      BY <1>3, <2>11 DEF Base, Shape
    <3>2. Shape /\ Recorded
      BY DEF Base
    <3> QED
      BY <2>11, <3>1, <3>2, LoggedKeeps DEF Settled
  <2>13. IdsFresh'
    BY <1>3, <2>11 DEF Base, IdsFresh
  <2>14. MessagesHaveRecords'
    <3> DEFINE m == Len(records)
    <3>1. /\ Len(records) \in Nat /\ DOMAIN records = 1 .. Len(records)
          /\ DOMAIN records' = 1 .. Len(records) + 1
          /\ \A i \in DOMAIN records : records'[i] = records[i]
          /\ records'[Len(records) + 1]
               = [id |-> txid, ok |-> TRUE, transfers |-> aggregate(t), sequence |-> number]
      <4>1. Shape
        BY DEF Base
      <4>2. PICK ok : ok = TRUE
        OBVIOUS
      <4>3. Settled(t, txid, ok, number, signed)
        BY <2>11, <4>2
      <4>4. /\ Len(records) \in Nat /\ DOMAIN records = 1 .. Len(records)
            /\ DOMAIN records' = 1 .. Len(records) + 1
            /\ \A i \in DOMAIN records : records'[i] = records[i]
            /\ records'[Len(records) + 1]
                 = [id |-> txid, ok |-> ok, transfers |-> aggregate(t), sequence |-> number]
        BY <4>1, <4>3, RecordsGrow DEF Settled
      <4> QED
        BY <4>2, <4>4
    <3>2. /\ m \in Nat /\ DOMAIN records = 1 .. m /\ DOMAIN records' = 1 .. m + 1
          /\ \A i \in 1 .. m : records'[i] = records[i]
          /\ records'[m + 1].sequence = L + 1 /\ records'[m + 1].ok /\ records'[m + 1].id.payer = txid.payer
      BY <3>1, <2>3
    <3>3. msg.consensus = m + 1 /\ msg.payer = txid.payer
      BY <2>5
    <3> HIDE DEF m
    <3>4. m + 1 \in 1 .. m + 1 /\ \A i \in 1 .. m : i \in 1 .. m + 1 /\ i # m + 1
      BY <3>2
    <3>5. \A i \in 1 .. m + 1 : i \in 1 .. m \/ i = m + 1
      BY <3>2
    <3>6. DOMAIN topics' = DOMAIN topics /\ topics'[topic] = y /\ topic \in DOMAIN topics
          /\ \A u \in DOMAIN topics : u # topic => topics'[u] = topics[u]
      BY <1>3
    <3>7. ASSUME NEW u \in DOMAIN topics, NEW n \in DOMAIN topics[u].messages
          PROVE  /\ n \in DOMAIN topics'[u].messages
                 /\ topics'[u].messages[n] = topics[u].messages[n]
                 /\ u = topic => n # L + 1
                 /\ topics'[u].messages[n].consensus \in 1 .. m
                 /\ records'[topics'[u].messages[n].consensus].ok
                 /\ records'[topics'[u].messages[n].consensus].id.payer = topics'[u].messages[n].payer
                 /\ records'[topics'[u].messages[n].consensus].sequence = n
      <4>1. /\ topics[u].messages[n].consensus \in DOMAIN records
            /\ records[topics[u].messages[n].consensus].ok
            /\ records[topics[u].messages[n].consensus].id.payer = topics[u].messages[n].payer
            /\ records[topics[u].messages[n].consensus].sequence = n
        BY <3>7 DEF Base, MessagesHaveRecords
      <4>2. n \in DOMAIN topics'[u].messages /\ topics'[u].messages[n] = topics[u].messages[n]
            /\ (u = topic => n # L + 1)
        <5>1. CASE u = topic
          <6>1. n \in 1 .. L
            BY <5>1, <2>2, <3>7 DEF x
          <6>2. x.messages[n] = topics[u].messages[n]
            BY <5>1 DEF x
          <6> QED
            BY <5>1, <6>1, <6>2, <2>7, <2>8, <2>c, <3>6
        <5>2. CASE u # topic
          BY <5>2, <3>6, <3>7
        <5> QED
          BY <5>1, <5>2
      <4>3. topics[u].messages[n].consensus \in 1 .. m
        BY <4>1, <3>2
      <4>4. records'[topics[u].messages[n].consensus] = records[topics[u].messages[n].consensus]
        BY <4>3, <3>2
      <4> QED
        BY <4>1, <4>2, <4>3, <4>4
    <3>8. ASSUME NEW u \in DOMAIN topics', NEW n \in DOMAIN topics'[u].messages
          PROVE  (u \in DOMAIN topics /\ n \in DOMAIN topics[u].messages) \/ (u = topic /\ n = L + 1)
      <4>1. CASE u = topic
        <5>1. n \in 1 .. L \/ n = L + 1
          BY <4>1, <3>6, <3>8, <2>8, <2>a
        <5> QED
          BY <4>1, <5>1, <2>2, <3>6 DEF x
      <4>2. CASE u # topic
        BY <4>2, <3>6, <3>8
      <4> QED
        BY <4>1, <4>2
    <3>9. /\ L + 1 \in DOMAIN topics'[topic].messages
          /\ topics'[topic].messages[L + 1].consensus = m + 1
          /\ topics'[topic].messages[L + 1].payer = txid.payer
      BY <3>3, <3>6, <2>8, <2>b
    <3>10. \A u \in DOMAIN topics' : \A n \in DOMAIN topics'[u].messages :
             /\ topics'[u].messages[n].consensus \in DOMAIN records'
             /\ records'[topics'[u].messages[n].consensus].ok
             /\ records'[topics'[u].messages[n].consensus].id.payer = topics'[u].messages[n].payer
             /\ records'[topics'[u].messages[n].consensus].sequence = n
      <4> TAKE u \in DOMAIN topics'
      <4> TAKE n \in DOMAIN topics'[u].messages
      <4>1. CASE u \in DOMAIN topics /\ n \in DOMAIN topics[u].messages
        BY <4>1, <3>2, <3>4, <3>7
      <4>2. CASE u = topic /\ n = L + 1
        BY <4>2, <3>2, <3>4, <3>9
      <4> QED
        BY <4>1, <4>2, <3>8
    <3>11. ASSUME NEW i \in 1 .. m + 1, records'[i].sequence > 0
           PROVE  \E u \in DOMAIN topics' : \E n \in DOMAIN topics'[u].messages :
                /\ topics'[u].messages[n].consensus = i
                /\ \A v \in DOMAIN topics' : \A k \in DOMAIN topics'[v].messages :
                    topics'[v].messages[k].consensus = i => v = u /\ k = n
      <4>1. CASE i \in 1 .. m
        <5>1. records[i].sequence > 0 /\ i \in DOMAIN records
          BY <3>11, <4>1, <3>2
        <5>2. PICK u \in DOMAIN topics : \E n \in DOMAIN topics[u].messages :
                /\ topics[u].messages[n].consensus = i
                /\ \A v \in DOMAIN topics : \A k \in DOMAIN topics[v].messages :
                    topics[v].messages[k].consensus = i => v = u /\ k = n
          BY <5>1 DEF Base, MessagesHaveRecords
        <5>3. PICK n \in DOMAIN topics[u].messages :
                /\ topics[u].messages[n].consensus = i
                /\ \A v \in DOMAIN topics : \A k \in DOMAIN topics[v].messages :
                    topics[v].messages[k].consensus = i => v = u /\ k = n
          BY <5>2
        <5>4. u \in DOMAIN topics' /\ n \in DOMAIN topics'[u].messages /\ topics'[u].messages[n].consensus = i
          BY <5>3, <3>6, <3>7
        <5>5. ASSUME NEW v \in DOMAIN topics', NEW k \in DOMAIN topics'[v].messages,
                     topics'[v].messages[k].consensus = i
              PROVE  v = u /\ k = n
          <6>1. CASE v \in DOMAIN topics /\ k \in DOMAIN topics[v].messages
            BY <6>1, <5>3, <5>5, <3>7
          <6>2. CASE v = topic /\ k = L + 1
            BY <6>2, <5>5, <4>1, <3>4, <3>9
          <6> QED
            BY <6>1, <6>2, <3>8
        <5> QED
          BY <5>4, <5>5
      <4>2. CASE i = m + 1
        <5>1. topic \in DOMAIN topics' /\ L + 1 \in DOMAIN topics'[topic].messages
              /\ topics'[topic].messages[L + 1].consensus = i
          BY <4>2, <3>6, <3>9
        <5>2. ASSUME NEW v \in DOMAIN topics', NEW k \in DOMAIN topics'[v].messages,
                     topics'[v].messages[k].consensus = i
              PROVE  v = topic /\ k = L + 1
          <6>1. ~(v \in DOMAIN topics /\ k \in DOMAIN topics[v].messages)
            BY <5>2, <4>2, <3>4, <3>7
          <6> QED
            BY SMTT(120), <6>1, <3>8
        <5> QED
          BY <5>1, <5>2
      <4> QED
        BY <4>1, <4>2, <3>5
    <3>12. \A i \in DOMAIN records' : records'[i].sequence > 0 =>
             \E u \in DOMAIN topics' : \E n \in DOMAIN topics'[u].messages :
                /\ topics'[u].messages[n].consensus = i
                /\ \A v \in DOMAIN topics' : \A k \in DOMAIN topics'[v].messages :
                    topics'[v].messages[k].consensus = i => v = u /\ k = n
      BY <3>2, <3>11
    <3> QED
      BY <3>10, <3>12, Zenon DEF MessagesHaveRecords
  <2>15. Submitted
    BY <2>11, Zenon DEF Submitted
  <2> QED
    BY <2>10, <2>11, <2>12, <2>13, <2>14, <2>15 DEF Base, Kept
<1> QED
  BY <1>2, <1>3 DEF SubmitMessage

(* What the sweep of a deleted account makes of the accounts the fee left. *)
Swept(payer, account, transfer_to) ==
  LET paid == Charged(payer)
      amount == paid.accounts[account].balance
  IN  Moved(move_tinybar(paid, account, transfer_to, amount), paid.accounts, DOMAIN accounts,
            account, transfer_to, amount)

(* A delete moves the whole balance the fee left.                          *)
LEMMA DeleteIs ==
    ASSUME Shape, NEW payer, is_live(payer), accounts[payer].balance >= HAPI_FEE,
           NEW account \in DOMAIN accounts, NEW transfer_to \in DOMAIN accounts
    PROVE  Swept(payer, account, transfer_to)
<1> DEFINE paid == Charged(payer)
           P == paid.accounts
           pt == paid.transfers
           amount == P[account].balance
           D == DOMAIN accounts
<1>1. Works(P, pt, D) /\ paid = [accounts |-> P, transfers |-> pt]
  BY ChargedIs
<1>2. amount \in Nat
  <2>1. P \in [D -> Account]
    BY <1>1 DEF Works
  <2> QED
    BY <2>1 DEF Account
<1>3. Moved(move_tinybar(paid, account, transfer_to, amount), P, D, account, transfer_to, amount)
  <2> DEFINE F == D
  <2>1. Works(P, pt, F) /\ account \in F /\ transfer_to \in F
    BY <1>1
  <2>2. P[account].balance >= amount
    BY <1>2
  <2> HIDE DEF paid, P, pt, amount, F, D
  <2>3. Moved(move_tinybar([accounts |-> P, transfers |-> pt], account, transfer_to, amount), P, F,
              account, transfer_to, amount)
    BY SMTT(120), <1>2, <2>1, <2>2, MoveIs
  <2> QED
    BY <2>3, <1>1, Zenon DEF F
<1> QED
  BY <1>3 DEF Swept

(* cryptoDelete keeps the invariant: the account is empty when it goes. *)
LEMMA DeleteKeeps ==
    ASSUME Base, NEW txid \in TxIds, NEW signed \in SUBSET Keys, NEW account, NEW transfer_to,
           Delete(txid, signed, account, transfer_to)
    PROVE  Kept
<1> DEFINE paid == Charged(txid.payer)
           P == paid.accounts
           amount == P[account].balance
           work == move_tinybar(paid, account, transfer_to, amount)
           D == DOMAIN accounts
<1>1. Precheck(txid, DeleteKeys(account), signed)
  BY DEF Delete
<1>2. ASSUME BodyFails(txid, signed) PROVE Kept
  BY <1>1, <1>2, BodyFailsKeeps
<1>3. ASSUME account # transfer_to, is_live(account), is_live(transfer_to),
             accounts' = [work.accounts EXCEPT ![account].deleted = TRUE],
             Consensus(txid, TRUE, work.transfers, 0, signed),
             by_evm' = by_evm, next_id' = next_id, topics' = topics
      PROVE  Kept
  <2>1. Shape /\ Recorded /\ Chained /\ MessagesHaveRecords
    BY DEF Base
  <2>2. is_live(txid.payer) /\ accounts[txid.payer].balance >= HAPI_FEE
    BY <1>1 DEF Precheck
  <2>3. /\ Works(P, paid.transfers, D) /\ Holds(P, accounts, D)
        /\ \A id \in D : id # txid.payer /\ id # FEE_COLLECTOR => P[id] = accounts[id]
        /\ paid = [accounts |-> P, transfers |-> paid.transfers]
    BY SMTT(120), <2>1, <2>2, ChargedIs
  <2>4. account \in D /\ transfer_to \in D
    BY <1>3 DEF is_live
  <2>5. P \in [D -> Account] /\ amount \in Nat
    <3>1. P \in [D -> Account]
      BY <2>3 DEF Works
    <3> QED
      BY <3>1, <2>4 DEF Account
  <2>6. /\ Works(work.accounts, work.transfers, D) /\ Holds(work.accounts, P, D)
        /\ \A id \in D : work.accounts[id].balance = P[id].balance + Delta(id, account, transfer_to, amount)
        /\ \A id \in D : id # account /\ id # transfer_to => work.accounts[id] = P[id]
    <3>1. Swept(txid.payer, account, transfer_to)
      BY SMTT(120), <2>1, <2>2, <2>4, DeleteIs
    <3> QED
      BY <3>1, Zenon DEF Swept, Moved
  <2>7. Consensus(txid, TRUE, work.transfers, 0, signed) /\ accounts' = [work.accounts EXCEPT ![account].deleted = TRUE]
    BY <1>3
  <2> HIDE DEF P, amount, work, paid
  <2>8. work.accounts \in [D -> Account] /\ work.transfers \in Seq(Leg(D))
    BY <2>6 DEF Works
  <2>9. /\ accounts' \in [D -> Account] /\ DOMAIN accounts' = D
        /\ \A id \in D : accounts'[id].balance = work.accounts[id].balance
        /\ \A id \in D : id # account => accounts'[id] = work.accounts[id]
    <3>1. accounts' = [work.accounts EXCEPT ![account] = [work.accounts[account] EXCEPT !.deleted = TRUE]]
      BY <2>7
    <3>2. /\ [work.accounts[account] EXCEPT !.deleted = TRUE] \in Account
          /\ [work.accounts[account] EXCEPT !.deleted = TRUE].balance = work.accounts[account].balance
      BY <2>4, <2>8 DEF Account
    <3> QED
      BY <3>1, <3>2, <2>4, <2>8
  <2>10. Settled(work.transfers, txid, TRUE, 0, signed)
    BY <2>6, <2>7, <2>9 DEF Works, Settled, Logged
  <2>11. Shape' /\ Recorded'
    <3>1. /\ by_evm' \in [DOMAIN by_evm' -> DOMAIN accounts'] /\ next_id' \in FIRST_USER_ID .. MaxId + 1
          /\ DOMAIN topics' \subseteq Ids
      BY <1>3, <2>1, <2>9 DEF Shape
    <3> QED
      BY <2>1, <2>9, <2>10, <3>1, LoggedKeeps DEF Settled
  <2>12. Chained' /\ MessagesHaveRecords'
    BY <1>3, <2>1, <2>10, NoMessage DEF Settled
  <2>13. ASSUME DeletedAreEmpty PROVE DeletedAreEmpty'
    <3>1. ASSUME NEW id \in D, id # FEE_COLLECTOR, accounts'[id].deleted PROVE accounts'[id].balance = 0
      <4>1. CASE id = account
        <5>1. accounts'[id].balance = P[id].balance + Delta(id, account, transfer_to, amount)
          BY <2>6, <2>9
        <5>2. P[id].balance = amount
          BY <4>1 DEF amount
        <5> QED
          BY <5>1, <5>2, <4>1, <2>5, <1>3 DEF Delta
      <4>2. CASE id # account
        <5>1. accounts'[id] = work.accounts[id] /\ work.accounts[id].deleted = P[id].deleted /\ P[id].deleted = accounts[id].deleted
          BY <4>2, <2>3, <2>6, <2>9 DEF Holds
        <5>2. accounts[id].deleted
          BY <5>1, <3>1
        <5>3. id # transfer_to /\ id # txid.payer
          BY <5>2, <1>3, <2>2 DEF is_live
        <5>4. accounts'[id] = accounts[id]
          BY <5>1, <5>3, <4>2, <3>1, <2>3, <2>6
        <5> QED
          BY <5>2, <5>4, <3>1, <2>13 DEF DeletedAreEmpty
      <4> QED
        BY <4>1, <4>2
    <3> QED
      BY <3>1, <2>9 DEF DeletedAreEmpty
  <2>14. IdsFresh'
    BY <1>3, <2>9 DEF Base, IdsFresh
  <2>15. Opens
    <3>1. ASSUME NEW id \in D PROVE accounts'[id].alias = accounts[id].alias
      <4>1. [work.accounts[account] EXCEPT !.deleted = TRUE].alias = work.accounts[account].alias
        BY <2>4, <2>8 DEF Account
      <4>2. accounts'[id].alias = work.accounts[id].alias
        BY <4>1, <2>4, <2>7, <2>8
      <4> QED
        BY <4>2, <2>3, <2>6 DEF Holds
    <3> QED
      BY <3>1, <2>9 DEF Opens
  <2>16. Submitted
    BY <2>10, Zenon DEF Submitted
  <2> QED
    BY <2>11, <2>12, <2>13, <2>14, <2>15, <2>16 DEF Base, Kept
<1> QED
  BY ZenonT(120), <1>2, <1>3 DEF Delete

-----------------------------------------------------------------------------
(* New accounts take the next ids.                                         *)
News(news) == {NewId(k) : k \in DOMAIN news}

(* B is A and the new accounts. *)
Joined(B, A, news) ==
  /\ B \in [DOMAIN accounts \cup News(news) -> Account]
  /\ \A id \in DOMAIN accounts : B[id] = A[id]
  /\ \A k \in DOMAIN news : B[NewId(k)] = news[k]

(* There is room for that many new accounts. *)
Room(news) ==
  /\ news \in Seq(Account)
  /\ next_id + Len(news) <= MaxId + 1

(* The ids of new accounts are distinct and were nobody's. *)
LEMMA NewIdsFresh ==
    ASSUME Shape, IdsFresh, NEW news, Room(news)
    PROVE  /\ \A k \in DOMAIN news : /\ NewId(k) \in Ids /\ NewId(k) < next_id + Len(news)
                                     /\ NewId(k) \notin DOMAIN accounts \cup DOMAIN topics
                                     /\ NewId(k) - next_id + 1 = k
                                     /\ NewId(k) \in Int /\ NewId(k) >= next_id
           /\ \A j, k \in DOMAIN news : NewId(j) = NewId(k) => j = k
           /\ next_id + Len(news) \in FIRST_USER_ID .. MaxId + 1
           /\ Len(news) \in Nat /\ DOMAIN news = 1 .. Len(news)
           /\ \A k \in DOMAIN news : news[k] \in Account
           /\ \A id \in DOMAIN accounts \cup DOMAIN topics : id < next_id + Len(news) /\ id \in Int
<1>1. next_id \in FIRST_USER_ID .. MaxId + 1 /\ FIRST_USER_ID \in Nat /\ MaxId \in Nat
  BY LedgerAssumption DEF Shape
<1>2. Len(news) \in Nat /\ DOMAIN news = 1 .. Len(news) /\ \A k \in DOMAIN news : news[k] \in Account
  BY DEF Room
<1>3. next_id + Len(news) <= MaxId + 1
  BY DEF Room
<1> DEFINE n == Len(news)
<1> HIDE DEF n
<1>4. ASSUME NEW k \in DOMAIN news
      PROVE  /\ NewId(k) \in FIRST_USER_ID .. MaxId /\ NewId(k) < next_id + n
             /\ ~(NewId(k) < next_id) /\ NewId(k) - next_id + 1 = k /\ NewId(k) >= next_id
  BY SMTT(120), <1>1, <1>2, <1>3, <1>4 DEF NewId, n
<1>5. \A j, k \in DOMAIN news : NewId(j) = NewId(k) => j = k
  BY <1>1, <1>2 DEF NewId
<1>6. \A id \in DOMAIN accounts \cup DOMAIN topics : id < next_id /\ id \in Int
  BY IdsFinite DEF Shape, IdsFresh
<1>7. \A id \in Int : id < next_id => id < next_id + n
  BY <1>1, <1>2 DEF n
<1>8. next_id + n \in FIRST_USER_ID .. MaxId + 1
  BY <1>1, <1>2, <1>3 DEF n
<1>9. \A k \in DOMAIN news : NewId(k) \notin DOMAIN accounts \cup DOMAIN topics
  BY <1>4, <1>6
<1>10. \A k \in DOMAIN news : NewId(k) \in Ids /\ NewId(k) \in Int
  BY <1>1, <1>4 DEF Ids
<1> QED
  BY <1>2, <1>4, <1>5, <1>6, <1>7, <1>8, <1>9, <1>10 DEF n

(* WithAccounts puts each new account under its own id. *)
LEMMA AccountsJoin ==
    ASSUME Shape, IdsFresh, NEW news, Room(news), NEW A \in [DOMAIN accounts -> Account]
    PROVE  Joined(WithAccounts(A, news), A, news)
<1> DEFINE D == DOMAIN accounts
           E == D \cup News(news)
           B == WithAccounts(A, news)
<1>1. \A k \in DOMAIN news : NewId(k) \notin D /\ NewId(k) - next_id + 1 = k /\ news[k] \in Account
  BY NewIdsFresh
<1>2. B = [id \in E |-> IF id \in D THEN A[id] ELSE news[id - next_id + 1]]
  BY DEF WithAccounts, News
<1> HIDE DEF B
<1>3. \A id \in D : B[id] = A[id]
  BY <1>2
<1>4. \A k \in DOMAIN news : B[NewId(k)] = news[k]
  <2> TAKE k \in DOMAIN news
  <2>1. NewId(k) \in E /\ NewId(k) \notin D
    BY <1>1 DEF News
  <2>2. B[NewId(k)] = news[NewId(k) - next_id + 1]
    BY <1>2, <2>1
  <2> QED
    BY <2>2, <1>1
<1>5. \A id \in E : B[id] \in Account
  <2> TAKE id \in E
  <2>1. CASE id \in D
    BY <2>1, <1>3
  <2>2. CASE id \in News(news)
    <3>1. PICK k \in DOMAIN news : id = NewId(k)
      BY <2>2 DEF News
    <3> QED
      BY <3>1, <1>1, <1>4
  <2> QED
    BY <2>1, <2>2
<1>6. B \in [E -> Account]
  BY <1>2, <1>5
<1> QED
  BY <1>3, <1>4, <1>6 DEF Joined, B

(* What the address index says once new accounts are in it. *)
LEMMA AddressesJoin ==
    ASSUME Shape, IdsFresh, NEW news, Room(news)
    PROVE  LET B == WithAddresses(news)
           IN  /\ B \in [DOMAIN B -> DOMAIN accounts \cup News(news)]
               /\ \A a : a \in DOMAIN B <=> a \in DOMAIN by_evm \/ Naming(news, a) # {}
               /\ \A a \in DOMAIN B : Naming(news, a) = {} => B[a] = by_evm[a]
               /\ \A a : Naming(news, a) # {} =>
                    \E k \in Naming(news, a) : B[a] = NewId(k)
<1> DEFINE B == WithAddresses(news)
           E == DOMAIN accounts \cup News(news)
<1>1. DOMAIN B = DOMAIN by_evm \cup {LongZero(NewId(k)) : k \in DOMAIN news}
                   \cup {evm_address(NewId(k), news[k]) : k \in DOMAIN news}
  BY DEF WithAddresses
<1>2. \A a \in DOMAIN B : B[a] = IF Naming(news, a) = {} THEN by_evm[a] ELSE NewId(Max(Naming(news, a)))
  BY DEF WithAddresses
<1>3. B = [a \in DOMAIN B |-> B[a]]
  BY DEF WithAddresses
<1> HIDE DEF B
<1>4. \A a : Naming(news, a) # {} <=>
         a \in {LongZero(NewId(k)) : k \in DOMAIN news} \cup {evm_address(NewId(k), news[k]) : k \in DOMAIN news}
  BY DEF Naming
<1>5. \A a : a \in DOMAIN B <=> a \in DOMAIN by_evm \/ Naming(news, a) # {}
  BY <1>1, <1>4
<1>6. ASSUME NEW a, Naming(news, a) # {} PROVE Max(Naming(news, a)) \in Naming(news, a)
  <2>1. Naming(news, a) \in SUBSET (DOMAIN news)
    BY DEF Naming
  <2>2. DOMAIN news = 1 .. Len(news) /\ Len(news) \in Nat
    BY NewIdsFresh
  <2>3. IsFiniteSet(Naming(news, a)) /\ Naming(news, a) \in SUBSET Int
    <3>1. IsFiniteSet(1 .. Len(news))
      BY <2>2, FS_Interval
    <3>2. IsFiniteSet(Naming(news, a))
      BY <2>1, <2>2, <3>1, FS_Subset
    <3>3. (1 .. Len(news)) \in SUBSET Int
      OBVIOUS
    <3> QED
      BY <2>1, <2>2, <3>2, <3>3
  <2> QED
    BY <1>6, <2>3, MaxIs
<1>7. \A a : Naming(news, a) # {} => \E k \in Naming(news, a) : B[a] = NewId(k)
  BY <1>2, <1>5, <1>6
<1>8. \A a \in DOMAIN B : Naming(news, a) = {} => B[a] = by_evm[a]
  BY <1>2
<1>9. ASSUME NEW a \in DOMAIN B PROVE B[a] \in E
  <2>1. CASE Naming(news, a) = {}
    <3>1. a \in DOMAIN by_evm /\ B[a] = by_evm[a]
      BY <2>1, <1>5, <1>8
    <3> QED
      BY <3>1 DEF Shape
  <2>2. CASE Naming(news, a) # {}
    <3>1. PICK k \in Naming(news, a) : B[a] = NewId(k)
      BY <2>2, <1>7
    <3>2. k \in DOMAIN news
      BY DEF Naming
    <3> QED
      BY <3>1, <3>2 DEF News
  <2> QED
    BY <2>1, <2>2
<1>10. B \in [DOMAIN B -> E]
  BY <1>3, <1>9
<1> QED
  BY <1>5, <1>7, <1>8, <1>10 DEF B

(* New accounts leave ids fresh and every address leading to an account. *)
LEMMA NewAccountsKeep ==
    ASSUME Shape, IdsFresh, NEW news, Room(news), DOMAIN accounts' = DOMAIN accounts \cup News(news),
           by_evm' = WithAddresses(news), next_id' = next_id + Len(news), topics' = topics
    PROVE  /\ by_evm' \in [DOMAIN by_evm' -> DOMAIN accounts']
           /\ next_id' \in FIRST_USER_ID .. MaxId + 1 /\ DOMAIN topics' \subseteq Ids
           /\ DOMAIN accounts' \subseteq Ids /\ IdsFresh'
<1>1. by_evm' \in [DOMAIN by_evm' -> DOMAIN accounts']
  BY AddressesJoin
<1>2. /\ next_id' \in FIRST_USER_ID .. MaxId + 1
      /\ \A k \in DOMAIN news : /\ NewId(k) \in Ids /\ NewId(k) < next_id'
                                /\ NewId(k) \notin DOMAIN topics
      /\ \A id \in DOMAIN accounts \cup DOMAIN topics : id < next_id'
  BY NewIdsFresh
<1>3. \A id \in News(news) : id \in Ids /\ id < next_id' /\ id \notin DOMAIN topics
  BY <1>2 DEF News
<1>4. IdsFresh'
  BY <1>2, <1>3 DEF IdsFresh
<1> QED
  BY <1>1, <1>2, <1>3, <1>4 DEF Shape

(* The payer can pay the fee and the amount, and there is an id to give.   *)
CanOpen(payer, amount) ==
  /\ is_live(payer) /\ accounts[payer].balance >= HAPI_FEE /\ next_id <= MaxId
  /\ Charged(payer).accounts[payer].balance >= amount

(* What a new account with its initial balance makes of the accounts.      *)
Opened(payer, news, alias, amount) ==
  LET paid == Charged(payer)
      B    == WithAccounts(paid.accounts, news)
      work == move_tinybar([paid EXCEPT !.accounts = WithAccounts(@, news)], payer, next_id, amount)
  IN  /\ Room(news) /\ Len(news) = 1 /\ DOMAIN news = {1} /\ News(news) = {next_id} /\ NewId(1) = next_id
      /\ news[1].alias = alias /\ news[1].deleted = FALSE /\ next_id \notin DOMAIN accounts
      /\ Joined(B, paid.accounts, news)
      /\ Moved(work, B, DOMAIN accounts \cup News(news), payer, next_id, amount)

(* cryptoCreateAccount opens the account empty, then moves the initial     *)
(* balance to it.                                                          *)
LEMMA CreateAccountIs ==
    ASSUME Shape, IdsFresh, NEW payer, NEW key \in Keys, NEW alias \in Aliases \cup {NoAlias},
           NEW initial_balance \in Nat, CanOpen(payer, initial_balance)
    PROVE  Opened(payer, << NewAccount(key, alias, 0) >>, alias, initial_balance)
<1> DEFINE paid == Charged(payer)
           P == paid.accounts
           pt == paid.transfers
           news == << NewAccount(key, alias, 0) >>
           B == WithAccounts(P, news)
           work == move_tinybar([paid EXCEPT !.accounts = WithAccounts(@, news)],
                                payer, next_id, initial_balance)
           D == DOMAIN accounts
           E == D \cup News(news)
<1>0. next_id <= MaxId
  BY DEF CanOpen
<1>3. /\ Works(P, pt, D) /\ Holds(P, accounts, D) /\ payer \in D
      /\ paid = [accounts |-> P, transfers |-> pt]
  BY ChargedIs DEF CanOpen
<1>4. /\ Room(news) /\ Len(news) = 1 /\ DOMAIN news = {1} /\ news[1].deleted = FALSE
      /\ news[1].balance = 0 /\ news[1].alias = alias /\ NewId(1) = next_id /\ next_id \in Int
  <2>1. NewAccount(key, alias, 0) \in Account
    BY DEF NewAccount, Account, Addresses, Written
  <2>2. next_id \in Int /\ MaxId \in Nat
    BY LedgerAssumption DEF Shape
  <2>3. NewId(1) = next_id
    BY <2>2 DEF NewId
  <2>4. NewAccount(key, alias, 0).deleted = FALSE /\ NewAccount(key, alias, 0).balance = 0
         /\ NewAccount(key, alias, 0).alias = alias
    BY DEF NewAccount
  <2> DEFINE a == NewAccount(key, alias, 0)
  <2> HIDE DEF a
  <2>5. news \in Seq(Account) /\ Len(news) = 1 /\ DOMAIN news = {1} /\ news[1] = a
    BY <2>1 DEF a
  <2> HIDE DEF news
  <2>6. Room(news)
    BY <2>2, <2>5, <1>0 DEF Room
  <2> QED
    BY <2>2, <2>3, <2>4, <2>5, <2>6 DEF a
<1>5. work = move_tinybar([accounts |-> B, transfers |-> pt], payer, next_id, initial_balance)
  <2>1. [paid EXCEPT !.accounts = WithAccounts(@, news)] = [accounts |-> B, transfers |-> pt]
    <3> HIDE DEF news, paid
    <3>1. paid = [accounts |-> P, transfers |-> pt]
      BY <1>3
    <3> QED
      BY <3>1
  <2> QED
    BY <2>1
<1>7. P[payer].balance >= initial_balance
  BY DEF CanOpen
<1> HIDE DEF paid, P, pt, news, work
<1>8. Joined(B, P, news)
  <2>1. P \in [D -> Account]
    BY <1>3 DEF Works
  <2> QED
    BY <1>4, <2>1, AccountsJoin
<1>9. News(news) = {next_id}
  BY <1>4 DEF News
<1>10. next_id \notin D /\ next_id \in Ids
  BY <1>4, NewIdsFresh
<1>11. Works(B, pt, E)
  <2>1. D \subseteq E /\ E \subseteq Ids
    BY <1>9, <1>10 DEF Shape
  <2>2. B \in [E -> Account]
    BY <1>8 DEF Joined
  <2>3. pt \in Seq(Leg(D)) /\ Total(pt) = 0
    BY <1>3 DEF Works
  <2>4. pt \in Seq(Leg(E))
    <3>1. Leg(D) \subseteq Leg(E)
      BY <2>1 DEF Leg
    <3> QED
      BY <2>3, <3>1, SeqMonotonic
  <2>5. ASSUME NEW id \in D PROVE Before(id) \in Int /\ B[id].balance = Before(id) + Net(pt, id)
    BY <1>3, <1>8 DEF Works, Joined
  <2>6. Before(next_id) = 0 /\ Net(pt, next_id) = 0 /\ B[next_id].balance = 0
    <3>1. \A k \in DOMAIN pt : pt[k].account # next_id
      BY <2>3, <1>10, Legs
    <3>2. Net(pt, next_id) = 0
      BY <3>1, <2>3, Legs
    <3>3. B[NewId(1)] = news[1]
      BY <1>4, <1>8 DEF Joined
    <3> QED
      BY <3>2, <3>3, <1>4, <1>10 DEF Before
  <2>7. \A id \in E : Before(id) \in Int /\ B[id].balance = Before(id) + Net(pt, id)
    BY <2>5, <2>6, <1>9
  <2> QED
    BY <2>1, <2>2, <2>3, <2>4, <2>7 DEF Works
<1>12. Moved(work, B, E, payer, next_id, initial_balance)
  <2>1. B[payer].balance >= initial_balance
    BY <1>3, <1>7, <1>8 DEF Joined
  <2>2. payer \in E /\ next_id \in E
    BY <1>3, <1>9
  <2> DEFINE F == E
  <2>3. Works(B, pt, F) /\ payer \in F /\ next_id \in F
    BY <2>2, <1>11
  <2> HIDE DEF F, B
  <2>4. Moved(move_tinybar([accounts |-> B, transfers |-> pt], payer, next_id, initial_balance),
              B, F, payer, next_id, initial_balance)
    BY <2>1, <2>3, <1>7, MoveIs
  <2> QED
    BY <2>4, <1>5 DEF F
<1>13. Opened(payer, news, alias, initial_balance)
  <2> HIDE DEF B
  <2> QED
    BY <1>4, <1>8, <1>9, <1>10, <1>12, Zenon DEF Opened, paid, P, work, B
<1> QED
  BY <1>13 DEF news

(* cryptoCreateAccount keeps the invariant. *)
LEMMA CreateAccountKeeps ==
    ASSUME Base, NEW txid \in TxIds, NEW signed \in SUBSET Keys,
           NEW key \in Keys, NEW alias \in Aliases \cup {NoAlias}, NEW initial_balance \in InitialBalances,
           CreateAccount(txid, signed, key, alias, initial_balance)
    PROVE  Kept
<1> DEFINE paid == Charged(txid.payer)
           P == paid.accounts
           pt == paid.transfers
           news == << NewAccount(key, alias, 0) >>
           B == WithAccounts(P, news)
           work == move_tinybar([paid EXCEPT !.accounts = WithAccounts(@, news)],
                                txid.payer, next_id, initial_balance)
           D == DOMAIN accounts
           E == D \cup News(news)
<1>1. Precheck(txid, {}, signed) /\ next_id <= MaxId
  BY DEF CreateAccount
<1>2. ASSUME BodyFails(txid, signed) PROVE Kept
  BY <1>1, <1>2, BodyFailsKeeps
<1>3. ASSUME P[txid.payer].balance >= initial_balance, accounts' = work.accounts,
             by_evm' = WithAddresses(news), next_id' = next_id + 1,
             Consensus(txid, TRUE, work.transfers, 0, signed), topics' = topics
      PROVE  Kept
  <2>1. /\ Shape /\ Recorded /\ Chained /\ MessagesHaveRecords
        /\ IdsFresh
    BY DEF Base
  <2>2. is_live(txid.payer) /\ accounts[txid.payer].balance >= HAPI_FEE
    BY <1>1 DEF Precheck
  <2>3. /\ Holds(P, accounts, D)
        /\ \A id \in D : id # txid.payer /\ id # FEE_COLLECTOR => P[id] = accounts[id]
    BY <2>1, <2>2, ChargedIs
  <2>4. /\ Room(news) /\ Len(news) = 1 /\ DOMAIN news = {1} /\ News(news) = {next_id}
        /\ NewId(1) = next_id /\ news[1].deleted = FALSE /\ news[1].alias = alias /\ next_id \notin D
        /\ Joined(B, P, news) /\ Moved(work, B, E, txid.payer, next_id, initial_balance)
    <3>1. initial_balance \in Nat
      BY LedgerAssumption
    <3>p. CanOpen(txid.payer, initial_balance)
      BY <1>1, <1>3, <2>2 DEF CanOpen
    <3>2. Opened(txid.payer, news, alias, initial_balance)
      BY <2>1, <3>1, <3>p, CreateAccountIs
    <3> HIDE DEF news
    <3> QED
      BY <3>2, Zenon DEF Opened
  <2>6. accounts' = work.accounts /\ Consensus(txid, TRUE, work.transfers, 0, signed) /\ by_evm' = WithAddresses(news)
    BY <1>3
  <2> HIDE DEF paid, P, pt, news, work, B
  <2>13. accounts' \in [E -> Account] /\ DOMAIN accounts' = E
    BY <2>6, <2>4 DEF Moved, Works
  <2>14. Settled(work.transfers, txid, TRUE, 0, signed)
    BY <2>6, <2>4, <2>13 DEF Moved, Works, Settled, Logged
  <2>15. /\ by_evm' \in [DOMAIN by_evm' -> DOMAIN accounts']
         /\ next_id' \in FIRST_USER_ID .. MaxId + 1 /\ DOMAIN topics' \subseteq Ids /\ IdsFresh'
    <3>1. next_id' = next_id + Len(news)
      BY <1>3, <2>4
    <3> QED
      BY <1>3, <2>1, <2>4, <2>6, <2>13, <3>1, NewAccountsKeep
  <2>16. Shape' /\ Recorded'
    BY <2>1, <2>13, <2>14, <2>15, LoggedKeeps DEF Settled
  <2>17. Chained' /\ MessagesHaveRecords'
    BY <1>3, <2>1, <2>14, NoMessage DEF Settled
  <2>18. ASSUME DeletedAreEmpty PROVE DeletedAreEmpty'
    <3>1. ASSUME NEW id \in E, id # FEE_COLLECTOR, accounts'[id].deleted PROVE accounts'[id].balance = 0
      <4>1. work.accounts[id].deleted = B[id].deleted /\ accounts'[id] = work.accounts[id]
        BY <2>6, <2>4 DEF Moved, Holds
      <4>2. id # next_id
        <5>1. B[NewId(1)] = news[1]
          BY <2>4, <2>4 DEF Joined
        <5> QED
          BY <5>1, <4>1, <3>1, <2>4
      <4>3. id \in D
        BY <4>2, <2>4
      <4>4. B[id] = P[id] /\ P[id].deleted = accounts[id].deleted
        BY <4>3, <2>3, <2>4 DEF Joined, Holds
      <4>5. accounts[id].deleted
        BY <3>1, <4>1, <4>4
      <4>6. id # txid.payer
        BY <4>5, <2>2 DEF is_live
      <4>7. work.accounts[id] = B[id] /\ P[id] = accounts[id]
        BY <4>2, <4>3, <4>6, <3>1, <2>3, <2>4 DEF Moved
      <4> QED
        BY <4>1, <4>3, <4>4, <4>5, <4>7, <3>1, <2>18 DEF DeletedAreEmpty
    <3> QED
      BY <3>1, <2>13 DEF DeletedAreEmpty
  <2>19. Opens
    <3>1. ASSUME NEW id \in E PROVE accounts'[id].alias = B[id].alias
      BY <2>4, <2>6 DEF Moved, Holds
    <3>2. ASSUME NEW id \in D PROVE B[id].alias = accounts[id].alias
      BY <2>3, <2>4 DEF Joined, Holds
    <3>3. B[next_id].alias = alias
      <4>1. B[NewId(1)] = news[1]
        BY <2>4 DEF Joined
      <4> QED
        BY <4>1, <2>4
    <3>4. alias \in Written
      BY DEF Written
    <3> QED
      BY <3>1, <3>2, <3>3, <3>4, <2>4, <2>13 DEF Opens
  <2>20. Submitted
    BY <2>14, Zenon DEF Submitted
  <2> QED
    BY <2>15, <2>16, <2>17, <2>18, <2>19, <2>20 DEF Base, Kept
<1> QED
  BY <1>2, <1>3 DEF CreateAccount

-----------------------------------------------------------------------------
(* o enumerates a set of numbers in increasing order. *)
Enumerates(o, S) ==
  /\ o \in [1 .. Cardinality(S) -> S]
  /\ \A i, j \in DOMAIN o : i < j => o[i] < o[j]

(* A set of positions can be enumerated in order. *)
LEMMA EnumerationExists ==
    ASSUME NEW n \in Nat, NEW S \in SUBSET (1 .. n)
    PROVE  \E o : Enumerates(o, S)
<1> DEFINE N == {k \in Nat : \A T \in SUBSET (1 .. k) : \E o : Enumerates(o, T)}
<1>1. 0 \in N
  <2> SUFFICES ASSUME NEW T \in SUBSET (1 .. 0) PROVE \E o : Enumerates(o, T)
    OBVIOUS
  <2>1. T = {} /\ Cardinality(T) = 0
    <3>1. T = {}
      OBVIOUS
    <3>2. Cardinality({}) = 0
      BY FS_EmptySet
    <3> QED
      BY <3>1, <3>2, Zenon
  <2>2. << >> \in [1 .. 0 -> {}] /\ DOMAIN << >> = {}
    OBVIOUS
  <2>3. Enumerates(<< >>, T)
    BY <2>1, <2>2 DEF Enumerates
  <2> QED
    BY <2>3
<1>2. ASSUME NEW k \in Nat, k \in N PROVE k + 1 \in N
  <2> SUFFICES ASSUME NEW T \in SUBSET (1 .. k + 1) PROVE \E o : Enumerates(o, T)
    OBVIOUS
  <2>1. ASSUME NEW Q \in SUBSET (1 .. k) PROVE \E o : Enumerates(o, Q)
    BY <1>2
  <2> HIDE DEF N
  <2>2. CASE k + 1 \notin T
    <3>1. T \in SUBSET (1 .. k)
      BY <2>2
    <3> QED
      BY <3>1, <2>1
  <2>3. CASE k + 1 \in T
    <3> DEFINE Q == T \ {k + 1}
               c == Cardinality(Q)
    <3>1. Q \in SUBSET (1 .. k)
      OBVIOUS
    <3>2. IsFiniteSet(T)
      <4>1. IsFiniteSet(1 .. k + 1)
        BY FS_Interval
      <4> QED
        BY <4>1, FS_Subset
    <3>3. c = Cardinality(T) - 1 /\ c \in Nat /\ Cardinality(T) \in Nat
      BY <2>3, <3>2, OneLess, FS_RemoveElement, FS_CardinalityType
    <3>4. PICK p : Enumerates(p, Q)
      BY <3>1, <2>1
    <3>5. p \in [1 .. c -> Q] /\ \A i, j \in 1 .. c : i < j => p[i] < p[j]
      BY <3>4 DEF Enumerates
    <3> HIDE DEF c
    <3> DEFINE o == [i \in 1 .. c + 1 |-> IF i = c + 1 THEN k + 1 ELSE p[i]]
    <3>6. \A i \in 1 .. c + 1 : i = c + 1 \/ i \in 1 .. c
      BY <3>3
    <3>7. o \in [1 .. c + 1 -> T]
      BY <2>3, <3>5, <3>6
    <3>8. ASSUME NEW i \in 1 .. c + 1, NEW j \in 1 .. c + 1, i < j PROVE o[i] < o[j]
      <4>1. i \in 1 .. c /\ i # c + 1
        BY <3>3, <3>8
      <4>2. o[i] = p[i] /\ p[i] \in 1 .. k
        BY <4>1, <3>1, <3>5
      <4>3. CASE j = c + 1
        BY <4>2, <4>3
      <4>4. CASE j # c + 1
        <5>1. j \in 1 .. c /\ o[j] = p[j]
          BY <4>4, <3>6
        <5> QED
          BY <5>1, <4>1, <4>2, <3>5, <3>8
      <4> QED
        BY <4>3, <4>4
    <3>9. Cardinality(T) = c + 1
      BY <3>3
    <3>10. DOMAIN o = 1 .. c + 1
      OBVIOUS
    <3> HIDE DEF o
    <3>11. Enumerates(o, T)
      BY <3>7, <3>8, <3>9, <3>10 DEF Enumerates
    <3> QED
      BY <3>11
  <2> QED
    BY <2>2, <2>3
<1> HIDE DEF N
<1>3. n \in N
  BY <1>1, <1>2, Induction
<1> QED
  BY <1>3 DEF N

(* InOrder enumerates a set of positions, each once. *)
LEMMA InOrderIs ==
    ASSUME NEW n \in Nat, NEW S \in SUBSET (1 .. n)
    PROVE  /\ Cardinality(S) \in Nat /\ InOrder(S) \in [1 .. Cardinality(S) -> S]
           /\ \A i, j \in 1 .. Cardinality(S) : InOrder(S)[i] = InOrder(S)[j] => i = j
           /\ \A k \in S : \E i \in 1 .. Cardinality(S) : InOrder(S)[i] = k
<1> DEFINE o == InOrder(S)
           c == Cardinality(S)
<1>1. IsFiniteSet(S) /\ c \in Nat
  <2>1. IsFiniteSet(1 .. n)
    BY FS_Interval
  <2> QED
    BY <2>1, FS_Subset, FS_CardinalityType
<1>2. Enumerates(o, S)
  <2>1. o = CHOOSE order \in [1 .. Cardinality(S) -> S] : \A i, j \in DOMAIN order : i < j => order[i] < order[j]
    BY DEF InOrder
  <2>2. PICK p : Enumerates(p, S)
    BY EnumerationExists
  <2>3. p \in [1 .. Cardinality(S) -> S] /\ \A i, j \in DOMAIN p : i < j => p[i] < p[j]
    BY <2>2 DEF Enumerates
  <2> HIDE DEF o
  <2> QED
    BY <2>1, <2>3, Zenon DEF Enumerates
<1> HIDE DEF o, c
<1>3. o \in [1 .. c -> S] /\ DOMAIN o = 1 .. c
  BY <1>2 DEF Enumerates, c
<1>4. \A i, j \in 1 .. c : o[i] = o[j] => i = j
  <2> TAKE i, j \in 1 .. c
  <2>1. o[i] \in Int /\ o[j] \in Int
    <3>1. o[i] \in S /\ o[j] \in S
      BY <1>3
    <3>2. \A x \in 1 .. n : x \in Int
      OBVIOUS
    <3> QED
      BY <3>1, <3>2
  <2>2. (i < j => o[i] < o[j]) /\ (j < i => o[j] < o[i])
    BY <1>2, <1>3 DEF Enumerates
  <2> QED
    BY <1>1, <2>1, <2>2
<1>5. o \in Surjection(1 .. c, S)
  <2>1. o \in Injection(1 .. c, S)
    BY <1>3, <1>4 DEF Injection, IsInjective
  <2>2. Cardinality(1 .. c) = c
    BY <1>1, FS_Interval
  <2> QED
    BY <1>1, <2>1, <2>2, FS_Injection DEF c
<1>6. \A k \in S : \E i \in 1 .. c : o[i] = k
  BY <1>3, <1>5 DEF Surjection
<1> QED
  BY <1>1, <1>3, <1>4, <1>6 DEF o, c

(* What a valid transfer leaves: every account of before has kept its      *)
(* tinybar or an entry names it, and the new accounts hold addresses that  *)
(* led nowhere.                                                            *)
Transferred(B, hollow, P, list) ==
  /\ Room(hollow)
  /\ \A id \in DOMAIN accounts :
       \/ B[id] = P[id]
       \/ \E k \in DOMAIN list :
            /\ Known(list[k].ref) /\ Resolve(list[k].ref) = id
            /\ B[id].balance = P[id].balance + list[k].amount
  /\ Holds(B, P, DOMAIN accounts)
  /\ \A n \in DOMAIN hollow :
       /\ B[NewId(n)] = hollow[n] /\ hollow[n].deleted = FALSE
       /\ \E k \in DOMAIN list : ~Known(list[k].ref) /\ hollow[n].alias = list[k].ref[2]
  /\ \A m, n \in DOMAIN hollow : hollow[m].alias = hollow[n].alias => m = n

(* The entries of a transfer list name an account by id or by an address,  *)
(* with an amount.                                                         *)
LEMMA Entries ==
    ASSUME NEW list \in TransferLists
    PROVE  /\ Len(list) \in Nat /\ DOMAIN list = 1 .. Len(list) /\ IsFiniteSet(DOMAIN list)
           /\ \A k \in DOMAIN list :
                /\ list[k].amount \in Int /\ list[k].ref = <<list[k].ref[1], list[k].ref[2]>>
                /\ \/ list[k].ref[1] = "id" /\ list[k].ref[2] \in Ids
                   \/ list[k].ref[1] = "alias" /\ list[k].ref[2] \in Written
<1>1. list \in Seq(TransferEntry)
  BY LedgerAssumption
<1>2. Len(list) \in Nat /\ DOMAIN list = 1 .. Len(list) /\ \A k \in DOMAIN list : list[k] \in TransferEntry
  BY <1>1
<1>3. IsFiniteSet(DOMAIN list)
  BY <1>2, FS_Interval
<1>4. \A e \in TransferEntry :
        /\ e.amount \in Int /\ e.ref = <<e.ref[1], e.ref[2]>>
        /\ \/ e.ref[1] = "id" /\ e.ref[2] \in Ids
           \/ e.ref[1] = "alias" /\ e.ref[2] \in Written
  BY DEF TransferEntry, Written
<1> QED
  BY <1>2, <1>3, <1>4

(* A valid list leaves balances its legs explain, and a new account for    *)
(* each address that led nowhere.                                          *)
LEMMA TransferIs ==
    ASSUME Shape, IdsFresh, NEW P, NEW pt, Works(P, pt, DOMAIN accounts), Holds(P, accounts, DOMAIN accounts),
           NEW list \in TransferLists, TransferValid(list, P),
           next_id + Len(AfterTransfer([accounts |-> P, transfers |-> pt], list).hollow) <= MaxId + 1
    PROVE  LET done == AfterTransfer([accounts |-> P, transfers |-> pt], list)
           IN  /\ Works(done.accounts, done.transfers, DOMAIN accounts \cup News(done.hollow))
               /\ Transferred(done.accounts, done.hollow, P, list)
<1> DEFINE D == DOMAIN accounts
           I == DOMAIN list
           paid == [accounts |-> P, transfers |-> pt]
           K == {k \in I : Known(list[k].ref)}
           U == I \ K
           unknown == InOrder(U)
           c == Cardinality(U)
           hollow == [n \in DOMAIN unknown |->
                         NewAccount(NoKey, list[unknown[n]].ref[2], list[unknown[n]].amount)]
           holder == [k \in I |-> IF k \in K THEN Resolve(list[k].ref)
                                  ELSE NewId(CHOOSE n \in DOMAIN unknown : unknown[n] = k)]
           adjusted == [a \in D |-> IF \E k \in K : holder[k] = a
                                    THEN adjust(paid.accounts, a, list[CHOOSE k \in K : holder[k] = a].amount)[a]
                                    ELSE paid.accounts[a]]
           legs == [k \in I |-> [account |-> holder[k], amount |-> list[k].amount]]
           E == D \cup News(hollow)
           B == WithAccounts(adjusted, hollow)
           done == AfterTransfer(paid, list)
<1>1. done.accounts = B /\ done.hollow = hollow /\ done.transfers = pt \o legs
  BY DEF AfterTransfer
<1>2. /\ Len(list) \in Nat /\ I = 1 .. Len(list) /\ IsFiniteSet(I)
      /\ \A k \in I : /\ list[k].amount \in Int /\ list[k].ref = <<list[k].ref[1], list[k].ref[2]>>
                      /\ \/ list[k].ref[1] = "id" /\ list[k].ref[2] \in Ids
                         \/ list[k].ref[1] = "alias" /\ list[k].ref[2] \in Addresses
  BY Entries DEF Addresses
<1>3. /\ SumFunction([k \in I |-> list[k].amount]) = 0
      /\ \A k \in K : is_live(Resolve(list[k].ref))
      /\ \A k \in U : list[k].amount > 0
      /\ \A j, k \in U : list[j].ref = list[k].ref => j = k
      /\ \A j, k \in K : Resolve(list[j].ref) = Resolve(list[k].ref) => j = k
      /\ \A k \in K : P[Resolve(list[k].ref)].balance + list[k].amount >= 0
  BY DEF TransferValid
<1>4. \A k \in K : Resolve(list[k].ref) \in D
  BY <1>3 DEF is_live
<1>5. \A k \in U : list[k].ref[1] = "alias" /\ list[k].ref[2] \in Addresses
  BY <1>2 DEF Known
<1>6. /\ c \in Nat /\ unknown \in [1 .. c -> U] /\ DOMAIN unknown = 1 .. c
      /\ \A i, j \in 1 .. c : unknown[i] = unknown[j] => i = j
      /\ \A k \in U : \E i \in 1 .. c : unknown[i] = k
  <2>1. U \in SUBSET (1 .. Len(list))
    BY <1>2
  <2> HIDE DEF U
  <2> QED
    BY ZenonT(120), <2>1, <1>2, InOrderIs
<1>p. P \in [D -> Account] /\ pt \in Seq(Leg(D)) /\ Total(pt) = 0
      /\ \A id \in D : Before(id) \in Int /\ P[id].balance = Before(id) + Net(pt, id)
  BY DEF Works
<1> HIDE DEF unknown, c
<1>7. \A n \in 1 .. c : /\ hollow[n] \in Account /\ hollow[n].deleted = FALSE
                        /\ hollow[n].alias = list[unknown[n]].ref[2]
                        /\ hollow[n].balance = list[unknown[n]].amount
  <2> TAKE n \in 1 .. c
  <2>1. unknown[n] \in U /\ n \in DOMAIN unknown
    BY <1>6
  <2>2. list[unknown[n]].amount \in Nat /\ list[unknown[n]].ref[2] \in Addresses
    BY <2>1, <1>2, <1>3, <1>5
  <2>3. hollow[n] = NewAccount(NoKey, list[unknown[n]].ref[2], list[unknown[n]].amount)
    BY <2>1
  <2>4. \A alias \in Addresses, balance \in Nat :
           LET account == NewAccount(NoKey, alias, balance)
           IN  account \in Account /\ account.deleted = FALSE /\ account.alias = alias /\ account.balance = balance
    BY DEF NewAccount, Account
  <2> HIDE DEF hollow
  <2> QED
    BY <2>2, <2>3, <2>4
<1>8. hollow \in Seq(Account) /\ DOMAIN hollow = 1 .. c /\ Len(hollow) = c
  <2>1. DOMAIN hollow = 1 .. c
    BY <1>6
  <2> HIDE DEF hollow
  <2>2. hollow = [n \in 1 .. c |-> hollow[n]]
    <3>1. hollow = [n \in DOMAIN hollow |-> hollow[n]]
      BY DEF hollow
    <3> QED
      BY <3>1, <2>1
  <2>3. hollow \in [1 .. c -> Account]
    BY <2>2, <1>7
  <2>4. hollow \in Seq(Account)
    BY <2>3, <1>6
  <2>5. Len(hollow) \in Nat /\ DOMAIN hollow = 1 .. Len(hollow)
    BY <2>4
  <2>6. Len(hollow) = c
    BY <2>1, <2>5, <1>6
  <2> QED
    BY <2>1, <2>4, <2>6
<1>9. Room(hollow)
  <2>1. next_id + Len(done.hollow) <= MaxId + 1
    BY SMTT(120)
  <2>2. done.hollow = hollow
    BY <1>1
  <2> HIDE DEF done, hollow
  <2> QED
    BY <1>8, <2>1, <2>2 DEF Room
<1>10. /\ \A n \in 1 .. c : NewId(n) \notin D
       /\ \A m, n \in 1 .. c : NewId(m) = NewId(n) => m = n
  <2> HIDE DEF hollow
  <2> QED
    BY <1>8, <1>9, NewIdsFresh
<1>11. \A k \in K : holder[k] = Resolve(list[k].ref) /\ holder[k] \in D
  BY <1>4
<1>12. \A n \in 1 .. c : holder[unknown[n]] = NewId(n)
  <2> TAKE n \in 1 .. c
  <2>1. unknown[n] \in U
    BY <1>6
  <2>2. holder[unknown[n]] = NewId(CHOOSE m \in DOMAIN unknown : unknown[m] = unknown[n])
    BY <2>1
  <2>3. (CHOOSE m \in DOMAIN unknown : unknown[m] = unknown[n]) = n
    BY <1>6
  <2> QED
    BY <2>2, <2>3
<1>13. DOMAIN holder = I
  OBVIOUS
<1>r. B = WithAccounts(adjusted, hollow) /\ News(hollow) = {NewId(n) : n \in 1 .. c}
  BY <1>8 DEF News
<1>s. \A k \in I : legs[k] = [account |-> holder[k], amount |-> list[k].amount]
  OBVIOUS
<1>t. DOMAIN legs = I /\ legs = [k \in I |-> legs[k]]
  BY SMTT(120)
<1>u. adjusted = [a \in D |-> adjusted[a]]
  OBVIOUS
<1>v. \A a \in D : adjusted[a] = IF \E k \in K : holder[k] = a
                                 THEN adjust(P, a, list[CHOOSE k \in K : holder[k] = a].amount)[a]
                                 ELSE P[a]
  BY Zenon
<1> HIDE DEF hollow, holder, adjusted, legs, done, B
<1>14. ASSUME NEW k \in U PROVE \E n \in 1 .. c : unknown[n] = k /\ holder[k] = NewId(n)
  BY <1>6, <1>12
<1>15. \A k \in I : k \in K \/ k \in U
  OBVIOUS
<1>16. \A k \in I : holder[k] \in E
  BY <1>11, <1>14, <1>15, <1>r
<1>17. ASSUME NEW j \in I, NEW k \in I, holder[j] = holder[k] PROVE j = k
  <2>1. CASE j \in K /\ k \in K
    BY <2>1, <1>3, <1>11, <1>17
  <2>2. CASE j \in U /\ k \in U
    BY <2>2, <1>10, <1>14, <1>17
  <2>3. CASE (j \in U /\ k \in K) \/ (j \in K /\ k \in U)
    BY <2>3, <1>10, <1>11, <1>14, <1>17
  <2> QED
    BY <2>1, <2>2, <2>3, <1>15
<1>18. /\ legs \in Seq(Leg(E)) /\ \A k \in I : legs[k].account = holder[k] /\ legs[k].amount = list[k].amount
  <2>1. \A k \in I : legs[k] \in Leg(E) /\ legs[k].account = holder[k] /\ legs[k].amount = list[k].amount
    <3>1. \A a \in E, n \in Int : LET leg == [account |-> a, amount |-> n]
                                   IN  leg \in Leg(E) /\ leg.account = a /\ leg.amount = n
      <4> HIDE DEF E
      <4> QED
        BY DEF Leg
    <3> HIDE DEF E
    <3> TAKE k \in I
    <3>2. holder[k] \in E /\ list[k].amount \in Int
      BY <1>2, <1>16
    <3>3. legs[k] = [account |-> holder[k], amount |-> list[k].amount]
      BY <1>s
    <3>4. LET leg == [account |-> holder[k], amount |-> list[k].amount]
          IN  leg \in Leg(E) /\ leg.account = holder[k] /\ leg.amount = list[k].amount
      BY <3>1, <3>2, Zenon
    <3> QED
      BY <3>3, <3>4, Zenon
  <2> DEFINE L == Leg(E)
  <2>2. \A k \in I : legs[k] \in L
    BY <2>1
  <2> HIDE DEF L, K, U
  <2>3. legs \in [1 .. Len(list) -> L]
    BY <2>2, <1>t, <1>2
  <2>4. legs \in Seq(L)
    BY <2>3, <1>2
  <2> QED
    BY <2>1, <2>4 DEF L
<1>19. Total(legs) = 0
  <2>1. Amounts(legs) = [k \in I |-> list[k].amount]
    BY <1>18, <1>t DEF Amounts
  <2> DEFINE A == [k \in I |-> list[k].amount]
  <2>2. DOMAIN A = I /\ SumFunction(A) = 0
    BY <1>3
  <2> HIDE DEF A
  <2> QED
    BY <2>1, <2>2, <1>t DEF Total, SumFunction, A
<1>20. /\ \A k \in I : Net(legs, holder[k]) = list[k].amount
       /\ \A id : (\A k \in I : holder[k] # id) => Net(legs, id) = 0
  BY SMTT(120), <1>17, <1>18, <1>t, Legs
<1>21. ASSUME NEW a \in D
       PROVE  /\ adjusted[a] \in Account
              /\ adjusted[a].balance = P[a].balance + Net(legs, a)
              /\ adjusted[a].key = P[a].key /\ adjusted[a].alias = P[a].alias /\ adjusted[a].deleted = P[a].deleted
              /\ \/ adjusted[a] = P[a]
                 \/ \E k \in K : holder[k] = a /\ adjusted[a].balance = P[a].balance + list[k].amount
  <2>1. ASSUME NEW k \in K, holder[k] = a
        PROVE  /\ adjusted[a] \in Account /\ adjusted[a].balance = P[a].balance + list[k].amount
               /\ adjusted[a].key = P[a].key /\ adjusted[a].alias = P[a].alias /\ adjusted[a].deleted = P[a].deleted
    <3>1. (CHOOSE j \in K : holder[j] = a) = k
      BY <2>1, <1>17
    <3>2. adjusted[a] = adjust(P, a, list[k].amount)[a]
      BY <3>1, <2>1, <1>v
    <3>3. list[k].amount \in Int /\ P[a].balance + list[k].amount >= 0
      BY <2>1, <1>2, <1>3, <1>11
    <3>4. /\ adjust(P, a, list[k].amount) \in [D -> Account] /\ Holds(adjust(P, a, list[k].amount), P, D)
          /\ \A id \in D : adjust(P, a, list[k].amount)[id].balance
                            = IF id = a THEN P[id].balance + list[k].amount ELSE P[id].balance
      BY <1>p, <3>3, AdjustIs
    <3> QED
      BY <3>2, <3>4 DEF Holds
  <2>2. ASSUME \A k \in K : holder[k] # a PROVE adjusted[a] = P[a] /\ Net(legs, a) = 0
    <3>1. \A k \in I : holder[k] # a
      BY <2>2, <1>10, <1>14, <1>15
    <3> QED
      BY <2>2, <3>1, <1>20, <1>v
  <2>3. P[a] \in Account /\ P[a].balance \in Nat
    BY <1>p DEF Account
  <2>4. CASE \E k \in K : holder[k] = a
    <3>1. PICK k \in K : holder[k] = a
      BY <2>4
    <3>2. Net(legs, a) = list[k].amount
      BY <3>1, <1>20
    <3> QED
      BY <2>1, <3>1, <3>2
  <2>5. CASE \A k \in K : holder[k] # a
    BY <2>2, <2>3, <2>5
  <2> QED
    BY <2>4, <2>5
<1>22. adjusted \in [D -> Account]
  BY <1>21, <1>u
<1>23. Joined(B, adjusted, hollow)
  BY <1>9, <1>22, AccountsJoin DEF B
<1>24. Works(B, pt \o legs, E)
  <2>1. D \subseteq E /\ E \subseteq Ids
    <3>1. \A n \in 1 .. c : NewId(n) \in Ids
      BY <1>8, <1>9, NewIdsFresh
    <3> QED
      BY <3>1, <1>r DEF Shape
  <2>2. B \in [E -> Account]
    BY <1>23 DEF Joined
  <2>3. pt \in Seq(Leg(E))
    <3>1. Leg(D) \subseteq Leg(E)
      BY <2>1 DEF Leg
    <3> QED
      BY <3>1, <1>p, SeqMonotonic
  <2>4. /\ pt \o legs \in Seq(Leg(E)) /\ Total(pt \o legs) = 0
        /\ \A id : Net(pt \o legs, id) = Net(pt, id) + Net(legs, id)
    <3>1. /\ pt \o legs \in Seq(Leg(E)) /\ Total(pt \o legs) = Total(pt) + Total(legs)
          /\ \A id : Net(pt \o legs, id) = Net(pt, id) + Net(legs, id)
      BY <2>3, <1>18, MoreLegs
    <3> QED
      BY <3>1, <1>p, <1>19
  <2>5. \A id : Net(pt, id) \in Int /\ Net(legs, id) \in Int
    BY <2>3, <1>18, Legs
  <2>6. ASSUME NEW id \in D PROVE Before(id) \in Int /\ B[id].balance = Before(id) + Net(pt \o legs, id)
    <3>1. B[id].balance = P[id].balance + Net(legs, id)
      BY <1>21, <1>23 DEF Joined
    <3>2. P[id].balance = Before(id) + Net(pt, id) /\ Before(id) \in Int
      BY <1>p
    <3> QED
      BY <3>1, <3>2, <2>4, <2>5
  <2>7. ASSUME NEW n \in 1 .. c
        PROVE  Before(NewId(n)) = 0 /\ B[NewId(n)].balance = 0 + Net(pt \o legs, NewId(n))
    <3>1. B[NewId(n)].balance = list[unknown[n]].amount
      BY <1>7, <1>8, <1>23 DEF Joined
    <3>2. Net(legs, NewId(n)) = list[unknown[n]].amount
      <4>1. unknown[n] \in I
        BY <1>6
      <4> QED
        BY <4>1, <1>12, <1>20
    <3>3. Net(pt, NewId(n)) = 0
      <4>1. \A k \in DOMAIN pt : pt[k].account # NewId(n)
        BY <1>p, <1>10, Legs
      <4> QED
        BY <4>1, <1>p, Legs
    <3>4. Before(NewId(n)) = 0
      BY <1>10 DEF Before
    <3> QED
      BY <3>1, <3>2, <3>3, <3>4, <2>4, <2>5
  <2>8. \A id \in E : Before(id) \in Int /\ B[id].balance = Before(id) + Net(pt \o legs, id)
    BY <2>6, <2>7, <1>r
  <2> QED
    BY <2>1, <2>2, <2>4, <2>8 DEF Works
<1>25. Transferred(B, hollow, P, list)
  <2>1. ASSUME NEW id \in D
        PROVE  \/ B[id] = P[id]
               \/ \E k \in I : /\ Known(list[k].ref) /\ Resolve(list[k].ref) = id
                               /\ B[id].balance = P[id].balance + list[k].amount
    <3>1. B[id] = adjusted[id]
      BY <1>23 DEF Joined
    <3> QED
      BY <3>1, <1>11, <1>21
  <2>2. Holds(B, P, D)
    BY <1>21, <1>23 DEF Joined, Holds
  <2>3. ASSUME NEW n \in 1 .. c
        PROVE  /\ B[NewId(n)] = hollow[n] /\ hollow[n].deleted = FALSE
               /\ \E k \in I : ~Known(list[k].ref) /\ hollow[n].alias = list[k].ref[2]
    <3>1. unknown[n] \in I /\ ~Known(list[unknown[n]].ref)
      BY <1>6
    <3> QED
      BY <3>1, <1>7, <1>8, <1>23 DEF Joined
  <2>4. ASSUME NEW m \in 1 .. c, NEW n \in 1 .. c, hollow[m].alias = hollow[n].alias PROVE m = n
    <3>1. unknown[m] \in U /\ unknown[n] \in U
      BY <1>6
    <3>2. list[unknown[m]].ref[2] = list[unknown[n]].ref[2]
      BY <2>4, <1>7
    <3>3. list[unknown[m]].ref[1] = list[unknown[n]].ref[1]
      BY <3>1, <1>5
    <3>4. list[unknown[m]].ref = list[unknown[n]].ref
      BY <3>1, <3>2, <3>3, <1>2
    <3>5. unknown[m] = unknown[n]
      BY <3>1, <3>4, <1>3
    <3> QED
      BY <3>5, <1>6
  <2> QED
    BY ZenonT(120), <2>1, <2>2, <2>3, <2>4, <1>8, <1>9 DEF Transferred
<1> QED
  BY <1>1, <1>24, <1>25 DEF done

(* cryptoTransfer keeps the invariant: a valid list's amounts cancel out. *)
LEMMA TransferKeeps ==
    ASSUME Base, NEW txid \in TxIds, NEW signed \in SUBSET Keys, NEW list \in TransferLists,
           Transfer(txid, signed, list)
    PROVE  Kept
<1> DEFINE paid == Charged(txid.payer)
           P == paid.accounts
           pt == paid.transfers
           done == AfterTransfer(paid, list)
           hollow == done.hollow
           D == DOMAIN accounts
           E == D \cup News(hollow)
<1>1. Precheck(txid, DebitKeys(list), signed)
  BY DEF Transfer
<1>2. ASSUME BodyFails(txid, signed) PROVE Kept
  BY <1>1, <1>2, BodyFailsKeeps
<1>3. ASSUME TransferValid(list, P), next_id + Len(hollow) <= MaxId + 1,
             accounts' = done.accounts, by_evm' = WithAddresses(hollow), next_id' = next_id + Len(hollow),
             Consensus(txid, TRUE, done.transfers, 0, signed), topics' = topics
      PROVE  Kept
  <2>1. /\ Shape /\ Recorded /\ Chained /\ MessagesHaveRecords
        /\ IdsFresh
    BY DEF Base
  <2>2. is_live(txid.payer) /\ accounts[txid.payer].balance >= HAPI_FEE
    BY <1>1 DEF Precheck
  <2>3. /\ Works(P, pt, D) /\ Holds(P, accounts, D)
        /\ \A id \in D : id # txid.payer /\ id # FEE_COLLECTOR => P[id] = accounts[id]
        /\ paid = [accounts |-> P, transfers |-> pt]
    BY <2>1, <2>2, ChargedIs
  <2>4. Works(done.accounts, done.transfers, E) /\ Transferred(done.accounts, hollow, P, list)
    <3>1. done = AfterTransfer([accounts |-> P, transfers |-> pt], list)
      BY <2>3
    <3>2. /\ TransferValid(list, P)
          /\ next_id + Len(AfterTransfer([accounts |-> P, transfers |-> pt], list).hollow) <= MaxId + 1
      BY <1>3, <3>1
    <3> HIDE DEF P, pt
    <3>3. LET d == AfterTransfer([accounts |-> P, transfers |-> pt], list)
          IN  /\ Works(d.accounts, d.transfers, DOMAIN accounts \cup News(d.hollow))
              /\ Transferred(d.accounts, d.hollow, P, list)
      BY <2>1, <2>3, <3>2, TransferIs
    <3> QED
      BY <3>1, <3>3
  <2>5. accounts' = done.accounts /\ Consensus(txid, TRUE, done.transfers, 0, signed)
    BY <1>3
  <2>6. by_evm' = WithAddresses(hollow) /\ next_id' = next_id + Len(hollow) /\ topics' = topics
    BY <1>3
  <2>v. \A k \in DOMAIN list : Known(list[k].ref) => is_live(Resolve(list[k].ref))
    BY <1>3 DEF TransferValid
  <2> HIDE DEF paid, P, pt, done, hollow
  <2>7. accounts' \in [E -> Account] /\ DOMAIN accounts' = E
    BY <2>4, <2>5 DEF Works
  <2>8. Settled(done.transfers, txid, TRUE, 0, signed)
    BY <2>4, <2>5, <2>7 DEF Works, Settled, Logged
  <2>9. /\ by_evm' \in [DOMAIN by_evm' -> DOMAIN accounts']
        /\ next_id' \in FIRST_USER_ID .. MaxId + 1 /\ DOMAIN topics' \subseteq Ids /\ IdsFresh'
    <3>1. Room(hollow)
      BY <2>4 DEF Transferred
    <3> QED
      BY <2>1, <2>6, <2>7, <3>1, NewAccountsKeep
  <2>10. Shape' /\ Recorded'
    BY <2>1, <2>7, <2>8, <2>9, LoggedKeeps DEF Settled
  <2>11. Chained' /\ MessagesHaveRecords'
    BY <2>1, <2>6, <2>8, NoMessage DEF Settled
  <2>12. ASSUME DeletedAreEmpty PROVE DeletedAreEmpty'
    <3>1. ASSUME NEW id \in D, id # FEE_COLLECTOR, accounts'[id].deleted PROVE accounts'[id].balance = 0
      <4>1. accounts[id].deleted
        BY <3>1, <2>3, <2>4, <2>5 DEF Transferred, Holds
      <4>2. accounts'[id] = P[id]
        BY <4>1, <2>4, <2>5, <2>v DEF Transferred, is_live
      <4>3. id # txid.payer
        BY <4>1, <2>2 DEF is_live
      <4> QED
        BY <4>1, <4>2, <4>3, <3>1, <2>3, <2>12 DEF DeletedAreEmpty
    <3>2. ASSUME NEW id \in News(hollow) PROVE accounts'[id].deleted = FALSE
      <4>1. PICK n \in DOMAIN hollow : id = NewId(n)
        BY DEF News
      <4> QED
        BY <4>1, <2>4, <2>5 DEF Transferred
    <3> QED
      BY <3>1, <3>2, <2>7 DEF DeletedAreEmpty
  <2>13. Opens
    <3>1. ASSUME NEW id \in D PROVE accounts'[id].alias = accounts[id].alias
      BY <2>3, <2>4, <2>5 DEF Transferred, Holds
    <3>2. ASSUME NEW id \in News(hollow) PROVE accounts'[id].alias \in Written
      <4>1. PICK n \in DOMAIN hollow : id = NewId(n)
        BY DEF News
      <4>2. PICK k \in DOMAIN list : ~Known(list[k].ref) /\ hollow[n].alias = list[k].ref[2]
        BY <2>4 DEF Transferred
      <4>3. list[k].ref[2] \in Written
        BY <4>2, Entries DEF Known
      <4> QED
        BY <4>1, <4>2, <4>3, <2>4, <2>5 DEF Transferred
    <3> QED
      BY <3>1, <3>2, <2>7 DEF Opens
  <2>14. Submitted
    BY <2>8, Zenon DEF Submitted
  <2> QED
    BY <2>9, <2>10, <2>11, <2>12, <2>13, <2>14 DEF Base, Kept
<1> QED
  BY <1>2, <1>3 DEF Transfer

-----------------------------------------------------------------------------
(* What genesis holds adds up to the supply. *)
LEMMA GenesisSupply ==
    /\ \A id \in GenesisIds : GenesisBalance(id) \in Nat
    /\ SumFunctionOnSet([id \in GenesisIds |-> GenesisBalance(id)], GenesisIds) = TOTAL_SUPPLY
<1> DEFINE f == [id \in GenesisIds |-> GenesisBalance(id)]
           n == Cardinality(Users)
           S == Users \cup {TREASURY}
<1>1. /\ TREASURY \in Nat /\ FEE_COLLECTOR \in Nat /\ TREASURY # FEE_COLLECTOR
      /\ TREASURY \notin Users /\ FEE_COLLECTOR \notin Users
      /\ UserBalance \in Nat /\ TOTAL_SUPPLY \in Nat /\ n \in Nat /\ n * UserBalance <= TOTAL_SUPPLY
  <2>1. FIRST_USER_ID \in Nat /\ TREASURY < FIRST_USER_ID /\ FEE_COLLECTOR < FIRST_USER_ID
        /\ TREASURY \in Nat /\ FEE_COLLECTOR \in Nat /\ \A u \in Users : u \in Nat /\ u >= FIRST_USER_ID
    BY LedgerAssumption
  <2>2. TREASURY \notin Users /\ FEE_COLLECTOR \notin Users
    BY <2>1
  <2>3. n \in Nat
    BY IdsFinite, FS_CardinalityType
  <2> QED
    BY <2>1, <2>2, <2>3, LedgerAssumption
<1>2. n * UserBalance \in Nat /\ TOTAL_SUPPLY - n * UserBalance \in Nat
  <2>1. \A x, y \in Nat : x * y \in Nat
    OBVIOUS
  <2>2. n * UserBalance \in Nat
    BY <2>1, <1>1
  <2>3. \A x, y \in Nat : x <= y => y - x \in Nat
    OBVIOUS
  <2> QED
    BY <2>2, <2>3, <1>1
<1>3. /\ \A u \in Users : GenesisBalance(u) = UserBalance
      /\ GenesisBalance(TREASURY) = TOTAL_SUPPLY - n * UserBalance
      /\ GenesisBalance(FEE_COLLECTOR) = 0
  BY <1>1, Zenon DEF GenesisBalance
<1> HIDE DEF n
<1>4. ASSUME NEW id \in GenesisIds PROVE GenesisBalance(id) \in Nat
  BY <1>1, <1>2, <1>3 DEF GenesisIds
<1>5. f = [id \in GenesisIds |-> f[id]] /\ \A id \in GenesisIds : f[id] = GenesisBalance(id)
  OBVIOUS
<1>t. Users \subseteq GenesisIds /\ TREASURY \in GenesisIds /\ FEE_COLLECTOR \in GenesisIds
  BY DEF GenesisIds
<1>6. /\ Integral(f, GenesisIds) /\ IsFiniteSet(GenesisIds) /\ IsFiniteSet(Users)
  BY <1>4, IdsFinite DEF Integral
<1> HIDE DEF f
<1>7. /\ \A T \in SUBSET GenesisIds : \A x \in GenesisIds \ T :
           SumFunctionOnSet(f, T \cup {x}) = SumFunctionOnSet(f, T) + f[x]
  BY <1>6, SumAdd
<1>8. SumFunctionOnSet(f, Users) = n * UserBalance
  <2>1. \A u \in Users : f[u] = UserBalance
    BY <1>3, <1>5, <1>t
  <2>2. UserBalance \in Int
    BY <1>1
  <2> QED
    BY <1>6, <2>1, <2>2, SumConstant DEF n
<1>9. SumFunctionOnSet(f, S) = n * UserBalance + (TOTAL_SUPPLY - n * UserBalance)
  <2>1. Users \in SUBSET GenesisIds /\ TREASURY \in GenesisIds \ Users /\ f[TREASURY] = TOTAL_SUPPLY - n * UserBalance
    BY <1>1, <1>3, <1>5, <1>t
  <2>2. SumFunctionOnSet(f, Users \cup {TREASURY}) = SumFunctionOnSet(f, Users) + f[TREASURY]
    BY <2>1, <1>7, Zenon
  <2> QED
    BY <2>1, <2>2, <1>8
<1>10. SumFunctionOnSet(f, S \cup {FEE_COLLECTOR}) = SumFunctionOnSet(f, S) + 0
  <2>1. S \in SUBSET GenesisIds /\ FEE_COLLECTOR \in GenesisIds \ S /\ f[FEE_COLLECTOR] = 0
    BY <1>1, <1>3, <1>5, <1>t
  <2> QED
    BY <2>1, <1>7, Zenon
<1>11. S \cup {FEE_COLLECTOR} = GenesisIds
  BY DEF GenesisIds
<1>12. SumFunctionOnSet(f, GenesisIds) = TOTAL_SUPPLY
  <2>1. \A x, y \in Nat : x + (y - x) + 0 = y
    OBVIOUS
  <2> HIDE DEF S
  <2>2. n * UserBalance + (TOTAL_SUPPLY - n * UserBalance) + 0 = TOTAL_SUPPLY
    BY <2>1, <1>1, <1>2, Zenon
  <2> QED
    BY <1>9, <1>10, <1>11, <2>2
<1> QED
  BY <1>4, <1>12 DEF f

(* Genesis satisfies the invariant. *)
LEMMA InitKeeps == Init => IInv
<1> SUFFICES ASSUME Init PROVE IInv
  OBVIOUS
<1>1. /\ accounts = [id \in GenesisIds |-> NewAccount(GenesisKey[id], GenesisAlias[id], GenesisBalance(id))]
      /\ topics = << >> /\ records = << >> /\ hapi_by_id = << >> /\ signers = {}
      /\ next_id = Max(Users \cup {FIRST_USER_ID - 1}) + 1
  BY DEF Init
<1>2. /\ DOMAIN accounts = GenesisIds
      /\ \A id \in GenesisIds : /\ accounts[id] \in Account /\ accounts[id].balance = GenesisBalance(id)
                                /\ accounts[id].deleted = FALSE /\ accounts[id].alias \in Written
  <2>1. DOMAIN accounts = GenesisIds
    BY <1>1
  <2>2. ASSUME NEW id \in GenesisIds
        PROVE  /\ accounts[id] \in Account /\ accounts[id].balance = GenesisBalance(id)
               /\ accounts[id].deleted = FALSE /\ accounts[id].alias \in Written
    <3>1. accounts[id] = NewAccount(GenesisKey[id], GenesisAlias[id], GenesisBalance(id))
      BY <1>1
    <3>2. GenesisKey[id] \in Keys \cup {NoKey} /\ GenesisAlias[id] \in Written /\ GenesisBalance(id) \in Nat
      BY GenesisSupply, LedgerAssumption DEF Written
    <3> QED
      BY <3>1, <3>2 DEF NewAccount, Account, Addresses
  <2> QED
    BY <2>1, <2>2
<1>3. by_evm \in [DOMAIN by_evm -> GenesisIds]
  <2>1. by_evm = [address \in {LongZero(id) : id \in GenesisIds}
                               \cup {evm_address(id, accounts[id]) : id \in GenesisIds} |->
                      CHOOSE id \in GenesisIds :
                          address \in {evm_address(id, accounts[id]), LongZero(id)}]
    BY DEF Init
  <2>2. \A a \in DOMAIN by_evm : by_evm[a] \in GenesisIds
    <3> TAKE a \in DOMAIN by_evm
    <3>1. \E id \in GenesisIds : a \in {evm_address(id, accounts[id]), LongZero(id)}
      BY <2>1
    <3>2. by_evm[a] = CHOOSE id \in GenesisIds : a \in {evm_address(id, accounts[id]), LongZero(id)}
      BY <2>1
    <3> QED
      BY <3>1, <3>2
  <2>3. by_evm = [a \in DOMAIN by_evm |-> by_evm[a]]
    BY <2>1
  <2> QED
    BY <2>2, <2>3
<1>4. /\ next_id \in FIRST_USER_ID .. MaxId + 1 /\ \A id \in GenesisIds : id < next_id
  <2> DEFINE T == Users \cup {FIRST_USER_ID - 1}
  <2>1. FIRST_USER_ID \in Nat /\ MaxId \in Nat /\ FIRST_USER_ID <= MaxId
        /\ \A u \in Users : u \in Int /\ u >= FIRST_USER_ID /\ u <= MaxId
    BY LedgerAssumption
  <2>2. T \in SUBSET Int /\ IsFiniteSet(T) /\ T # {} /\ FIRST_USER_ID - 1 \in T /\ \A u \in Users : u \in T
    BY <2>1, IdsFinite, FS_AddElement
  <2>3. \A x \in T : x \in Int /\ x <= MaxId
    BY <2>1
  <2> HIDE DEF T
  <2>4. Max(T) \in T /\ \A y \in T : Max(T) >= y
    BY <2>2, MaxIs
  <2>5. next_id = Max(T) + 1
    BY <1>1 DEF T
  <2>6. Max(T) \in Int /\ Max(T) <= MaxId /\ Max(T) >= FIRST_USER_ID - 1 /\ \A u \in Users : Max(T) >= u
    BY <2>2, <2>3, <2>4
  <2>7. next_id \in FIRST_USER_ID .. MaxId + 1 /\ \A u \in Users : u < next_id
    BY <2>1, <2>5, <2>6
  <2>8. TREASURY < next_id /\ FEE_COLLECTOR < next_id
    BY <2>1, <2>7, LedgerAssumption
  <2> QED
    BY <2>7, <2>8 DEF GenesisIds
<1>5. DOMAIN topics = {} /\ DOMAIN records = {} /\ DOMAIN hapi_by_id = {} /\ Len(records) = 0
      /\ records \in Seq(Record)
  BY <1>1
<1>6. Shape
  <2>1. accounts \in [DOMAIN accounts -> Account]
    <3>1. accounts = [id \in GenesisIds |-> accounts[id]]
      BY <1>1
    <3> QED
      BY <3>1, <1>2
  <2>2. hapi_by_id \in [DOMAIN hapi_by_id -> 1 .. Len(records)]
    <3>1. << >> \in [{} -> 1 .. 0]
      OBVIOUS
    <3> QED
      BY <3>1, <1>1, <1>5
  <2> QED
    BY <1>1, <1>2, <1>3, <1>4, <1>5, <2>1, <2>2, IdsFinite DEF Shape
<1>7. IdsFresh
  BY <1>2, <1>4, <1>5 DEF IdsFresh
<1>8. Recorded /\ DeletedAreEmpty /\ Aliased /\ Chained /\ MessagesHaveRecords
  BY <1>2, <1>5 DEF Recorded, DeletedAreEmpty, Aliased, Chained, TopicsAreChains, MessagesHaveRecords
<1>9. SupplyConserved
  <2>1. [id \in DOMAIN accounts |-> accounts[id].balance] = [id \in GenesisIds |-> GenesisBalance(id)]
    BY <1>2
  <2> DEFINE f == [id \in GenesisIds |-> GenesisBalance(id)]
  <2>2. DOMAIN f = GenesisIds /\ SumFunctionOnSet(f, GenesisIds) = TOTAL_SUPPLY
    BY GenesisSupply
  <2> HIDE DEF f
  <2> QED
    BY <2>1, <2>2 DEF SupplyConserved, SumFunction, f
<1>10. RecordsExplainBalances
  <2>1. ASSUME NEW id \in GenesisIds PROVE Replayed(id) = GenesisBalance(id)
    <3> DEFINE F == [i \in DOMAIN records |-> IF id \in DOMAIN records[i].transfers THEN records[i].transfers[id] ELSE 0]
    <3>1. Replayed(id) = GenesisBalance(id) + SumFunction(F)
      BY <2>1 DEF Replayed
    <3>2. DOMAIN F = {}
      BY <1>5
    <3> HIDE DEF F
    <3>3. SumFunctionOnSet(F, {}) = 0
      <4>1. IsFiniteSet({}) /\ Integral(F, {})
        BY FS_EmptySet DEF Integral
      <4> QED
        BY <4>1, SumAdd
    <3>4. SumFunction(F) = 0
      BY <3>2, <3>3 DEF SumFunction
    <3>5. GenesisBalance(id) \in Nat
      BY GenesisSupply
    <3> QED
      BY <3>1, <3>4, <3>5
  <2> QED
    BY <1>2, <2>1 DEF RecordsExplainBalances
<1> QED
  BY <1>6, <1>7, <1>8, <1>9, <1>10 DEF IInv, Base, TinybarAccountedFor

(* Every submission keeps the ledger as it should be. *)
LEMMA SubmitKeeps ==
    ASSUME Base, NEW txid \in TxIds, NEW signed \in SUBSET Keys, Submit(txid, signed)
    PROVE  Kept
<1>1. ASSUME NEW key \in Keys, NEW alias \in Aliases \cup {NoAlias}, NEW balance \in InitialBalances,
             CreateAccount(txid, signed, key, alias, balance)
      PROVE  Kept
  BY <1>1, CreateAccountKeeps
<1>2. ASSUME NEW list \in TransferLists, Transfer(txid, signed, list) PROVE Kept
  BY <1>2, TransferKeeps
<1>3. ASSUME NEW account \in Ids, NEW transfer_to \in Ids, Delete(txid, signed, account, transfer_to)
      PROVE  Kept
  BY <1>3, DeleteKeeps
<1>4. ASSUME NEW submit_key \in Keys \cup {NoKey}, CreateTopic(txid, signed, submit_key) PROVE Kept
  BY <1>4, CreateTopicKeeps
<1>5. ASSUME NEW topic \in Ids, NEW message \in Messages, SubmitMessage(txid, signed, topic, message)
      PROVE  Kept
  BY <1>5, SubmitMessageKeeps
<1> QED
  BY <1>1, <1>2, <1>3, <1>4, <1>5 DEF Submit

(* A step that changes nothing keeps the invariant. *)
LEMMA StutterKeeps == IInv /\ UNCHANGED vars => IInv'
<1> SUFFICES ASSUME IInv, UNCHANGED vars PROVE IInv'
  OBVIOUS
<1>1. /\ accounts' = accounts /\ by_evm' = by_evm /\ next_id' = next_id /\ topics' = topics
      /\ records' = records /\ hapi_by_id' = hapi_by_id /\ signers' = signers
  BY DEF vars
<1>2. Shape' /\ IdsFresh' /\ Recorded' /\ DeletedAreEmpty' /\ Aliased'
  BY <1>1 DEF IInv, Base, Aliased, Shape, IdsFresh, Recorded, DeletedAreEmpty
<1>3. SupplyConserved'
  BY <1>1, Zenon DEF IInv, TinybarAccountedFor, SupplyConserved
<1>4. RecordsExplainBalances'
  BY <1>1, Zenon DEF IInv, TinybarAccountedFor, RecordsExplainBalances, Replayed, GenesisBalance
<1>5. Chained'
  BY <1>1, ChainsAreLinks DEF IInv, Base, Chained
<1>6. MessagesHaveRecords'
  BY <1>1 DEF IInv, Base, MessagesHaveRecords
<1> QED
  BY <1>2, <1>3, <1>4, <1>5, <1>6 DEF IInv, Base, TinybarAccountedFor

(* Every step keeps the invariant. *)
LEMMA NextKeeps == IInv /\ [Next]_vars => IInv'
<1> SUFFICES ASSUME IInv, [Next]_vars PROVE IInv'
  OBVIOUS
<1>1. ASSUME Next PROVE IInv'
  <2>1. Kept
    BY <1>1, SubmitKeeps DEF IInv, Next
  <2>2. TinybarAccountedFor'
    BY <2>1, SubmittedKeeps DEF Kept, IInv, Base
  <2> QED
    BY <2>1, <2>2 DEF Kept, IInv, Opens, Aliased
<1> QED
  BY <1>1, StutterKeeps

-----------------------------------------------------------------------------
(* Who pays.  What a body takes, it takes from its payer or from accounts  *)
(* whose keys it asked for.                                                *)
Covered(txid, must) ==
  \A id \in DOMAIN accounts :
    accounts'[id].balance < accounts[id].balance => id = txid.payer \/ accounts[id].key \in must

Authorized(txid, must, signed) ==
  Precheck(txid, must, signed) /\ signers' = signed /\ Covered(txid, must)

(* A submission that fails, or one that only pays the fee, takes from its  *)
(* payer alone.                                                            *)
LEMMA FeeIsCovered ==
    ASSUME Shape, NEW txid, NEW must, NEW signed, Precheck(txid, must, signed),
           accounts' = Charged(txid.payer).accounts
    PROVE  Covered(txid, must)
<1> DEFINE w == Charged(txid.payer)
           D == DOMAIN accounts
<1>1. is_live(txid.payer) /\ accounts[txid.payer].balance >= HAPI_FEE
  BY DEF Precheck
<1>2. /\ \A id \in D : w.accounts[id].balance
                         = accounts[id].balance + Delta(id, txid.payer, FEE_COLLECTOR, HAPI_FEE)
  BY <1>1, ChargedIs
<1>3. accounts' = w.accounts
  OBVIOUS
<1>4. accounts \in [D -> Account] /\ HAPI_FEE \in Nat
  BY LedgerAssumption DEF Shape
<1>5. \A id \in D : accounts[id].balance \in Nat
  BY <1>4 DEF Account
<1> HIDE DEF w, D
<1>6. ASSUME NEW id \in D, accounts'[id].balance < accounts[id].balance PROVE id = txid.payer
  BY <1>2, <1>3, <1>4, <1>5, <1>6 DEF Delta
<1> QED
  BY <1>6 DEF Covered, D

(* The key that an accepted submission asks for has signed it. *)
LEMMA AuthorizedIsSigned ==
    ASSUME NEW txid, NEW must, NEW signed, Authorized(txid, must, signed), VerifySignatures,
           NEW id \in DOMAIN accounts, accounts'[id].balance < accounts[id].balance,
           accounts[id].key # NoKey
    PROVE  accounts[id].key \in signers'
BY Zenon DEF Authorized, Covered, Precheck, Signed

(* cryptoCreateAccount takes from its payer alone. *)
LEMMA CreateAccountIsAuthorized ==
    ASSUME Shape, IdsFresh, NEW txid \in TxIds, NEW signed \in SUBSET Keys,
           NEW key \in Keys, NEW alias \in Aliases \cup {NoAlias}, NEW initial_balance \in InitialBalances,
           CreateAccount(txid, signed, key, alias, initial_balance)
    PROVE  Authorized(txid, {}, signed)
<1> DEFINE paid == Charged(txid.payer)
           P == paid.accounts
           news == << NewAccount(key, alias, 0) >>
           B == WithAccounts(P, news)
           work == move_tinybar([paid EXCEPT !.accounts = WithAccounts(@, news)],
                                txid.payer, next_id, initial_balance)
           D == DOMAIN accounts
<1>1. Precheck(txid, {}, signed) /\ next_id <= MaxId
  BY DEF CreateAccount
<1>2. CASE BodyFails(txid, signed)
  BY <1>1, <1>2, FeeIsCovered DEF BodyFails, Consensus, Authorized
<1>3. CASE /\ P[txid.payer].balance >= initial_balance /\ accounts' = work.accounts
           /\ Consensus(txid, TRUE, work.transfers, 0, signed)
  <2>1. is_live(txid.payer) /\ accounts[txid.payer].balance >= HAPI_FEE
    BY <1>1 DEF Precheck
  <2>2. \A id \in D : P[id].balance
                        = accounts[id].balance + Delta(id, txid.payer, FEE_COLLECTOR, HAPI_FEE)
    BY <2>1, ChargedIs
  <2>3. Opened(txid.payer, news, alias, initial_balance)
    <3>1. initial_balance \in Nat
      BY LedgerAssumption
    <3>2. CanOpen(txid.payer, initial_balance)
      BY <1>1, <1>3, <2>1 DEF CanOpen
    <3> QED
      BY <3>1, <3>2, CreateAccountIs
  <2> HIDE DEF news
  <2>4. /\ \A id \in D : B[id] = P[id]
        /\ \A id \in D : work.accounts[id].balance = B[id].balance + Delta(id, txid.payer, next_id, initial_balance)
    BY <2>3, Zenon DEF Opened, Joined, Moved
  <2>5. accounts' = work.accounts /\ signers' = signed
    BY <1>3 DEF Consensus
  <2>6. accounts \in [D -> Account] /\ HAPI_FEE \in Nat /\ initial_balance \in Nat
    BY LedgerAssumption DEF Shape
  <2>7. \A id \in D : accounts[id].balance \in Nat
    BY <2>6 DEF Account
  <2> HIDE DEF paid, P, B, work, D
  <2>8. ASSUME NEW id \in D, accounts'[id].balance < accounts[id].balance PROVE id = txid.payer
    <3>1. accounts'[id].balance = (accounts[id].balance + Delta(id, txid.payer, FEE_COLLECTOR, HAPI_FEE))
                                  + Delta(id, txid.payer, next_id, initial_balance)
      BY <2>2, <2>4, <2>5
    <3> QED
      BY <2>6, <2>7, <2>8, <3>1 DEF Delta
  <2> QED
    BY <1>1, <2>5, <2>8 DEF Authorized, Covered, D
<1> QED
  BY <1>2, <1>3 DEF CreateAccount

(* cryptoTransfer takes from its payer and from the accounts whose keys    *)
(* it asked for: those its entries debit.                                  *)
LEMMA TransferIsAuthorized ==
    ASSUME Shape, IdsFresh, NEW txid \in TxIds, NEW signed \in SUBSET Keys, NEW list \in TransferLists,
           Transfer(txid, signed, list)
    PROVE  Authorized(txid, DebitKeys(list), signed)
<1> DEFINE paid == Charged(txid.payer)
           P == paid.accounts
           pt == paid.transfers
           done == AfterTransfer(paid, list)
           D == DOMAIN accounts
<1>1. Precheck(txid, DebitKeys(list), signed)
  BY DEF Transfer
<1>2. CASE BodyFails(txid, signed)
  BY <1>1, <1>2, FeeIsCovered DEF BodyFails, Consensus, Authorized
<1>3. CASE /\ TransferValid(list, P) /\ next_id + Len(done.hollow) <= MaxId + 1
           /\ accounts' = done.accounts /\ Consensus(txid, TRUE, done.transfers, 0, signed)
  <2>1. is_live(txid.payer) /\ accounts[txid.payer].balance >= HAPI_FEE
    BY <1>1 DEF Precheck
  <2>2. /\ \A id \in D : P[id].balance
                        = accounts[id].balance + Delta(id, txid.payer, FEE_COLLECTOR, HAPI_FEE)
        /\ Works(P, pt, D) /\ Holds(P, accounts, D) /\ paid = [accounts |-> P, transfers |-> pt]
    BY <2>1, ChargedIs
  <2>3. Transferred(done.accounts, done.hollow, P, list)
    <3>1. done = AfterTransfer([accounts |-> P, transfers |-> pt], list)
      BY <2>2
    <3>2. /\ TransferValid(list, P)
          /\ next_id + Len(AfterTransfer([accounts |-> P, transfers |-> pt], list).hollow) <= MaxId + 1
      BY <1>3, <3>1
    <3> HIDE DEF P, pt
    <3>3. LET d == AfterTransfer([accounts |-> P, transfers |-> pt], list)
          IN  Transferred(d.accounts, d.hollow, P, list)
      BY <2>2, <3>2, TransferIs
    <3> QED
      BY <3>1, <3>3
  <2>4. accounts' = done.accounts /\ signers' = signed
    BY <1>3 DEF Consensus
  <2>5. accounts \in [D -> Account] /\ HAPI_FEE \in Nat
    BY LedgerAssumption DEF Shape
  <2>6. \A id \in D : accounts[id].balance \in Nat
    BY <2>5 DEF Account
  <2> HIDE DEF paid, P, pt, done
  <2>7. ASSUME NEW id \in D, accounts'[id].balance < accounts[id].balance, id # txid.payer
        PROVE  accounts[id].key \in DebitKeys(list)
    <3>1. P[id].balance \in Nat /\ P[id].balance >= accounts[id].balance
      BY <2>2, <2>5, <2>6, <2>7 DEF Delta
    <3>2. accounts'[id].balance # P[id].balance
      BY <2>6, <2>7, <3>1
    <3>3. PICK k \in DOMAIN list :
            /\ Known(list[k].ref) /\ Resolve(list[k].ref) = id
            /\ accounts'[id].balance = P[id].balance + list[k].amount
      BY <2>3, <2>4, <3>2 DEF Transferred
    <3>4. list[k].amount < 0
      <4>1. list[k].amount \in Int
        BY SMTT(120), Entries
      <4> QED
        BY <4>1, <3>1, <3>3, <2>6, <2>7
    <3> QED
      BY <3>3, <3>4, <2>7 DEF DebitKeys
  <2> QED
    BY <1>1, <2>4, <2>7 DEF Authorized, Covered
<1> QED
  BY <1>2, <1>3 DEF Transfer

(* cryptoDelete takes from its payer and from the account that goes. *)
LEMMA DeleteIsAuthorized ==
    ASSUME Shape, NEW txid \in TxIds, NEW signed \in SUBSET Keys, NEW account, NEW transfer_to,
           Delete(txid, signed, account, transfer_to)
    PROVE  Authorized(txid, DeleteKeys(account), signed)
<1> DEFINE paid == Charged(txid.payer)
           P == paid.accounts
           amount == P[account].balance
           work == move_tinybar(paid, account, transfer_to, amount)
           D == DOMAIN accounts
<1>1. Precheck(txid, DeleteKeys(account), signed)
  BY DEF Delete
<1>2. CASE BodyFails(txid, signed)
  BY <1>1, <1>2, FeeIsCovered DEF BodyFails, Consensus, Authorized
<1>3. CASE /\ account # transfer_to /\ is_live(account) /\ is_live(transfer_to)
           /\ accounts' = [work.accounts EXCEPT ![account].deleted = TRUE]
           /\ Consensus(txid, TRUE, work.transfers, 0, signed)
  <2>1. is_live(txid.payer) /\ accounts[txid.payer].balance >= HAPI_FEE
    BY <1>1 DEF Precheck
  <2>2. /\ \A id \in D : P[id].balance
                        = accounts[id].balance + Delta(id, txid.payer, FEE_COLLECTOR, HAPI_FEE)
        /\ Works(P, paid.transfers, D)
    BY SMTT(120), <2>1, ChargedIs
  <2>3. account \in D /\ transfer_to \in D
    BY <1>3 DEF is_live
  <2>4. /\ work.accounts \in [D -> Account]
        /\ \A id \in D : work.accounts[id].balance = P[id].balance + Delta(id, account, transfer_to, amount)
    <3>1. Swept(txid.payer, account, transfer_to)
      BY SMTT(120), <2>1, <2>3, DeleteIs
    <3> QED
      BY <3>1, Zenon DEF Swept, Moved, Works
  <2>5. accounts' = [work.accounts EXCEPT ![account].deleted = TRUE] /\ signers' = signed
    BY <1>3 DEF Consensus
  <2>6. accounts \in [D -> Account] /\ P \in [D -> Account] /\ HAPI_FEE \in Nat
    BY <2>2, LedgerAssumption DEF Shape, Works
  <2>7. \A id \in D : accounts[id].balance \in Nat /\ P[id].balance \in Nat
    BY <2>6 DEF Account
  <2> HIDE DEF P, amount, work, paid
  <2>8. \A id \in D : accounts'[id].balance = work.accounts[id].balance
    <3>1. accounts' = [work.accounts EXCEPT ![account] = [work.accounts[account] EXCEPT !.deleted = TRUE]]
      BY <2>5
    <3>2. [work.accounts[account] EXCEPT !.deleted = TRUE].balance = work.accounts[account].balance
      BY <2>3, <2>4 DEF Account
    <3> QED
      BY <3>1, <3>2, <2>3, <2>4
  <2>9. amount \in Nat
    BY <2>3, <2>7 DEF amount
  <2>10. ASSUME NEW id \in D, accounts'[id].balance < accounts[id].balance, id # txid.payer
         PROVE  id = account
    <3>1. accounts'[id].balance = (accounts[id].balance + Delta(id, txid.payer, FEE_COLLECTOR, HAPI_FEE))
                                  + Delta(id, account, transfer_to, amount)
      BY <2>2, <2>4, <2>8
    <3> QED
      BY <2>6, <2>7, <2>9, <2>10, <3>1 DEF Delta
  <2>11. accounts[account].key \in DeleteKeys(account)
    BY <2>3 DEF DeleteKeys
  <2> QED
    BY <1>1, <2>5, <2>10, <2>11 DEF Authorized, Covered
<1> QED
  BY ZenonT(120), <1>2, <1>3 DEF Delete

(* Whatever a submission does, the keys it asked for cover what it took.   *)
LEMMA SubmitIsAuthorized ==
    ASSUME Shape, IdsFresh, NEW txid \in TxIds, NEW signed \in SUBSET Keys, Submit(txid, signed)
    PROVE  \E must : Authorized(txid, must, signed)
<1>1. ASSUME NEW key \in Keys, NEW alias \in Aliases \cup {NoAlias}, NEW balance \in InitialBalances,
             CreateAccount(txid, signed, key, alias, balance)
      PROVE  Authorized(txid, {}, signed)
  BY <1>1, CreateAccountIsAuthorized
<1>2. ASSUME NEW list \in TransferLists, Transfer(txid, signed, list)
      PROVE  Authorized(txid, DebitKeys(list), signed)
  BY <1>2, TransferIsAuthorized
<1>3. ASSUME NEW account \in Ids, NEW transfer_to \in Ids, Delete(txid, signed, account, transfer_to)
      PROVE  Authorized(txid, DeleteKeys(account), signed)
  BY <1>3, DeleteIsAuthorized
<1>4. ASSUME NEW submit_key \in Keys \cup {NoKey}, CreateTopic(txid, signed, submit_key)
      PROVE  Authorized(txid, {}, signed)
  BY <1>4, FeeIsCovered DEF CreateTopic, Consensus, Authorized
<1>5. ASSUME NEW topic \in Ids, NEW message \in Messages, SubmitMessage(txid, signed, topic, message)
      PROVE  Authorized(txid, SubmitKeys(topic), signed)
  <2>1. Precheck(txid, SubmitKeys(topic), signed) /\ accounts' = Charged(txid.payer).accounts /\ signers' = signed
    BY <1>5 DEF SubmitMessage, BodyFails, Consensus
  <2> QED
    BY <2>1, FeeIsCovered DEF Authorized
<1> QED
  BY <1>1, <1>2, <1>3, <1>4, <1>5 DEF Submit

(* A submission fails as a whole: whatever else it does, it succeeds.      *)
LEMMA FailsOrSucceeds ==
    ASSUME NEW txid \in TxIds, NEW signed \in SUBSET Keys, Submit(txid, signed)
    PROVE  \/ \E must : Precheck(txid, must, signed) /\ BodyFails(txid, signed)
           \/ \E t, sequence : Consensus(txid, TRUE, t, sequence, signed)
<1>1. ASSUME NEW key \in Keys, NEW alias \in Aliases \cup {NoAlias}, NEW balance \in InitialBalances,
             CreateAccount(txid, signed, key, alias, balance)
      PROVE  \/ Precheck(txid, {}, signed) /\ BodyFails(txid, signed)
             \/ \E t, sequence : Consensus(txid, TRUE, t, sequence, signed)
  BY <1>1, ZenonT(120) DEF CreateAccount
<1>2. ASSUME NEW list \in TransferLists, Transfer(txid, signed, list)
      PROVE  \/ Precheck(txid, DebitKeys(list), signed) /\ BodyFails(txid, signed)
             \/ \E t, sequence : Consensus(txid, TRUE, t, sequence, signed)
  BY <1>2, ZenonT(120) DEF Transfer
<1>3. ASSUME NEW account \in Ids, NEW transfer_to \in Ids, Delete(txid, signed, account, transfer_to)
      PROVE  \/ Precheck(txid, DeleteKeys(account), signed) /\ BodyFails(txid, signed)
             \/ \E t, sequence : Consensus(txid, TRUE, t, sequence, signed)
  BY <1>3 DEF Delete
<1>4. ASSUME NEW submit_key \in Keys \cup {NoKey}, CreateTopic(txid, signed, submit_key)
      PROVE  \E t, sequence : Consensus(txid, TRUE, t, sequence, signed)
  BY <1>4 DEF CreateTopic
<1>5. ASSUME NEW topic \in Ids, NEW message \in Messages, SubmitMessage(txid, signed, topic, message)
      PROVE  \/ Precheck(txid, SubmitKeys(topic), signed) /\ BodyFails(txid, signed)
             \/ \E t, sequence : Consensus(txid, TRUE, t, sequence, signed)
  BY <1>5 DEF SubmitMessage
<1> QED
  BY <1>1, <1>2, <1>3, <1>4, <1>5 DEF Submit

(* The record of a submission is the last one. *)
LEMMA LastRecord ==
    ASSUME Shape, NEW txid, NEW ok, NEW t, NEW sequence, NEW signed,
           Consensus(txid, ok, t, sequence, signed)
    PROVE  records'[Len(records')].ok = ok /\ records'[Len(records')].id = txid
<1> DEFINE r == [id |-> txid, ok |-> ok, transfers |-> aggregate(t), sequence |-> sequence]
<1>1. records' = Append(records, r) /\ r.ok = ok /\ r.id = txid
  BY DEF Consensus
<1> HIDE DEF r
<1>2. records \in Seq(Record \cup {r})
  BY SeqMonotonic DEF Shape
<1>3. Len(records') = Len(records) + 1 /\ records'[Len(records) + 1] = r
  BY <1>1, <1>2, AppendProperties
<1> QED
  BY <1>1, <1>3

(* What FailureCostsTheFee and DebitsAreSigned say of a step.              *)
DebitSigned ==
  VerifySignatures =>
    \A id \in DOMAIN accounts :
      accounts'[id].balance < accounts[id].balance /\ accounts[id].key # NoKey
      => accounts[id].key \in signers'

FailureCosts ==
  Len(records') > Len(records) /\ ~records'[Len(records')].ok =>
    LET payer == records'[Len(records')].id.payer
        fee   == IF payer = FEE_COLLECTOR THEN 0 ELSE HAPI_FEE
    IN  /\ UNCHANGED <<by_evm, next_id, topics>>
        /\ DOMAIN accounts' = DOMAIN accounts
        /\ accounts'[payer].balance = accounts[payer].balance - fee
        /\ accounts'[FEE_COLLECTOR].balance = accounts[FEE_COLLECTOR].balance + fee
        /\ \A id \in DOMAIN accounts \ {payer, FEE_COLLECTOR} : accounts'[id] = accounts[id]

(* Every step takes what was signed for, and only the fee when it fails. *)
LEMMA StepsAreFair == Shape /\ IdsFresh /\ [Next]_vars => DebitSigned /\ FailureCosts
<1> SUFFICES ASSUME Shape, IdsFresh, [Next]_vars PROVE DebitSigned /\ FailureCosts
  OBVIOUS
<1>1. CASE UNCHANGED vars
  <2>1. accounts' = accounts /\ records' = records
    BY <1>1 DEF vars
  <2>2. \A id \in DOMAIN accounts : accounts[id].balance \in Nat
    <3>1. accounts \in [DOMAIN accounts -> Account]
      BY DEF Shape
    <3> QED
      BY <3>1 DEF Account
  <2>3. \A x \in Nat : ~(x < x) /\ ~(x > x)
    OBVIOUS
  <2>4. Len(records) \in Nat
    BY DEF Shape
  <2>5. DebitSigned
    BY <2>1, <2>2, <2>3, Zenon DEF DebitSigned
  <2>6. FailureCosts
    BY <2>1, <2>3, <2>4, Zenon DEF FailureCosts
  <2> QED
    BY <2>5, <2>6
<1>2. ASSUME NEW txid \in TxIds, NEW signed \in SUBSET Keys, Submit(txid, signed)
      PROVE  DebitSigned /\ FailureCosts
  <2>1. PICK must : Authorized(txid, must, signed)
    BY <1>2, SubmitIsAuthorized
  <2>2. DebitSigned
    BY <2>1, AuthorizedIsSigned DEF DebitSigned
  <2>3. ASSUME NEW needed, Precheck(txid, needed, signed), BodyFails(txid, signed) PROVE FailureCosts
    <3> DEFINE payer == txid.payer
               w == Charged(payer)
               D == DOMAIN accounts
    <3>1. records'[Len(records')].id = txid
      BY <2>3, LastRecord DEF BodyFails
    <3>2. is_live(payer) /\ accounts[payer].balance >= HAPI_FEE
      BY <2>3 DEF Precheck
    <3>3. /\ Works(w.accounts, w.transfers, D)
          /\ \A id \in D : w.accounts[id].balance
                             = accounts[id].balance + Delta(id, payer, FEE_COLLECTOR, HAPI_FEE)
          /\ \A id \in D : id # payer /\ id # FEE_COLLECTOR => w.accounts[id] = accounts[id]
          /\ payer \in D /\ FEE_COLLECTOR \in D
      BY <3>2, ChargedIs
    <3>4. accounts' = w.accounts /\ UNCHANGED <<by_evm, next_id, topics>>
      BY <2>3 DEF BodyFails
    <3>5. DOMAIN accounts' = D
      BY <3>3, <3>4 DEF Works
    <3>6. /\ HAPI_FEE \in Nat /\ accounts[payer].balance \in Int /\ accounts[FEE_COLLECTOR].balance \in Int
      <4>1. accounts \in [D -> Account]
        BY DEF Shape
      <4> QED
        BY <4>1, <3>3, LedgerAssumption DEF Account
    <3> DEFINE fee == IF payer = FEE_COLLECTOR THEN 0 ELSE HAPI_FEE
    <3> HIDE DEF w
    <3>7. /\ accounts'[payer].balance = accounts[payer].balance - fee
          /\ accounts'[FEE_COLLECTOR].balance = accounts[FEE_COLLECTOR].balance + fee
      BY <3>3, <3>4, <3>6 DEF Delta
    <3>8. \A id \in D \ {payer, FEE_COLLECTOR} : accounts'[id] = accounts[id]
      BY <3>3, <3>4
    <3> QED
      BY <3>1, <3>4, <3>5, <3>7, <3>8, Zenon DEF FailureCosts
  <2>4. ASSUME NEW t, NEW sequence, Consensus(txid, TRUE, t, sequence, signed) PROVE FailureCosts
    <3>1. PICK ok : ok = TRUE
      OBVIOUS
    <3>2. records'[Len(records')].ok = ok
      BY <2>4, <3>1, LastRecord
    <3> QED
      BY <3>1, <3>2 DEF FailureCosts
  <2> QED
    BY <1>2, <2>2, <2>3, <2>4, FailsOrSucceeds
<1> QED
  BY <1>1, <1>2 DEF Next

-----------------------------------------------------------------------------
(* Addresses.  An address names an account when it is one of its two.      *)
Names(a, id, account) == a = LongZero(id) \/ a = evm_address(id, account)

(* Names lists the two addresses of an account. *)
LEMMA NamesIs ==
    \A a, id, account : a \in {evm_address(id, account), LongZero(id)} <=> Names(a, id, account)
BY DEF Names

(* Nothing names two accounts: a long-zero address is its account's alone, *)
(* and an alias is no long-zero address.                                   *)
LEMMA NamesApart ==
    ASSUME NEW i \in Ids, NEW j \in Ids, NEW a, NEW x, NEW y, Plain(x.alias), Plain(y.alias),
           Names(a, i, x), Names(a, j, y)
    PROVE  i = j \/ (x.alias = y.alias /\ a = x.alias /\ x.alias # NoAlias)
<1>1. /\ \A p, q \in Ids : LongZero(p) = LongZero(q) => p = q
      /\ \A p \in Ids : LongZero(p) \in LongZeros
  BY DEF LongZero, LongZeros
<1>2. /\ a = LongZero(i) \/ (a = x.alias /\ x.alias # NoAlias)
      /\ a = LongZero(j) \/ (a = y.alias /\ y.alias # NoAlias)
  BY DEF Names, evm_address
<1> QED
  BY <1>1, <1>2 DEF Plain

(* AddressesResolve, said with Names. *)
LEMMA ResolveIs ==
    AddressesResolve <=>
      /\ \A id \in DOMAIN accounts : \A a :
           Names(a, id, accounts[id]) => a \in DOMAIN by_evm /\ by_evm[a] = id
      /\ \A a \in DOMAIN by_evm :
           by_evm[a] \in DOMAIN accounts /\ Names(a, by_evm[a], accounts[by_evm[a]])
BY NamesIs, Zenon DEF AddressesResolve

(* The same of the next state. *)
LEMMA ResolveIsNext ==
    AddressesResolve' <=>
      /\ \A id \in DOMAIN accounts' : \A a :
           Names(a, id, accounts'[id]) => a \in DOMAIN by_evm' /\ by_evm'[a] = id
      /\ \A a \in DOMAIN by_evm' :
           by_evm'[a] \in DOMAIN accounts' /\ Names(a, by_evm'[a], accounts'[by_evm'[a]])
BY NamesIs, Zenon DEF AddressesResolve

(* A step that opens no account leaves the names as they were. *)
LEMMA NamesKept ==
    ASSUME Shape, Named, DOMAIN accounts' = DOMAIN accounts, by_evm' = by_evm,
           \A id \in DOMAIN accounts : accounts'[id].alias = accounts[id].alias
    PROVE  Named'
<1>1. \A id \in DOMAIN accounts : \A a : Names(a, id, accounts'[id]) <=> Names(a, id, accounts[id])
  BY DEF Names, evm_address
<1>2. AddressesResolve'
  BY <1>1, ResolveIs, ResolveIsNext DEF Named
<1> QED
  BY <1>2 DEF Named, PlainAliases, Shape

(* NoAlias is nobody's address. *)
LEMMA NoAliasIsFree == ASSUME Shape, Named PROVE NoAlias \notin DOMAIN by_evm
<1>1. \A a \in DOMAIN by_evm : by_evm[a] \in Ids /\ Names(a, by_evm[a], accounts[by_evm[a]])
  BY ResolveIs DEF Named, Shape
<1>2. \A id \in Ids : \A account : ~Names(NoAlias, id, account)
  BY LedgerAssumption DEF Names, evm_address, LongZeros
<1> QED
  BY <1>1, <1>2

(* Accounts that are opened by the next state and keep their aliases from  *)
(* this one have plain ones in both.                                       *)
Kin ==
  /\ DOMAIN accounts \subseteq DOMAIN accounts'
  /\ \A id \in DOMAIN accounts : accounts'[id].alias = accounts[id].alias

LEMMA KinArePlain == Kin /\ PlainAliases' => PlainAliases
BY DEF Kin, PlainAliases

(* New accounts that take addresses nothing holds. *)
Unheld(news) ==
  /\ \A k \in DOMAIN news : /\ Plain(news[k].alias)
                            /\ news[k].alias \notin DOMAIN by_evm
  /\ \A j, k \in DOMAIN news : news[j].alias = news[k].alias /\ news[j].alias # NoAlias => j = k

(* New accounts under addresses nobody holds keep every address leading    *)
(* to its account.                                                         *)
LEMMA NamesJoin ==
    ASSUME Shape, IdsFresh, Named, NEW news, Room(news), Unheld(news),
           DOMAIN accounts' = DOMAIN accounts \cup News(news), by_evm' = WithAddresses(news),
           \A id \in DOMAIN accounts : accounts'[id].alias = accounts[id].alias,
           \A k \in DOMAIN news : accounts'[NewId(k)].alias = news[k].alias
    PROVE  Named'
<1> DEFINE D == DOMAIN accounts
           B == by_evm'
<1>1. /\ \A id \in D : \A a : Names(a, id, accounts[id]) => a \in DOMAIN by_evm /\ by_evm[a] = id
      /\ \A a \in DOMAIN by_evm : by_evm[a] \in D /\ Names(a, by_evm[a], accounts[by_evm[a]])
      /\ \A id \in D : Plain(accounts[id].alias)
  BY ResolveIs DEF Named, PlainAliases, Plain
<1>2. /\ \A k \in DOMAIN news : NewId(k) \in Ids /\ NewId(k) \notin D
      /\ \A j, k \in DOMAIN news : NewId(j) = NewId(k) => j = k
      /\ D \subseteq Ids
  BY NewIdsFresh DEF Shape
<1>3. /\ \A a : a \in DOMAIN B <=> a \in DOMAIN by_evm \/ Naming(news, a) # {}
      /\ \A a \in DOMAIN B : Naming(news, a) = {} => B[a] = by_evm[a]
      /\ \A a : Naming(news, a) # {} => \E k \in Naming(news, a) : B[a] = NewId(k)
  BY AddressesJoin
<1>4. \A a, k : k \in Naming(news, a) <=> k \in DOMAIN news /\ Names(a, NewId(k), news[k])
  BY DEF Naming, Names
<1> HIDE DEF B
<1>5. ASSUME NEW a, NEW k \in DOMAIN news, Names(a, NewId(k), news[k])
      PROVE  a \notin DOMAIN by_evm
  <2> SUFFICES ASSUME a \in DOMAIN by_evm PROVE FALSE
    OBVIOUS
  <2> DEFINE id == by_evm[a]
  <2>1. id \in D /\ Names(a, id, accounts[id])
    BY <1>1
  <2>2. id \in Ids /\ NewId(k) \in Ids /\ id # NewId(k)
    BY <2>1, <1>2
  <2>3. Plain(accounts[id].alias) /\ Plain(news[k].alias)
    BY <2>1, <1>1 DEF Unheld
  <2>4. a = news[k].alias
    <3> DEFINE x == news[k]
               y == accounts[id]
               i == NewId(k)
    <3>1. i \in Ids /\ id \in Ids /\ i # id /\ Plain(x.alias)
          /\ Plain(y.alias) /\ Names(a, i, x) /\ Names(a, id, y)
      BY <1>5, <2>1, <2>2, <2>3
    <3> HIDE DEF x, y, i, id
    <3>2. a = x.alias
      BY <3>1, NamesApart
    <3> QED
      BY <3>2 DEF x
  <2> QED
    BY <2>4 DEF Unheld
<1>6. ASSUME NEW a, NEW j \in DOMAIN news, NEW k \in DOMAIN news,
             Names(a, NewId(j), news[j]), Names(a, NewId(k), news[k])
      PROVE  j = k
  <2> DEFINE x == news[j]
             y == news[k]
             p == NewId(j)
             q == NewId(k)
  <2>1. p \in Ids /\ q \in Ids /\ Plain(x.alias) /\ Plain(y.alias)
        /\ Names(a, p, x) /\ Names(a, q, y)
    BY <1>2, <1>6 DEF Unheld
  <2> HIDE DEF x, y, p, q
  <2>2. p = q \/ (x.alias = y.alias /\ x.alias # NoAlias)
    BY <2>1, NamesApart
  <2> QED
    BY <2>2, <1>2 DEF x, y, p, q, Unheld
<1>7. ASSUME NEW a, NEW k \in DOMAIN news, Names(a, NewId(k), news[k])
      PROVE  a \in DOMAIN B /\ B[a] = NewId(k)
  BY ZenonT(120), <1>3, <1>4, <1>6, <1>7
<1>8. ASSUME NEW a \in DOMAIN by_evm PROVE a \in DOMAIN B /\ B[a] = by_evm[a]
  <2>1. Naming(news, a) = {}
    BY <1>4, <1>5
  <2> QED
    BY <2>1, <1>3
<1>9. \A k \in DOMAIN news : \A a :
        Names(a, NewId(k), accounts'[NewId(k)]) <=> Names(a, NewId(k), news[k])
  BY DEF Names, evm_address
<1>m. ASSUME NEW id \in D, NEW a PROVE Names(a, id, accounts'[id]) <=> Names(a, id, accounts[id])
  BY DEF Names, evm_address
<1>10. ASSUME NEW id \in DOMAIN accounts', NEW a, Names(a, id, accounts'[id])
       PROVE  a \in DOMAIN B /\ B[a] = id
  <2>1. CASE id \in D
    <3>1. a \in DOMAIN by_evm /\ by_evm[a] = id
      BY <2>1, <1>m, <1>10, <1>1
    <3> QED
      BY <3>1, <1>8
  <2>2. CASE id \in News(news)
    <3>1. PICK k \in DOMAIN news : id = NewId(k)
      BY <2>2 DEF News
    <3> QED
      BY <3>1, <1>7, <1>9, <1>10
  <2> QED
    BY <2>1, <2>2
<1>11. ASSUME NEW a \in DOMAIN B PROVE B[a] \in DOMAIN accounts' /\ Names(a, B[a], accounts'[B[a]])
  <2>1. CASE Naming(news, a) = {}
    <3>1. a \in DOMAIN by_evm
      BY <2>1, <1>3
    <3>2. B[a] = by_evm[a] /\ by_evm[a] \in D /\ Names(a, by_evm[a], accounts[by_evm[a]])
      BY <3>1, <1>1, <1>8
    <3> QED
      BY <3>2, <1>m
  <2>2. CASE Naming(news, a) # {}
    <3>1. PICK k \in Naming(news, a) : B[a] = NewId(k)
      BY <2>2, <1>3
    <3>2. k \in DOMAIN news /\ Names(a, NewId(k), news[k])
      BY <3>1, <1>4
    <3> QED
      BY <3>1, <3>2, <1>9 DEF News
  <2> QED
    BY <2>1, <2>2
<1>12. AddressesResolve'
  BY <1>10, <1>11, ResolveIsNext DEF B
<1>13. \A id \in DOMAIN accounts' : Plain(accounts'[id].alias)
  <2>1. \A id \in News(news) : Plain(accounts'[id].alias)
    BY DEF News, Unheld
  <2> QED
    BY <2>1, <1>1
<1> QED
  BY <1>12, <1>13 DEF Named, PlainAliases, Plain, Shape

(* At genesis an address names one account. *)
LEMMA NamedAtGenesis ==
    ASSUME PlainAliases, Init PROVE Named
<1> DEFINE Of(a) == {id \in GenesisIds : a \in {evm_address(id, accounts[id]), LongZero(id)}}
<1>1. /\ DOMAIN accounts = GenesisIds
      /\ \A id \in GenesisIds : accounts[id].alias = GenesisAlias[id]
  BY DEF Init, NewAccount
<1>2. /\ \A id \in GenesisIds : id \in Ids /\ Plain(accounts[id].alias)
      /\ \A i, j \in GenesisIds : accounts[i].alias = accounts[j].alias /\ accounts[i].alias # NoAlias => i = j
  BY <1>1, LedgerAssumption, IdsFinite DEF PlainAliases, Plain
<1>3. by_evm = [a \in {LongZero(id) : id \in GenesisIds}
                         \cup {evm_address(id, accounts[id]) : id \in GenesisIds} |->
                  CHOOSE id \in GenesisIds : a \in {evm_address(id, accounts[id]), LongZero(id)}]
  BY DEF Init
<1>4. \A a : a \in DOMAIN by_evm <=> \E id \in GenesisIds : Names(a, id, accounts[id])
  BY <1>3 DEF Names
<1>5. ASSUME NEW a \in DOMAIN by_evm PROVE by_evm[a] \in GenesisIds /\ Names(a, by_evm[a], accounts[by_evm[a]])
  <2>1. by_evm[a] = CHOOSE id \in GenesisIds : a \in {evm_address(id, accounts[id]), LongZero(id)}
    BY <1>3
  <2>2. \E id \in GenesisIds : a \in {evm_address(id, accounts[id]), LongZero(id)}
    BY <1>4, NamesIs
  <2>3. by_evm[a] \in GenesisIds /\ a \in {evm_address(by_evm[a], accounts[by_evm[a]]), LongZero(by_evm[a])}
    BY <2>1, <2>2
  <2> QED
    BY <2>3, NamesIs
<1>6. ASSUME NEW i \in GenesisIds, NEW j \in GenesisIds, NEW a, Names(a, i, accounts[i]), Names(a, j, accounts[j])
      PROVE  i = j
  <2> DEFINE x == accounts[i]
             y == accounts[j]
  <2>1. i \in Ids /\ j \in Ids /\ Plain(x.alias) /\ Plain(y.alias)
        /\ Names(a, i, x) /\ Names(a, j, y)
    BY <1>2, <1>6
  <2> HIDE DEF x, y
  <2>2. i = j \/ (x.alias = y.alias /\ x.alias # NoAlias)
    BY <2>1, NamesApart
  <2> QED
    BY <2>2, <1>2 DEF x, y
<1>7. \A id \in DOMAIN accounts : \A a : Names(a, id, accounts[id]) => a \in DOMAIN by_evm /\ by_evm[a] = id
  BY <1>1, <1>4, <1>5, <1>6
<1>8. AddressesResolve
  BY <1>1, <1>5, <1>7, ResolveIs
<1> QED
  BY <1>1, <1>2, <1>8 DEF Named

(* The fee changes no account's alias. *)
LEMMA NamedAfterFee ==
    ASSUME Shape, Named, NEW txid, NEW must, NEW signed, Precheck(txid, must, signed),
           accounts' = Charged(txid.payer).accounts, by_evm' = by_evm
    PROVE  Named'
<1> DEFINE w == Charged(txid.payer)
           D == DOMAIN accounts
<1>1. is_live(txid.payer) /\ accounts[txid.payer].balance >= HAPI_FEE
  BY DEF Precheck
<1>2. Works(w.accounts, w.transfers, D) /\ Holds(w.accounts, accounts, D)
  BY <1>1, ChargedIs
<1>3. accounts' = w.accounts
  OBVIOUS
<1> HIDE DEF w
<1>4. DOMAIN accounts' = D /\ \A id \in D : accounts'[id].alias = accounts[id].alias
  BY <1>2, <1>3 DEF Works, Holds
<1> QED
  BY <1>4, NamesKept

(* cryptoCreateAccount takes an alias only when nobody holds it. *)
LEMMA CreateAccountKeepsNames ==
    ASSUME PlainAliases', Shape, IdsFresh, Named, NEW txid \in TxIds, NEW signed \in SUBSET Keys,
           NEW key \in Keys, NEW alias \in Aliases \cup {NoAlias}, NEW initial_balance \in InitialBalances,
           CreateAccount(txid, signed, key, alias, initial_balance)
    PROVE  Named'
<1> DEFINE paid == Charged(txid.payer)
           P == paid.accounts
           news == << NewAccount(key, alias, 0) >>
           B == WithAccounts(P, news)
           work == move_tinybar([paid EXCEPT !.accounts = WithAccounts(@, news)],
                                txid.payer, next_id, initial_balance)
           D == DOMAIN accounts
<1>1. Precheck(txid, {}, signed) /\ next_id <= MaxId
  BY DEF CreateAccount
<1>2. CASE BodyFails(txid, signed)
  BY <1>1, <1>2, NamedAfterFee DEF BodyFails
<1>3. CASE /\ P[txid.payer].balance >= initial_balance /\ accounts' = work.accounts
           /\ by_evm' = WithAddresses(news) /\ (alias = NoAlias \/ alias \notin DOMAIN by_evm)
  <2>1. is_live(txid.payer) /\ accounts[txid.payer].balance >= HAPI_FEE
    BY <1>1 DEF Precheck
  <2>2. Holds(P, accounts, D)
    BY <2>1, ChargedIs
  <2>3. Opened(txid.payer, news, alias, initial_balance)
    <3>1. initial_balance \in Nat
      BY LedgerAssumption
    <3>2. CanOpen(txid.payer, initial_balance)
      BY <1>1, <1>3, <2>1 DEF CanOpen
    <3> QED
      BY <3>1, <3>2, CreateAccountIs, Zenon
  <2>4. accounts' = work.accounts /\ by_evm' = WithAddresses(news)
    BY <1>3
  <2> HIDE DEF news
  <2>5. /\ Room(news) /\ DOMAIN news = {1} /\ News(news) = {next_id} /\ NewId(1) = next_id
        /\ news[1].alias = alias
        /\ Joined(B, P, news) /\ Holds(work.accounts, B, D \cup News(news))
        /\ DOMAIN work.accounts = D \cup News(news)
    <3>1. /\ Room(news) /\ DOMAIN news = {1} /\ News(news) = {next_id} /\ NewId(1) = next_id
          /\ news[1].alias = alias
          /\ Joined(B, P, news) /\ Holds(work.accounts, B, D \cup News(news))
          /\ Works(work.accounts, work.transfers, D \cup News(news))
      BY <2>3, Zenon DEF Opened, Moved
    <3> HIDE DEF work
    <3> QED
      BY <3>1 DEF Works
  <2> HIDE DEF P, B, work, paid
  <2>6. DOMAIN accounts' = D \cup News(news) /\ \A id \in D : accounts'[id].alias = accounts[id].alias
    BY <2>2, <2>4, <2>5 DEF Joined, Holds
  <2>7. \A k \in DOMAIN news : accounts'[NewId(k)].alias = news[k].alias
    <3>1. accounts'[NewId(1)].alias = B[NewId(1)].alias
      BY <2>4, <2>5 DEF Holds
    <3>2. B[NewId(1)] = news[1]
      BY <2>5 DEF Joined
    <3> QED
      BY <3>1, <3>2, <2>5
  <2>8. NoAlias \notin DOMAIN by_evm
    BY NoAliasIsFree
  <2>9. Unheld(news)
    <3>1. NewId(1) \in DOMAIN accounts'
      BY <2>5, <2>6
    <3>2. Plain(alias)
      BY <2>5, <2>7, <3>1 DEF PlainAliases, Plain
    <3> QED
      BY <1>3, <2>5, <2>8, <3>2 DEF Unheld
  <2> QED
    BY <2>4, <2>5, <2>6, <2>7, <2>9, NamesJoin
<1> QED
  BY <1>2, <1>3 DEF CreateAccount

(* A hollow account takes an alias that led nowhere. *)
LEMMA TransferKeepsNames ==
    ASSUME PlainAliases', Shape, IdsFresh, Named, NEW txid \in TxIds, NEW signed \in SUBSET Keys,
           NEW list \in TransferLists, Transfer(txid, signed, list)
    PROVE  Named'
<1> DEFINE paid == Charged(txid.payer)
           P == paid.accounts
           pt == paid.transfers
           done == AfterTransfer(paid, list)
           hollow == done.hollow
           D == DOMAIN accounts
<1>1. Precheck(txid, DebitKeys(list), signed)
  BY DEF Transfer
<1>2. CASE BodyFails(txid, signed)
  BY <1>1, <1>2, NamedAfterFee DEF BodyFails
<1>3. CASE /\ TransferValid(list, P) /\ next_id + Len(hollow) <= MaxId + 1
           /\ accounts' = done.accounts /\ by_evm' = WithAddresses(hollow)
  <2>1. is_live(txid.payer) /\ accounts[txid.payer].balance >= HAPI_FEE
    BY <1>1 DEF Precheck
  <2>2. Works(P, pt, D) /\ Holds(P, accounts, D) /\ paid = [accounts |-> P, transfers |-> pt]
    BY <2>1, ChargedIs
  <2>3. Works(done.accounts, done.transfers, D \cup News(hollow)) /\ Transferred(done.accounts, hollow, P, list)
    <3>1. done = AfterTransfer([accounts |-> P, transfers |-> pt], list)
      BY <2>2
    <3>2. /\ TransferValid(list, P)
          /\ next_id + Len(AfterTransfer([accounts |-> P, transfers |-> pt], list).hollow) <= MaxId + 1
      BY <1>3, <3>1
    <3> HIDE DEF P, pt
    <3>3. LET d == AfterTransfer([accounts |-> P, transfers |-> pt], list)
          IN  /\ Works(d.accounts, d.transfers, DOMAIN accounts \cup News(d.hollow))
              /\ Transferred(d.accounts, d.hollow, P, list)
      BY <2>2, <3>2, TransferIs
    <3> QED
      BY <3>1, <3>3
  <2>4. accounts' = done.accounts /\ by_evm' = WithAddresses(hollow)
    BY <1>3
  <2> HIDE DEF paid, P, pt, done, hollow
  <2>5. DOMAIN accounts' = D \cup News(hollow) /\ \A id \in D : accounts'[id].alias = accounts[id].alias
    BY <2>2, <2>3, <2>4 DEF Works, Transferred, Holds
  <2>6. Room(hollow) /\ \A n \in DOMAIN hollow : accounts'[NewId(n)].alias = hollow[n].alias
    BY <2>3, <2>4 DEF Transferred
  <2>7. \A k \in DOMAIN list : ~Known(list[k].ref) => list[k].ref[2] \notin DOMAIN by_evm
    BY DEF Known
  <2>8. Unheld(hollow)
    <3>1. \A n \in DOMAIN hollow : \E k \in DOMAIN list : ~Known(list[k].ref) /\ hollow[n].alias = list[k].ref[2]
      BY <2>3 DEF Transferred
    <3>2. \A m, n \in DOMAIN hollow : hollow[m].alias = hollow[n].alias => m = n
      BY <2>3 DEF Transferred
    <3>3. \A n \in DOMAIN hollow : hollow[n].alias \notin DOMAIN by_evm
      BY <3>1, <2>7
    <3>4. \A n \in DOMAIN hollow : NewId(n) \in DOMAIN accounts'
      BY <2>5 DEF News
    <3>5. \A n \in DOMAIN hollow : Plain(hollow[n].alias)
      BY <2>6, <3>4 DEF PlainAliases, Plain
    <3> QED
      BY <3>2, <3>3, <3>5 DEF Unheld
  <2> QED
    BY <2>4, <2>5, <2>6, <2>8, NamesJoin
<1> QED
  BY <1>2, <1>3 DEF Transfer

(* A deleted account keeps its addresses. *)
LEMMA DeleteKeepsNames ==
    ASSUME Shape, Named, NEW txid \in TxIds, NEW signed \in SUBSET Keys, NEW account, NEW transfer_to,
           Delete(txid, signed, account, transfer_to)
    PROVE  Named'
<1> DEFINE paid == Charged(txid.payer)
           P == paid.accounts
           amount == P[account].balance
           work == move_tinybar(paid, account, transfer_to, amount)
           D == DOMAIN accounts
<1>1. Precheck(txid, DeleteKeys(account), signed)
  BY DEF Delete
<1>2. CASE BodyFails(txid, signed)
  BY <1>1, <1>2, NamedAfterFee DEF BodyFails
<1>3. CASE /\ account # transfer_to /\ is_live(account) /\ is_live(transfer_to)
           /\ accounts' = [work.accounts EXCEPT ![account].deleted = TRUE] /\ by_evm' = by_evm
  <2>1. is_live(txid.payer) /\ accounts[txid.payer].balance >= HAPI_FEE
    BY <1>1 DEF Precheck
  <2>2. Holds(P, accounts, D)
    BY SMTT(120), <2>1, ChargedIs
  <2>3. account \in D /\ transfer_to \in D
    BY <1>3 DEF is_live
  <2>4. work.accounts \in [D -> Account] /\ Holds(work.accounts, P, D)
    <3>1. Swept(txid.payer, account, transfer_to)
      BY SMTT(120), <2>1, <2>3, DeleteIs
    <3> QED
      BY <3>1, Zenon DEF Swept, Moved, Works
  <2>5. accounts' = [work.accounts EXCEPT ![account].deleted = TRUE]
    BY <1>3
  <2> HIDE DEF P, amount, work, paid
  <2>6. DOMAIN accounts' = D /\ \A id \in D : accounts'[id].alias = work.accounts[id].alias
    <3>1. accounts' = [work.accounts EXCEPT ![account] = [work.accounts[account] EXCEPT !.deleted = TRUE]]
      BY <2>5
    <3>2. [work.accounts[account] EXCEPT !.deleted = TRUE].alias = work.accounts[account].alias
      BY <2>3, <2>4 DEF Account
    <3> QED
      BY <3>1, <3>2, <2>3, <2>4
  <2>7. \A id \in D : accounts'[id].alias = accounts[id].alias
    BY <2>2, <2>4, <2>6 DEF Holds
  <2> QED
    BY <1>3, <2>6, <2>7, NamesKept
<1> QED
  BY ZenonT(120), <1>2, <1>3 DEF Delete

(* Every step that gives no account the address of an id keeps the names. *)
LEMMA NextKeepsNames ==
    ASSUME Shape, IdsFresh, Named, [Next]_vars, PlainAliases' PROVE Named'
<1>1. CASE UNCHANGED vars
  BY <1>1, NamesKept DEF vars
<1>2. ASSUME NEW txid \in TxIds, NEW signed \in SUBSET Keys, Submit(txid, signed) PROVE Named'
  <2>1. ASSUME NEW key \in Keys, NEW alias \in Aliases \cup {NoAlias}, NEW balance \in InitialBalances,
               CreateAccount(txid, signed, key, alias, balance)
        PROVE  Named'
    BY <2>1, CreateAccountKeepsNames
  <2>2. ASSUME NEW list \in TransferLists, Transfer(txid, signed, list) PROVE Named'
    BY <2>2, TransferKeepsNames
  <2>3. ASSUME NEW account \in Ids, NEW transfer_to \in Ids, Delete(txid, signed, account, transfer_to)
        PROVE  Named'
    BY <2>3, DeleteKeepsNames
  <2>4. ASSUME NEW submit_key \in Keys \cup {NoKey}, CreateTopic(txid, signed, submit_key) PROVE Named'
    BY <2>4, NamedAfterFee DEF CreateTopic
  <2>5. ASSUME NEW topic \in Ids, NEW message \in Messages, SubmitMessage(txid, signed, topic, message)
        PROVE  Named'
    <3>1. Precheck(txid, SubmitKeys(topic), signed) /\ accounts' = Charged(txid.payer).accounts /\ by_evm' = by_evm
      BY <2>5 DEF SubmitMessage, BodyFails
    <3> QED
      BY <3>1, NamedAfterFee
  <2> QED
    BY <1>2, <2>1, <2>2, <2>3, <2>4, <2>5 DEF Submit
<1> QED
  BY <1>1, <1>2 DEF Next

-----------------------------------------------------------------------------
(* Whatever is submitted, ids are fresh, records are between accounts that *)
(* exist and explain every balance, and deleted accounts are empty.        *)
THEOREM LedgerInvariant == Spec => []IInv
<1>1. Init => IInv
  BY InitKeeps
<1>2. IInv /\ [Next]_vars => IInv'
  BY NextKeeps
<1> QED
  BY <1>1, <1>2, PTL DEF Spec

(* Accounts, address index, id counter, topics and records stay of their   *)
(* types, whatever clients submit (apply_hapi).                            *)
THEOREM LedgerTypes == Spec => []TypeOK
<1>1. IInv => TypeOK
  <2> SUFFICES ASSUME Shape, Aliased PROVE TypeOK
    BY DEF IInv, Base
  <2>1. /\ accounts \in [DOMAIN accounts -> Account] /\ DOMAIN accounts \subseteq Ids
        /\ by_evm \in [DOMAIN by_evm -> DOMAIN accounts]
    BY DEF Shape
  <2>2. \A id \in DOMAIN accounts :
          accounts[id] \in [key : Keys \cup {NoKey}, alias : Written, balance : Nat, deleted : BOOLEAN]
    BY <2>1 DEF Account, Aliased
  <2>3. \A address \in DOMAIN by_evm : by_evm[address] \in Ids
    BY <2>1
  <2> QED
    BY <2>1, <2>2, <2>3 DEF Shape, TypeOK, Written
<1> QED
  BY <1>1, LedgerInvariant, PTL

(* No submission creates or destroys tinybar, and the transfers of the     *)
(* records explain every balance (apply_hapi, move_tinybar, aggregate).    *)
THEOREM TinybarHolds == Spec => []TinybarAccountedFor
<1>1. IInv => TinybarAccountedFor
  BY DEF IInv
<1> QED
  BY <1>1, LedgerInvariant, PTL

(* An account with a key loses tinybar only to what its key signed, and a  *)
(* body that fails costs its payer the fee and nothing else (apply_hapi).  *)
THEOREM PaymentsHold == Spec => PaymentsAreFair
<1>1. IInv /\ [Next]_vars => [DebitSigned]_vars /\ [FailureCosts]_vars
  BY StepsAreFair DEF IInv, Base
<1>2. Spec => [][DebitSigned]_vars /\ [][FailureCosts]_vars
  BY <1>1, LedgerInvariant, PTL DEF Spec
<1> QED
  BY <1>2, Zenon DEF PaymentsAreFair, DebitsAreSigned, FailureCostsTheFee, DebitSigned, FailureCosts

(* A step keeps the accounts there are, and their aliases. *)
LEMMA NextIsKin == ASSUME Base, [Next]_vars PROVE Kin
<1>1. CASE UNCHANGED vars
  BY <1>1 DEF vars, Kin
<1>2. CASE Next
  <2>1. Submitted /\ Opens
    BY <1>2, SubmitKeeps DEF Next, Kept
  <2>2. DOMAIN accounts \subseteq DOMAIN accounts'
    BY <2>1 DEF Submitted, Settled, Logged
  <2> QED
    BY <2>1, <2>2 DEF Opens, Kin
<1> QED
  BY <1>1, <1>2

(* Deleted accounts are empty, topics are chains of messages that have     *)
(* records, and, as long as no account has a long-zero address for its     *)
(* alias, every address leads to its account (insert_account).             *)
THEOREM EntitiesHold == Spec => []EntitiesAreConsistent
<1> DEFINE Inv == IInv /\ (PlainAliases => Named)
<1>1. Init => Inv
  BY InitKeeps, NamedAtGenesis
<1>2. Inv /\ [Next]_vars => Inv'
  <2> SUFFICES ASSUME Inv, [Next]_vars PROVE Inv'
    OBVIOUS
  <2>1. IInv' /\ Base /\ Shape /\ IdsFresh
    BY NextKeeps DEF IInv, Base
  <2>2. ASSUME PlainAliases' PROVE Named'
    <3>1. Named
      BY <2>1, <2>2, NextIsKin, KinArePlain
    <3> QED
      BY <2>1, <2>2, <3>1, NextKeepsNames
  <2> QED
    BY <2>1, <2>2
<1>3. Inv => EntitiesAreConsistent
  BY DEF IInv, Base, Named, Chained, EntitiesAreConsistent
<1> QED
  BY <1>1, <1>2, <1>3, PTL DEF Spec

-----------------------------------------------------------------------------
(* The EVM side.  What the database holds for an address; while an         *)
(* execution runs a balance may be negative for a moment.                  *)
Entry == [balance : Nat, nonce : Nat, code : BOOLEAN]
Open  == [balance : Int, nonce : Nat, code : BOOLEAN]

EShape ==
  /\ nonces \in [DOMAIN accounts -> Nat]
  /\ db \in [DOMAIN db -> Entry] /\ IsFiniteSet(DOMAIN db)
  /\ contract_by_evm \in [DOMAIN contract_by_evm -> FIRST_USER_ID .. MaxId]
  /\ minted \in Int

(* Contracts have ids of their own. *)
ContractsFresh ==
  /\ \A a \in DOMAIN contract_by_evm :
       /\ contract_by_evm[a] < next_id
       /\ contract_by_evm[a] \notin DOMAIN accounts \cup DOMAIN topics
  /\ \A a, b \in DOMAIN contract_by_evm : contract_by_evm[a] = contract_by_evm[b] => a = b

EInv == Base /\ EShape /\ ContractsFresh

LEMMA EmptyIs == Empty \in Entry /\ Entry \subseteq Open /\ Empty \in Open
BY DEF Empty, Entry, Open

(* An address that is in the database is there as it is, and any other as  *)
(* an empty one.                                                           *)
LEMMA AtOpen ==
    ASSUME NEW D, NEW d \in [D -> Open]
    PROVE  \A a : At(d, a) \in Open /\ At(d, a).balance \in Int /\ At(d, a).nonce \in Nat
<1>1. \A a : At(d, a) \in Open
  BY EmptyIs DEF At
<1> QED
  BY <1>1 DEF Open

LEMMA AtEntry ==
    ASSUME NEW D, NEW d \in [D -> Entry]
    PROVE  \A a : At(d, a) \in Entry /\ At(d, a).balance \in Nat /\ At(d, a).nonce \in Nat
<1>1. \A a : At(d, a) \in Entry
  BY EmptyIs DEF At
<1> QED
  BY <1>1 DEF Entry

(* What is at an address of m is what is at it in d, but for the balance   *)
(* and the nonce.                                                          *)
Shifted(m, d, a, amount, calls) ==
  /\ At(m, a).balance = At(d, a).balance + amount
  /\ At(m, a).nonce = At(d, a).nonce + calls
  /\ At(m, a).code = At(d, a).code

(* A move changes two balances by the amount, or none. *)
DbMoved(m, d, D, from, to, amount) ==
  /\ m \in [D \cup {from, to} -> Open]
  /\ \A a : Shifted(m, d, a, Delta(a, from, to, amount), 0)

LEMMA DbMoves ==
    ASSUME NEW D, NEW d \in [D -> Open], NEW from, NEW to, NEW amount \in Int
    PROVE  DbMoved(Move(d, from, to, amount), d, D, from, to, amount)
<1> DEFINE E == D \cup {from, to}
           of(a) == [At(d, a) EXCEPT !.balance = @ - (IF a = from THEN amount ELSE 0)
                                                   + (IF a = to THEN amount ELSE 0)]
           m == [a \in E |-> of(a)]
<1>1. \A a : At(d, a) \in Open
  BY AtOpen
<1>2. DOMAIN d = D
  OBVIOUS
<1>3. Move(d, from, to, amount) = m
  BY <1>2 DEF Move
<1>4. ASSUME NEW a
      PROVE  /\ of(a) \in Open /\ of(a).balance = At(d, a).balance + Delta(a, from, to, amount)
             /\ of(a).nonce = At(d, a).nonce + 0 /\ of(a).code = At(d, a).code
  <2> DEFINE e == At(d, a)
             n == Delta(a, from, to, amount)
  <2>1. e \in Open /\ n \in Int
    BY <1>1 DEF Delta
  <2>2. e.balance - (IF a = from THEN amount ELSE 0) + (IF a = to THEN amount ELSE 0) = e.balance + n
    <3>1. e.balance \in Int
      BY <2>1 DEF Open
    <3> QED
      BY <3>1 DEF Delta
  <2>3. of(a) = [e EXCEPT !.balance = e.balance + n]
    BY <2>2
  <2> HIDE DEF e, n, of
  <2>4. [e EXCEPT !.balance = e.balance + n] \in Open
    BY <2>1 DEF Open
  <2>5. /\ [e EXCEPT !.balance = e.balance + n].balance = e.balance + n
        /\ [e EXCEPT !.balance = e.balance + n].nonce = e.nonce + 0
        /\ [e EXCEPT !.balance = e.balance + n].code = e.code
    BY <2>1 DEF Open
  <2> QED
    BY <2>3, <2>4, <2>5 DEF e, n
<1> HIDE DEF of
<1>5. m \in [E -> Open] /\ \A a \in E : m[a] = of(a)
  BY <1>4
<1> HIDE DEF m
<1>6. ASSUME NEW a \in E PROVE Shifted(m, d, a, Delta(a, from, to, amount), 0)
  BY <1>4, <1>5 DEF At, Shifted
<1>7. ASSUME NEW a, a \notin E PROVE Shifted(m, d, a, Delta(a, from, to, amount), 0)
  <2>1. At(m, a) = Empty /\ At(d, a) = Empty
    BY <1>5, <1>7 DEF At
  <2> QED
    BY <2>1, <1>7 DEF Delta, Empty, Shifted
<1> QED
  BY <1>3, <1>5, <1>6, <1>7 DEF DbMoved

(* What gas, value and pay change the balance of an address by.            *)
Gas(a, tx) == Delta(a, tx.from, Beneficiary, tx.tip) - (IF a = tx.from THEN GAS_PRICE ELSE 0)

Gains(a, tx, ok) ==
  IF ok
  THEN Delta(a, tx.from, Callee(tx), tx.value)
       + (IF tx.to # Create /\ tx.pay # NoPay THEN Delta(a, tx.to, tx.pay.to, tx.pay.amount) ELSE 0)
  ELSE 0

(* What a transaction is made of. *)
LEMMA TxIs ==
    ASSUME NEW tx \in Txs
    PROVE  /\ tx.from \in Senders /\ tx.nonce \in Nat /\ tx.to \in Targets \cup {Create}
           /\ tx.value \in Nat /\ tx.tip \in Nat /\ GAS_PRICE \in Nat
           /\ tx.pay # NoPay => tx.pay.to \in Targets /\ tx.pay.amount \in Nat
           /\ \A a : /\ Delta(a, tx.from, Beneficiary, tx.tip) \in Int /\ Gas(a, tx) \in Int
                     /\ Delta(a, tx.from, Callee(tx), tx.value) \in Int
                     /\ tx.pay # NoPay => Delta(a, tx.to, tx.pay.to, tx.pay.amount) \in Int
                     /\ \A ok : Gains(a, tx, ok) \in Int
<1>1. /\ tx.from \in Senders /\ tx.nonce \in 0 .. MaxNonce - 1 /\ tx.to \in Targets \cup {Create}
      /\ tx.value \in Values /\ tx.tip \in Tips
      /\ tx.pay \in {NoPay} \cup [to : Targets, amount : Values \ {0}]
  BY DEF Txs
<1>2. tx.value \in Nat /\ tx.tip \in Nat /\ GAS_PRICE \in Nat /\ tx.nonce \in Nat
  <2>1. tx.value \in Nat /\ tx.tip \in Nat /\ GAS_PRICE \in Nat
    BY <1>1, EvmAssumption
  <2>2. \A n \in 0 .. MaxNonce - 1 : n \in Nat
    BY EvmAssumption
  <2> QED
    BY <1>1, <2>1, <2>2
<1>3. ASSUME tx.pay # NoPay PROVE tx.pay.to \in Targets /\ tx.pay.amount \in Nat
  <2>1. tx.pay \in [to : Targets, amount : Values \ {0}]
    BY <1>1, <1>3
  <2>2. tx.pay.to \in Targets /\ tx.pay.amount \in Values
    BY <2>1
  <2> QED
    BY <2>2, EvmAssumption
<1>4. \A a, from, to : \A n \in Nat : Delta(a, from, to, n) \in Int
  BY DEF Delta
<1>5. \A a : Gas(a, tx) \in Int
  BY <1>2, <1>4 DEF Gas
<1>6. \A a, ok : Gains(a, tx, ok) \in Int
  BY <1>2, <1>3, <1>4 DEF Gains
<1> QED
  BY <1>1, <1>2, <1>3, <1>4, <1>5, <1>6

(* The sender pays the gas and uses up its nonce. *)
GasPaid(m, d, D, tx) ==
  /\ m \in [D \cup {tx.from, Beneficiary} -> Open]
  /\ \A a : Shifted(m, d, a, Gas(a, tx), IF a = tx.from THEN 1 ELSE 0)

LEMMA GasIs ==
    ASSUME NEW D, NEW d \in [D -> Open], NEW tx \in Txs
    PROVE  GasPaid(AfterGas(d, tx), d, D, tx)
<1> DEFINE E == D \cup {tx.from, Beneficiary}
           t == Move(d, tx.from, Beneficiary, tx.tip)
           r(a) == [t[a] EXCEPT !.balance = t[a].balance - GAS_PRICE, !.nonce = t[a].nonce + 1]
           m == [a \in E |-> IF a = tx.from THEN r(a) ELSE t[a]]
<1>1. GAS_PRICE \in Nat /\ \A a : Delta(a, tx.from, Beneficiary, tx.tip) \in Int
  BY TxIs
<1>2. DbMoved(t, d, D, tx.from, Beneficiary, tx.tip)
  <2>1. tx.tip \in Int
    BY TxIs
  <2> QED
    BY <2>1, DbMoves
<1>3. /\ t \in [E -> Open]
      /\ \A a : Shifted(t, d, a, Delta(a, tx.from, Beneficiary, tx.tip), 0)
  BY <1>2 DEF DbMoved
<1>4. AfterGas(d, tx) = m
  <2>1. DOMAIN t = E
    BY <1>3
  <2>2. AfterGas(d, tx) = [a \in DOMAIN t |-> IF a = tx.from THEN r(a) ELSE t[a]]
    BY DEF AfterGas
  <2> HIDE DEF t, r
  <2> QED
    BY <2>1, <2>2
<1> HIDE DEF t
<1>5. ASSUME NEW a \in E
      PROVE  /\ r(a) \in Open /\ r(a).balance = t[a].balance - GAS_PRICE
             /\ r(a).nonce = t[a].nonce + 1 /\ r(a).code = t[a].code
  <2> DEFINE e == t[a]
             p == t[a].balance - GAS_PRICE
             q == t[a].nonce + 1
  <2>1. e \in Open
    BY <1>3
  <2> HIDE DEF e
  <2>2. p \in Int /\ q \in Nat
    BY <2>1, <1>1 DEF Open, e
  <2>3. r(a) = [e EXCEPT !.balance = p, !.nonce = q]
    BY DEF e
  <2> HIDE DEF p, q, r
  <2>4. LET x == [e EXCEPT !.balance = p, !.nonce = q]
        IN  x \in Open /\ x.balance = p /\ x.nonce = q /\ x.code = e.code
    BY <2>1, <2>2 DEF Open
  <2> QED
    BY <2>3, <2>4 DEF e, p, q
<1> HIDE DEF r
<1>6. /\ m \in [E -> Open]
      /\ \A a \in E : /\ m[a].balance = t[a].balance - (IF a = tx.from THEN GAS_PRICE ELSE 0)
                      /\ m[a].nonce = t[a].nonce + (IF a = tx.from THEN 1 ELSE 0)
                      /\ m[a].code = t[a].code
  <2>1. m \in [E -> Open] /\ \A a \in E : m[a] = IF a = tx.from THEN r(a) ELSE t[a]
    BY <1>3, <1>5
  <2>2. \A a \in E : t[a].balance \in Int /\ t[a].nonce \in Nat
    BY <1>3 DEF Open
  <2> QED
    BY <2>1, <2>2, <1>5, <1>1
<1> HIDE DEF m
<1>7. \A a : At(d, a).balance \in Int /\ At(d, a).nonce \in Nat
  BY AtOpen
<1>8. ASSUME NEW a \in E PROVE Shifted(m, d, a, Gas(a, tx), IF a = tx.from THEN 1 ELSE 0)
  <2>1. At(m, a) = m[a] /\ At(t, a) = t[a]
    BY <1>3, <1>6 DEF At
  <2> QED
    BY <2>1, <1>1, <1>3, <1>6, <1>7 DEF Gas, Shifted
<1>9. ASSUME NEW a, a \notin E PROVE Shifted(m, d, a, Gas(a, tx), IF a = tx.from THEN 1 ELSE 0)
  <2>1. At(m, a) = Empty /\ At(t, a) = Empty /\ a # tx.from
    BY <1>3, <1>6, <1>9 DEF At
  <2> QED
    BY <2>1, <1>1, <1>3, <1>7 DEF Gas, Shifted
<1> QED
  BY <1>4, <1>6, <1>8, <1>9 DEF GasPaid

(* Whether a transaction creates the contract at an address. *)
Creates(a, tx, ok) == ok /\ tx.to = Create /\ a = Callee(tx)

(* What a transaction does to the database.                                *)
Ran(m, d, D, tx, ok) ==
  /\ m \in [D \cup Touched(tx, ok) -> Open]
  /\ \A a : /\ At(m, a).balance = At(d, a).balance + Gas(a, tx) + Gains(a, tx, ok)
            /\ At(m, a).nonce = IF Creates(a, tx, ok) THEN 1
                                ELSE At(d, a).nonce + (IF a = tx.from THEN 1 ELSE 0)
            /\ At(m, a).code = IF Creates(a, tx, ok) THEN TRUE ELSE At(d, a).code

LEMMA RevertIs ==
    ASSUME NEW D, NEW d \in [D -> Open], NEW tx \in Txs, NEW ok \in BOOLEAN, ~ok
    PROVE  Ran(AfterGas(d, tx), d, D, tx, ok)
<1> DEFINE m == AfterGas(d, tx)
<1>1. GasPaid(m, d, D, tx)
  BY GasIs
<1>2. Touched(tx, ok) = {tx.from, Beneficiary}
  BY DEF Touched
<1>3. ASSUME NEW a
      PROVE  /\ Gains(a, tx, ok) = 0 /\ ~Creates(a, tx, ok)
             /\ Gas(a, tx) \in Int /\ At(d, a).balance \in Int
  BY TxIs, AtOpen DEF Gains, Creates
<1> HIDE DEF m
<1>4. m \in [D \cup Touched(tx, ok) -> Open]
  BY <1>1, <1>2 DEF GasPaid
<1>5. \A a : Shifted(m, d, a, Gas(a, tx), IF a = tx.from THEN 1 ELSE 0)
  BY <1>1 DEF GasPaid
<1>6. ASSUME NEW a
      PROVE  /\ At(m, a).balance = At(d, a).balance + Gas(a, tx) + Gains(a, tx, ok)
             /\ At(m, a).nonce = IF Creates(a, tx, ok) THEN 1
                                 ELSE At(d, a).nonce + (IF a = tx.from THEN 1 ELSE 0)
             /\ At(m, a).code = IF Creates(a, tx, ok) THEN TRUE ELSE At(d, a).code
  <2>1. At(d, a).balance + Gas(a, tx) = At(d, a).balance + Gas(a, tx) + Gains(a, tx, ok)
    BY <1>3
  <2> QED
    BY <2>1, <1>3, <1>5 DEF Shifted
<1> QED
  BY <1>4, <1>6 DEF Ran, m

LEMMA SuccessIs ==
    ASSUME NEW D, NEW d \in [D -> Open], NEW tx \in Txs, NEW ok \in BOOLEAN, ok,
           tx.pay # NoPay => tx.to # Create
    PROVE  Ran(AfterRun(d, tx), d, D, tx, ok)
<1> DEFINE c == Callee(tx)
           g == AfterGas(d, tx)
           called == Move(g, tx.from, c, tx.value)
           G == D \cup {tx.from, Beneficiary}
           E == G \cup {tx.from, c}
<1>1. GasPaid(g, d, D, tx)
  BY GasIs
<1>2. g \in [G -> Open] /\ \A a : Shifted(g, d, a, Gas(a, tx), IF a = tx.from THEN 1 ELSE 0)
  BY <1>1 DEF GasPaid
<1>3. DbMoved(called, g, G, tx.from, c, tx.value)
  <2>1. tx.value \in Int
    BY TxIs
  <2> HIDE DEF g, G, c
  <2> QED
    BY <2>1, <1>2, DbMoves
<1>4. called \in [E -> Open] /\ \A a : Shifted(called, g, a, Delta(a, tx.from, c, tx.value), 0)
  BY <1>3 DEF DbMoved
<1>5. \A a : /\ At(d, a).balance \in Int /\ At(d, a).nonce \in Nat /\ Gas(a, tx) \in Int
             /\ Delta(a, tx.from, c, tx.value) \in Int
  BY AtOpen, TxIs
<1> HIDE DEF g, called
<1>6. \A a : /\ At(called, a).balance = At(d, a).balance + Gas(a, tx) + Delta(a, tx.from, c, tx.value)
             /\ At(called, a).nonce = At(d, a).nonce + (IF a = tx.from THEN 1 ELSE 0)
             /\ At(called, a).code = At(d, a).code
  BY <1>2, <1>4, <1>5 DEF Shifted
<1>7. CASE tx.to = Create
  <2> DEFINE r == [called[c] EXCEPT !.code = TRUE, !.nonce = 1]
             m == [a \in E |-> IF a = c THEN r ELSE called[a]]
  <2>1. AfterRun(d, tx) = m
    <3>1. AfterRun(d, tx) = [a \in DOMAIN called |->
                               IF a = c THEN [called[a] EXCEPT !.code = TRUE, !.nonce = 1] ELSE called[a]]
      BY <1>7 DEF AfterRun, called, g
    <3>2. DOMAIN called = E
      BY <1>4
    <3> QED
      BY <3>1, <3>2
  <2>2. c \in E /\ called[c] \in Open
    BY <1>4
  <2>3. r \in Open /\ r.balance = called[c].balance /\ r.nonce = 1 /\ r.code = TRUE
    <3> DEFINE e == called[c]
    <3> HIDE DEF e
    <3>1. LET x == [e EXCEPT !.code = TRUE, !.nonce = 1]
          IN  e \in Open => x \in Open /\ x.balance = e.balance /\ x.nonce = 1 /\ x.code = TRUE
      BY DEF Open
    <3> QED
      BY <3>1, <2>2 DEF e
  <2> HIDE DEF r
  <2>4. m \in [E -> Open] /\ \A a \in E : m[a] = IF a = c THEN r ELSE called[a]
    BY <2>3, <1>4
  <2>5. Touched(tx, ok) = {tx.from, Beneficiary, c} /\ tx.pay = NoPay
    BY <1>7 DEF Touched
  <2> HIDE DEF m
  <2>6. \A a : At(m, a) = IF a = c THEN r ELSE At(called, a)
    BY <2>4, <2>2, <1>4 DEF At
  <2>7. At(called, c) = called[c]
    BY <2>2, <1>4 DEF At
  <2>8. \A a : (Creates(a, tx, ok) <=> a = c) /\ Gains(a, tx, ok) = Delta(a, tx.from, c, tx.value)
    BY <1>7, <1>5 DEF Creates, Gains
  <2> HIDE DEF c
  <2>9. \A a : /\ At(m, a).balance = At(d, a).balance + Gas(a, tx) + Gains(a, tx, ok)
               /\ At(m, a).nonce = IF Creates(a, tx, ok) THEN 1
                                   ELSE At(d, a).nonce + (IF a = tx.from THEN 1 ELSE 0)
               /\ At(m, a).code = IF Creates(a, tx, ok) THEN TRUE ELSE At(d, a).code
    <3> TAKE a
    <3>1. /\ At(m, a) = IF a = c THEN r ELSE At(called, a)
          /\ At(called, a).balance = At(d, a).balance + Gas(a, tx) + Delta(a, tx.from, c, tx.value)
          /\ At(called, a).nonce = At(d, a).nonce + (IF a = tx.from THEN 1 ELSE 0)
          /\ At(called, a).code = At(d, a).code
          /\ (Creates(a, tx, ok) <=> a = c) /\ Gains(a, tx, ok) = Delta(a, tx.from, c, tx.value)
      BY <1>6, <2>6, <2>8
    <3>2. CASE a = c
      <4>1. At(m, a) = r /\ Creates(a, tx, ok)
        BY <3>1, <3>2
      <4>2. r.balance = At(called, a).balance
        BY <2>3, <2>7, <3>2
      <4> QED
        BY <4>1, <4>2, <3>1, <2>3
    <3>3. CASE a # c
      <4>1. At(m, a) = At(called, a) /\ ~Creates(a, tx, ok)
        BY <3>1, <3>3
      <4> QED
        BY <4>1, <3>1
    <3> QED
      BY <3>2, <3>3
  <2>10. m \in [D \cup Touched(tx, ok) -> Open]
    <3>1. E = D \cup Touched(tx, ok)
      BY <2>5
    <3> QED
      BY <3>1, <2>4
  <2> QED
    BY <2>1, <2>9, <2>10 DEF Ran
<1>8. CASE tx.to # Create /\ tx.pay = NoPay
  <2>1. AfterRun(d, tx) = called
    BY <1>8 DEF AfterRun, called, g
  <2>2. E = D \cup Touched(tx, ok)
    BY <1>8 DEF Touched
  <2>3. \A a : ~Creates(a, tx, ok) /\ Gains(a, tx, ok) = Delta(a, tx.from, c, tx.value)
    BY <1>8, <1>5 DEF Creates, Gains
  <2> HIDE DEF c, E
  <2> QED
    BY ZenonT(120), <2>1, <2>2, <2>3, <1>4, <1>6 DEF Ran
<1>9. CASE tx.to # Create /\ tx.pay # NoPay
  <2> DEFINE m == Move(called, tx.to, tx.pay.to, tx.pay.amount)
  <2>1. AfterRun(d, tx) = m
    BY <1>9 DEF AfterRun, called, g
  <2>2. DbMoved(m, called, E, tx.to, tx.pay.to, tx.pay.amount)
    <3>1. tx.pay.amount \in Int
      BY <1>9, TxIs
    <3> HIDE DEF E
    <3> QED
      BY <3>1, <1>4, DbMoves
  <2> HIDE DEF m
  <2>3. /\ m \in [E \cup {tx.to, tx.pay.to} -> Open]
        /\ \A a : Shifted(m, called, a, Delta(a, tx.to, tx.pay.to, tx.pay.amount), 0)
    BY <2>2 DEF DbMoved
  <2>4. E \cup {tx.to, tx.pay.to} = D \cup Touched(tx, ok)
    BY <1>9 DEF Touched, Callee
  <2>5. \A a : /\ ~Creates(a, tx, ok) /\ Delta(a, tx.to, tx.pay.to, tx.pay.amount) \in Int
               /\ Gains(a, tx, ok) = Delta(a, tx.from, c, tx.value) + Delta(a, tx.to, tx.pay.to, tx.pay.amount)
    BY <1>9, TxIs DEF Creates, Gains
  <2> HIDE DEF c, E
  <2>6. ASSUME NEW a
        PROVE  /\ At(m, a).balance = At(d, a).balance + Gas(a, tx) + Gains(a, tx, ok)
               /\ At(m, a).nonce = IF Creates(a, tx, ok) THEN 1
                                   ELSE At(d, a).nonce + (IF a = tx.from THEN 1 ELSE 0)
               /\ At(m, a).code = IF Creates(a, tx, ok) THEN TRUE ELSE At(d, a).code
    <3>1. /\ At(m, a).balance = At(called, a).balance + Delta(a, tx.to, tx.pay.to, tx.pay.amount)
          /\ At(m, a).nonce = At(called, a).nonce + 0
          /\ At(m, a).code = At(called, a).code
      BY <2>3 DEF Shifted
    <3>2. At(m, a).balance = At(d, a).balance + Gas(a, tx) + Gains(a, tx, ok)
      <4> DEFINE p == Delta(a, tx.from, c, tx.value)
                 q == Delta(a, tx.to, tx.pay.to, tx.pay.amount)
      <4>1. Gains(a, tx, ok) = p + q /\ q \in Int
        BY <2>5
      <4>2. /\ At(called, a).balance = At(d, a).balance + Gas(a, tx) + p
            /\ At(d, a).balance \in Int /\ Gas(a, tx) \in Int /\ p \in Int
        BY <1>5, <1>6
      <4> HIDE DEF p
      <4>3. At(m, a).balance = At(called, a).balance + q
        BY <3>1
      <4> DEFINE x == At(d, a).balance
                 y == Gas(a, tx)
                 z == At(called, a).balance
      <4>4. x \in Int /\ y \in Int /\ p \in Int /\ q \in Int /\ z = x + y + p
        BY <4>1, <4>2
      <4> HIDE DEF q, x, y, z
      <4>5. z + q = x + y + (p + q)
        BY <4>4
      <4> QED
        BY <4>1, <4>3, <4>5 DEF x, y, z
    <3>3. At(m, a).nonce = At(d, a).nonce + (IF a = tx.from THEN 1 ELSE 0)
      BY <3>1, <1>5, <1>6
    <3>4. At(m, a).code = At(d, a).code
      BY <3>1, <1>6, Zenon
    <3>5. ~Creates(a, tx, ok)
      BY <2>5
    <3>6. At(m, a).nonce = IF Creates(a, tx, ok) THEN 1 ELSE At(d, a).nonce + (IF a = tx.from THEN 1 ELSE 0)
      BY <3>3, <3>5
    <3>7. At(m, a).code = IF Creates(a, tx, ok) THEN TRUE ELSE At(d, a).code
      BY <3>4, <3>5
    <3> QED
      BY <3>2, <3>6, <3>7
  <2> QED
    BY <2>1, <2>3, <2>4, <2>6 DEF Ran
<1> QED
  BY <1>7, <1>8, <1>9

(* A transaction that is accepted leaves no balance below nothing. *)
LEMMA RunIs ==
    ASSUME NEW D, NEW d \in [D -> Entry], NEW tx \in Txs, NEW ok \in BOOLEAN,
           Accepted(d, tx), Outcome(d, tx, ok)
    PROVE  LET m == IF ok THEN AfterRun(d, tx) ELSE AfterGas(d, tx)
           IN  Ran(m, d, D, tx, ok) /\ m \in [D \cup Touched(tx, ok) -> Entry]
<1> DEFINE m == IF ok THEN AfterRun(d, tx) ELSE AfterGas(d, tx)
           T == D \cup Touched(tx, ok)
<1>1. d \in [D -> Open]
  BY EmptyIs
<1>2. tx.pay # NoPay => tx.to # Create /\ At(d, tx.to).code
  BY DEF Outcome
<1>3. Ran(m, d, D, tx, ok)
  BY <1>1, <1>2, RevertIs, SuccessIs
<1>4. ok => m[Callee(tx)].balance >= 0 /\ Callee(tx) \in T
  BY DEF Outcome, Touched
<1> HIDE DEF m
<1>5. \A a : At(m, a).balance = At(d, a).balance + Gas(a, tx) + Gains(a, tx, ok)
  BY <1>3 DEF Ran
<1>6. m \in [T -> Open]
  BY <1>3 DEF Ran
<1>7. /\ At(d, tx.from).balance >= GAS_PRICE + tx.tip + tx.value
      /\ ~At(d, tx.from).code
  BY DEF Accepted
<1>8. \A a : At(d, a).balance \in Nat
  BY AtEntry
<1>9. GAS_PRICE \in Nat /\ tx.tip \in Nat /\ tx.value \in Nat /\ (tx.pay # NoPay => tx.pay.amount \in Nat)
  BY TxIs
<1>10. ASSUME NEW a \in T PROVE m[a].balance >= 0
  <2> DEFINE x == At(d, a).balance
  <2>1. m[a].balance = x + Gas(a, tx) + Gains(a, tx, ok) /\ x \in Nat
    BY <1>5, <1>6, <1>8 DEF At
  <2>2. a = tx.from => x >= GAS_PRICE + tx.tip + tx.value
    BY <1>7
  <2> HIDE DEF x
  <2>3. Gas(a, tx) \in Int /\ Gas(a, tx) >= IF a = tx.from THEN -(GAS_PRICE + tx.tip) ELSE 0
    BY <1>9 DEF Gas, Delta
  <2>4. CASE ~ok
    <3>1. Gains(a, tx, ok) = 0
      BY <2>4 DEF Gains
    <3> QED
      BY <3>1, <2>1, <2>2, <2>3, <1>9
  <2>5. CASE ok /\ tx.pay = NoPay
    <3>1. Gains(a, tx, ok) \in Int /\ Gains(a, tx, ok) >= IF a = tx.from THEN -tx.value ELSE 0
      BY <2>5, <1>9 DEF Gains, Delta
    <3> QED
      BY <3>1, <2>1, <2>2, <2>3, <1>9
  <2>6. CASE ok /\ tx.pay # NoPay
    <3>1. tx.to # Create /\ tx.to # tx.from /\ Callee(tx) = tx.to
      BY <2>6, <1>2, <1>7 DEF Callee
    <3>2. CASE a = tx.to
      BY <3>1, <3>2, <2>6, <1>4
    <3>3. CASE a # tx.to
      <4>1. Gains(a, tx, ok) \in Int /\ Gains(a, tx, ok) >= IF a = tx.from THEN -tx.value ELSE 0
        BY <3>1, <3>3, <2>6, <1>9 DEF Gains, Delta
      <4> QED
        BY <4>1, <2>1, <2>2, <2>3, <1>9
    <3> QED
      BY <3>2, <3>3
  <2> QED
    BY <2>4, <2>5, <2>6
<1>11. \A e \in Open : e.balance >= 0 => e \in Entry
  BY DEF Open, Entry
<1>12. m \in [T -> Entry]
  BY <1>6, <1>10, <1>11
<1> QED
  BY <1>3, <1>12 DEF m

-----------------------------------------------------------------------------
(* s lists the members of S, each once. *)
Lists(s, S) ==
  /\ Len(s) \in Nat /\ DOMAIN s = 1 .. Len(s) /\ s \in [1 .. Len(s) -> S] /\ s \in Seq(S)
  /\ \A i, j \in DOMAIN s : s[i] = s[j] => i = j
  /\ \A x \in S : \E i \in DOMAIN s : s[i] = x

LEMMA SetToSeqsIs ==
    ASSUME NEW S, IsFiniteSet(S), NEW s \in SetToSeqs(S)
    PROVE  Lists(s, S)
<1> DEFINE c == Cardinality(S)
<1>1. c \in Nat
  BY FS_CardinalityType
<1>2. s \in [1 .. c -> S] /\ \A i, j \in 1 .. c : i # j => s[i] # s[j]
  BY DEF SetToSeqs
<1>3. s \in Surjection(1 .. c, S)
  <2>1. s \in Injection(1 .. c, S)
    BY <1>2 DEF Injection, IsInjective
  <2>2. Cardinality(1 .. c) = c
    BY <1>1, FS_Interval
  <2> QED
    BY <2>1, <2>2, FS_Injection
<1>4. \A x \in S : \E i \in 1 .. c : s[i] = x
  BY <1>3 DEF Surjection
<1> HIDE DEF c
<1>5. Len(s) = c /\ DOMAIN s = 1 .. c /\ s \in Seq(S)
  BY <1>1, <1>2
<1> QED
  BY <1>1, <1>2, <1>4, <1>5 DEF Lists

(* The accounts an address stands for, in accts.                           *)
Owns(accts, id, a) == id \in DOMAIN accts /\ evm_address(id, accts[id]) = a

Own(accts) == {evm_address(id, accts[id]) : id \in DOMAIN accts}

(* The database brought up to date: an account's address has its balance   *)
(* and its nonce, and the others are as they were.                         *)
Synced(b, accts) ==
  /\ b \in [DOMAIN db \cup Own(accts) -> Entry] /\ DOMAIN b = DOMAIN db \cup Own(accts)
  /\ IsFiniteSet(DOMAIN b)
  /\ \A a : At(b, a).code = At(db, a).code
  /\ \A a \in DOMAIN b :
       \/ a \in DOMAIN db /\ b[a] = db[a] /\ \A id : ~Owns(accts, id, a)
       \/ \E id : Owns(accts, id, a) /\ b[a].balance = accts[id].balance /\ b[a].nonce = nonces[id]

LEMMA OwnFinite ==
    ASSUME NEW accts, IsFiniteSet(DOMAIN accts) PROVE IsFiniteSet(Own(accts))
<1> DEFINE D == DOMAIN accts
           f == [id \in D |-> evm_address(id, accts[id])]
<1>1. f \in Surjection(D, Own(accts))
  BY DEF Own, Surjection
<1> QED
  BY <1>1, FS_Surjection

LEMMA SyncIs ==
    ASSUME Shape, EShape, NEW accts \in [DOMAIN accounts -> Account]
    PROVE  Synced(sync_accounts_into_db(accts), accts)
<1> DEFINE D == DOMAIN accounts
           b == sync_accounts_into_db(accts)
           of(a) == {id \in DOMAIN accts : evm_address(id, accts[id]) = a}
           Put(a, id) == [At(db, a) EXCEPT !.balance = accts[id].balance, !.nonce = nonces[id]]
<1>1. DOMAIN accts = D /\ D \subseteq Int /\ IsFiniteSet(D)
  BY IdsFinite, FS_Subset DEF Shape
<1>2. b = [a \in DOMAIN db \cup Own(accts) |-> IF of(a) = {} THEN db[a] ELSE Put(a, Max(of(a)))]
  BY DEF sync_accounts_into_db, Own
<1>3. ASSUME NEW a, of(a) # {} PROVE Max(of(a)) \in of(a)
  <2>1. of(a) \in SUBSET Int /\ IsFiniteSet(of(a))
    BY <1>1, FS_Subset
  <2> QED
    BY <2>1, <1>3, MaxIs
<1>4. ASSUME NEW a, NEW id \in D
      PROVE  LET e == Put(a, id)
             IN  e \in Entry /\ e.balance = accts[id].balance /\ e.nonce = nonces[id] /\ e.code = At(db, a).code
  <2>1. At(db, a) \in Entry
    BY AtEntry DEF EShape
  <2>2. accts[id].balance \in Nat /\ nonces[id] \in Nat
    BY DEF Account, EShape
  <2> DEFINE e == At(db, a)
             p == accts[id].balance
             q == nonces[id]
  <2> HIDE DEF e, p, q
  <2>3. LET x == [e EXCEPT !.balance = p, !.nonce = q]
        IN  e \in Entry /\ p \in Nat /\ q \in Nat
              => x \in Entry /\ x.balance = p /\ x.nonce = q /\ x.code = e.code
    BY DEF Entry
  <2> QED
    BY <2>1, <2>2, <2>3 DEF e, p, q
<1>5. \A a : a \in Own(accts) <=> of(a) # {}
  BY DEF Own
<1>6. \A a, id : id \in of(a) <=> Owns(accts, id, a)
  BY DEF Owns
<1>7. \A a, id : id \in of(a) => id \in D
  BY <1>1
<1> HIDE DEF b, of, Put
<1>8. ASSUME NEW a \in DOMAIN b
      PROVE  /\ b[a] \in Entry /\ b[a].code = At(db, a).code
             /\ \/ a \in DOMAIN db /\ b[a] = db[a] /\ \A id : ~Owns(accts, id, a)
                \/ \E id : Owns(accts, id, a) /\ b[a].balance = accts[id].balance /\ b[a].nonce = nonces[id]
  <2>0. a \in DOMAIN db \cup Own(accts)
    BY <1>2
  <2>1. CASE of(a) = {}
    <3>1. a \in DOMAIN db /\ b[a] = db[a]
      BY <2>0, <2>1, <1>2, <1>5
    <3>2. db[a] \in Entry /\ At(db, a) = db[a]
      BY <3>1 DEF EShape, At
    <3>3. \A id : ~Owns(accts, id, a)
      BY <2>1, <1>6
    <3> QED
      BY <3>1, <3>2, <3>3
  <2>2. CASE of(a) # {}
    <3>1. b[a] = Put(a, Max(of(a)))
      BY <2>0, <2>2, <1>2
    <3>2. Max(of(a)) \in of(a)
      BY <2>2, <1>3
    <3>3. PICK id : id = Max(of(a)) /\ id \in D /\ Owns(accts, id, a)
      BY <3>2, <1>6, <1>7
    <3>4. b[a] = Put(a, id)
      BY <3>1, <3>3
    <3>5. b[a] \in Entry /\ b[a].balance = accts[id].balance /\ b[a].nonce = nonces[id] /\ b[a].code = At(db, a).code
      BY <3>3, <3>4, <1>4
    <3> QED
      BY <3>3, <3>5
  <2> QED
    BY <2>1, <2>2
<1>9. DOMAIN b = DOMAIN db \cup Own(accts) /\ b \in [DOMAIN db \cup Own(accts) -> Entry]
  BY <1>2, <1>8
<1>10. IsFiniteSet(DOMAIN b)
  <2>1. IsFiniteSet(Own(accts))
    BY <1>1, OwnFinite
  <2>2. IsFiniteSet(DOMAIN db)
    BY DEF EShape
  <2>3. IsFiniteSet(DOMAIN db \cup Own(accts))
    BY <2>1, <2>2, FS_Union
  <2> QED
    BY <2>3, <1>9
<1>11. ASSUME NEW a PROVE At(b, a).code = At(db, a).code
  <2>1. CASE a \in DOMAIN b
    BY <2>1, <1>8 DEF At
  <2>2. CASE a \notin DOMAIN b
    <3>1. At(b, a) = Empty /\ At(db, a) = Empty
      BY <2>2, <1>9 DEF At
    <3> QED
      BY <3>1
  <2> QED
    BY <2>1, <2>2
<1>12. Synced(b, accts)
  BY <1>8, <1>9, <1>10, <1>11 DEF Synced
<1> QED
  BY <1>12 DEF b

-----------------------------------------------------------------------------
(* What a transaction touches has an address an account can have.          *)
LEMMA TouchedIs ==
    ASSUME NEW tx \in Txs, NEW ok \in BOOLEAN
    PROVE  /\ IsFiniteSet(Touched(tx, ok)) /\ Touched(tx, ok) \subseteq Addresses
           /\ tx.from \in Touched(tx, ok) /\ Beneficiary \in Touched(tx, ok)
<1> DEFINE A == {tx.from, Beneficiary}
           B == IF ok THEN {Callee(tx)} ELSE {}
           C == IF ok /\ tx.pay # NoPay THEN {tx.pay.to} ELSE {}
<1>1. Touched(tx, ok) = A \cup B \cup C
  BY DEF Touched
<1>2. IsFiniteSet({tx.from}) /\ IsFiniteSet({Beneficiary}) /\ IsFiniteSet(B) /\ IsFiniteSet(C)
  BY FS_Singleton, FS_EmptySet
<1>3. A = {tx.from} \cup {Beneficiary}
  OBVIOUS
<1>4. IsFiniteSet(A)
  BY <1>2, <1>3, FS_Union
<1> HIDE DEF B, C
<1>5. IsFiniteSet(A \cup B \cup C)
  <2>1. IsFiniteSet(A \cup B)
    BY <1>2, <1>4, FS_Union
  <2> QED
    BY <2>1, <1>2, FS_Union
<1>6. Beneficiary \in Written
  BY IdsFinite DEF Beneficiary, Written, LongZeros
<1>7. Callee(tx) \in Addresses
  BY TxIs DEF Callee, Addresses
<1>8. tx.from \in Addresses /\ (tx.pay # NoPay => tx.pay.to \in Addresses) /\ Beneficiary \in Addresses
  BY <1>6, TxIs DEF Addresses
<1>9. A \cup B \cup C \subseteq Addresses
  BY <1>7, <1>8 DEF B, C
<1> QED
  BY <1>1, <1>5, <1>9

(* execute_and_mine, with what it chose.                                   *)
Ended(tx, ok, before, after) ==
  /\ Accepted(before, tx) /\ Outcome(before, tx, ok) /\ Ran(after, before, DOMAIN before, tx, ok)
  /\ after \in [DOMAIN before \cup Touched(tx, ok) -> Entry]

Chosen(tx, ok, after, source, hollow, created, news) ==
  /\ source \in [TouchedIds(Touched(tx, ok)) -> Touched(tx, ok) \cap DOMAIN by_evm]
  /\ \A id \in TouchedIds(Touched(tx, ok)) : by_evm[source[id]] = id
  /\ Lists(hollow, Hollow(after, Touched(tx, ok)))
  /\ Lists(created, NewContracts(after, Touched(tx, ok)))
  /\ news = [k \in DOMAIN hollow |-> NewAccount(NoKey, hollow[k], At(after, hollow[k]).balance)]
  /\ Room(news) /\ Len(news) = Len(hollow) /\ DOMAIN news = DOMAIN hollow
  /\ next_id + Len(news) + Len(created) <= MaxId + 1

Written_back(accts, tx, ok, before, after, source, created, news) ==
  /\ accounts' = WithAccounts(credit_burned_base_fee(FromDb(accts, after, source)), news)
  /\ nonces' = [id \in DOMAIN accounts' |->
                  IF id \in TouchedIds(Touched(tx, ok)) THEN At(after, source[id]).nonce
                  ELSE IF id \in DOMAIN nonces THEN nonces[id]
                  ELSE 0]
  /\ by_evm' = WithAddresses(news)
  /\ contract_by_evm' =
       [a \in DOMAIN contract_by_evm \cup {created[k] : k \in DOMAIN created} |->
          IF a \in DOMAIN contract_by_evm THEN contract_by_evm[a]
          ELSE NewId(Len(news) + CHOOSE k \in DOMAIN created : created[k] = a)]
  /\ next_id' = next_id + Len(news) + Len(created)
  /\ db' = [a \in DOMAIN before \cup Touched(tx, ok) |->
              IF a \in Touched(tx, ok) THEN At(after, a) ELSE before[a]]

Executed(accts, tx, ok, before, after, source, hollow, created, news) ==
  /\ Synced(before, accts) /\ Ended(tx, ok, before, after)
  /\ Chosen(tx, ok, after, source, hollow, created, news)
  /\ Written_back(accts, tx, ok, before, after, source, created, news)

LEMMA ExecuteIs ==
    ASSUME Shape, EShape, IdsFresh, NEW accts \in [DOMAIN accounts -> Account],
           NEW tx \in Txs, NEW ok \in BOOLEAN, ExecuteAndMine(accts, tx, ok)
    PROVE  \E before, after, source, hollow, created, news :
             Executed(accts, tx, ok, before, after, source, hollow, created, news)
<1> DEFINE before == sync_accounts_into_db(accts)
           after == IF ok THEN AfterRun(before, tx) ELSE AfterGas(before, tx)
           T == Touched(tx, ok)
           ids == TouchedIds(T)
           News_(hollow) == [k \in DOMAIN hollow |-> NewAccount(NoKey, hollow[k], At(after, hollow[k]).balance)]
<1>1. Synced(before, accts)
  BY SyncIs
<1>2. /\ Accepted(before, tx) /\ Outcome(before, tx, ok)
      /\ db' = [a \in DOMAIN before \cup T |-> IF a \in T THEN At(after, a) ELSE before[a]]
  BY DEF ExecuteAndMine, BeforeRun
<1>3. PICK source \in [ids -> T \cap DOMAIN by_evm], hollow \in SetToSeqs(Hollow(after, T)),
           created \in SetToSeqs(NewContracts(after, T)) :
        LET news == News_(hollow)
        IN  /\ \A id \in ids : by_evm[source[id]] = id
            /\ next_id + Len(news) + Len(created) <= MaxId + 1
            /\ accounts' = WithAccounts(credit_burned_base_fee(FromDb(accts, after, source)), news)
            /\ nonces' = [id \in DOMAIN accounts' |->
                            IF id \in ids THEN At(after, source[id]).nonce
                            ELSE IF id \in DOMAIN nonces THEN nonces[id]
                            ELSE 0]
            /\ by_evm' = WithAddresses(news)
            /\ contract_by_evm' =
                [a \in DOMAIN contract_by_evm \cup {created[k] : k \in DOMAIN created} |->
                    IF a \in DOMAIN contract_by_evm THEN contract_by_evm[a]
                    ELSE NewId(Len(news) + CHOOSE k \in DOMAIN created : created[k] = a)]
            /\ next_id' = next_id + Len(news) + Len(created)
  BY DEF ExecuteAndMine, BeforeRun
<1> DEFINE news == News_(hollow)
<1>4. before \in [DOMAIN before -> Entry]
  BY <1>1 DEF Synced
<1> HIDE DEF before
<1>5. Ran(after, before, DOMAIN before, tx, ok) /\ after \in [DOMAIN before \cup T -> Entry]
  BY SMTT(120), <1>2, <1>4, RunIs
<1> HIDE DEF after, T
<1>6. T = Touched(tx, ok) /\ IsFiniteSet(T) /\ T \subseteq Addresses
  BY TouchedIs DEF T
<1>7. Lists(hollow, Hollow(after, T)) /\ Lists(created, NewContracts(after, T))
  <2>1. IsFiniteSet(Hollow(after, T)) /\ IsFiniteSet(NewContracts(after, T))
    <3>1. Hollow(after, T) \subseteq T /\ NewContracts(after, T) \subseteq T
      BY DEF Hollow, NewContracts
    <3> QED
      BY <3>1, <1>6, FS_Subset
  <2> QED
    BY <2>1, SetToSeqsIs
<1>8. /\ news \in Seq(Account) /\ Len(news) = Len(hollow) /\ DOMAIN news = DOMAIN hollow
      /\ Len(hollow) \in Nat /\ Len(created) \in Nat
  <2>1. Len(hollow) \in Nat /\ DOMAIN hollow = 1 .. Len(hollow) /\ Len(created) \in Nat
    BY <1>7 DEF Lists
  <2>2. ASSUME NEW k \in DOMAIN hollow
        PROVE  NewAccount(NoKey, hollow[k], At(after, hollow[k]).balance) \in Account
    <3>1. hollow[k] \in Hollow(after, T)
      BY <1>7 DEF Lists
    <3>2. hollow[k] \in Addresses
      BY <3>1, <1>6 DEF Hollow
    <3>3. At(after, hollow[k]).balance \in Nat
      BY <1>5, AtEntry
    <3> QED
      BY <3>2, <3>3 DEF NewAccount, Account
  <2>3. news \in [1 .. Len(hollow) -> Account]
    BY <2>1, <2>2
  <2>4. DOMAIN news = 1 .. Len(hollow)
    BY <2>1
  <2> HIDE DEF news
  <2> QED
    BY <2>1, <2>3, <2>4
<1>9. Chosen(tx, ok, after, source, hollow, created, news)
  <2>1. news = [k \in DOMAIN hollow |-> NewAccount(NoKey, hollow[k], At(after, hollow[k]).balance)]
    OBVIOUS
  <2>2. next_id + Len(news) + Len(created) <= MaxId + 1
    BY <1>3
  <2> HIDE DEF news
  <2>3. next_id \in Int /\ MaxId \in Int
    BY LedgerAssumption DEF Shape
  <2>4. Room(news)
    BY <1>8, <2>2, <2>3 DEF Room
  <2>5. source \in [TouchedIds(T) -> T \cap DOMAIN by_evm] /\ \A id \in TouchedIds(T) : by_evm[source[id]] = id
    BY <1>3
  <2> QED
    BY <2>1, <2>2, <2>4, <2>5, <1>6, <1>7, <1>8 DEF Chosen
<1>10. Ended(tx, ok, before, after)
  BY <1>2, <1>5, <1>6 DEF Ended
<1>11. Written_back(accts, tx, ok, before, after, source, created, news)
  <2>1. /\ accounts' = WithAccounts(credit_burned_base_fee(FromDb(accts, after, source)), news)
        /\ nonces' = [id \in DOMAIN accounts' |->
                        IF id \in TouchedIds(T) THEN At(after, source[id]).nonce
                        ELSE IF id \in DOMAIN nonces THEN nonces[id]
                        ELSE 0]
        /\ by_evm' = WithAddresses(news)
        /\ contract_by_evm' =
            [a \in DOMAIN contract_by_evm \cup {created[k] : k \in DOMAIN created} |->
                IF a \in DOMAIN contract_by_evm THEN contract_by_evm[a]
                ELSE NewId(Len(news) + CHOOSE k \in DOMAIN created : created[k] = a)]
        /\ next_id' = next_id + Len(news) + Len(created)
    BY <1>3
  <2> HIDE DEF news
  <2> QED
    BY <2>1, <1>2, <1>6, Zenon DEF Written_back
<1> QED
  BY <1>1, <1>9, <1>10, <1>11, Zenon DEF Executed

(* The accounts after an execution: the balance of one that was touched is *)
(* read back, the collector's has the gas.                                 *)
ReadBack(accts, tx, ok, after, source, news) ==
  /\ accounts' \in [DOMAIN accounts \cup News(news) -> Account]
  /\ DOMAIN accounts' = DOMAIN accounts \cup News(news)
  /\ Holds(accounts', accts, DOMAIN accounts)
  /\ \A id \in DOMAIN accounts :
       accounts'[id].balance
         = (IF id \in TouchedIds(Touched(tx, ok)) THEN At(after, source[id]).balance
                                                  ELSE accts[id].balance)
           + (IF id = FEE_COLLECTOR THEN GAS_PRICE ELSE 0)
  /\ \A k \in DOMAIN news : accounts'[NewId(k)] = news[k]

LEMMA ReadBackIs ==
    ASSUME Shape, EShape, IdsFresh, NEW accts \in [DOMAIN accounts -> Account],
           NEW tx \in Txs, NEW ok \in BOOLEAN,
           NEW before, NEW after, NEW source, NEW hollow, NEW created, NEW news,
           Executed(accts, tx, ok, before, after, source, hollow, created, news)
    PROVE  ReadBack(accts, tx, ok, after, source, news)
<1> DEFINE D == DOMAIN accounts
           ids == TouchedIds(Touched(tx, ok))
           F == FromDb(accts, after, source)
           C == credit_burned_base_fee(F)
           of(id) == IF id \in ids THEN At(after, source[id]).balance ELSE accts[id].balance
           gas(id) == IF id = FEE_COLLECTOR THEN GAS_PRICE ELSE 0
<1>1. Ended(tx, ok, before, after) /\ Chosen(tx, ok, after, source, hollow, created, news)
      /\ Written_back(accts, tx, ok, before, after, source, created, news)
  BY DEF Executed
<1>2. \A a : At(after, a).balance \in Nat
  BY <1>1, AtEntry DEF Ended
<1>3. DOMAIN source = ids
  BY <1>1 DEF Chosen
<1>4. \A id \in D : accts[id] \in Account /\ accts[id].balance \in Nat
  BY DEF Account
<1>5. \A id \in D : of(id) \in Nat
  BY <1>2, <1>4
<1>6. FEE_COLLECTOR \in D /\ GAS_PRICE \in Nat
  BY IdsFinite, EvmAssumption DEF Shape
<1>7. F = [id \in D |-> IF id \in ids THEN [accts[id] EXCEPT !.balance = At(after, source[id]).balance]
                                      ELSE accts[id]]
  BY <1>3 DEF FromDb
<1> HIDE DEF F
<1>8. C = [F EXCEPT ![FEE_COLLECTOR].balance = @ + GAS_PRICE]
  BY DEF credit_burned_base_fee
<1> HIDE DEF C
<1>9. ASSUME NEW x \in Account, NEW n \in Nat
      PROVE  LET y == [x EXCEPT !.balance = n]
             IN  y \in Account /\ y.balance = n /\ y.key = x.key /\ y.alias = x.alias /\ y.deleted = x.deleted
  BY DEF Account
<1>10. ASSUME NEW id \in D
       PROVE  /\ F[id] \in Account /\ F[id].balance = of(id) /\ F[id].key = accts[id].key
              /\ F[id].alias = accts[id].alias /\ F[id].deleted = accts[id].deleted
  <2>1. CASE id \in ids
    <3>1. F[id] = [accts[id] EXCEPT !.balance = of(id)]
      BY <2>1, <1>7
    <3> HIDE DEF of
    <3> QED
      BY <3>1, <1>4, <1>5, <1>9
  <2>2. CASE id \notin ids
    <3>1. F[id] = accts[id] /\ of(id) = accts[id].balance
      BY <2>2, <1>7
    <3> HIDE DEF of
    <3> QED
      BY <3>1, <1>4
  <2> QED
    BY <2>1, <2>2
<1> HIDE DEF of, ids
<1>11. C = [id \in D |-> IF id = FEE_COLLECTOR THEN [F[id] EXCEPT !.balance = of(id) + GAS_PRICE] ELSE F[id]]
  <2>1. DOMAIN F = D
    BY <1>7
  <2>2. C = [F EXCEPT ![FEE_COLLECTOR] = [F[FEE_COLLECTOR] EXCEPT !.balance = F[FEE_COLLECTOR].balance + GAS_PRICE]]
    BY <1>8
  <2>3. F[FEE_COLLECTOR].balance = of(FEE_COLLECTOR)
    BY <1>6, <1>10
  <2> DEFINE r == [F[FEE_COLLECTOR] EXCEPT !.balance = of(FEE_COLLECTOR) + GAS_PRICE]
  <2>4. C = [F EXCEPT ![FEE_COLLECTOR] = r]
    BY <2>2, <2>3
  <2> HIDE DEF r
  <2>5. C = [id \in D |-> IF id = FEE_COLLECTOR THEN r ELSE F[id]]
    BY <2>1, <2>4, <1>7
  <2> QED
    BY <2>5 DEF r
<1>12. ASSUME NEW id \in D
       PROVE  /\ C[id] \in Account /\ C[id].balance = of(id) + gas(id) /\ C[id].key = accts[id].key
              /\ C[id].alias = accts[id].alias /\ C[id].deleted = accts[id].deleted
  <2>1. CASE id = FEE_COLLECTOR
    <3>1. C[id] = [F[id] EXCEPT !.balance = of(id) + GAS_PRICE]
      BY <2>1, <1>11
    <3>2. of(id) + GAS_PRICE \in Nat /\ gas(id) = GAS_PRICE
      BY <2>1, <1>5, <1>6
    <3> DEFINE n == of(id) + GAS_PRICE
               x == F[id]
    <3> HIDE DEF n, x
    <3>3. LET y == [x EXCEPT !.balance = n]
          IN  y \in Account /\ y.balance = n /\ y.key = x.key /\ y.alias = x.alias /\ y.deleted = x.deleted
      <4>1. x \in Account /\ n \in Nat
        BY <3>2, <1>10 DEF n, x
      <4> QED
        BY <4>1, <1>9
    <3> QED
      BY <3>1, <3>2, <3>3, <1>10 DEF n, x
  <2>2. CASE id # FEE_COLLECTOR
    <3>1. C[id] = F[id] /\ gas(id) = 0
      BY <2>2, <1>11
    <3> QED
      BY <3>1, <1>5, <1>10
  <2> QED
    BY <2>1, <2>2
<1>13. C \in [D -> Account] /\ Room(news) /\ accounts' = WithAccounts(C, news)
  <2>1. C \in [D -> Account]
    BY <1>11, <1>12
  <2>2. accounts' = WithAccounts(C, news)
    BY <1>1 DEF Written_back, C, F
  <2> QED
    BY <2>1, <2>2, <1>1 DEF Chosen
<1>14. Joined(accounts', C, news)
  BY <1>13, AccountsJoin
<1>15. /\ accounts' \in [D \cup News(news) -> Account] /\ DOMAIN accounts' = D \cup News(news)
       /\ \A id \in D : accounts'[id] = C[id]
       /\ \A k \in DOMAIN news : accounts'[NewId(k)] = news[k]
  BY <1>14 DEF Joined
<1>16. Holds(accounts', accts, D)
  BY <1>12, <1>15 DEF Holds
<1>17. \A id \in D : accounts'[id].balance = of(id) + gas(id)
  BY <1>12, <1>15
<1> QED
  BY <1>15, <1>16, <1>17 DEF ReadBack, of, ids

(* The database after an execution. *)
DbAfter(tx, ok, before, after) ==
  /\ db' \in [DOMAIN before \cup Touched(tx, ok) -> Entry]
  /\ DOMAIN db' = DOMAIN before \cup Touched(tx, ok) /\ IsFiniteSet(DOMAIN db')
  /\ \A a \in DOMAIN db' : db'[a] = IF a \in Touched(tx, ok) THEN At(after, a) ELSE before[a]

LEMMA DbAfterIs ==
    ASSUME NEW accts, NEW tx \in Txs, NEW ok \in BOOLEAN,
           NEW before, NEW after, NEW source, NEW hollow, NEW created, NEW news,
           Executed(accts, tx, ok, before, after, source, hollow, created, news)
    PROVE  DbAfter(tx, ok, before, after)
<1> DEFINE T == Touched(tx, ok)
<1>1. db' = [a \in DOMAIN before \cup T |-> IF a \in T THEN At(after, a) ELSE before[a]]
  BY DEF Executed, Written_back
<1>2. before \in [DOMAIN before -> Entry] /\ IsFiniteSet(DOMAIN before)
  BY DEF Executed, Synced
<1>3. \A a : At(after, a) \in Entry
  BY AtEntry DEF Executed, Ended
<1>4. IsFiniteSet(DOMAIN before \cup T)
  BY <1>2, TouchedIs, FS_Union
<1> HIDE DEF T
<1>5. db' \in [DOMAIN before \cup T -> Entry] /\ DOMAIN db' = DOMAIN before \cup T
  BY <1>1, <1>2, <1>3
<1>6. \A a \in DOMAIN db' : db'[a] = IF a \in T THEN At(after, a) ELSE before[a]
  BY <1>1
<1> QED
  BY <1>4, <1>5, <1>6 DEF DbAfter, T

(* Contracts come after the accounts: their ids are fresh too.             *)
ContractsAfter(news, created) ==
  /\ DOMAIN contract_by_evm' = DOMAIN contract_by_evm \cup {created[k] : k \in DOMAIN created}
  /\ \A a \in DOMAIN contract_by_evm : contract_by_evm'[a] = contract_by_evm[a]
  /\ \A k \in DOMAIN created :
       created[k] \notin DOMAIN contract_by_evm /\ contract_by_evm'[created[k]] = next_id + Len(news) + k - 1
  /\ contract_by_evm' = [a \in DOMAIN contract_by_evm' |-> contract_by_evm'[a]]

LEMMA ContractsAfterIs ==
    ASSUME Shape, NEW accts, NEW tx \in Txs, NEW ok \in BOOLEAN,
           NEW before, NEW after, NEW source, NEW hollow, NEW created, NEW news,
           Executed(accts, tx, ok, before, after, source, hollow, created, news)
    PROVE  ContractsAfter(news, created)
<1> DEFINE c == contract_by_evm
           of(a) == CHOOSE k \in DOMAIN created : created[k] = a
           S == NewContracts(after, Touched(tx, ok))
<1>1. contract_by_evm' = [a \in DOMAIN c \cup {created[k] : k \in DOMAIN created} |->
                            IF a \in DOMAIN c THEN c[a] ELSE NewId(Len(news) + of(a))]
  BY DEF Executed, Written_back
<1>2. Lists(created, S) /\ Len(news) \in Nat /\ next_id \in Int
  <2>1. Lists(created, S) /\ news \in Seq(Account)
    BY DEF Executed, Chosen, Room
  <2> HIDE DEF S
  <2>2. next_id \in Int
    BY LedgerAssumption DEF Shape
  <2> QED
    BY <2>1, <2>2
<1>3. \A k \in DOMAIN created : created[k] \in S /\ k \in Nat
  BY <1>2 DEF Lists
<1>4. ASSUME NEW k \in DOMAIN created PROVE of(created[k]) = k
  BY <1>2 DEF Lists
<1>5. \A a \in S : a \notin DOMAIN c
  BY DEF NewContracts
<1> HIDE DEF S, of
<1>6. ASSUME NEW k \in DOMAIN created
      PROVE  created[k] \notin DOMAIN c /\ contract_by_evm'[created[k]] = next_id + Len(news) + k - 1
  <2>1. created[k] \notin DOMAIN c
    BY <1>3, <1>5
  <2>2. contract_by_evm'[created[k]] = NewId(Len(news) + k)
    BY <1>1, <1>4, <2>1
  <2>3. NewId(Len(news) + k) = next_id + Len(news) + k - 1
    BY <1>2, <1>3 DEF NewId
  <2> QED
    BY <2>1, <2>2, <2>3
<1> QED
  BY <1>1, <1>6 DEF ContractsAfter

(* After an execution every id is still one entity's.                      *)
LEMMA ExecutionKeeps ==
    ASSUME Shape, EShape, IdsFresh, ContractsFresh, NEW accts \in [DOMAIN accounts -> Account],
           NEW tx \in Txs, NEW ok \in BOOLEAN,
           NEW before, NEW after, NEW source, NEW hollow, NEW created, NEW news,
           Executed(accts, tx, ok, before, after, source, hollow, created, news),
           topics' = topics, minted' = minted
    PROVE  /\ EShape' /\ IdsFresh' /\ ContractsFresh'
           /\ accounts' \in [DOMAIN accounts' -> Account]
           /\ DOMAIN accounts \subseteq DOMAIN accounts' /\ DOMAIN accounts' \subseteq Ids
           /\ by_evm' \in [DOMAIN by_evm' -> DOMAIN accounts']
           /\ next_id' \in FIRST_USER_ID .. MaxId + 1
<1> DEFINE D == DOMAIN accounts
           n == Len(news)
           c == Len(created)
           ids == TouchedIds(Touched(tx, ok))
<1>1. Ended(tx, ok, before, after) /\ Chosen(tx, ok, after, source, hollow, created, news)
      /\ Written_back(accts, tx, ok, before, after, source, created, news)
  BY DEF Executed
<1>2. /\ accounts' \in [D \cup News(news) -> Account] /\ DOMAIN accounts' = D \cup News(news)
  BY ZenonT(120), ReadBackIs DEF ReadBack
<1>3. Room(news) /\ by_evm' = WithAddresses(news) /\ next_id' = next_id + n + c /\ n \in Nat /\ c \in Nat
  <2>1. Lists(created, NewContracts(after, Touched(tx, ok))) /\ Room(news)
    BY <1>1 DEF Chosen
  <2>2. c \in Nat /\ n \in Nat
    BY <2>1 DEF Lists, Room
  <2> QED
    BY <2>1, <2>2, <1>1 DEF Written_back
<1>4. by_evm' \in [DOMAIN by_evm' -> DOMAIN accounts']
  BY <1>2, <1>3, AddressesJoin
<1>5. next_id \in FIRST_USER_ID .. MaxId + 1 /\ next_id + n + c <= MaxId + 1 /\ FIRST_USER_ID \in Nat /\ MaxId \in Nat
  BY <1>1, LedgerAssumption DEF Shape, Chosen
<1> HIDE DEF n, c, ids
<1>6. next_id' \in FIRST_USER_ID .. MaxId + 1 /\ next_id' \in Int /\ next_id \in Int /\ next_id + n <= next_id'
  BY <1>3, <1>5
<1>7. /\ \A k \in DOMAIN news : /\ NewId(k) \in Ids /\ NewId(k) < next_id + n
                                /\ NewId(k) \notin D \cup DOMAIN topics
                                /\ NewId(k) \in Int /\ NewId(k) >= next_id
      /\ \A id \in D \cup DOMAIN topics : id < next_id + n /\ id \in Int
  BY <1>3, NewIdsFresh DEF n
<1>8. \A id \in News(news) : /\ id \in Ids /\ id < next_id + n /\ id \notin D \cup DOMAIN topics
                             /\ id \in Int /\ id >= next_id
  BY <1>7 DEF News
<1>9. D \cup News(news) \subseteq Ids
  BY <1>8 DEF Shape
<1>10. IdsFresh'
  <2>1. \A id \in D \cup News(news) \cup DOMAIN topics : id < next_id'
    BY <1>3, <1>6, <1>7, <1>8
  <2>2. (D \cup News(news)) \cap DOMAIN topics = {}
    BY <1>8 DEF IdsFresh
  <2> QED
    BY <2>1, <2>2, <1>2 DEF IdsFresh
<1>11. ContractsAfter(news, created)
  BY ContractsAfterIs
<1>12. DOMAIN created = 1 .. c /\ \A j, k \in DOMAIN created : created[j] = created[k] => j = k
  BY <1>1 DEF Chosen, Lists, c
<1>13. ASSUME NEW a \in DOMAIN contract_by_evm'
       PROVE  \/ a \in DOMAIN contract_by_evm /\ contract_by_evm'[a] = contract_by_evm[a]
              \/ \E k \in 1 .. c : a = created[k] /\ contract_by_evm'[a] = next_id + n + k - 1
  BY <1>11, <1>12 DEF ContractsAfter, n
<1>14. \A a \in DOMAIN contract_by_evm : /\ contract_by_evm[a] \in FIRST_USER_ID .. MaxId
                                         /\ contract_by_evm[a] < next_id
                                         /\ contract_by_evm[a] \notin D \cup DOMAIN topics
  BY DEF EShape, ContractsFresh
<1>15. \A k \in 1 .. c : /\ next_id + n + k - 1 \in FIRST_USER_ID .. MaxId
                         /\ next_id + n + k - 1 < next_id' /\ next_id + n + k - 1 >= next_id + n
  BY <1>3, <1>5
<1>16. ASSUME NEW a \in DOMAIN contract_by_evm'
       PROVE  /\ contract_by_evm'[a] \in FIRST_USER_ID .. MaxId /\ contract_by_evm'[a] < next_id'
              /\ contract_by_evm'[a] \notin DOMAIN accounts' \cup DOMAIN topics'
  <2>1. CASE a \in DOMAIN contract_by_evm /\ contract_by_evm'[a] = contract_by_evm[a]
    <3> DEFINE x == contract_by_evm[a]
    <3>1. x \in FIRST_USER_ID .. MaxId /\ x < next_id /\ x \notin D \cup DOMAIN topics
      BY <2>1, <1>14
    <3> HIDE DEF x
    <3>2. x < next_id' /\ x \notin News(news)
      BY <3>1, <1>3, <1>5, <1>6, <1>8
    <3> QED
      BY <2>1, <3>1, <3>2, <1>2 DEF x
  <2>2. ASSUME NEW k \in 1 .. c, a = created[k], contract_by_evm'[a] = next_id + n + k - 1
        PROVE  /\ contract_by_evm'[a] \in FIRST_USER_ID .. MaxId /\ contract_by_evm'[a] < next_id'
               /\ contract_by_evm'[a] \notin DOMAIN accounts' \cup DOMAIN topics'
    <3> DEFINE x == next_id + n + k - 1
    <3>1. x \in FIRST_USER_ID .. MaxId /\ x < next_id' /\ x >= next_id + n
      BY <1>15
    <3>2. next_id + n \in Int /\ x \in Int
      BY <1>3, <1>6
    <3> HIDE DEF x
    <3>3. x \notin D \cup News(news) \cup DOMAIN topics
      BY <3>1, <3>2, <1>7, <1>8
    <3> QED
      BY <2>2, <3>1, <3>3, <1>2 DEF x
  <2> QED
    BY <1>13, <2>1, <2>2
<1>17. ASSUME NEW a \in DOMAIN contract_by_evm', NEW b \in DOMAIN contract_by_evm',
              contract_by_evm'[a] = contract_by_evm'[b]
       PROVE  a = b
  <2>1. CASE a \in DOMAIN contract_by_evm /\ b \in DOMAIN contract_by_evm
    BY <2>1, <1>11, <1>17 DEF ContractsAfter, ContractsFresh
  <2>2. CASE a \in DOMAIN contract_by_evm /\ b \notin DOMAIN contract_by_evm
    <3>1. PICK k \in 1 .. c : contract_by_evm'[b] = next_id + n + k - 1
      BY <2>2, <1>13
    <3>2. contract_by_evm'[a] = contract_by_evm[a]
      BY <2>2, <1>11 DEF ContractsAfter
    <3> DEFINE x == contract_by_evm[a]
    <3>3. x < next_id /\ x \in FIRST_USER_ID .. MaxId
      BY <2>2, <1>14
    <3>4. x = next_id + n + k - 1
      BY <3>1, <3>2, <1>17
    <3> HIDE DEF x
    <3> QED
      BY <3>3, <3>4, <1>3, <1>5
  <2>3. CASE a \notin DOMAIN contract_by_evm /\ b \in DOMAIN contract_by_evm
    <3>1. PICK k \in 1 .. c : contract_by_evm'[a] = next_id + n + k - 1
      BY <2>3, <1>13
    <3>2. contract_by_evm'[b] = contract_by_evm[b]
      BY <2>3, <1>11 DEF ContractsAfter
    <3> DEFINE x == contract_by_evm[b]
    <3>3. x < next_id /\ x \in FIRST_USER_ID .. MaxId
      BY <2>3, <1>14
    <3>4. x = next_id + n + k - 1
      BY <3>1, <3>2, <1>17
    <3> HIDE DEF x
    <3> QED
      BY <3>3, <3>4, <1>3, <1>5
  <2>4. CASE a \notin DOMAIN contract_by_evm /\ b \notin DOMAIN contract_by_evm
    <3>1. PICK j \in 1 .. c : a = created[j] /\ contract_by_evm'[a] = next_id + n + j - 1
      BY <2>4, <1>13
    <3>2. PICK k \in 1 .. c : b = created[k] /\ contract_by_evm'[b] = next_id + n + k - 1
      BY <2>4, <1>13
    <3>3. j = k
      <4>1. next_id + n + j - 1 = next_id + n + k - 1
        BY <3>1, <3>2, <1>17
      <4> QED
        BY <4>1, <1>3, <1>6
    <3> QED
      BY <3>1, <3>2, <3>3
  <2> QED
    BY <2>1, <2>2, <2>3, <2>4
<1>18. ContractsFresh'
  BY <1>16, <1>17 DEF ContractsFresh
<1>19. nonces' \in [DOMAIN accounts' -> Nat]
  <2>1. nonces' = [id \in DOMAIN accounts' |->
                     IF id \in ids THEN At(after, source[id]).nonce
                     ELSE IF id \in DOMAIN nonces THEN nonces[id]
                     ELSE 0]
    BY <1>1 DEF Written_back, ids
  <2>2. \A a : At(after, a).nonce \in Nat
    BY <1>1, AtEntry DEF Ended
  <2>3. nonces \in [D -> Nat]
    BY DEF EShape
  <2> QED
    BY <2>1, <2>2, <2>3
<1>20. db' \in [DOMAIN db' -> Entry] /\ IsFiniteSet(DOMAIN db')
  BY DbAfterIs DEF DbAfter
<1>21. contract_by_evm' \in [DOMAIN contract_by_evm' -> FIRST_USER_ID .. MaxId]
  BY <1>11, <1>16 DEF ContractsAfter
<1>22. EShape'
  BY <1>19, <1>20, <1>21 DEF EShape
<1> QED
  BY <1>2, <1>4, <1>6, <1>9, <1>10, <1>18, <1>22

-----------------------------------------------------------------------------
(* HAPI transactions give new entities the counter's ids, upward.          *)
Upward ==
  /\ next_id <= next_id'
  /\ \A id \in DOMAIN accounts' \cup DOMAIN topics' :
       id \in DOMAIN accounts \cup DOMAIN topics \/ id >= next_id

(* A move of tinybar opens no account. *)
LEMMA MoveDomain ==
    \A w, from, to, amount :
      /\ DOMAIN move_tinybar(w, from, to, amount).accounts = DOMAIN w.accounts
      /\ DOMAIN Charged(from).accounts = DOMAIN accounts
<1>1. \A A, id, n : DOMAIN adjust(A, id, n) = DOMAIN A
  BY DEF adjust
<1>2. \A w, from, to, amount : DOMAIN move_tinybar(w, from, to, amount).accounts = DOMAIN w.accounts
  BY <1>1 DEF move_tinybar
<1> QED
  BY <1>2 DEF Charged

LEMMA SubmitUpward ==
    ASSUME Base, NEW txid \in TxIds, NEW signed \in SUBSET Keys, Submit(txid, signed)
    PROVE  Upward
<1>1. next_id \in Int
  BY LedgerAssumption DEF Base, Shape
<1>2. ASSUME BodyFails(txid, signed) PROVE Upward
  BY <1>1, <1>2, MoveDomain DEF BodyFails, Upward
<1>4. ASSUME NEW key, NEW alias, NEW balance, CreateAccount(txid, signed, key, alias, balance)
      PROVE  Upward
  <2> DEFINE news == << NewAccount(key, alias, 0) >>
             paid == Charged(txid.payer)
             A    == WithAccounts(paid.accounts, news)
  <2>1. ASSUME next_id' = next_id + 1, topics' = topics, DOMAIN accounts' = DOMAIN A PROVE Upward
    <3>1. DOMAIN A = DOMAIN accounts \cup {next_id}
      <4>1. DOMAIN A = DOMAIN paid.accounts \cup {NewId(k) : k \in {1}}
        BY DEF WithAccounts
      <4>2. NewId(1) = next_id
        BY <1>1 DEF NewId
      <4> QED
        BY <4>1, <4>2, MoveDomain
    <3> HIDE DEF A
    <3> QED
      BY <1>1, <2>1, <3>1 DEF Upward
  <2> DEFINE opened == [paid EXCEPT !.accounts = WithAccounts(@, news)]
             work == move_tinybar(opened, txid.payer, next_id, balance)
  <2>2. paid = [accounts |-> paid.accounts, transfers |-> paid.transfers]
    BY DEF Charged, move_tinybar
  <2>3. opened.accounts = A
    BY <2>2
  <2>4. \/ BodyFails(txid, signed)
        \/ accounts' = work.accounts /\ next_id' = next_id + 1 /\ topics' = topics
    BY <1>4 DEF CreateAccount
  <2> HIDE DEF A, news, paid, opened
  <2>5. DOMAIN work.accounts = DOMAIN A
    BY <2>3, MoveDomain
  <2> HIDE DEF work
  <2> QED
    BY <1>2, <2>1, <2>4, <2>5
<1>5. ASSUME NEW list \in TransferLists, Transfer(txid, signed, list) PROVE Upward
  <2> DEFINE done == AfterTransfer(Charged(txid.payer), list)
  <2>1. ASSUME accounts' = done.accounts, next_id' = next_id + Len(done.hollow), topics' = topics
        PROVE  Upward
    <3>1. DOMAIN done.accounts = DOMAIN accounts \cup {NewId(k) : k \in DOMAIN done.hollow}
      BY DEF AfterTransfer, WithAccounts
    <3>2. DOMAIN done.hollow = 1 .. Len(done.hollow) /\ Len(done.hollow) \in Nat
      <4> DEFINE S == DOMAIN list \ {k \in DOMAIN list : Known(list[k].ref)}
      <4>1. Len(list) \in Nat /\ DOMAIN list = 1 .. Len(list)
        BY Entries
      <4>2. S \in SUBSET (1 .. Len(list))
        BY <4>1
      <4>3. DOMAIN done.hollow = DOMAIN InOrder(S)
        BY DEF AfterTransfer
      <4>4. done.hollow = [k \in DOMAIN done.hollow |-> done.hollow[k]]
        BY DEF AfterTransfer
      <4> HIDE DEF S, done
      <4>5. Cardinality(S) \in Nat /\ DOMAIN InOrder(S) = 1 .. Cardinality(S)
        BY <4>1, <4>2, InOrderIs
      <4> QED
        BY <4>3, <4>4, <4>5
    <3> HIDE DEF done
    <3>3. \A k \in DOMAIN done.hollow : NewId(k) >= next_id
      BY <1>1, <3>2 DEF NewId
    <3> QED
      BY <1>1, <2>1, <3>1, <3>2, <3>3 DEF Upward
  <2> QED
    BY <1>2, <1>5, <2>1 DEF Transfer
<1>6. ASSUME NEW account, NEW transfer_to, Delete(txid, signed, account, transfer_to) PROVE Upward
  <2> DEFINE paid == Charged(txid.payer)
             work == move_tinybar(paid, account, transfer_to, paid.accounts[account].balance)
  <2>1. DOMAIN work.accounts = DOMAIN accounts
    BY SMTT(120), MoveDomain
  <2>2. \/ BodyFails(txid, signed)
        \/ /\ accounts' = [work.accounts EXCEPT ![account].deleted = TRUE]
           /\ next_id' = next_id /\ topics' = topics
    BY ZenonT(120), <1>6 DEF Delete
  <2> HIDE DEF work
  <2> QED
    BY <1>1, <1>2, <2>1, <2>2 DEF Upward
<1>7. ASSUME NEW submit_key, CreateTopic(txid, signed, submit_key) PROVE Upward
  BY <1>1, <1>7, MoveDomain DEF CreateTopic, Upward
<1>8. ASSUME NEW topic, NEW message, SubmitMessage(txid, signed, topic, message) PROVE Upward
  <2>1. ASSUME accounts' = Charged(txid.payer).accounts, DOMAIN topics' = DOMAIN topics, next_id' = next_id
        PROVE  Upward
    BY <1>1, <2>1, MoveDomain DEF Upward
  <2> QED
    BY <1>2, <1>8, <2>1 DEF SubmitMessage
<1> QED
  BY <1>4, <1>5, <1>6, <1>7, <1>8 DEF Submit

-----------------------------------------------------------------------------
(* A step without a submission keeps the ledger when it keeps the accounts *)
(* and their addresses well formed.                                        *)
LEMMA QuietKeeps ==
    ASSUME Base, topics' = topics, records' = records, hapi_by_id' = hapi_by_id, signers' = signers,
           accounts' \in [DOMAIN accounts' -> Account], DOMAIN accounts \subseteq DOMAIN accounts',
           DOMAIN accounts' \subseteq Ids, by_evm' \in [DOMAIN by_evm' -> DOMAIN accounts'],
           next_id' \in FIRST_USER_ID .. MaxId + 1, IdsFresh'
    PROVE  Base'
<1>1. Shape'
  BY DEF Base, Shape
<1>2. Recorded'
  BY DEF Base, Recorded
<1>3. Chained'
  BY ChainsAreLinks DEF Base, Chained
<1>4. MessagesHaveRecords'
  BY DEF Base, MessagesHaveRecords
<1> QED
  BY <1>1, <1>2, <1>3, <1>4 DEF Base

(* eth_sendRawTransaction keeps the invariant. *)
LEMMA SendKeeps ==
    ASSUME EInv, NEW tx \in Txs, NEW ok \in BOOLEAN, Send(tx, ok)
    PROVE  EInv'
<1>1. Shape /\ EShape /\ IdsFresh /\ ContractsFresh /\ Base
  BY DEF EInv, Base
<1>2. accounts \in [DOMAIN accounts -> Account] /\ ExecuteAndMine(accounts, tx, ok)
  BY <1>1 DEF Shape, Send
<1>3. /\ topics' = topics /\ records' = records /\ hapi_by_id' = hapi_by_id /\ signers' = signers
      /\ minted' = minted
  BY DEF Send
<1>4. PICK before, after, source, hollow, created, news :
        Executed(accounts, tx, ok, before, after, source, hollow, created, news)
  BY <1>1, <1>2, ExecuteIs
<1>5. /\ EShape' /\ IdsFresh' /\ ContractsFresh'
      /\ accounts' \in [DOMAIN accounts' -> Account]
      /\ DOMAIN accounts \subseteq DOMAIN accounts' /\ DOMAIN accounts' \subseteq Ids
      /\ by_evm' \in [DOMAIN by_evm' -> DOMAIN accounts']
      /\ next_id' \in FIRST_USER_ID .. MaxId + 1
  BY <1>1, <1>2, <1>3, <1>4, ExecutionKeeps
<1>6. Base'
  BY <1>1, <1>3, <1>5, QuietKeeps
<1> QED
  BY <1>5, <1>6 DEF EInv

(* ethereumTransaction keeps the invariant: its record names the fee. *)
LEMMA EthereumKeeps ==
    ASSUME EInv, NEW txid \in TxIds, NEW tx \in Txs, NEW ok \in BOOLEAN, ApplyEthereum(txid, tx, ok)
    PROVE  EInv'
<1> DEFINE paid == Charged(txid.payer)
           P == paid.accounts
           t == paid.transfers
           D == DOMAIN accounts
<1>1. /\ Shape /\ EShape /\ IdsFresh /\ ContractsFresh /\ Base
      /\ Recorded /\ Chained /\ MessagesHaveRecords
  BY DEF EInv, Base
<1>2. /\ Precheck(txid, {}, Keys) /\ ExecuteAndMine(P, tx, ok) /\ Consensus(txid, ok, t, 0, Keys)
      /\ topics' = topics /\ minted' = minted
  BY DEF ApplyEthereum
<1>3. is_live(txid.payer) /\ accounts[txid.payer].balance >= HAPI_FEE
  BY <1>2 DEF Precheck
<1>4. Works(P, t, D)
  BY <1>1, <1>3, ChargedIs
<1> HIDE DEF paid, P, t
<1>5. P \in [D -> Account] /\ t \in Seq(Leg(D))
  BY <1>4 DEF Works
<1>6. PICK before, after, source, hollow, created, news :
        Executed(P, tx, ok, before, after, source, hollow, created, news)
  BY <1>1, <1>2, <1>5, ExecuteIs
<1>7. /\ EShape' /\ IdsFresh' /\ ContractsFresh'
      /\ accounts' \in [DOMAIN accounts' -> Account]
      /\ D \subseteq DOMAIN accounts' /\ DOMAIN accounts' \subseteq Ids
      /\ by_evm' \in [DOMAIN by_evm' -> DOMAIN accounts']
      /\ next_id' \in FIRST_USER_ID .. MaxId + 1
  BY <1>1, <1>2, <1>5, <1>6, ExecutionKeeps
<1>8. Logged(t, txid, ok, 0, Keys)
  <2>1. t \in Seq(Leg(DOMAIN accounts'))
    <3>1. Leg(D) \subseteq Leg(DOMAIN accounts')
      BY <1>7 DEF Leg
    <3> QED
      BY <3>1, <1>5
  <2> QED
    BY <2>1, <1>2, <1>7 DEF Logged
<1>9. DOMAIN topics' \subseteq Ids
  BY <1>1, <1>2 DEF Shape
<1>10. Shape' /\ Recorded'
  BY <1>1, <1>7, <1>8, <1>9, LoggedKeeps
<1>11. Chained' /\ MessagesHaveRecords'
  BY <1>1, <1>2, <1>8, NoMessage
<1> QED
  BY <1>7, <1>10, <1>11 DEF EInv, Base

(* A synced database has the types of one. *)
LEMMA SyncedShape ==
    ASSUME Shape, EShape, NEW accts \in [DOMAIN accounts -> Account], db' = sync_accounts_into_db(accts)
    PROVE  db' \in [DOMAIN db' -> Entry] /\ IsFiniteSet(DOMAIN db')
BY SyncIs DEF Synced

(* A refused transaction, or a call, only syncs the database. *)
LEMMA SyncOnlyKeeps == ASSUME EInv, SyncOnly PROVE EInv'
<1>1. Shape /\ EShape /\ IdsFresh /\ ContractsFresh /\ Base
  BY DEF EInv, Base
<1>2. /\ accounts' = accounts /\ by_evm' = by_evm /\ next_id' = next_id /\ topics' = topics
      /\ records' = records /\ hapi_by_id' = hapi_by_id /\ signers' = signers
      /\ nonces' = nonces /\ contract_by_evm' = contract_by_evm /\ minted' = minted
      /\ db' = sync_accounts_into_db(accounts)
  BY DEF SyncOnly, vars
<1>3. Base'
  <2>1. IdsFresh'
    BY <1>1, <1>2 DEF IdsFresh
  <2> QED
    BY <1>1, <1>2, <2>1, QuietKeeps DEF Shape
<1>4. db' \in [DOMAIN db' -> Entry] /\ IsFiniteSet(DOMAIN db')
  BY <1>1, <1>2, SyncedShape DEF Shape
<1>5. EShape' /\ ContractsFresh'
  BY <1>1, <1>2, <1>4 DEF EShape, ContractsFresh
<1> QED
  BY <1>3, <1>5 DEF EInv

LEMMA EthereumRefusedKeeps ==
    ASSUME EInv, NEW txid \in TxIds, NEW tx \in Txs, ApplyEthereumRefused(txid, tx) PROVE EInv'
<1> DEFINE P == Charged(txid.payer).accounts
           D == DOMAIN accounts
<1>1. Shape /\ EShape /\ IdsFresh /\ ContractsFresh /\ Base
  BY DEF EInv, Base
<1>2. /\ Precheck(txid, {}, Keys) /\ BodyFails(txid, Keys) /\ db' = sync_accounts_into_db(P)
      /\ nonces' = nonces /\ contract_by_evm' = contract_by_evm /\ minted' = minted
  BY DEF ApplyEthereumRefused
<1>3. accounts' = P /\ next_id' = next_id /\ topics' = topics
  BY <1>2 DEF BodyFails
<1>4. P \in [D -> Account]
  <2>1. is_live(txid.payer) /\ accounts[txid.payer].balance >= HAPI_FEE
    BY <1>2 DEF Precheck
  <2> QED
    BY <1>1, <2>1, ChargedIs DEF Works
<1> HIDE DEF P
<1>5. Base'
  BY <1>1, <1>2, BodyFailsKeeps DEF Kept
<1>6. db' \in [DOMAIN db' -> Entry] /\ IsFiniteSet(DOMAIN db')
  BY <1>1, <1>2, <1>4, SyncedShape
<1>7. DOMAIN accounts' = D
  BY <1>3, <1>4
<1>8. EShape' /\ ContractsFresh'
  BY <1>1, <1>2, <1>3, <1>6, <1>7 DEF EShape, ContractsFresh
<1> QED
  BY <1>5, <1>8 DEF EInv

(* Every other HAPI transaction: its new ids come after the contracts'. *)
LEMMA HapiKeeps == ASSUME EInv, Hapi PROVE EInv'
<1> DEFINE D == DOMAIN accounts
<1>1. Shape /\ EShape /\ IdsFresh /\ ContractsFresh /\ Base
  BY DEF EInv, Base
<1>2. PICK txid \in TxIds, signed \in SUBSET Keys : Submit(txid, signed)
  BY DEF Hapi, Next
<1>3. /\ nonces' = [id \in DOMAIN accounts' |-> IF id \in DOMAIN nonces THEN nonces[id] ELSE 0]
      /\ db' = db /\ contract_by_evm' = contract_by_evm /\ minted' = minted
  BY DEF Hapi
<1>4. Base'
  BY <1>1, <1>2, SubmitKeeps DEF Kept
<1>5. Upward
  BY <1>1, <1>2, SubmitUpward
<1>6. nonces' \in [DOMAIN accounts' -> Nat]
  <2>1. nonces \in [D -> Nat]
    BY <1>1 DEF EShape
  <2> QED
    BY <1>3, <2>1
<1>7. EShape'
  BY <1>1, <1>3, <1>6 DEF EShape
<1>8. next_id \in Int /\ next_id' \in Int
  BY <1>1, <1>4, LedgerAssumption DEF Base, Shape
<1>9. ASSUME NEW a \in DOMAIN contract_by_evm
      PROVE  contract_by_evm[a] < next_id' /\ contract_by_evm[a] \notin DOMAIN accounts' \cup DOMAIN topics'
  <2> DEFINE x == contract_by_evm[a]
  <2>1. x \in FIRST_USER_ID .. MaxId /\ x < next_id /\ x \notin D \cup DOMAIN topics
    BY <1>1 DEF EShape, ContractsFresh
  <2>2. x \in Int
    BY <2>1, LedgerAssumption
  <2> HIDE DEF x
  <2>3. x < next_id' /\ ~(x >= next_id)
    BY <1>5, <1>8, <2>1, <2>2 DEF Upward
  <2>4. x \notin DOMAIN accounts' \cup DOMAIN topics'
    BY <1>5, <2>1, <2>3 DEF Upward
  <2> QED
    BY <2>3, <2>4 DEF x
<1>10. ContractsFresh'
  BY <1>1, <1>3, <1>9 DEF ContractsFresh
<1> QED
  BY <1>4, <1>7, <1>10 DEF EInv

-----------------------------------------------------------------------------
(* The cheats.  One entry of the database is written.                      *)
LEMMA EntryWritten ==
    ASSUME EShape, NEW address, NEW e \in Entry,
           db' = [a \in DOMAIN db \cup {address} |-> IF a = address THEN e ELSE db[a]]
    PROVE  db' \in [DOMAIN db' -> Entry] /\ IsFiniteSet(DOMAIN db')
<1>1. db' \in [DOMAIN db \cup {address} -> Entry]
  BY DEF EShape
<1>2. IsFiniteSet(DOMAIN db \cup {address})
  BY FS_AddElement DEF EShape
<1> QED
  BY <1>1, <1>2

(* anvil_setBalance keeps the invariant, whatever holds the address. *)
LEMMA SetBalanceKeeps ==
    ASSUME EInv, NEW address \in CheatTargets, NEW balance \in CheatBalances, set_balance(address, balance)
    PROVE  EInv'
<1> DEFINE D == DOMAIN accounts
           news == << NewAccount(NoKey, address, balance) >>
<1>1. Shape /\ EShape /\ IdsFresh /\ ContractsFresh /\ Base
  BY DEF EInv, Base
<1>2. /\ topics' = topics /\ records' = records /\ hapi_by_id' = hapi_by_id /\ signers' = signers
      /\ contract_by_evm' = contract_by_evm
  BY DEF set_balance
<1>3. balance \in Nat
  BY EvmAssumption
<1>4. minted' \in Int
  <2>1. balance_by_evm(address) \in Int
    <3>1. address \in DOMAIN by_evm => accounts[by_evm[address]].balance \in Nat
      <4>1. ASSUME address \in DOMAIN by_evm PROVE by_evm[address] \in D
        BY <4>1, <1>1 DEF Shape
      <4>2. \A id \in D : accounts[id].balance \in Nat
        BY <1>1 DEF Shape, Account
      <4> QED
        BY <4>1, <4>2
    <3>2. At(db, address).balance \in Nat
      BY <1>1, AtEntry DEF EShape
    <3> QED
      BY <3>1, <3>2 DEF balance_by_evm
  <2>2. minted \in Int /\ minted' = minted + balance - balance_by_evm(address)
    BY <1>1 DEF EShape, set_balance
  <2> QED
    BY <2>1, <2>2, <1>3
<1>5. CASE /\ address \in DOMAIN by_evm
           /\ accounts' = [accounts EXCEPT ![by_evm[address]].balance = balance]
           /\ UNCHANGED <<by_evm, next_id, nonces, db>>
  <2>1. by_evm[address] \in D
    BY <1>1, <1>5 DEF Shape
  <2>2. [accounts[by_evm[address]] EXCEPT !.balance = balance] \in Account
    BY ZenonT(120), <1>1, <1>3, <2>1 DEF Shape, Account
  <2>3. accounts' \in [D -> Account] /\ DOMAIN accounts' = D
    BY <1>1, <1>5, <2>2 DEF Shape
  <2>4. Base'
    <3>1. IdsFresh'
      BY <1>1, <1>2, <1>5, <2>3 DEF IdsFresh
    <3> QED
      BY <1>1, <1>2, <1>5, <2>3, <3>1, QuietKeeps DEF Shape
  <2>5. EShape' /\ ContractsFresh'
    BY <1>1, <1>2, <1>4, <1>5, <2>3 DEF EShape, ContractsFresh
  <2> QED
    BY <2>4, <2>5 DEF EInv
<1>6. CASE /\ db' = [a \in DOMAIN db \cup {address} |->
                       IF a = address THEN [At(db, a) EXCEPT !.balance = balance] ELSE db[a]]
           /\ UNCHANGED <<accounts, by_evm, next_id, nonces>>
  <2>1. [At(db, address) EXCEPT !.balance = balance] \in Entry
    BY <1>1, <1>3, AtEntry DEF EShape, Entry
  <2>2. db' \in [DOMAIN db' -> Entry] /\ IsFiniteSet(DOMAIN db')
    BY <1>1, <1>6, <2>1, EntryWritten
  <2>3. Base'
    <3>1. IdsFresh'
      BY <1>1, <1>2, <1>6 DEF IdsFresh
    <3> QED
      BY <1>1, <1>2, <1>6, <3>1, QuietKeeps DEF Shape
  <2>4. EShape' /\ ContractsFresh'
    BY <1>1, <1>2, <1>4, <1>6, <2>2 DEF EShape, ContractsFresh
  <2> QED
    BY <2>3, <2>4 DEF EInv
<1>7. CASE /\ next_id <= MaxId /\ accounts' = WithAccounts(accounts, news) /\ by_evm' = WithAddresses(news)
           /\ next_id' = next_id + 1
           /\ nonces' = [id \in DOMAIN accounts' |-> IF id = next_id THEN 0 ELSE nonces[id]]
           /\ UNCHANGED db
  <2>1. Room(news) /\ Len(news) = 1 /\ DOMAIN news = {1}
    <3>1. NewAccount(NoKey, address, balance) \in Account
      BY <1>3 DEF NewAccount, Account, Addresses
    <3>2. next_id \in Int /\ MaxId \in Int
      BY <1>1, LedgerAssumption DEF Shape
    <3> QED
      BY <3>1, <3>2, <1>7 DEF Room
  <2>2. News(news) = {next_id}
    <3>1. NewId(1) = next_id
      BY <1>1, LedgerAssumption DEF NewId, Shape
    <3> QED
      BY <2>1, <3>1 DEF News
  <2> HIDE DEF news
  <2>3. accounts' \in [D \cup {next_id} -> Account] /\ DOMAIN accounts' = D \cup {next_id}
    <3>1. accounts \in [D -> Account]
      BY <1>1 DEF Shape
    <3> QED
      BY <1>1, <1>7, <2>1, <2>2, <3>1, AccountsJoin DEF Joined
  <2>4. /\ by_evm' \in [DOMAIN by_evm' -> DOMAIN accounts']
        /\ next_id' \in FIRST_USER_ID .. MaxId + 1 /\ DOMAIN accounts' \subseteq Ids /\ IdsFresh'
    BY <1>1, <1>2, <1>7, <2>1, <2>2, <2>3, NewAccountsKeep
  <2>5. Base'
    BY <1>1, <1>2, <2>3, <2>4, QuietKeeps
  <2>6. nonces' \in [DOMAIN accounts' -> Nat]
    BY <1>1, <1>7, <2>3 DEF EShape
  <2>7. EShape'
    BY <1>1, <1>2, <1>4, <1>7, <2>6 DEF EShape
  <2>8. ASSUME NEW a \in DOMAIN contract_by_evm
        PROVE  contract_by_evm[a] < next_id' /\ contract_by_evm[a] \notin DOMAIN accounts' \cup DOMAIN topics'
    <3>1. /\ contract_by_evm[a] < next_id /\ contract_by_evm[a] \in FIRST_USER_ID .. MaxId
          /\ contract_by_evm[a] \notin D \cup DOMAIN topics
      BY <1>1 DEF EShape, ContractsFresh
    <3>2. next_id \in Int /\ contract_by_evm[a] \in Int
      BY <1>1, <3>1, LedgerAssumption DEF Shape
    <3> QED
      BY <3>1, <3>2, <1>2, <1>7, <2>3
  <2>9. ContractsFresh'
    BY <1>1, <1>2, <2>8 DEF ContractsFresh
  <2> QED
    BY <2>5, <2>7, <2>9 DEF EInv
<1> QED
  BY <1>5, <1>6, <1>7 DEF set_balance

(* anvil_setCode gives a contract the counter's id. *)
LEMMA SetCodeKeeps ==
    ASSUME EInv, NEW address, set_code(address)
    PROVE  EInv'
<1> DEFINE new == address \notin DOMAIN by_evm \cup DOMAIN contract_by_evm
<1>1. Shape /\ EShape /\ IdsFresh /\ ContractsFresh /\ Base
  BY DEF EInv, Base
<1>2. /\ topics' = topics /\ records' = records /\ hapi_by_id' = hapi_by_id /\ signers' = signers
      /\ accounts' = accounts /\ by_evm' = by_evm /\ nonces' = nonces /\ minted' = minted
      /\ next_id <= MaxId /\ next_id' = IF new THEN next_id + 1 ELSE next_id
      /\ db' = [a \in DOMAIN db \cup {address} |->
                  IF a = address THEN [At(db, a) EXCEPT !.code = TRUE] ELSE db[a]]
      /\ contract_by_evm' = IF new
                            THEN [a \in DOMAIN contract_by_evm \cup {address} |->
                                      IF a = address THEN next_id ELSE contract_by_evm[a]]
                            ELSE contract_by_evm
  BY DEF set_code
<1>3. next_id \in FIRST_USER_ID .. MaxId /\ next_id \in Int /\ MaxId \in Int
  BY <1>1, <1>2, LedgerAssumption DEF Shape
<1>4. next_id' \in FIRST_USER_ID .. MaxId + 1 /\ next_id <= next_id' /\ next_id' \in Int
  BY <1>2, <1>3, LedgerAssumption
<1>5. db' \in [DOMAIN db' -> Entry] /\ IsFiniteSet(DOMAIN db')
  <2>1. [At(db, address) EXCEPT !.code = TRUE] \in Entry
    BY ZenonT(120), <1>1, AtEntry DEF EShape, Entry
  <2> QED
    BY <1>1, <1>2, <2>1, EntryWritten
<1>6. ASSUME NEW id \in Int, id < next_id PROVE id < next_id'
  BY <1>3, <1>4, <1>6
<1>7. \A id \in DOMAIN accounts \cup DOMAIN topics : id \in Int /\ id < next_id
  BY <1>1, IdsFinite DEF Shape, IdsFresh
<1>8. \A a \in DOMAIN contract_by_evm :
        /\ contract_by_evm[a] \in FIRST_USER_ID .. MaxId /\ contract_by_evm[a] \in Int
        /\ contract_by_evm[a] < next_id /\ contract_by_evm[a] \notin DOMAIN accounts \cup DOMAIN topics
  BY <1>1, LedgerAssumption DEF EShape, ContractsFresh
<1>9. Base'
  <2>1. IdsFresh'
    BY <1>1, <1>2, <1>6, <1>7 DEF IdsFresh
  <2> QED
    BY <1>1, <1>2, <1>4, <2>1, QuietKeeps DEF Shape
<1>10. CASE new
  <2>1. contract_by_evm' = [a \in DOMAIN contract_by_evm \cup {address} |->
                              IF a = address THEN next_id ELSE contract_by_evm[a]]
    BY <1>2, <1>10
  <2>2. contract_by_evm' \in [DOMAIN contract_by_evm' -> FIRST_USER_ID .. MaxId]
    BY <2>1, <1>3, <1>8
  <2>3. next_id < next_id' /\ next_id \notin DOMAIN accounts \cup DOMAIN topics
    BY <1>2, <1>3, <1>7, <1>10
  <2>4. \A a \in DOMAIN contract_by_evm : contract_by_evm[a] # next_id /\ contract_by_evm[a] < next_id'
    BY <1>3, <1>6, <1>8
  <2>5. ContractsFresh'
    <3>1. \A a \in DOMAIN contract_by_evm' :
            /\ contract_by_evm'[a] < next_id'
            /\ contract_by_evm'[a] \notin DOMAIN accounts \cup DOMAIN topics
      BY <2>1, <2>3, <2>4, <1>8
    <3>2. \A a, b \in DOMAIN contract_by_evm' : contract_by_evm'[a] = contract_by_evm'[b] => a = b
      <4> SUFFICES ASSUME NEW a \in DOMAIN contract_by_evm', NEW b \in DOMAIN contract_by_evm',
                          contract_by_evm'[a] = contract_by_evm'[b]
                   PROVE  a = b
        OBVIOUS
      <4>1. CASE a = address \/ b = address
        BY <4>1, <2>1, <2>4
      <4>2. CASE a # address /\ b # address
        BY <4>2, <2>1, <1>1 DEF ContractsFresh
      <4> QED
        BY <4>1, <4>2
    <3> QED
      BY <3>1, <3>2, <1>2 DEF ContractsFresh
  <2>6. EShape'
    BY <1>1, <1>2, <1>5, <2>2 DEF EShape
  <2> QED
    BY <1>9, <2>5, <2>6 DEF EInv
<1>11. CASE ~new
  <2>1. contract_by_evm' = contract_by_evm
    BY <1>2, <1>11
  <2>2. EShape'
    BY <1>1, <1>2, <1>5, <2>1 DEF EShape
  <2>3. ContractsFresh'
    BY <1>1, <1>2, <1>6, <1>8, <2>1 DEF ContractsFresh
  <2> QED
    BY <1>9, <2>2, <2>3 DEF EInv
<1> QED
  BY <1>10, <1>11

(* anvil_setNonce keeps the invariant. *)
LEMMA SetNonceKeeps ==
    ASSUME EInv, NEW address, NEW nonce \in CheatNonces, set_nonce(address, nonce)
    PROVE  EInv'
<1>1. Shape /\ EShape /\ IdsFresh /\ ContractsFresh /\ Base
  BY DEF EInv, Base
<1>2. /\ topics' = topics /\ records' = records /\ hapi_by_id' = hapi_by_id /\ signers' = signers
      /\ accounts' = accounts /\ by_evm' = by_evm /\ next_id' = next_id /\ minted' = minted
      /\ contract_by_evm' = contract_by_evm
      /\ nonces' = IF address \in DOMAIN by_evm THEN [nonces EXCEPT ![by_evm[address]] = nonce] ELSE nonces
      /\ db' = [a \in DOMAIN db \cup {address} |->
                  IF a = address THEN [At(db, a) EXCEPT !.nonce = nonce] ELSE db[a]]
  BY DEF set_nonce, vars
<1>3. nonce \in Nat
  BY EvmAssumption
<1>4. db' \in [DOMAIN db' -> Entry] /\ IsFiniteSet(DOMAIN db')
  <2>1. [At(db, address) EXCEPT !.nonce = nonce] \in Entry
    BY <1>1, <1>3, AtEntry DEF EShape, Entry
  <2> QED
    BY <1>1, <1>2, <2>1, EntryWritten
<1>5. nonces' \in [DOMAIN accounts -> Nat]
  BY <1>1, <1>2, <1>3 DEF EShape
<1>6. Base'
  <2>1. IdsFresh'
    BY <1>1, <1>2 DEF IdsFresh
  <2> QED
    BY <1>1, <1>2, <2>1, QuietKeeps DEF Shape
<1>7. EShape' /\ ContractsFresh'
  BY <1>1, <1>2, <1>4, <1>5 DEF EShape, ContractsFresh
<1> QED
  BY <1>6, <1>7 DEF EInv

(* Genesis. *)
LEMMA EvmInitKeeps == EvmInit => EInv
<1> SUFFICES ASSUME EvmInit PROVE EInv
  OBVIOUS
<1>1. Base
  BY InitKeeps DEF EvmInit, IInv
<1>2. /\ nonces = [id \in GenesisIds |-> 0] /\ contract_by_evm = << >> /\ minted = 0
      /\ db = [address \in SystemContracts |-> [Empty EXCEPT !.code = TRUE]]
  BY DEF EvmInit
<1>3. DOMAIN accounts = GenesisIds
  BY DEF EvmInit, Init
<1>4. db \in [SystemContracts -> Entry] /\ IsFiniteSet(SystemContracts)
  BY <1>2, EvmAssumption DEF Empty, Entry
<1>5. DOMAIN contract_by_evm = {}
  BY <1>2
<1>6. contract_by_evm \in [DOMAIN contract_by_evm -> FIRST_USER_ID .. MaxId]
  <2>1. << >> \in [{} -> FIRST_USER_ID .. MaxId]
    OBVIOUS
  <2> QED
    BY <1>2, <1>5, <2>1
<1>7. EShape
  <2>1. nonces \in [DOMAIN accounts -> Nat] /\ minted \in Int
    BY <1>2, <1>3
  <2>2. DOMAIN db = SystemContracts
    BY <1>4
  <2>3. db \in [DOMAIN db -> Entry] /\ IsFiniteSet(DOMAIN db)
    BY <1>4, <2>2
  <2> QED
    BY <1>6, <2>1, <2>3, Zenon DEF EShape
<1>8. ContractsFresh
  BY <1>5 DEF ContractsFresh
<1> QED
  BY <1>1, <1>7, <1>8 DEF EInv

(* Every step of the EVM side, and every HAPI transaction beside it, keeps *)
(* the invariant.                                                          *)
LEMMA EvmNextKeeps == EInv /\ [EvmNext]_allVars => EInv'
<1> SUFFICES ASSUME EInv, [EvmNext]_allVars PROVE EInv'
  OBVIOUS
<1>1. CASE UNCHANGED allVars
  <2>1. /\ accounts' = accounts /\ by_evm' = by_evm /\ next_id' = next_id /\ topics' = topics
        /\ records' = records /\ hapi_by_id' = hapi_by_id /\ signers' = signers
        /\ nonces' = nonces /\ db' = db /\ contract_by_evm' = contract_by_evm /\ minted' = minted
    BY <1>1 DEF allVars, vars, evmVars
  <2>2. Base'
    <3>1. Base /\ Shape /\ IdsFresh
      BY DEF EInv, Base
    <3>2. IdsFresh'
      BY <2>1, <3>1 DEF IdsFresh
    <3> QED
      BY <2>1, <3>1, <3>2, QuietKeeps DEF Shape
  <2> QED
    BY <2>1, <2>2 DEF EInv, EShape, ContractsFresh
<1>2. ASSUME NEW tx \in Txs, NEW ok \in BOOLEAN, Send(tx, ok) PROVE EInv'
  BY <1>2, SendKeeps
<1>3. CASE SyncOnly
  BY <1>3, SyncOnlyKeeps
<1>4. ASSUME NEW txid \in TxIds, NEW tx \in Txs, NEW ok \in BOOLEAN, ApplyEthereum(txid, tx, ok) PROVE EInv'
  BY <1>4, EthereumKeeps
<1>5. ASSUME NEW txid \in TxIds, NEW tx \in Txs, ApplyEthereumRefused(txid, tx) PROVE EInv'
  BY <1>5, EthereumRefusedKeeps
<1>6. CASE Hapi
  BY <1>6, HapiKeeps
<1>7. ASSUME NEW address \in CheatTargets, NEW balance \in CheatBalances, set_balance(address, balance)
      PROVE  EInv'
  BY <1>7, SetBalanceKeeps
<1>8. ASSUME NEW address \in CheatTargets, set_code(address) PROVE EInv'
  BY <1>8, SetCodeKeeps
<1>9. ASSUME NEW address \in CheatTargets, NEW nonce \in CheatNonces, set_nonce(address, nonce) PROVE EInv'
  BY <1>9, SetNonceKeeps
<1> QED
  BY <1>1, <1>2, <1>3, <1>4, <1>5, <1>6, <1>7, <1>8, <1>9 DEF EvmNext

(* Both stores stay of their types and no two entities share an id, over   *)
(* HAPI bodies, executions and cheats.                                     *)
THEOREM EvmInvariant == EvmSpec => []EInv
<1>1. EvmInit => EInv
  BY EvmInitKeeps
<1>2. EInv /\ [EvmNext]_allVars => EInv'
  BY EvmNextKeeps
<1> QED
  BY <1>1, <1>2, PTL DEF EvmSpec

(* Nonces and the balances of the database stay natural numbers, whatever  *)
(* is sent, called, refused or set by a cheat.                             *)
THEOREM EvmTypes == EvmSpec => []EvmTypeOK
<1>1. EInv => EvmTypeOK
  BY DEF EInv, EShape, Entry, EvmTypeOK
<1> QED
  BY <1>1, EvmInvariant, PTL

(* EntityIdsFresh: an id names one account, topic or contract. *)
THEOREM EvmIds == EvmSpec => []EntityIdsFresh
<1>1. EInv => EntityIdsFresh
  BY DEF EInv, Base, ContractsFresh, EntityIdsFresh
<1> QED
  BY <1>1, EvmInvariant, PTL

-----------------------------------------------------------------------------
(* What is opened.  A step of the EVM side keeps the accounts, contracts   *)
(* and crossings there are, and puts an account and a contract at one      *)
(* address only when it says so, or when the address stands for an id.     *)
Steady ==
  /\ Kin
  /\ DOMAIN contract_by_evm \subseteq DOMAIN contract_by_evm'
  /\ crossed \subseteq crossed'
  /\ \A a \in DOMAIN by_evm' \cap DOMAIN contract_by_evm' :
       a \in DOMAIN by_evm \cap DOMAIN contract_by_evm \/ a \in crossed' \/ a \in LongZeros

(* A step that opens nothing. *)
LEMMA SteadyStays ==
    ASSUME DOMAIN accounts' = DOMAIN accounts, by_evm' = by_evm,
           \A id \in DOMAIN accounts : accounts'[id].alias = accounts[id].alias,
           contract_by_evm' = contract_by_evm, crossed' = crossed
    PROVE  Steady
BY DEF Steady, Kin

(* The addresses new accounts get: their own, or those of their ids. *)
LEMMA NewNames ==
    ASSUME Shape, IdsFresh, NEW news, Room(news), by_evm' = WithAddresses(news)
    PROVE  \A a \in DOMAIN by_evm' :
             \/ a \in DOMAIN by_evm
             \/ a \in LongZeros
             \/ \E k \in DOMAIN news : a = news[k].alias
<1> SUFFICES ASSUME NEW a \in DOMAIN by_evm', a \notin DOMAIN by_evm
             PROVE  a \in LongZeros \/ \E k \in DOMAIN news : a = news[k].alias
  OBVIOUS
<1>1. Naming(news, a) # {}
  BY AddressesJoin
<1>2. PICK k \in DOMAIN news : a \in {evm_address(NewId(k), news[k]), LongZero(NewId(k))}
  BY <1>1 DEF Naming
<1>3. NewId(k) \in Ids
  BY NewIdsFresh
<1> QED
  BY <1>2, <1>3 DEF evm_address, LongZeros

(* An execution registers a contract where no account is, and opens an     *)
(* account where no contract is, nor code.                                 *)
LEMMA ExecutionSteady ==
    ASSUME Shape, EShape, IdsFresh,
           NEW accts \in [DOMAIN accounts -> Account], Holds(accts, accounts, DOMAIN accounts),
           NEW tx \in Txs, NEW ok \in BOOLEAN, ExecuteAndMine(accts, tx, ok), crossed \subseteq crossed'
    PROVE  Steady
<1> DEFINE D == DOMAIN accounts
           T == Touched(tx, ok)
<1>1. PICK before, after, source, hollow, created, news :
        Executed(accts, tx, ok, before, after, source, hollow, created, news)
  BY ExecuteIs
<1>2. ReadBack(accts, tx, ok, after, source, news) /\ ContractsAfter(news, created)
  BY <1>1, ReadBackIs, ContractsAfterIs
<1>3. Kin
  BY <1>2 DEF ReadBack, Holds, Kin
<1>4. /\ by_evm' = WithAddresses(news) /\ Room(news) /\ DOMAIN news = DOMAIN hollow
      /\ Lists(hollow, Hollow(after, T)) /\ Lists(created, NewContracts(after, T))
      /\ news = [k \in DOMAIN hollow |-> NewAccount(NoKey, hollow[k], At(after, hollow[k]).balance)]
  BY <1>1 DEF Executed, Chosen, Written_back
<1>5. ASSUME NEW k \in DOMAIN news
      PROVE  /\ news[k].alias \notin DOMAIN by_evm \cup DOMAIN contract_by_evm
             /\ ~At(after, news[k].alias).code
  <2>1. hollow[k] \in Hollow(after, T) /\ news[k].alias = hollow[k]
    BY <1>4 DEF Lists, NewAccount
  <2> QED
    BY <2>1 DEF Hollow
<1>6. ASSUME NEW a \in DOMAIN contract_by_evm'
      PROVE  \/ a \in DOMAIN contract_by_evm
             \/ a \notin DOMAIN by_evm /\ At(after, a).code
  <2>1. ASSUME NEW k \in DOMAIN created, a = created[k] PROVE a \notin DOMAIN by_evm /\ At(after, a).code
    <3>1. created[k] \in NewContracts(after, T)
      BY <1>4 DEF Lists
    <3> QED
      BY <2>1, <3>1 DEF NewContracts
  <2> QED
    BY <2>1, <1>2 DEF ContractsAfter
<1>7. ASSUME NEW a \in DOMAIN by_evm', a \in DOMAIN contract_by_evm'
      PROVE  a \in DOMAIN by_evm \cap DOMAIN contract_by_evm \/ a \in LongZeros
  <2>1. \/ a \in DOMAIN by_evm
        \/ a \in LongZeros
        \/ \E k \in DOMAIN news : a = news[k].alias
    BY <1>4, NewNames
  <2> QED
    BY <2>1, <1>5, <1>6, <1>7
<1>8. DOMAIN contract_by_evm \subseteq DOMAIN contract_by_evm'
  BY <1>2 DEF ContractsAfter
<1> QED
  BY <1>3, <1>7, <1>8 DEF Steady

(* What the fee leaves of the accounts before a transaction runs. *)
LEMMA PaidIs ==
    ASSUME Shape, NEW txid, Precheck(txid, {}, Keys)
    PROVE  /\ Works(Charged(txid.payer).accounts, Charged(txid.payer).transfers, DOMAIN accounts)
           /\ Charged(txid.payer).accounts \in [DOMAIN accounts -> Account]
           /\ Holds(Charged(txid.payer).accounts, accounts, DOMAIN accounts)
<1>1. is_live(txid.payer) /\ accounts[txid.payer].balance >= HAPI_FEE
  BY DEF Precheck
<1> QED
  BY <1>1, ChargedIs DEF Works

(* An ethereumTransaction that is refused takes the fee. *)
LEMMA RefusedKeepsNames ==
    ASSUME Shape, NEW txid, NEW tx, ApplyEthereumRefused(txid, tx)
    PROVE  /\ DOMAIN accounts' = DOMAIN accounts /\ by_evm' = by_evm
           /\ \A id \in DOMAIN accounts : accounts'[id].alias = accounts[id].alias
           /\ contract_by_evm' = contract_by_evm /\ crossed' = crossed
<1> DEFINE P == Charged(txid.payer).accounts
<1>1. /\ Precheck(txid, {}, Keys) /\ BodyFails(txid, Keys)
      /\ contract_by_evm' = contract_by_evm /\ crossed' = crossed
  BY DEF ApplyEthereumRefused
<1>2. accounts' = P /\ by_evm' = by_evm
  BY <1>1 DEF BodyFails
<1>3. P \in [DOMAIN accounts -> Account] /\ Holds(P, accounts, DOMAIN accounts)
  BY <1>1, PaidIs
<1> HIDE DEF P
<1> QED
  BY <1>1, <1>2, <1>3 DEF Holds

(* The account anvil_setBalance opens. *)
Cheated(address, news) ==
  /\ Room(news) /\ DOMAIN news = {1} /\ news[1].alias = address
  /\ by_evm' = WithAddresses(news) /\ News(news) = {NewId(1)}
  /\ DOMAIN accounts' = DOMAIN accounts \cup News(news)
  /\ \A id \in DOMAIN accounts : accounts'[id] = accounts[id]
  /\ accounts'[NewId(1)] = news[1]
  /\ address \notin DOMAIN by_evm \cup DOMAIN contract_by_evm

(* The other two ways it ends keep every name. *)
LEMMA SetBalanceNames ==
    ASSUME Shape, IdsFresh, NEW address \in CheatTargets, NEW balance \in CheatBalances,
           set_balance(address, balance)
    PROVE  /\ contract_by_evm' = contract_by_evm /\ crossed' = crossed
           /\ \/ Cheated(address, << NewAccount(NoKey, address, balance) >>)
              \/ /\ DOMAIN accounts' = DOMAIN accounts /\ by_evm' = by_evm
                 /\ \A id \in DOMAIN accounts : accounts'[id].alias = accounts[id].alias
<1> DEFINE D == DOMAIN accounts
           news == << NewAccount(NoKey, address, balance) >>
<1>1. /\ contract_by_evm' = contract_by_evm /\ crossed' = crossed /\ balance \in Nat
      /\ accounts \in [D -> Account]
  BY EvmAssumption DEF set_balance, Cheat, Shape
<1>2. CASE /\ accounts' = [accounts EXCEPT ![by_evm[address]].balance = balance] /\ by_evm' = by_evm
  <2>1. \A id \in D : [accounts[id] EXCEPT !.balance = balance].alias = accounts[id].alias
    BY <1>1 DEF Account
  <2> QED
    BY <2>1, <1>1, <1>2
<1>3. CASE accounts' = accounts /\ by_evm' = by_evm
  BY <1>1, <1>3
<1>4. CASE /\ address \notin DOMAIN by_evm \cup DOMAIN contract_by_evm /\ next_id <= MaxId
           /\ accounts' = WithAccounts(accounts, news) /\ by_evm' = WithAddresses(news)
  <2>1. Room(news) /\ DOMAIN news = {1} /\ news[1].alias = address
    <3>1. NewAccount(NoKey, address, balance) \in Account
      BY <1>1 DEF NewAccount, Account, Addresses
    <3>2. next_id \in Int /\ MaxId \in Int
      BY LedgerAssumption DEF Shape
    <3>3. NewAccount(NoKey, address, balance).alias = address
      BY DEF NewAccount
    <3> QED
      BY <3>1, <3>2, <3>3, <1>4 DEF Room
  <2>2. by_evm' = WithAddresses(news) /\ address \notin DOMAIN by_evm \cup DOMAIN contract_by_evm
        /\ accounts' = WithAccounts(accounts, news)
    BY <1>4
  <2> HIDE DEF news
  <2>3. Joined(accounts', accounts, news)
    BY <1>1, <2>1, <2>2, AccountsJoin
  <2>4. News(news) = {NewId(1)}
    BY <2>1 DEF News
  <2>5. Cheated(address, news)
    BY <2>1, <2>2, <2>3, <2>4 DEF Joined, Cheated
  <2> QED
    BY <1>1, <2>5 DEF news
<1>5. \/ /\ accounts' = [accounts EXCEPT ![by_evm[address]].balance = balance] /\ by_evm' = by_evm
      \/ accounts' = accounts /\ by_evm' = by_evm
      \/ /\ address \notin DOMAIN by_evm \cup DOMAIN contract_by_evm /\ next_id <= MaxId
         /\ accounts' = WithAccounts(accounts, news) /\ by_evm' = WithAddresses(news)
  BY Zenon DEF set_balance
<1> QED
  BY <1>2, <1>3, <1>4, <1>5

LEMMA SetBalanceSteady ==
    ASSUME EInv, NEW address \in CheatTargets, NEW balance \in CheatBalances, set_balance(address, balance)
    PROVE  Steady
<1> DEFINE news == << NewAccount(NoKey, address, balance) >>
<1>1. Shape /\ IdsFresh
  BY DEF EInv, Base
<1>2. /\ contract_by_evm' = contract_by_evm /\ crossed' = crossed
      /\ \/ Cheated(address, news)
         \/ /\ DOMAIN accounts' = DOMAIN accounts /\ by_evm' = by_evm
            /\ \A id \in DOMAIN accounts : accounts'[id].alias = accounts[id].alias
  BY <1>1, SetBalanceNames
<1> HIDE DEF news
<1>3. CASE Cheated(address, news)
  <2>1. Kin
    BY <1>3 DEF Cheated, Kin
  <2>2. ASSUME NEW a \in DOMAIN by_evm', a \in DOMAIN contract_by_evm
        PROVE  a \in DOMAIN by_evm \/ a \in LongZeros
    <3>1. \/ a \in DOMAIN by_evm
          \/ a \in LongZeros
          \/ \E k \in DOMAIN news : a = news[k].alias
      BY <1>1, <1>3, NewNames DEF Cheated
    <3> QED
      BY <3>1, <2>2, <1>3 DEF Cheated
  <2> QED
    BY <1>2, <2>1, <2>2 DEF Steady
<1> QED
  BY <1>2, <1>3, SteadyStays

(* Every step of the EVM side. *)
LEMMA EvmNextSteady == ASSUME EInv, [EvmNext]_allVars PROVE Steady
<1>1. Shape /\ EShape /\ IdsFresh /\ Base
  BY DEF EInv, Base
<1>2. CASE UNCHANGED allVars
  BY <1>2, SteadyStays DEF allVars, vars, evmVars
<1>3. ASSUME NEW tx \in Txs, NEW ok \in BOOLEAN, Send(tx, ok) PROVE Steady
  <2>1. accounts \in [DOMAIN accounts -> Account] /\ Holds(accounts, accounts, DOMAIN accounts)
    BY <1>1 DEF Shape, Holds
  <2>2. ExecuteAndMine(accounts, tx, ok) /\ crossed \subseteq crossed'
    BY <1>3 DEF Send
  <2> QED
    BY <1>1, <2>1, <2>2, ExecutionSteady
<1>4. CASE SyncOnly
  BY <1>4, SteadyStays DEF SyncOnly, vars
<1>5. ASSUME NEW txid \in TxIds, NEW tx \in Txs, NEW ok \in BOOLEAN, ApplyEthereum(txid, tx, ok) PROVE Steady
  <2> DEFINE P == Charged(txid.payer).accounts
  <2>1. Precheck(txid, {}, Keys) /\ ExecuteAndMine(P, tx, ok) /\ crossed \subseteq crossed'
    BY <1>5 DEF ApplyEthereum
  <2>2. P \in [DOMAIN accounts -> Account] /\ Holds(P, accounts, DOMAIN accounts)
    BY <1>1, <2>1, PaidIs
  <2> HIDE DEF P
  <2> QED
    BY <1>1, <2>1, <2>2, ExecutionSteady
<1>6. ASSUME NEW txid \in TxIds, NEW tx \in Txs, ApplyEthereumRefused(txid, tx) PROVE Steady
  BY <1>1, <1>6, RefusedKeepsNames, SteadyStays
<1>7. CASE Hapi
  <2>1. /\ Next /\ contract_by_evm' = contract_by_evm
        /\ crossed' = crossed \cup ((DOMAIN by_evm' \ DOMAIN by_evm) \cap DOMAIN contract_by_evm)
    BY <1>7 DEF Hapi
  <2>2. Kin
    BY <1>1, <2>1, NextIsKin
  <2> QED
    BY <2>1, <2>2 DEF Steady
<1>8. ASSUME NEW address \in CheatTargets, NEW balance \in CheatBalances, set_balance(address, balance)
      PROVE  Steady
  BY <1>8, SetBalanceSteady
<1>9. ASSUME NEW address \in CheatTargets, set_code(address) PROVE Steady
  <2>1. /\ accounts' = accounts /\ by_evm' = by_evm /\ crossed' = crossed
        /\ \/ contract_by_evm' = contract_by_evm
           \/ /\ address \notin DOMAIN by_evm
              /\ DOMAIN contract_by_evm' = DOMAIN contract_by_evm \cup {address}
    BY <1>9 DEF set_code, Cheat
  <2> QED
    BY <2>1 DEF Steady, Kin
<1>10. ASSUME NEW address \in CheatTargets, NEW nonce \in CheatNonces, set_nonce(address, nonce) PROVE Steady
  BY <1>10, SteadyStays DEF set_nonce, Cheat, vars
<1> QED
  BY <1>2, <1>3, <1>4, <1>5, <1>6, <1>7, <1>8, <1>9, <1>10 DEF EvmNext

(* An id names one entity; no execution and no cheat gives an address a    *)
(* second, only a HAPI transaction that opens an account on a contract     *)
(* does, or an address that stands for an id (sync_db_into_accounts).      *)
THEOREM EvmEntitiesHold == EvmSpec => []EntitiesAreDistinct
<1>1. EvmInit => OnlyHapiOpensOnContracts
  BY DEF EvmInit, OnlyHapiOpensOnContracts
<1>2. EInv /\ OnlyHapiOpensOnContracts /\ [EvmNext]_allVars => OnlyHapiOpensOnContracts'
  BY EvmNextSteady DEF Steady, OnlyHapiOpensOnContracts
<1>3. EvmSpec => []OnlyHapiOpensOnContracts
  BY <1>1, <1>2, EvmInvariant, PTL DEF EvmSpec
<1>4. EntityIdsFresh /\ OnlyHapiOpensOnContracts => EntitiesAreDistinct
  BY DEF EntitiesAreDistinct
<1> QED
  BY <1>3, <1>4, EvmIds, PTL

-----------------------------------------------------------------------------
(* What is named.  Until an address is taken for two things every address  *)
(* leads to its account, and none to a contract as well.                   *)
Apart == Named /\ AddressNamesOneEntity

LEMMA UncrossedAgo == Steady /\ Uncrossed' => Uncrossed
BY KinArePlain DEF Steady, Uncrossed

LEMMA NamedApart ==
    ASSUME Named, Uncrossed, OnlyHapiOpensOnContracts PROVE Apart
BY DEF Apart, Uncrossed, OnlyHapiOpensOnContracts, AddressNamesOneEntity

(* A transaction that calls no account by a second name, and opens none at *)
(* the address of an id.                                                   *)
Single(tx, ok) == SecondNames(Touched(tx, ok)) = {} /\ PlainAliases'

(* The beneficiary's address is the collector's own. *)
LEMMA BeneficiaryIs ==
    ASSUME Shape, Named
    PROVE  /\ FEE_COLLECTOR \in DOMAIN accounts /\ Beneficiary \in DOMAIN by_evm
           /\ by_evm[Beneficiary] = FEE_COLLECTOR
           /\ evm_address(FEE_COLLECTOR, accounts[FEE_COLLECTOR]) = Beneficiary
<1>1. FEE_COLLECTOR \in GenesisIds /\ FEE_COLLECTOR \in DOMAIN accounts
  BY IdsFinite DEF Shape
<1>2. accounts[FEE_COLLECTOR].alias = NoAlias
  BY <1>1, EvmAssumption DEF Named
<1>3. evm_address(FEE_COLLECTOR, accounts[FEE_COLLECTOR]) = Beneficiary
  BY <1>2 DEF evm_address, Beneficiary
<1>4. Names(Beneficiary, FEE_COLLECTOR, accounts[FEE_COLLECTOR])
  BY <1>3 DEF Names
<1>5. Beneficiary \in DOMAIN by_evm /\ by_evm[Beneficiary] = FEE_COLLECTOR
  BY <1>1, <1>4, ResolveIs DEF Named
<1> QED
  BY <1>1, <1>3, <1>5

(* It touches accounts at their own addresses. *)
LEMMA TouchedOwn ==
    ASSUME Shape, Named, NEW tx \in Txs, NEW ok \in BOOLEAN, Single(tx, ok), NEW a \in Touched(tx, ok)
    PROVE  /\ a \in DOMAIN by_evm =>
                by_evm[a] \in DOMAIN accounts /\ a = evm_address(by_evm[a], accounts[by_evm[a]])
           /\ a # NoAlias
<1>1. a \in DOMAIN by_evm => by_evm[a] \in DOMAIN accounts /\ a = evm_address(by_evm[a], accounts[by_evm[a]])
  BY DEF Single, SecondNames, Shape
<1>2. Beneficiary # NoAlias
  BY LedgerAssumption, IdsFinite DEF Beneficiary, LongZeros
<1>3. tx.from # NoAlias /\ (tx.pay # NoPay => tx.pay.to # NoAlias)
  BY TxIs, EvmAssumption
<1>4. Callee(tx) # NoAlias
  <2>1. tx.nonce \in 0 .. MaxNonce
    BY EvmAssumption DEF Txs
  <2> QED
    BY <2>1, TxIs, EvmAssumption DEF Callee
<1> QED
  BY <1>1, <1>2, <1>3, <1>4 DEF Touched

(* A hollow account takes an address nothing holds.                        *)
Hollowed(hollow, news) ==
  /\ Unheld(news)
  /\ \A k \in DOMAIN news :
       /\ hollow[k] \notin DOMAIN by_evm
       /\ evm_address(NewId(k), news[k]) = hollow[k]

LEMMA HollowIs ==
    ASSUME Shape, EShape, IdsFresh, Named, NEW accts \in [DOMAIN accounts -> Account],
           NEW tx \in Txs, NEW ok \in BOOLEAN, Single(tx, ok),
           NEW before, NEW after, NEW source, NEW hollow, NEW created, NEW news,
           Executed(accts, tx, ok, before, after, source, hollow, created, news)
    PROVE  Hollowed(hollow, news)
<1> DEFINE T == Touched(tx, ok)
<1>1. Chosen(tx, ok, after, source, hollow, created, news)
  BY DEF Executed
<1>2. /\ Lists(hollow, Hollow(after, T)) /\ DOMAIN news = DOMAIN hollow
      /\ news = [k \in DOMAIN hollow |-> NewAccount(NoKey, hollow[k], At(after, hollow[k]).balance)]
  BY <1>1 DEF Chosen
<1>3. \A k \in DOMAIN news : news[k].alias = hollow[k]
  BY <1>2 DEF NewAccount
<1>4. ASSUME NEW k \in DOMAIN news PROVE hollow[k] \in T /\ hollow[k] \notin DOMAIN by_evm
  <2>1. hollow[k] \in Hollow(after, T)
    BY <1>2 DEF Lists
  <2> QED
    BY <2>1 DEF Hollow
<1>5. ASSUME NEW k \in DOMAIN news PROVE Plain(hollow[k]) /\ hollow[k] # NoAlias
  <2>1. NewId(k) \in DOMAIN accounts' /\ accounts'[NewId(k)] = news[k]
    <3>1. ReadBack(accts, tx, ok, after, source, news)
      BY ReadBackIs
    <3> QED
      BY <3>1 DEF ReadBack, News
  <2>2. Plain(hollow[k])
    BY <2>1, <1>3 DEF Single, PlainAliases, Plain
  <2> QED
    BY <1>4, <2>2, TouchedOwn
<1>6. \A j, k \in DOMAIN news : hollow[j] = hollow[k] => j = k
  BY <1>2 DEF Lists
<1>7. Unheld(news)
  BY <1>3, <1>4, <1>5, <1>6 DEF Unheld
<1>8. \A k \in DOMAIN news : evm_address(NewId(k), news[k]) = hollow[k]
  BY <1>3, <1>5 DEF evm_address
<1> QED
  BY <1>4, <1>7, <1>8 DEF Hollowed

(* It keeps the names. *)
LEMMA ExecutionNames ==
    ASSUME Shape, EShape, IdsFresh, Named,
           NEW accts \in [DOMAIN accounts -> Account], Holds(accts, accounts, DOMAIN accounts),
           NEW tx \in Txs, NEW ok \in BOOLEAN, ExecuteAndMine(accts, tx, ok), Single(tx, ok)
    PROVE  Named'
<1> DEFINE D == DOMAIN accounts
<1>1. PICK before, after, source, hollow, created, news :
        Executed(accts, tx, ok, before, after, source, hollow, created, news)
  BY ExecuteIs
<1>2. ReadBack(accts, tx, ok, after, source, news)
  BY <1>1, ReadBackIs
<1>3. /\ DOMAIN accounts' = D \cup News(news) /\ Holds(accounts', accts, D)
      /\ \A k \in DOMAIN news : accounts'[NewId(k)] = news[k]
  BY <1>2 DEF ReadBack
<1>4. by_evm' = WithAddresses(news) /\ Room(news)
  BY <1>1 DEF Executed, Chosen, Written_back
<1>5. Unheld(news)
  BY <1>1, HollowIs DEF Hollowed
<1>6. \A id \in D : accounts'[id].alias = accounts[id].alias
  BY <1>3 DEF Holds
<1> QED
  BY <1>3, <1>4, <1>5, <1>6, NamesJoin

(* Writing an entry's balance, or its nonce, leaves the rest of it. *)
LEMMA EntryIs ==
    ASSUME NEW e \in Entry, NEW n \in Nat
    PROVE  /\ [e EXCEPT !.balance = n].code = e.code /\ [e EXCEPT !.balance = n].balance = n
           /\ [e EXCEPT !.nonce = n].code = e.code /\ [e EXCEPT !.nonce = n].balance = e.balance
           /\ [e EXCEPT !.code = TRUE].balance = e.balance /\ [e EXCEPT !.code = TRUE].code = TRUE
BY DEF Entry

(* What an EVM transaction runs on: the accounts, or what the fee left of  *)
(* them.                                                                   *)
Runner(accts, tx, ok) ==
  /\ accts \in [DOMAIN accounts -> Account] /\ Holds(accts, accounts, DOMAIN accounts)
  /\ ExecuteAndMine(accts, tx, ok) /\ minted' = minted /\ sender' = tx.from
  /\ Uncrossed' => Single(tx, ok)

LEMMA SendRuns ==
    ASSUME EInv, NEW tx \in Txs, NEW ok \in BOOLEAN, Send(tx, ok)
    PROVE  Runner(accounts, tx, ok)
BY DEF EInv, Base, Shape, Holds, Send, Runner, Uncrossed, Single

LEMMA EthereumRuns ==
    ASSUME EInv, NEW txid \in TxIds, NEW tx \in Txs, NEW ok \in BOOLEAN, ApplyEthereum(txid, tx, ok)
    PROVE  Runner(Charged(txid.payer).accounts, tx, ok)
<1> DEFINE P == Charged(txid.payer).accounts
<1>1. /\ Precheck(txid, {}, Keys) /\ ExecuteAndMine(P, tx, ok) /\ minted' = minted /\ sender' = tx.from
      /\ crossed' = crossed \cup SecondNames(Touched(tx, ok))
  BY DEF ApplyEthereum
<1>2. P \in [DOMAIN accounts -> Account] /\ Holds(P, accounts, DOMAIN accounts)
  BY <1>1, PaidIs DEF EInv, Base
<1> HIDE DEF P
<1>3. Uncrossed' => Single(tx, ok)
  BY <1>1 DEF Uncrossed, Single
<1>4. Runner(P, tx, ok)
  BY <1>1, <1>2, <1>3 DEF Runner
<1> QED
  BY <1>4 DEF P

LEMMA RunnerNames ==
    ASSUME EInv, Named, Uncrossed', NEW accts, NEW tx \in Txs, NEW ok \in BOOLEAN, Runner(accts, tx, ok)
    PROVE  Named'
BY ExecutionNames DEF EInv, Base, Runner

(* anvil_setBalance opens an account where neither an account nor a        *)
(* contract is.                                                            *)
LEMMA SetBalanceKeepsNames ==
    ASSUME EInv, Named, Uncrossed', NEW address \in CheatTargets, NEW balance \in CheatBalances,
           set_balance(address, balance)
    PROVE  Named'
<1> DEFINE news == << NewAccount(NoKey, address, balance) >>
<1>1. Shape /\ IdsFresh
  BY DEF EInv, Base
<1>2. \/ Cheated(address, news)
      \/ /\ DOMAIN accounts' = DOMAIN accounts /\ by_evm' = by_evm
         /\ \A id \in DOMAIN accounts : accounts'[id].alias = accounts[id].alias
  BY <1>1, SetBalanceNames
<1> HIDE DEF news
<1>3. CASE Cheated(address, news)
  <2>1. Plain(address)
    BY <1>3 DEF Cheated, Uncrossed, PlainAliases, Plain
  <2>2. Unheld(news)
    BY <1>3, <2>1 DEF Cheated, Unheld
  <2> QED
    BY <1>1, <1>3, <2>2, NamesJoin DEF Cheated
<1> QED
  BY <1>1, <1>2, <1>3, NamesKept

LEMMA EvmNextNames == ASSUME EInv, Named, Uncrossed', [EvmNext]_allVars PROVE Named'
<1>1. Shape /\ IdsFresh /\ PlainAliases'
  BY DEF EInv, Base, Uncrossed
<1>2. CASE UNCHANGED allVars
  BY <1>1, <1>2, NamesKept DEF allVars, vars
<1>3. ASSUME NEW tx \in Txs, NEW ok \in BOOLEAN, Send(tx, ok) PROVE Named'
  BY <1>3, SendRuns, RunnerNames
<1>4. CASE SyncOnly
  BY <1>1, <1>4, NamesKept DEF SyncOnly, vars
<1>5. ASSUME NEW txid \in TxIds, NEW tx \in Txs, NEW ok \in BOOLEAN, ApplyEthereum(txid, tx, ok) PROVE Named'
  BY <1>5, EthereumRuns, RunnerNames
<1>6. ASSUME NEW txid \in TxIds, NEW tx \in Txs, ApplyEthereumRefused(txid, tx) PROVE Named'
  BY <1>1, <1>6, RefusedKeepsNames, NamesKept
<1>7. CASE Hapi
  BY <1>1, <1>7, NextKeepsNames DEF Hapi
<1>8. ASSUME NEW address \in CheatTargets, NEW balance \in CheatBalances, set_balance(address, balance)
      PROVE  Named'
  BY <1>8, SetBalanceKeepsNames
<1>9. ASSUME NEW address \in CheatTargets, set_code(address) PROVE Named'
  BY <1>1, <1>9, NamesKept DEF set_code
<1>10. ASSUME NEW address \in CheatTargets, NEW nonce \in CheatNonces, set_nonce(address, nonce) PROVE Named'
  BY <1>1, <1>10, NamesKept DEF set_nonce, vars
<1> QED
  BY <1>2, <1>3, <1>4, <1>5, <1>6, <1>7, <1>8, <1>9, <1>10 DEF EvmNext

LEMMA EvmInitNames == ASSUME EvmInit, Uncrossed PROVE Named
BY NamedAtGenesis DEF EvmInit, Uncrossed

-----------------------------------------------------------------------------
(* Where the tinybar is.  Two accounts never have one address. *)
Unshared(accts) ==
  \A i, j \in DOMAIN accts : evm_address(i, accts[i]) = evm_address(j, accts[j]) => i = j

Owner(accts, a) == CHOOSE id : Owns(accts, id, a)

(* What is at an address: its account's balance, or else the database's. *)
Held(accts, d, a) ==
  IF a \in Own(accts) THEN accts[Owner(accts, a)].balance ELSE At(d, a).balance

(* An address that is no account's and no contract's has nothing. *)
Idle(accts, d, contracts) == \A a : a \notin Own(accts) \cup contracts => At(d, a).balance = 0

HeldOn(accts, d, S) == SumFunctionOnSet([a \in S |-> Held(accts, d, a)], S)

Deposits(d, contracts) == SumFunctionOnSet([a \in contracts |-> At(d, a).balance], contracts)

(* Accounts and a database whose sums can be taken. *)
Countable(accts, d, contracts) ==
  /\ IsFiniteSet(DOMAIN accts) /\ accts \in [DOMAIN accts -> Account] /\ Unshared(accts)
  /\ d \in [DOMAIN d -> Entry] /\ IsFiniteSet(contracts)
  /\ Own(accts) \cap contracts = {} /\ Idle(accts, d, contracts)

LEMMA OwnerIs ==
    ASSUME NEW accts, Unshared(accts), NEW id \in DOMAIN accts
    PROVE  /\ evm_address(id, accts[id]) \in Own(accts)
           /\ Owner(accts, evm_address(id, accts[id])) = id
           /\ \A d : Held(accts, d, evm_address(id, accts[id])) = accts[id].balance
<1> DEFINE a == evm_address(id, accts[id])
<1>1. a \in Own(accts) /\ Owns(accts, id, a)
  BY DEF Own, Owns
<1>2. \A i : Owns(accts, i, a) => i = id
  BY DEF Owns, Unshared
<1>3. Owner(accts, a) = id
  BY <1>1, <1>2 DEF Owner
<1> QED
  BY <1>1, <1>3 DEF Held

LEMMA HeldIs ==
    ASSUME NEW accts, accts \in [DOMAIN accts -> Account], Unshared(accts),
           NEW d, d \in [DOMAIN d -> Entry], NEW a
    PROVE  Held(accts, d, a) \in Nat
<1>1. CASE a \in Own(accts)
  <2>1. PICK id \in DOMAIN accts : a = evm_address(id, accts[id])
    BY <1>1 DEF Own
  <2>2. Held(accts, d, a) = accts[id].balance
    BY <2>1, OwnerIs
  <2> QED
    BY <2>2 DEF Account
<1>2. CASE a \notin Own(accts)
  BY <1>2, AtEntry DEF Held
<1> QED
  BY <1>1, <1>2

(* All the tinybar there is, summed over any finite set that has the       *)
(* accounts' addresses and the contracts.                                  *)
LEMMA HeldSum ==
    ASSUME NEW accts, NEW d, NEW contracts, Countable(accts, d, contracts),
           NEW R, IsFiniteSet(R), Own(accts) \cup contracts \subseteq R
    PROVE  /\ HeldOn(accts, d, R)
                = SumFunctionOnSet([id \in DOMAIN accts |-> accts[id].balance], DOMAIN accts)
                  + Deposits(d, contracts)
           /\ Integral([a \in R |-> Held(accts, d, a)], R)
           /\ SumFunctionOnSet([id \in DOMAIN accts |-> accts[id].balance], DOMAIN accts) \in Int
           /\ Deposits(d, contracts) \in Int
<1> DEFINE D == DOMAIN accts
           O == Own(accts)
           C == contracts
           f == [a \in R |-> Held(accts, d, a)]
           b == [id \in D |-> accts[id].balance]
           g == [a \in C |-> At(d, a).balance]
           name == [id \in D |-> evm_address(id, accts[id])]
<1>1. /\ IsFiniteSet(D) /\ accts \in [D -> Account] /\ Unshared(accts)
      /\ d \in [DOMAIN d -> Entry] /\ IsFiniteSet(C) /\ O \cap C = {} /\ Idle(accts, d, C)
  BY DEF Countable
<1>2. \A a : Held(accts, d, a) \in Nat
  BY <1>1, HeldIs
<1>3. Integral(f, R) /\ Integral(f, O) /\ Integral(f, C) /\ Integral(f, O \cup C)
  BY <1>2 DEF Integral
<1>4. IsFiniteSet(O) /\ IsFiniteSet(O \cup C)
  BY <1>1, OwnFinite, FS_Union
<1>5. SumFunctionOnSet(f, R) = SumFunctionOnSet(f, O \cup C)
  <2>1. ASSUME NEW a \in R \ (O \cup C) PROVE f[a] = 0
    BY <1>1 DEF Idle, Held
  <2> HIDE DEF f
  <2> QED
    BY <1>3, <2>1, SumWithoutZeros
<1>6. /\ SumFunctionOnSet(f, O \cup C) = SumFunctionOnSet(f, O) + SumFunctionOnSet(f, C)
      /\ SumFunctionOnSet(f, O) \in Int /\ SumFunctionOnSet(f, C) \in Int
  <2> HIDE DEF f
  <2> QED
    BY <1>1, <1>3, <1>4, SumDisjoint
<1>7. SumFunctionOnSet(f, O) = SumFunctionOnSet(b, D)
  <2>1. Renames(name, D, O)
    BY <1>1 DEF Renames, Own, Unshared
  <2>2. Integral(b, D)
    BY <1>1 DEF Integral, Account
  <2>3. ASSUME NEW id \in D PROVE f[name[id]] = b[id]
    <3>1. name[id] \in O /\ Held(accts, d, name[id]) = accts[id].balance
      BY <1>1, OwnerIs
    <3> QED
      BY <3>1
  <2> HIDE DEF f, b, name
  <2> QED
    BY <2>1, <2>2, <2>3, <1>1, <1>4, SumRenamed
<1>8. SumFunctionOnSet(f, C) = SumFunctionOnSet(g, C)
  <2>1. \A a \in C : f[a] = g[a]
    BY <1>1 DEF Held
  <2>2. Integral(g, C)
    BY <1>1, AtEntry DEF Integral
  <2> HIDE DEF f, g
  <2> QED
    BY <2>1, <2>2, <1>1, SumEqual
<1> QED
  BY <1>3, <1>5, <1>6, <1>7, <1>8 DEF HeldOn, Deposits

(* What moves from one address to another adds up to nothing. *)
LEMMA DeltaSum ==
    ASSUME NEW R, IsFiniteSet(R), NEW from \in R, NEW to \in R, NEW amount \in Int
    PROVE  /\ SumFunctionOnSet([a \in R |-> Delta(a, from, to, amount)], R) = 0
           /\ Integral([a \in R |-> Delta(a, from, to, amount)], R)
<1> DEFINE t == << [account |-> from, amount |-> -amount], [account |-> to, amount |-> amount] >>
<1>1. t \in Seq(Leg(R)) /\ Total(t) = 0 /\ \A a : Net(t, a) = Delta(a, from, to, amount)
  BY TwoLegs
<1> HIDE DEF t
<1>2. SumFunctionOnSet([a \in R |-> Net(t, a)], R) = 0
  BY <1>1, NetOfAll
<1>3. [a \in R |-> Net(t, a)] = [a \in R |-> Delta(a, from, to, amount)]
  BY <1>1
<1> QED
  BY <1>2, <1>3 DEF Integral, Delta

(* What a transaction moves from and to an address, the gas to the         *)
(* collector's.                                                            *)
Shift(a, tx, ok) ==
  Delta(a, tx.from, Beneficiary, tx.tip + GAS_PRICE) + Gains(a, tx, ok)

LEMMA ShiftIs ==
    ASSUME NEW tx \in Txs, NEW ok \in BOOLEAN, NEW a
    PROVE  /\ Gas(a, tx) + (IF a = Beneficiary THEN GAS_PRICE ELSE 0) + Gains(a, tx, ok) = Shift(a, tx, ok)
           /\ Gas(a, tx) \in Int /\ Gains(a, tx, ok) \in Int /\ Shift(a, tx, ok) \in Int
           /\ a \notin Touched(tx, ok) => Gas(a, tx) = 0 /\ Gains(a, tx, ok) = 0
<1>1. tx.tip \in Nat /\ GAS_PRICE \in Nat /\ tx.value \in Nat /\ (tx.pay # NoPay => tx.pay.amount \in Nat)
  BY TxIs, EvmAssumption
<1>2. Gas(a, tx) \in Int
  BY <1>1 DEF Gas, Delta
<1>3. Gains(a, tx, ok) \in Int
  BY <1>1 DEF Gains, Delta
<1>4. Gas(a, tx) + (IF a = Beneficiary THEN GAS_PRICE ELSE 0)
      = Delta(a, tx.from, Beneficiary, tx.tip + GAS_PRICE)
  BY <1>1 DEF Gas, Delta
<1>5. Delta(a, tx.from, Beneficiary, tx.tip + GAS_PRICE) \in Int
  BY <1>1 DEF Delta
<1>6. ASSUME a \notin Touched(tx, ok) PROVE Gas(a, tx) = 0 /\ Gains(a, tx, ok) = 0
  <2>1. a # tx.from /\ a # Beneficiary
    BY <1>6 DEF Touched
  <2>2. Gas(a, tx) = 0
    BY <2>1 DEF Gas, Delta
  <2>3. ok => a # Callee(tx) /\ (tx.to # Create => a # tx.to) /\ (tx.pay # NoPay => a # tx.pay.to)
    BY <1>6 DEF Touched, Callee
  <2>4. Gains(a, tx, ok) = 0
    BY <2>1, <2>3 DEF Gains, Delta
  <2> QED
    BY <2>2, <2>4
<1>7. Gas(a, tx) + (IF a = Beneficiary THEN GAS_PRICE ELSE 0) + Gains(a, tx, ok) = Shift(a, tx, ok)
  BY <1>4 DEF Shift
<1>8. Shift(a, tx, ok) \in Int
  BY <1>3, <1>5 DEF Shift
<1> QED
  BY <1>2, <1>3, <1>6, <1>7, <1>8

LEMMA ShiftSum ==
    ASSUME NEW tx \in Txs, NEW ok \in BOOLEAN, NEW R, IsFiniteSet(R), Touched(tx, ok) \subseteq R
    PROVE  /\ SumFunctionOnSet([a \in R |-> Shift(a, tx, ok)], R) = 0
           /\ Integral([a \in R |-> Shift(a, tx, ok)], R)
<1> DEFINE p == [a \in R |-> Delta(a, tx.from, Beneficiary, tx.tip + GAS_PRICE)]
           q == [a \in R |-> Gains(a, tx, ok)]
           v == [a \in R |-> Delta(a, tx.from, Callee(tx), tx.value)]
           w == [a \in R |-> Delta(a, tx.to, tx.pay.to, tx.pay.amount)]
           s == [a \in R |-> Shift(a, tx, ok)]
<1>1. tx.tip \in Nat /\ GAS_PRICE \in Nat /\ tx.value \in Nat /\ (tx.pay # NoPay => tx.pay.amount \in Nat)
  BY TxIs, EvmAssumption
<1>2. /\ tx.from \in R /\ Beneficiary \in R
      /\ ok => Callee(tx) \in R /\ (tx.to # Create => tx.to \in R) /\ (tx.pay # NoPay => tx.pay.to \in R)
  BY DEF Touched, Callee
<1>3. SumFunctionOnSet(p, R) = 0 /\ Integral(p, R)
  <2>1. tx.tip + GAS_PRICE \in Int
    BY <1>1
  <2> QED
    BY <1>2, <2>1, DeltaSum
<1>4. SumFunctionOnSet(q, R) = 0 /\ Integral(q, R)
  <2>1. CASE ~ok
    <3>1. \A a \in R : q[a] = 0
      BY <2>1 DEF Gains
    <3> HIDE DEF q
    <3>2. SumFunctionOnSet(q, R) = Cardinality(R) * 0
      BY <3>1, SumConstant
    <3>3. Cardinality(R) \in Nat
      BY FS_CardinalityType
    <3> QED
      BY <3>1, <3>2, <3>3 DEF Integral
  <2>2. CASE ok
    <3>1. SumFunctionOnSet(v, R) = 0 /\ Integral(v, R)
      <4>1. tx.from \in R /\ Callee(tx) \in R /\ tx.value \in Int
        BY <1>1, <1>2, <2>2
      <4> QED
        BY <4>1, DeltaSum
    <3>2. CASE ~(tx.to # Create /\ tx.pay # NoPay)
      <4>1. \A a \in R : v[a] \in Int
        BY <3>1 DEF Integral
      <4>2. \A a \in R : q[a] = v[a] + 0
        BY <2>2, <3>2 DEF Gains
      <4> HIDE DEF q, v
      <4>3. \A a \in R : q[a] = v[a]
        BY <4>1, <4>2
      <4>4. Integral(q, R)
        BY <4>1, <4>3 DEF Integral
      <4> QED
        BY <3>1, <4>3, <4>4, SumEqual
    <3>3. CASE tx.to # Create /\ tx.pay # NoPay
      <4>1. SumFunctionOnSet(w, R) = 0 /\ Integral(w, R)
        <5>1. tx.to \in R /\ tx.pay.to \in R /\ tx.pay.amount \in Int
          BY <1>1, <1>2, <2>2, <3>3
        <5> QED
          BY <5>1, DeltaSum
      <4>2. \A a \in R : q[a] = v[a] + w[a]
        BY <2>2, <3>3 DEF Gains
      <4> HIDE DEF q, v, w
      <4>3. SumFunctionOnSet(q, R) = 0
        BY <3>1, <4>1, <4>2, SumPlus
      <4>4. Integral(q, R)
        BY <3>1, <4>1, <4>2 DEF Integral
      <4> QED
        BY <4>3, <4>4
    <3> QED
      BY <3>2, <3>3
  <2> QED
    BY <2>1, <2>2
<1>5. \A a \in R : s[a] = p[a] + q[a]
  BY DEF Shift
<1> HIDE DEF p, q, s
<1>6. SumFunctionOnSet(s, R) = 0
  BY <1>3, <1>4, <1>5, SumPlus
<1>7. Integral(s, R)
  BY <1>3, <1>4, <1>5 DEF Integral
<1> QED
  BY <1>6, <1>7 DEF s

(* A synced database has at every address what is held there.              *)
LEMMA SyncedHeld ==
    ASSUME NEW b, NEW accts, Synced(b, accts), Unshared(accts)
    PROVE  \A a : At(b, a).balance = Held(accts, db, a)
<1> TAKE a
<1>1. DOMAIN b = DOMAIN db \cup Own(accts)
  BY DEF Synced
<1>2. CASE a \in Own(accts)
  <2>1. PICK i \in DOMAIN accts : a = evm_address(i, accts[i])
    BY <1>2 DEF Own
  <2>2. Owns(accts, i, a)
    BY <2>1 DEF Owns
  <2>3. PICK id : Owns(accts, id, a) /\ b[a].balance = accts[id].balance
    BY <1>1, <1>2, <2>2 DEF Synced
  <2>4. id \in DOMAIN accts /\ a = evm_address(id, accts[id])
    BY <2>3 DEF Owns
  <2>5. Held(accts, db, a) = accts[id].balance
    BY <2>4, OwnerIs
  <2> QED
    BY <1>1, <1>2, <2>3, <2>5 DEF At
<1>3. CASE a \notin Own(accts)
  <2>1. \A id : ~Owns(accts, id, a)
    BY <1>3 DEF Owns, Own
  <2>2. a \in DOMAIN b => a \in DOMAIN db /\ b[a] = db[a]
    BY <2>1 DEF Synced
  <2>3. At(b, a) = At(db, a)
    BY <1>1, <2>2 DEF At
  <2> QED
    BY <1>3, <2>3 DEF Held
<1> QED
  BY <1>2, <1>3

(* Names that resolve are not shared. *)
LEMMA NamedUnshared == Named => Unshared(accounts)
<1> SUFFICES ASSUME Named, NEW i \in DOMAIN accounts, NEW j \in DOMAIN accounts,
                    evm_address(i, accounts[i]) = evm_address(j, accounts[j])
             PROVE  i = j
  BY DEF Unshared
<1> DEFINE a == evm_address(i, accounts[i])
<1>1. Names(a, i, accounts[i]) /\ Names(a, j, accounts[j])
  BY DEF Names
<1> QED
  BY <1>1, ResolveIs DEF Named

(* Accounts that have the names of others have their addresses. *)
LEMMA SameOwn ==
    ASSUME NEW A, NEW B, DOMAIN A = DOMAIN B, \A id \in DOMAIN B : A[id].alias = B[id].alias
    PROVE  /\ \A id \in DOMAIN B : evm_address(id, A[id]) = evm_address(id, B[id])
           /\ Own(A) = Own(B)
           /\ Unshared(A) <=> Unshared(B)
<1>1. \A id \in DOMAIN B : evm_address(id, A[id]) = evm_address(id, B[id])
  BY DEF evm_address
<1> QED
  BY <1>1 DEF Own, Unshared

(* An execution moves what is held as the transaction says, and what it    *)
(* leaves at an address becomes an account's or a contract's.              *)
Runs(accts, tx, ok) ==
  /\ \A a : Held(accounts', db', a) = Held(accts, db, a) + Shift(a, tx, ok)
  /\ Idle(accounts', db', DOMAIN contract_by_evm')
  /\ Own(accts) \subseteq Own(accounts') /\ DOMAIN contract_by_evm \subseteq DOMAIN contract_by_evm'

LEMMA ExecutionHeld ==
    ASSUME Shape, EShape, IdsFresh, Apart, Named',
           NEW accts \in [DOMAIN accounts -> Account], Holds(accts, accounts, DOMAIN accounts),
           Idle(accts, db, DOMAIN contract_by_evm),
           NEW tx \in Txs, NEW ok \in BOOLEAN, Single(tx, ok),
           NEW before, NEW after, NEW source, NEW hollow, NEW created, NEW news,
           Executed(accts, tx, ok, before, after, source, hollow, created, news)
    PROVE  Runs(accts, tx, ok)
<1> DEFINE D == DOMAIN accounts
           T == Touched(tx, ok)
           C == DOMAIN contract_by_evm
           H(a) == Held(accts, db, a)
           A(a) == At(after, a).balance
           gas(a) == IF a = Beneficiary THEN GAS_PRICE ELSE 0
           own(id) == evm_address(id, accounts[id])
<1>1. Named /\ AddressNamesOneEntity /\ DOMAIN accts = D
  BY DEF Apart
<1>2. /\ Synced(before, accts) /\ Ended(tx, ok, before, after)
      /\ Chosen(tx, ok, after, source, hollow, created, news)
  BY DEF Executed
<1>3. ReadBack(accts, tx, ok, after, source, news) /\ DbAfter(tx, ok, before, after)
      /\ Hollowed(hollow, news) /\ ContractsAfter(news, created)
  BY <1>1, ReadBackIs, DbAfterIs, HollowIs, ContractsAfterIs
<1>4. /\ \A id \in D : evm_address(id, accts[id]) = own(id)
      /\ Own(accts) = Own(accounts) /\ Unshared(accts) /\ Unshared(accounts)
  <2>1. \A id \in D : accts[id].alias = accounts[id].alias
    BY DEF Holds
  <2>2. Unshared(accounts)
    BY <1>1, NamedUnshared
  <2> QED
    BY <1>1, <2>1, <2>2, SameOwn
<1>5. /\ DOMAIN accounts' = D \cup News(news)
      /\ \A id \in D : evm_address(id, accounts'[id]) = own(id)
      /\ \A k \in DOMAIN news : NewId(k) \in DOMAIN accounts' /\ accounts'[NewId(k)] = news[k]
  <2>1. \A id \in D : accounts'[id].alias = accounts[id].alias
    BY <1>3 DEF ReadBack, Holds
  <2> QED
    BY <1>3, <2>1 DEF ReadBack, News, evm_address
<1>6. Unshared(accounts')
  <2>1. Named' => Unshared(accounts)'
    BY NamedUnshared, PTL
  <2> QED
    BY <2>1
<1>7. \A a : At(before, a).balance = H(a) /\ H(a) \in Nat
  <2>1. \A a : At(before, a).balance = H(a)
    BY <1>2, <1>4, SyncedHeld
  <2>2. before \in [DOMAIN before -> Entry]
    BY <1>2 DEF Synced
  <2>3. \A a : At(before, a).balance \in Nat
    BY <2>2, AtEntry
  <2> QED
    BY <2>1, <2>3
<1>8. \A a : A(a) = H(a) + Gas(a, tx) + Gains(a, tx, ok)
  BY <1>2, <1>7 DEF Ended, Ran
<1>9. ASSUME NEW a
      PROVE  A(a) + gas(a) = H(a) + Shift(a, tx, ok) /\ (a \notin T => A(a) = H(a)) /\ A(a) \in Int
  <2> DEFINE g == Gas(a, tx)
             w == Gains(a, tx, ok)
             x == Shift(a, tx, ok)
             y == gas(a)
  <2>1. g + y + w = x /\ g \in Int /\ w \in Int /\ x \in Int /\ (a \notin T => g = 0 /\ w = 0)
    BY ShiftIs
  <2>2. H(a) \in Nat /\ A(a) = H(a) + g + w
    BY <1>7, <1>8
  <2>3. y \in Int
    BY EvmAssumption
  <2> HIDE DEF g, w, x, y, H, A, T
  <2>4. A(a) + y = H(a) + x /\ (a \notin T => A(a) = H(a)) /\ A(a) \in Int
    BY <2>1, <2>2, <2>3
  <2> QED
    BY <2>4 DEF x, y
<1>10. /\ FEE_COLLECTOR \in D /\ Beneficiary = own(FEE_COLLECTOR) /\ Beneficiary \in DOMAIN by_evm
       /\ \A id \in D : own(id) = Beneficiary => id = FEE_COLLECTOR
  <2>1. FEE_COLLECTOR \in D /\ Beneficiary = own(FEE_COLLECTOR) /\ Beneficiary \in DOMAIN by_evm
    BY <1>1, BeneficiaryIs
  <2> QED
    BY <2>1, <1>4 DEF Unshared
<1>11. \A id \in D : own(id) \in DOMAIN by_evm /\ by_evm[own(id)] = id
  BY <1>1, ResolveIs DEF Named, Names
<1>12. \A a \in T : a \in DOMAIN by_evm => by_evm[a] \in D /\ a = own(by_evm[a])
  BY <1>1, TouchedOwn
<1>13. ASSUME NEW id \in D PROVE accounts'[id].balance = A(own(id)) + gas(own(id))
  <2>1. accounts'[id].balance
          = (IF id \in TouchedIds(T) THEN At(after, source[id]).balance ELSE accts[id].balance)
            + (IF id = FEE_COLLECTOR THEN GAS_PRICE ELSE 0)
    BY <1>3 DEF ReadBack
  <2>2. (IF id = FEE_COLLECTOR THEN GAS_PRICE ELSE 0) = gas(own(id))
    BY <1>10
  <2>3. CASE id \in TouchedIds(T)
    <3>1. source[id] \in T \cap DOMAIN by_evm /\ by_evm[source[id]] = id
      BY <1>2, <2>3 DEF Chosen
    <3>2. source[id] = own(id)
      BY <3>1, <1>12
    <3> QED
      BY <2>1, <2>2, <2>3, <3>2
  <2>4. CASE id \notin TouchedIds(T)
    <3>1. own(id) \notin T
      BY <1>11, <2>4 DEF TouchedIds
    <3>2. H(own(id)) = accts[id].balance
      BY <1>1, <1>4, OwnerIs
    <3>3. A(own(id)) = accts[id].balance
      BY <3>1, <3>2, <1>9
    <3> QED
      BY <2>1, <2>2, <2>4, <3>3
  <2> QED
    BY <2>3, <2>4
<1>14. ASSUME NEW k \in DOMAIN news
       PROVE  /\ evm_address(NewId(k), news[k]) = hollow[k] /\ hollow[k] # Beneficiary
              /\ news[k].balance = A(hollow[k])
  <2>1. evm_address(NewId(k), news[k]) = hollow[k] /\ hollow[k] \notin DOMAIN by_evm
    BY <1>3 DEF Hollowed
  <2>2. news = [i \in DOMAIN hollow |-> NewAccount(NoKey, hollow[i], At(after, hollow[i]).balance)]
        /\ DOMAIN news = DOMAIN hollow
    BY <1>2 DEF Chosen
  <2>3. news[k] = NewAccount(NoKey, hollow[k], A(hollow[k]))
    BY <2>2
  <2> HIDE DEF A
  <2>4. news[k].balance = A(hollow[k])
    BY <2>3 DEF NewAccount
  <2> QED
    BY <2>1, <2>4, <1>10
<1>15. \A a : a \in Own(accounts') <=> \/ \E id \in D : a = own(id)
                                       \/ \E k \in DOMAIN news : a = hollow[k]
  <2>1. \A a : a \in Own(accounts') <=> \E id \in DOMAIN accounts' : a = evm_address(id, accounts'[id])
    BY DEF Own
  <2>2. \A id : id \in News(news) <=> \E k \in DOMAIN news : id = NewId(k)
    BY DEF News
  <2> QED
    BY <1>5, <1>14, <2>1, <2>2
<1>16. ASSUME NEW a, a \notin Own(accounts') PROVE At(db', a).balance = A(a) /\ gas(a) = 0
  <2>1. a # Beneficiary
    BY <1>10, <1>15, <1>16
  <2>2. DOMAIN after = DOMAIN before \cup T /\ DOMAIN db' = DOMAIN before \cup T
    BY <1>2, <1>3 DEF Ended, DbAfter
  <2>3. CASE a \in T
    <3>1. db'[a] = At(after, a)
      BY <1>3, <2>2, <2>3 DEF DbAfter
    <3> QED
      BY <2>1, <2>2, <2>3, <3>1 DEF At
  <2>4. CASE a \notin T
    <3>1. At(db', a) = At(before, a)
      BY <1>3, <2>2, <2>4 DEF DbAfter, At
    <3>2. At(before, a).balance = H(a) /\ A(a) = H(a)
      BY <1>7, <1>9, <2>4
    <3> QED
      BY <2>1, <3>1, <3>2
  <2> QED
    BY <2>3, <2>4
<1>17. ASSUME NEW a PROVE Held(accounts', db', a) = A(a) + gas(a)
  <2>1. ASSUME NEW id \in D, a = own(id) PROVE Held(accounts', db', a) = A(a) + gas(a)
    <3>1. id \in DOMAIN accounts' /\ a = evm_address(id, accounts'[id])
      BY <1>5, <2>1
    <3>2. Held(accounts', db', a) = accounts'[id].balance
      BY <3>1, <1>6, OwnerIs
    <3> QED
      BY <3>2, <2>1, <1>13
  <2>2. ASSUME NEW k \in DOMAIN news, a = hollow[k] PROVE Held(accounts', db', a) = A(a) + gas(a)
    <3>1. NewId(k) \in DOMAIN accounts' /\ a = evm_address(NewId(k), accounts'[NewId(k)])
      BY <1>5, <1>14, <2>2
    <3>2. Held(accounts', db', a) = accounts'[NewId(k)].balance
      BY <3>1, <1>6, OwnerIs
    <3>3. Held(accounts', db', a) = A(a) /\ gas(a) = 0
      BY <3>2, <2>2, <1>5, <1>14
    <3>4. A(a) \in Int
      BY <1>9
    <3> HIDE DEF A, gas
    <3> QED
      BY <3>3, <3>4
  <2>3. CASE a \notin Own(accounts')
    <3>1. Held(accounts', db', a) = A(a) /\ gas(a) = 0
      BY <2>3, <1>16 DEF Held
    <3>2. A(a) \in Int
      BY <1>9
    <3> HIDE DEF A, gas
    <3> QED
      BY <3>1, <3>2
  <2> QED
    BY <1>15, <2>1, <2>2, <2>3
<1>18. \A a : Held(accounts', db', a) = H(a) + Shift(a, tx, ok)
  BY <1>9, <1>17
<1>19. C \subseteq DOMAIN contract_by_evm' /\ \A k \in DOMAIN created : created[k] \in DOMAIN contract_by_evm'
  BY <1>3 DEF ContractsAfter
<1>20. Own(accts) \subseteq Own(accounts')
  BY <1>4, <1>15 DEF Own
<1>21. ASSUME NEW a, a \notin Own(accounts'), a \notin DOMAIN contract_by_evm' PROVE A(a) = 0
  <2>1. CASE a \notin T
    <3>1. a \notin Own(accts) /\ a \notin C
      BY <1>19, <1>20, <1>21
    <3>2. At(db, a).balance = 0
      BY <3>1 DEF Idle
    <3> QED
      BY <2>1, <3>1, <3>2, <1>9 DEF Held
  <2>2. CASE a \in T
    <3>1. a \notin DOMAIN by_evm
      BY <2>2, <1>12, <1>15, <1>21
    <3>2. a \notin C
      BY <1>19, <1>21
    <3>3. ~At(after, a).code
      <4>1. SUFFICES ASSUME At(after, a).code PROVE FALSE
        OBVIOUS
      <4>2. a \in NewContracts(after, T)
        BY <2>2, <3>1, <3>2, <4>1 DEF NewContracts
      <4>3. \E k \in DOMAIN created : created[k] = a
        BY <1>2, <4>2 DEF Chosen, Lists
      <4> QED
        BY <4>3, <1>19, <1>21
    <3>4. ~(A(a) > 0)
      <4>1. SUFFICES ASSUME A(a) > 0 PROVE FALSE
        OBVIOUS
      <4>2. a \in Hollow(after, T)
        BY <2>2, <3>1, <3>2, <3>3, <4>1, Zenon DEF Hollow
      <4>3. \E k \in DOMAIN hollow : hollow[k] = a
        BY <1>2, <4>2 DEF Chosen, Lists
      <4>4. DOMAIN hollow = DOMAIN news
        BY <1>2 DEF Chosen
      <4> QED
        BY <4>3, <4>4, <1>15, <1>21
    <3>5. A(a) \in Nat
      <4>1. after \in [DOMAIN before \cup T -> Entry]
        BY <1>2 DEF Ended
      <4> QED
        BY <4>1, AtEntry
    <3> HIDE DEF A
    <3> QED
      BY <3>4, <3>5
  <2> QED
    BY <2>1, <2>2
<1>22. Idle(accounts', db', DOMAIN contract_by_evm')
  BY <1>16, <1>21 DEF Idle
<1> QED
  BY <1>18, <1>19, <1>20, <1>22 DEF Runs

(* What accounts and contracts are worth. *)
Worth(accts, d, contracts) ==
  SumFunctionOnSet([id \in DOMAIN accts |-> accts[id].balance], DOMAIN accts) + Deposits(d, contracts)

(* R is a finite set that has T and every address two ledgers hold         *)
(* something at.                                                           *)
Spans(R, T, A, d, C, B, e, F) ==
  /\ IsFiniteSet(R) /\ T \subseteq R
  /\ HeldOn(A, d, R) = Worth(A, d, C) /\ HeldOn(B, e, R) = Worth(B, e, F)
  /\ Integral([a \in R |-> Held(A, d, a)], R) /\ Integral([a \in R |-> Held(B, e, a)], R)
  /\ Worth(A, d, C) \in Int /\ Worth(B, e, F) \in Int

LEMMA HeldEverywhere ==
    ASSUME NEW A, NEW d, NEW C, Countable(A, d, C), NEW B, NEW e, NEW F, Countable(B, e, F),
           NEW T, IsFiniteSet(T)
    PROVE  \E R : Spans(R, T, A, d, C, B, e, F)
<1> DEFINE P == Own(A) \cup C
           Q == Own(B) \cup F
           R == P \cup Q \cup T
<1>1. IsFiniteSet(Own(A)) /\ IsFiniteSet(C) /\ IsFiniteSet(Own(B)) /\ IsFiniteSet(F)
  BY OwnFinite DEF Countable
<1>2. IsFiniteSet(P) /\ IsFiniteSet(Q)
  BY <1>1, FS_Union
<1>3. IsFiniteSet(P \cup Q)
  <2> HIDE DEF P, Q
  <2> QED
    BY <1>2, FS_Union
<1>4. P \subseteq R /\ Q \subseteq R /\ T \subseteq R /\ IsFiniteSet(R)
  <2> HIDE DEF P, Q
  <2> QED
    BY <1>3, FS_Union
<1> HIDE DEF R
<1>5. /\ HeldOn(A, d, R) = Worth(A, d, C) /\ Worth(A, d, C) \in Int
      /\ Integral([a \in R |-> Held(A, d, a)], R)
  BY <1>4, HeldSum DEF Worth
<1>6. /\ HeldOn(B, e, R) = Worth(B, e, F) /\ Worth(B, e, F) \in Int
      /\ Integral([a \in R |-> Held(B, e, a)], R)
  BY <1>4, HeldSum DEF Worth
<1>7. Spans(R, T, A, d, C, B, e, F)
  BY <1>4, <1>5, <1>6 DEF Spans
<1> QED
  BY <1>7

(* What is held everywhere as before is worth as much.                     *)
LEMMA HeldSame ==
    ASSUME NEW A, NEW d, NEW C, Countable(A, d, C), NEW B, NEW e, NEW F, Countable(B, e, F),
           \A a : Held(B, e, a) = Held(A, d, a)
    PROVE  Worth(B, e, F) = Worth(A, d, C) /\ Worth(A, d, C) \in Int
<1>1. PICK R : Spans(R, {}, A, d, C, B, e, F)
  BY HeldEverywhere, FS_EmptySet
<1>2. HeldOn(A, d, R) = HeldOn(B, e, R)
  BY DEF HeldOn
<1> QED
  BY <1>1, <1>2 DEF Spans

(* One address holds more, or less, than before.                           *)
LEMMA HeldChange ==
    ASSUME NEW A, NEW d, NEW C, Countable(A, d, C), NEW B, NEW e, NEW F, Countable(B, e, F),
           NEW x, \A a : a # x => Held(B, e, a) = Held(A, d, a)
    PROVE  Worth(B, e, F) = Worth(A, d, C) + (Held(B, e, x) - Held(A, d, x)) /\ Worth(A, d, C) \in Int
<1>0. PICK R : Spans(R, {x}, A, d, C, B, e, F)
  BY HeldEverywhere, FS_Singleton
<1> DEFINE f == [a \in R |-> Held(A, d, a)]
           h == [a \in R |-> Held(B, e, a)]
<1>1. /\ IsFiniteSet(R) /\ x \in R
      /\ HeldOn(A, d, R) = Worth(A, d, C) /\ HeldOn(B, e, R) = Worth(B, e, F)
      /\ Integral(f, R) /\ Integral(h, R) /\ Worth(A, d, C) \in Int
  BY <1>0 DEF Spans
<1>2. \A a \in R : a # x => h[a] = f[a]
  OBVIOUS
<1>3. f[x] = Held(A, d, x) /\ h[x] = Held(B, e, x)
  BY <1>1
<1>4. HeldOn(A, d, R) = SumFunctionOnSet(f, R) /\ HeldOn(B, e, R) = SumFunctionOnSet(h, R)
  BY DEF HeldOn
<1> HIDE DEF f, h
<1>5. SumFunctionOnSet(h, R) = SumFunctionOnSet(f, R) + (h[x] - f[x])
  BY <1>1, <1>2, SumChange
<1> QED
  BY <1>1, <1>3, <1>4, <1>5

(* What a transaction moves is worth nothing more, nor less.               *)
LEMMA HeldShift ==
    ASSUME NEW A, NEW d, NEW C, Countable(A, d, C), NEW B, NEW e, NEW F, Countable(B, e, F),
           NEW tx \in Txs, NEW ok \in BOOLEAN,
           \A a : Held(B, e, a) = Held(A, d, a) + Shift(a, tx, ok)
    PROVE  Worth(B, e, F) = Worth(A, d, C) /\ Worth(A, d, C) \in Int
<1>0. PICK R : Spans(R, Touched(tx, ok), A, d, C, B, e, F)
  BY TouchedIs, HeldEverywhere
<1> DEFINE f == [a \in R |-> Held(A, d, a)]
           g == [a \in R |-> Shift(a, tx, ok)]
           h == [a \in R |-> Held(B, e, a)]
<1>1. /\ IsFiniteSet(R) /\ Touched(tx, ok) \subseteq R
      /\ HeldOn(A, d, R) = Worth(A, d, C) /\ HeldOn(B, e, R) = Worth(B, e, F)
      /\ Integral(f, R) /\ Worth(A, d, C) \in Int
  BY <1>0 DEF Spans
<1>2. SumFunctionOnSet(g, R) = 0 /\ Integral(g, R)
  BY <1>1, ShiftSum
<1>3. \A a \in R : h[a] = f[a] + g[a]
  OBVIOUS
<1>4. HeldOn(A, d, R) = SumFunctionOnSet(f, R) /\ HeldOn(B, e, R) = SumFunctionOnSet(h, R)
  BY DEF HeldOn
<1> HIDE DEF f, g, h
<1>5. SumFunctionOnSet(h, R) = SumFunctionOnSet(f, R) + SumFunctionOnSet(g, R)
  BY <1>1, <1>2, <1>3, SumPlus
<1> QED
  BY <1>1, <1>2, <1>4, <1>5

-----------------------------------------------------------------------------
(* The two stores together hold what there is, and nothing else of the     *)
(* database holds anything.                                                *)
Supplied ==
  /\ Idle(accounts, db, DOMAIN contract_by_evm)
  /\ Worth(accounts, db, DOMAIN contract_by_evm) = TOTAL_SUPPLY + minted

LEMMA CountableIs ==
    ASSUME EInv, Apart, NEW accts \in [DOMAIN accounts -> Account], Holds(accts, accounts, DOMAIN accounts),
           Idle(accounts, db, DOMAIN contract_by_evm)
    PROVE  /\ Countable(accts, db, DOMAIN contract_by_evm)
           /\ \A id \in DOMAIN accounts : evm_address(id, accts[id]) = evm_address(id, accounts[id])
           /\ Own(accts) = Own(accounts) /\ Unshared(accts) /\ Own(accounts) \subseteq DOMAIN by_evm
<1> DEFINE C == DOMAIN contract_by_evm
           D == DOMAIN accounts
<1>1. Shape /\ EShape /\ ContractsFresh /\ Named /\ AddressNamesOneEntity
  BY DEF EInv, Base, Apart
<1>2. DOMAIN accts = D /\ \A id \in D : accts[id].alias = accounts[id].alias
  BY DEF Holds
<1>3. /\ \A id \in D : evm_address(id, accts[id]) = evm_address(id, accounts[id])
      /\ Own(accts) = Own(accounts) /\ Unshared(accts)
  <2>1. Unshared(accounts)
    BY <1>1, NamedUnshared
  <2> QED
    BY <1>2, <2>1, SameOwn
<1>4. IsFiniteSet(D)
  BY <1>1, IdsFinite, FS_Subset DEF Shape
<1>5. IsFiniteSet(C)
  <2>1. contract_by_evm \in Injection(C, FIRST_USER_ID .. MaxId)
    BY <1>1 DEF EShape, ContractsFresh, Injection, IsInjective
  <2>2. IsFiniteSet(FIRST_USER_ID .. MaxId)
    BY LedgerAssumption, FS_Interval
  <2> QED
    BY <2>1, <2>2, FS_Injection
<1>6. Own(accounts) \subseteq DOMAIN by_evm
  BY <1>1, ResolveIs DEF Named, Own, Names
<1>7. Own(accts) \cap C = {}
  BY <1>1, <1>3, <1>6 DEF AddressNamesOneEntity
<1>8. Idle(accts, db, C)
  BY <1>3 DEF Idle
<1>9. db \in [DOMAIN db -> Entry]
  BY <1>1 DEF EShape
<1>10. Countable(accts, db, C)
  BY <1>2, <1>3, <1>4, <1>5, <1>7, <1>8, <1>9 DEF Countable
<1> QED
  BY <1>3, <1>6, <1>10

LEMMA Counted ==
  EInv /\ Apart /\ Idle(accounts, db, DOMAIN contract_by_evm) => Countable(accounts, db, DOMAIN contract_by_evm)
<1> SUFFICES ASSUME EInv, Apart, Idle(accounts, db, DOMAIN contract_by_evm)
             PROVE  Countable(accounts, db, DOMAIN contract_by_evm)
  OBVIOUS
<1>1. accounts \in [DOMAIN accounts -> Account]
  BY DEF EInv, Base, Shape
<1>2. Holds(accounts, accounts, DOMAIN accounts)
  BY DEF Holds
<1> QED
  BY <1>1, <1>2, CountableIs

LEMMA CountedNext ==
    ASSUME EInv', Apart', Idle(accounts', db', DOMAIN contract_by_evm')
    PROVE  Countable(accounts', db', DOMAIN contract_by_evm')
<1>1. EInv' /\ Apart' /\ Idle(accounts, db, DOMAIN contract_by_evm)'
        => Countable(accounts, db, DOMAIN contract_by_evm)'
  BY Counted, PTL
<1> QED
  BY <1>1

(* What a transaction settles is worth nothing more, nor less.             *)
LEMMA WorthSettled ==
    ASSUME Shape, NEW P, NEW t, Works(P, t, DOMAIN accounts), NEW d, NEW C, Deposits(d, C) \in Int
    PROVE  Worth(P, d, C) = Worth(accounts, d, C)
<1> DEFINE D == DOMAIN accounts
           b == [id \in D |-> accounts[id].balance]
           n == [id \in D |-> Net(t, id)]
           h == [id \in D |-> P[id].balance]
<1>1. /\ IsFiniteSet(D) /\ DOMAIN P = D
      /\ t \in Seq(Leg(D)) /\ Total(t) = 0
      /\ \A id \in D : P[id].balance = accounts[id].balance + Net(t, id)
  BY IdsFinite, FS_Subset DEF Shape, Works, Before
<1>2. Integral(b, D)
  BY DEF Integral, Shape, Account
<1>3. Integral(n, D)
  BY <1>1, Legs DEF Integral
<1>4. SumFunctionOnSet(n, D) = 0
  BY <1>1, NetOfAll
<1>5. \A id \in D : h[id] = b[id] + n[id]
  BY <1>1
<1> HIDE DEF b, n, h
<1>6. SumFunctionOnSet(h, D) = SumFunctionOnSet(b, D) + 0
  BY <1>1, <1>2, <1>3, <1>4, <1>5, SumPlus
<1>7. SumFunctionOnSet(b, D) \in Int
  BY <1>1, <1>2, SumAdd
<1>8. SumFunctionOnSet(h, D) = SumFunctionOnSet(b, D)
  BY <1>6, <1>7
<1> QED
  BY <1>1, <1>8 DEF Worth, b, h

(* An execution on accounts that are worth what the ledger's are.          *)
LEMMA ExecutionSupplied ==
    ASSUME EInv, Apart, Supplied, EInv', Apart', Uncrossed',
           NEW accts, NEW tx \in Txs, NEW ok \in BOOLEAN, Runner(accts, tx, ok),
           Worth(accts, db, DOMAIN contract_by_evm) = Worth(accounts, db, DOMAIN contract_by_evm)
    PROVE  Supplied'
<1> DEFINE C == DOMAIN contract_by_evm
<1>1. Shape /\ EShape /\ IdsFresh /\ Named'
  BY DEF EInv, Base, Apart
<1>0. /\ accts \in [DOMAIN accounts -> Account] /\ Holds(accts, accounts, DOMAIN accounts)
      /\ ExecuteAndMine(accts, tx, ok) /\ minted' = minted /\ Single(tx, ok)
  BY DEF Runner
<1>2. Idle(accounts, db, C) /\ Worth(accounts, db, C) = TOTAL_SUPPLY + minted
  BY DEF Supplied
<1>3. Countable(accts, db, C)
  BY <1>0, <1>2, CountableIs
<1>4. Idle(accts, db, C)
  BY <1>3 DEF Countable
<1>5. PICK before, after, source, hollow, created, news :
        Executed(accts, tx, ok, before, after, source, hollow, created, news)
  BY <1>0, <1>1, ExecuteIs
<1>6. Runs(accts, tx, ok)
  BY <1>0, <1>1, <1>4, <1>5, ExecutionHeld
<1>7. Idle(accounts', db', DOMAIN contract_by_evm')
  BY <1>6 DEF Runs
<1>8. Countable(accounts', db', DOMAIN contract_by_evm')
  BY <1>7, CountedNext
<1>9. \A a : Held(accounts', db', a) = Held(accts, db, a) + Shift(a, tx, ok)
  BY <1>6 DEF Runs
<1>10. Worth(accounts', db', DOMAIN contract_by_evm') = Worth(accts, db, C)
  BY <1>3, <1>8, <1>9, HeldShift
<1> QED
  BY <1>0, <1>2, <1>7, <1>10 DEF Supplied

LEMMA SendSupplied ==
    ASSUME EInv, Apart, Supplied, EInv', Apart', Uncrossed',
           NEW tx \in Txs, NEW ok \in BOOLEAN, Send(tx, ok)
    PROVE  Supplied'
BY SendRuns, ExecutionSupplied

(* The fee of an ethereumTransaction changes hands. *)
LEMMA PaidSupplied ==
    ASSUME EInv, Apart, Supplied, NEW txid, Precheck(txid, {}, Keys)
    PROVE  LET P == Charged(txid.payer).accounts
               C == DOMAIN contract_by_evm
           IN  /\ P \in [DOMAIN accounts -> Account] /\ Holds(P, accounts, DOMAIN accounts)
               /\ Worth(P, db, C) = Worth(accounts, db, C) /\ Countable(P, db, C)
<1> DEFINE P == Charged(txid.payer).accounts
           t == Charged(txid.payer).transfers
           C == DOMAIN contract_by_evm
<1>1. Shape /\ Idle(accounts, db, C)
  BY DEF EInv, Base, Supplied
<1>2. Works(P, t, DOMAIN accounts) /\ P \in [DOMAIN accounts -> Account] /\ Holds(P, accounts, DOMAIN accounts)
  BY <1>1, PaidIs
<1> HIDE DEF P, t
<1>3. Countable(P, db, C)
  BY <1>1, <1>2, CountableIs
<1>4. Deposits(db, C) \in Int
  <2>1. IsFiniteSet(Own(P) \cup C)
    <3>1. IsFiniteSet(Own(P)) /\ IsFiniteSet(C)
      BY <1>3, OwnFinite DEF Countable
    <3> QED
      BY <3>1, FS_Union
  <2> QED
    BY <1>3, <2>1, HeldSum
<1>5. Worth(P, db, C) = Worth(accounts, db, C)
  BY <1>1, <1>2, <1>4, WorthSettled
<1> QED
  BY <1>2, <1>3, <1>5 DEF P

LEMMA EthereumSupplied ==
    ASSUME EInv, Apart, Supplied, EInv', Apart', Uncrossed',
           NEW txid \in TxIds, NEW tx \in Txs, NEW ok \in BOOLEAN, ApplyEthereum(txid, tx, ok)
    PROVE  Supplied'
<1> DEFINE P == Charged(txid.payer).accounts
<1>1. Precheck(txid, {}, Keys)
  BY DEF ApplyEthereum
<1>2. Worth(P, db, DOMAIN contract_by_evm) = Worth(accounts, db, DOMAIN contract_by_evm)
  BY <1>1, PaidSupplied
<1>3. Runner(P, tx, ok)
  BY EthereumRuns
<1> HIDE DEF P
<1> QED
  BY <1>2, <1>3, ExecutionSupplied

(* Syncing the database moves nothing.                                     *)
LEMMA SyncSupplied ==
    ASSUME EInv, Apart, Supplied, EInv', Apart',
           NEW accts \in [DOMAIN accounts -> Account], Countable(accts, db, DOMAIN contract_by_evm),
           Worth(accts, db, DOMAIN contract_by_evm) = Worth(accounts, db, DOMAIN contract_by_evm),
           accounts' = accts, db' = sync_accounts_into_db(accts),
           contract_by_evm' = contract_by_evm, minted' = minted
    PROVE  Supplied'
<1> DEFINE C == DOMAIN contract_by_evm
<1>1. Shape /\ EShape
  BY DEF EInv, Base
<1>2. Synced(db', accts) /\ Unshared(accts) /\ Idle(accts, db, C)
  BY <1>1, SyncIs DEF Countable
<1>3. \A a : At(db', a).balance = Held(accts, db, a)
  BY <1>2, SyncedHeld
<1>4. Idle(accounts', db', DOMAIN contract_by_evm')
  BY <1>2, <1>3 DEF Idle, Held
<1>5. \A a : Held(accounts', db', a) = Held(accts, db, a)
  BY <1>3 DEF Held
<1>6. Countable(accounts', db', DOMAIN contract_by_evm')
  BY <1>4, CountedNext
<1>7. Worth(accounts', db', DOMAIN contract_by_evm') = Worth(accts, db, C)
  BY <1>5, <1>6, HeldSame
<1> QED
  BY <1>4, <1>7 DEF Supplied

LEMMA SyncOnlySupplied ==
    ASSUME EInv, Apart, Supplied, EInv', Apart', SyncOnly PROVE Supplied'
<1>1. accounts \in [DOMAIN accounts -> Account]
  BY DEF EInv, Base, Shape
<1>2. Countable(accounts, db, DOMAIN contract_by_evm)
  BY Counted DEF Supplied
<1>3. /\ accounts' = accounts /\ db' = sync_accounts_into_db(accounts)
      /\ contract_by_evm' = contract_by_evm /\ minted' = minted
  BY DEF SyncOnly, vars
<1> QED
  BY <1>1, <1>2, <1>3, SyncSupplied

LEMMA EthereumRefusedSupplied ==
    ASSUME EInv, Apart, Supplied, EInv', Apart',
           NEW txid \in TxIds, NEW tx \in Txs, ApplyEthereumRefused(txid, tx)
    PROVE  Supplied'
<1> DEFINE P == Charged(txid.payer).accounts
<1>1. /\ Precheck(txid, {}, Keys) /\ BodyFails(txid, Keys) /\ db' = sync_accounts_into_db(P)
      /\ contract_by_evm' = contract_by_evm /\ minted' = minted
  BY DEF ApplyEthereumRefused
<1>2. accounts' = P
  BY <1>1 DEF BodyFails
<1>3. /\ P \in [DOMAIN accounts -> Account] /\ Countable(P, db, DOMAIN contract_by_evm)
      /\ Worth(P, db, DOMAIN contract_by_evm) = Worth(accounts, db, DOMAIN contract_by_evm)
  BY <1>1, PaidSupplied
<1> HIDE DEF P
<1> QED
  BY <1>1, <1>2, <1>3, SyncSupplied

(* Every other HAPI transaction moves tinybar between accounts.            *)
LEMMA HapiSupplied ==
    ASSUME EInv, Apart, Supplied, EInv', Apart', Hapi PROVE Supplied'
<1> DEFINE D == DOMAIN accounts
<1>1. Shape /\ Base /\ Shape' /\ Idle(accounts, db, DOMAIN contract_by_evm)
  BY DEF EInv, Base, Supplied
<1>2. Next /\ db' = db /\ contract_by_evm' = contract_by_evm /\ minted' = minted
  BY DEF Hapi
<1>3. PICK tid \in TxIds, keys \in SUBSET Keys : Submit(tid, keys)
  BY <1>2 DEF Next
<1>4. Submitted /\ Opens
  BY <1>1, <1>3, SubmitKeeps DEF Kept
<1>5. PICK t, txid, ok, sequence, signed : Settled(t, txid, ok, sequence, signed)
  BY <1>4 DEF Submitted
<1>6. D \subseteq DOMAIN accounts'
  BY <1>5 DEF Settled, Logged
<1>7. Balances' = Balances
  <2>1. accounts' \in [DOMAIN accounts' -> Account]
    BY <1>1 DEF Shape
  <2> QED
    BY <1>1, <1>5, <2>1, BalancesKept
<1>8. Own(accounts) \subseteq Own(accounts')
  <2>1. \A id \in D : evm_address(id, accounts'[id]) = evm_address(id, accounts[id])
    BY <1>4 DEF Opens, evm_address
  <2> QED
    BY <1>6, <2>1 DEF Own
<1>9. Idle(accounts', db', DOMAIN contract_by_evm')
  BY <1>1, <1>2, <1>8 DEF Idle
<1>10. Worth(accounts', db', DOMAIN contract_by_evm') = Worth(accounts, db, DOMAIN contract_by_evm)
  BY <1>2, <1>7 DEF Worth, Balances, SumFunction
<1> QED
  BY <1>2, <1>9, <1>10 DEF Supplied

(* One address holds more, or less, and what was made of it is counted.    *)
LEMMA ChangeSupplied ==
    ASSUME EInv, Apart, Supplied, EInv', Apart', Idle(accounts', db', DOMAIN contract_by_evm'),
           NEW x, \A a : a # x => Held(accounts', db', a) = Held(accounts, db, a),
           minted' = minted + (Held(accounts', db', x) - Held(accounts, db, x)),
           Held(accounts', db', x) \in Int, Held(accounts, db, x) \in Int
    PROVE  Supplied'
<1> DEFINE w == Worth(accounts, db, DOMAIN contract_by_evm)
           v == Worth(accounts', db', DOMAIN contract_by_evm')
           p == Held(accounts, db, x)
           q == Held(accounts', db', x)
<1>1. Countable(accounts, db, DOMAIN contract_by_evm)
  BY Counted DEF Supplied
<1>2. Countable(accounts', db', DOMAIN contract_by_evm')
  BY CountedNext
<1>3. v = w + (q - p) /\ w \in Int
  BY <1>1, <1>2, HeldChange
<1>4. w = TOTAL_SUPPLY + minted /\ TOTAL_SUPPLY \in Int /\ minted \in Int /\ minted' = minted + (q - p)
      /\ p \in Int /\ q \in Int
  BY LedgerAssumption DEF Supplied, EInv, EShape
<1> HIDE DEF v, w, p, q
<1>5. minted' \in Int /\ v = (TOTAL_SUPPLY + minted) + (q - p)
  BY <1>3, <1>4
<1>6. (TOTAL_SUPPLY + minted) + (q - p) = TOTAL_SUPPLY + (minted + (q - p))
  BY <1>4
<1>7. v = TOTAL_SUPPLY + minted'
  BY <1>4, <1>5, <1>6
<1> QED
  BY <1>7 DEF Supplied, v

(* An entry that is written without its balance holds what it held.        *)
LEMMA EntrySupplied ==
    ASSUME EInv, Apart, Supplied, EInv', Apart', NEW x, NEW e, e.balance = At(db, x).balance,
           db' = [a \in DOMAIN db \cup {x} |-> IF a = x THEN e ELSE db[a]],
           accounts' = accounts, DOMAIN contract_by_evm \subseteq DOMAIN contract_by_evm', minted' = minted
    PROVE  Supplied'
<1>1. \A a : At(db', a).balance = At(db, a).balance
  <2> TAKE a
  <2>1. CASE a = x
    BY <2>1 DEF At
  <2>2. CASE a # x
    BY <2>2 DEF At
  <2> QED
    BY <2>1, <2>2
<1>2. Idle(accounts', db', DOMAIN contract_by_evm')
  BY <1>1 DEF Idle, Supplied
<1>3. Countable(accounts, db, DOMAIN contract_by_evm)
  BY Counted DEF Supplied
<1>4. Countable(accounts', db', DOMAIN contract_by_evm')
  BY <1>2, CountedNext
<1>5. \A a : Held(accounts', db', a) = Held(accounts, db, a)
  BY <1>1 DEF Held
<1>6. Worth(accounts', db', DOMAIN contract_by_evm') = Worth(accounts, db, DOMAIN contract_by_evm)
  BY <1>3, <1>4, <1>5, HeldSame
<1> QED
  BY <1>2, <1>6 DEF Supplied

LEMMA SetCodeSupplied ==
    ASSUME EInv, Apart, Supplied, EInv', Apart', NEW address \in CheatTargets, set_code(address)
    PROVE  Supplied'
<1> DEFINE e == [At(db, address) EXCEPT !.code = TRUE]
<1>1. /\ db' = [a \in DOMAIN db \cup {address} |-> IF a = address THEN e ELSE db[a]]
      /\ accounts' = accounts /\ minted' = minted
      /\ DOMAIN contract_by_evm \subseteq DOMAIN contract_by_evm'
  BY DEF set_code
<1>2. e.balance = At(db, address).balance
  <2>1. At(db, address) \in Entry /\ 0 \in Nat
    BY AtEntry DEF EInv, EShape
  <2> QED
    BY <2>1, EntryIs
<1> HIDE DEF e
<1> QED
  BY <1>1, <1>2, EntrySupplied

LEMMA SetNonceSupplied ==
    ASSUME EInv, Apart, Supplied, EInv', Apart', NEW address, NEW nonce \in CheatNonces,
           set_nonce(address, nonce)
    PROVE  Supplied'
<1> DEFINE e == [At(db, address) EXCEPT !.nonce = nonce]
<1>1. /\ db' = [a \in DOMAIN db \cup {address} |-> IF a = address THEN e ELSE db[a]]
      /\ accounts' = accounts /\ contract_by_evm' = contract_by_evm /\ minted' = minted
  BY DEF set_nonce, vars
<1>2. e.balance = At(db, address).balance
  <2>1. At(db, address) \in Entry /\ nonce \in Nat
    BY AtEntry, EvmAssumption DEF EInv, EShape
  <2> QED
    BY <2>1, EntryIs
<1> HIDE DEF e
<1> QED
  BY <1>1, <1>2, EntrySupplied

(* anvil_setBalance makes what the address has more, and takes what it has *)
(* less.                                                                   *)
LEMMA SetBalanceSupplied ==
    ASSUME EInv, Apart, Supplied, EInv', Apart',
           NEW address \in CheatTargets, NEW balance \in CheatBalances, set_balance(address, balance)
    PROVE  Supplied'
<1> DEFINE D == DOMAIN accounts
           C == DOMAIN contract_by_evm
           news == << NewAccount(NoKey, address, balance) >>
           old == balance_by_evm(address)
           id == by_evm[address]
           x == IF address \in DOMAIN by_evm THEN evm_address(id, accounts[id]) ELSE address
<1>1. /\ Shape /\ EShape /\ IdsFresh /\ Named /\ Idle(accounts, db, C)
      /\ Countable(accounts, db, C) /\ Unshared(accounts) /\ Own(accounts) \subseteq DOMAIN by_evm
      /\ accounts \in [D -> Account]
  <2>1. Shape /\ EShape /\ IdsFresh /\ Named /\ Idle(accounts, db, C) /\ accounts \in [D -> Account]
    BY DEF EInv, Base, Apart, Supplied, Shape
  <2>2. Holds(accounts, accounts, D)
    BY DEF Holds
  <2>3. Countable(accounts, db, C) /\ Unshared(accounts) /\ Own(accounts) \subseteq DOMAIN by_evm
    BY <2>1, <2>2, CountableIs
  <2> QED
    BY <2>1, <2>3
<1>2. /\ contract_by_evm' = contract_by_evm /\ minted' = minted + balance - old /\ balance \in Nat
      /\ minted \in Int
  BY <1>1, EvmAssumption DEF set_balance, EShape
<1>3. Unshared(accounts')
  <2>1. Named' => Unshared(accounts)'
    BY NamedUnshared, PTL
  <2> QED
    BY <2>1 DEF Apart
<1>4. /\ Held(accounts, db, x) = old /\ old \in Nat
      /\ address \in DOMAIN by_evm => id \in D /\ x = evm_address(id, accounts[id])
      /\ address \notin DOMAIN by_evm => x = address
  <2>1. CASE address \in DOMAIN by_evm
    <3>1. id \in D /\ x = evm_address(id, accounts[id])
      BY <1>1, <2>1 DEF Shape
    <3>2. Held(accounts, db, x) = accounts[id].balance
      BY <1>1, <3>1, OwnerIs
    <3>3. accounts[id].balance \in Nat
      BY <1>1, <3>1 DEF Account
    <3> QED
      BY <2>1, <3>1, <3>2, <3>3 DEF balance_by_evm
  <2>2. CASE address \notin DOMAIN by_evm
    <3>1. Held(accounts, db, address) = At(db, address).balance
      BY <1>1, <2>2 DEF Held
    <3>2. At(db, address).balance \in Nat
      BY <1>1, AtEntry DEF EShape
    <3> QED
      BY <2>2, <3>1, <3>2 DEF balance_by_evm
  <2> QED
    BY <2>1, <2>2
<1> HIDE DEF old, id, x
<1>5. ASSUME Held(accounts', db', x) = balance,
             \A a : a # x => Held(accounts', db', a) = Held(accounts, db, a),
             Idle(accounts', db', DOMAIN contract_by_evm')
      PROVE  Supplied'
  <2>1. minted' = minted + (balance - old) /\ balance \in Int /\ old \in Int
    BY <1>2, <1>4
  <2> QED
    BY <1>4, <1>5, <2>1, ChangeSupplied
<1>6. CASE /\ address \in DOMAIN by_evm
           /\ accounts' = [accounts EXCEPT ![by_evm[address]].balance = balance]
           /\ UNCHANGED <<by_evm, next_id, nonces, db>>
  <2>1. id \in D /\ x = evm_address(id, accounts[id])
    BY <1>4, <1>6
  <2>2. /\ DOMAIN accounts' = D /\ accounts'[id].balance = balance
        /\ \A i \in D : accounts'[i].alias = accounts[i].alias
        /\ \A i \in D : i # id => accounts'[i] = accounts[i]
    <3>1. \A i \in D : [accounts[i] EXCEPT !.balance = balance].alias = accounts[i].alias
                       /\ [accounts[i] EXCEPT !.balance = balance].balance = balance
      BY <1>1 DEF Account
    <3> QED
      BY <3>1, <2>1, <1>6 DEF id
  <2>3. /\ \A i \in D : evm_address(i, accounts'[i]) = evm_address(i, accounts[i])
        /\ Own(accounts') = Own(accounts)
    BY <2>2, SameOwn
  <2>4. Held(accounts', db', x) = balance
    <3>1. id \in DOMAIN accounts' /\ x = evm_address(id, accounts'[id])
      BY <2>1, <2>2, <2>3
    <3> QED
      BY <3>1, <1>3, <2>2, OwnerIs
  <2>5. ASSUME NEW a, a # x PROVE Held(accounts', db', a) = Held(accounts, db, a)
    <3>1. CASE a \notin Own(accounts)
      BY <3>1, <2>3, <1>6 DEF Held
    <3>2. ASSUME NEW i \in D, a = evm_address(i, accounts[i])
          PROVE  Held(accounts', db', a) = Held(accounts, db, a)
      <4>1. i # id /\ i \in DOMAIN accounts' /\ a = evm_address(i, accounts'[i])
        BY <2>1, <2>2, <2>3, <2>5, <3>2
      <4>2. Held(accounts', db', a) = accounts'[i].balance
        BY <4>1, <1>3, OwnerIs
      <4>3. Held(accounts, db, a) = accounts[i].balance
        BY <3>2, <1>1, OwnerIs
      <4> QED
        BY <4>1, <4>2, <4>3, <2>2
    <3> QED
      BY <3>1, <3>2 DEF Own
  <2>6. Idle(accounts', db', DOMAIN contract_by_evm')
    BY <1>1, <1>2, <1>6, <2>3 DEF Idle
  <2> QED
    BY <1>5, <2>4, <2>5, <2>6
<1>7. CASE /\ address \notin DOMAIN by_evm
           /\ address \in C
           /\ db' = [a \in DOMAIN db \cup {address} |->
                       IF a = address THEN [At(db, a) EXCEPT !.balance = balance] ELSE db[a]]
           /\ UNCHANGED <<accounts, by_evm, next_id, nonces>>
  <2>1. At(db', address).balance = balance
    <3>1. [At(db, address) EXCEPT !.balance = balance].balance = balance
      BY <1>1, <1>2, AtEntry, EntryIs DEF EShape
    <3>2. At(db', address) = [At(db, address) EXCEPT !.balance = balance]
      <4>1. address \in DOMAIN db' /\ db'[address] = [At(db, address) EXCEPT !.balance = balance]
        BY <1>7
      <4> QED
        BY <4>1 DEF At
    <3> QED
      BY <3>1, <3>2
  <2>2. \A a : a # address => At(db', a) = At(db, a)
    BY <1>7 DEF At
  <2>3. address \notin Own(accounts) /\ accounts' = accounts
    BY <1>1, <1>7
  <2>4. Held(accounts', db', address) = balance
    BY <2>1, <2>3 DEF Held
  <2>5. \A a : a # address => Held(accounts', db', a) = Held(accounts, db, a)
    BY <2>2, <2>3 DEF Held
  <2>6. Idle(accounts', db', DOMAIN contract_by_evm')
    BY <1>1, <1>2, <1>7, <2>2, <2>3 DEF Idle
  <2> QED
    BY <1>4, <1>5, <1>7, <2>4, <2>5, <2>6
<1>8. CASE /\ address \notin DOMAIN by_evm \cup C
           /\ next_id <= MaxId /\ accounts' = WithAccounts(accounts, news) /\ by_evm' = WithAddresses(news)
           /\ UNCHANGED db
  <2>1. address # NoAlias
    BY EvmAssumption
  <2>2. Room(news) /\ DOMAIN news = {1} /\ news[1] = NewAccount(NoKey, address, balance)
    <3>1. NewAccount(NoKey, address, balance) \in Account
      BY <1>2 DEF NewAccount, Account, Addresses
    <3>2. next_id \in Int /\ MaxId \in Int
      BY <1>1, LedgerAssumption DEF Shape
    <3> QED
      BY <3>1, <3>2, <1>8 DEF Room
  <2>3. news[1].balance = balance /\ evm_address(NewId(1), news[1]) = address
    <3>1. news[1].balance = balance /\ news[1].alias = address
      BY <2>2 DEF NewAccount
    <3> QED
      BY <3>1, <2>1 DEF evm_address
  <2> HIDE DEF news
  <2>4. Joined(accounts', accounts, news)
    BY <1>1, <1>8, <2>2, AccountsJoin
  <2>5. /\ DOMAIN accounts' = D \cup News(news) /\ \A i \in D : accounts'[i] = accounts[i]
        /\ \A k \in DOMAIN news : accounts'[NewId(k)] = news[k]
    BY <2>4 DEF Joined
  <2>6. DOMAIN accounts' = D \cup {NewId(1)} /\ accounts'[NewId(1)] = news[1]
    BY <2>2, <2>5 DEF News
  <2>7. \A a : a \in Own(accounts') <=> a \in Own(accounts) \/ a = address
    BY <2>3, <2>5, <2>6 DEF Own
  <2>8. Held(accounts', db', address) = balance
    <3>1. NewId(1) \in DOMAIN accounts' /\ address = evm_address(NewId(1), accounts'[NewId(1)])
      BY <2>3, <2>6
    <3> QED
      BY <3>1, <1>3, <2>3, <2>6, OwnerIs
  <2>9. ASSUME NEW a, a # address PROVE Held(accounts', db', a) = Held(accounts, db, a)
    <3>1. CASE a \notin Own(accounts)
      BY <3>1, <2>7, <2>9, <1>8 DEF Held
    <3>2. ASSUME NEW i \in D, a = evm_address(i, accounts[i])
          PROVE  Held(accounts', db', a) = Held(accounts, db, a)
      <4>1. i \in DOMAIN accounts' /\ a = evm_address(i, accounts'[i])
        BY <2>5, <3>2
      <4>2. Held(accounts', db', a) = accounts'[i].balance
        BY <4>1, <1>3, OwnerIs
      <4>3. Held(accounts, db, a) = accounts[i].balance
        BY <3>2, <1>1, OwnerIs
      <4> QED
        BY <4>2, <4>3, <2>5
    <3> QED
      BY <3>1, <3>2 DEF Own
  <2>10. Idle(accounts', db', DOMAIN contract_by_evm')
    BY <1>1, <1>2, <1>8, <2>7 DEF Idle
  <2> QED
    BY <1>4, <1>5, <1>8, <2>8, <2>9, <2>10
<1> QED
  BY <1>6, <1>7, <1>8 DEF set_balance

(* Genesis: the accounts have the supply, the database nothing.            *)
LEMMA EvmInitSupplied == ASSUME EvmInit PROVE Supplied
<1>2. /\ db = [address \in SystemContracts |-> [Empty EXCEPT !.code = TRUE]]
      /\ DOMAIN contract_by_evm = {} /\ minted = 0 /\ Init
  BY DEF EvmInit
<1>3. \A a : At(db, a).balance = 0
  BY <1>2 DEF At, Empty
<1>4. Idle(accounts, db, DOMAIN contract_by_evm)
  BY <1>3 DEF Idle
<1>5. Deposits(db, DOMAIN contract_by_evm) = 0
  <2> DEFINE f == [a \in {} |-> At(db, a).balance]
  <2>1. IsFiniteSet({}) /\ Integral(f, {})
    BY FS_EmptySet DEF Integral
  <2>2. SumFunctionOnSet(f, {}) = 0
    BY <2>1, SumAdd
  <2> QED
    BY <2>2, <1>2 DEF Deposits
<1>6. Balances = TOTAL_SUPPLY
  BY <1>2, InitKeeps DEF IInv, TinybarAccountedFor, SupplyConserved, Balances
<1>7. Worth(accounts, db, DOMAIN contract_by_evm) = Balances + Deposits(db, DOMAIN contract_by_evm)
  BY DEF Worth, Balances, SumFunction
<1>8. TOTAL_SUPPLY \in Int
  BY LedgerAssumption
<1>9. Worth(accounts, db, DOMAIN contract_by_evm) = TOTAL_SUPPLY + minted
  BY <1>2, <1>5, <1>6, <1>7, <1>8
<1> QED
  BY <1>4, <1>9 DEF Supplied

LEMMA EvmNextSupplied ==
    ASSUME EInv, Apart, Supplied, EInv', Apart', Uncrossed', [EvmNext]_allVars PROVE Supplied'
<1>1. CASE UNCHANGED allVars
  <2>1. accounts' = accounts /\ db' = db /\ contract_by_evm' = contract_by_evm /\ minted' = minted
    BY <1>1 DEF allVars, vars, evmVars
  <2> QED
    BY <2>1 DEF Supplied
<1>2. ASSUME NEW tx \in Txs, NEW ok \in BOOLEAN, Send(tx, ok) PROVE Supplied'
  BY <1>2, SendSupplied
<1>3. CASE SyncOnly
  BY <1>3, SyncOnlySupplied
<1>4. ASSUME NEW txid \in TxIds, NEW tx \in Txs, NEW ok \in BOOLEAN, ApplyEthereum(txid, tx, ok) PROVE Supplied'
  BY <1>4, EthereumSupplied
<1>5. ASSUME NEW txid \in TxIds, NEW tx \in Txs, ApplyEthereumRefused(txid, tx) PROVE Supplied'
  BY <1>5, EthereumRefusedSupplied
<1>6. CASE Hapi
  BY <1>6, HapiSupplied
<1>7. ASSUME NEW address \in CheatTargets, NEW balance \in CheatBalances, set_balance(address, balance)
      PROVE  Supplied'
  BY <1>7, SetBalanceSupplied
<1>8. ASSUME NEW address \in CheatTargets, set_code(address) PROVE Supplied'
  BY <1>8, SetCodeSupplied
<1>9. ASSUME NEW address \in CheatTargets, NEW nonce \in CheatNonces, set_nonce(address, nonce) PROVE Supplied'
  BY <1>9, SetNonceSupplied
<1> QED
  BY <1>1, <1>2, <1>3, <1>4, <1>5, <1>6, <1>7, <1>8, <1>9 DEF EvmNext

(* What is supplied is in the accounts, or in the database at addresses    *)
(* that are no account's.                                                  *)
LEMMA SuppliedConserves == ASSUME EInv, Apart, Supplied PROVE SupplyIsConstant
<1> DEFINE C == DOMAIN contract_by_evm
           W == DOMAIN db \ DOMAIN by_evm
           U == W \cup C
           f == [a \in U |-> At(db, a).balance]
           g == [a \in C |-> At(db, a).balance]
           h == [a \in W |-> db[a].balance]
<1>1. /\ Shape /\ EShape /\ AddressNamesOneEntity /\ Idle(accounts, db, C)
      /\ Countable(accounts, db, C) /\ Worth(accounts, db, C) = TOTAL_SUPPLY + minted
  BY Counted DEF EInv, Base, Apart, Supplied
<1>2. Own(accounts) \subseteq DOMAIN by_evm
  BY ResolveIs DEF Apart, Named, Own, Names
<1>3. IsFiniteSet(U) /\ IsFiniteSet(W) /\ IsFiniteSet(C)
  <2>1. IsFiniteSet(W) /\ IsFiniteSet(C)
    BY <1>1, FS_Subset DEF EShape, Countable
  <2> HIDE DEF W, C
  <2> QED
    BY <2>1, FS_Union
<1>4. \A a : At(db, a).balance \in Nat
  BY <1>1, AtEntry DEF EShape
<1>5. Integral(f, U) /\ Integral(g, C) /\ Integral(h, W)
  BY <1>4 DEF Integral, At
<1>6. ASSUME NEW a \in U \ C PROVE f[a] = 0
  BY <1>1, <1>2 DEF Idle
<1>7. ASSUME NEW a \in U \ W PROVE f[a] = 0
  <2>1. a \notin DOMAIN db
    BY <1>1 DEF AddressNamesOneEntity
  <2> QED
    BY <2>1 DEF At, Empty
<1>8. (\A a \in C : f[a] = g[a]) /\ (\A a \in W : f[a] = h[a])
  BY DEF At
<1>9. W \subseteq U /\ C \subseteq U
  OBVIOUS
<1>10. DOMAIN h = W
  OBVIOUS
<1>11. Deposits(db, C) = SumFunctionOnSet(g, C)
  BY DEF Deposits
<1>12. Worth(accounts, db, C) = Balances + Deposits(db, C)
  BY DEF Worth, Balances, SumFunction
<1> HIDE DEF f, g, h, U, W
<1>13. SumFunctionOnSet(f, U) = SumFunctionOnSet(f, C) /\ SumFunctionOnSet(f, U) = SumFunctionOnSet(f, W)
  BY <1>3, <1>5, <1>6, <1>7, <1>9, SumWithoutZeros
<1>14. SumFunctionOnSet(g, C) = SumFunctionOnSet(f, C) /\ SumFunctionOnSet(f, W) = SumFunctionOnSet(h, W)
  BY <1>3, <1>5, <1>8, SumEqual
<1>15. SumFunction(h) = Deposits(db, C)
  BY <1>10, <1>11, <1>13, <1>14 DEF SumFunction
<1>16. Balances + SumFunction(h) = TOTAL_SUPPLY + minted
  BY <1>1, <1>12, <1>15
<1> QED
  BY <1>16 DEF SupplyIsConstant, Balances, h, W

(* Of every state: the names hold until an address is taken for two        *)
(* things, and so does the supply.                                         *)
Unmixed == Uncrossed => Named /\ Supplied

AInv == EInv /\ OnlyHapiOpensOnContracts /\ Unmixed

LEMMA AInvApart == ASSUME AInv, Uncrossed PROVE EInv /\ Apart /\ Supplied
BY NamedApart DEF AInv, Unmixed

LEMMA EvmInitAInv == EvmInit => AInv
BY EvmInitKeeps, EvmInitNames, EvmInitSupplied DEF AInv, Unmixed, EvmInit, OnlyHapiOpensOnContracts

(* A step to a state where nothing is crossed comes from one. *)
LEMMA EvmNextAInv ==
    ASSUME AInv, [EvmNext]_allVars
    PROVE  AInv' /\ (Uncrossed' => Uncrossed /\ Apart')
<1>1. EInv /\ EInv' /\ Steady
  BY EvmNextKeeps, EvmNextSteady DEF AInv
<1>2. OnlyHapiOpensOnContracts'
  BY <1>1 DEF AInv, Steady, OnlyHapiOpensOnContracts
<1>3. ASSUME Uncrossed' PROVE Uncrossed /\ Apart' /\ Named' /\ Supplied'
  <2>1. Uncrossed
    BY <1>1, <1>3, UncrossedAgo
  <2>2. Apart /\ Named /\ Supplied
    BY <2>1, AInvApart DEF Apart
  <2>3. Named'
    BY <1>1, <1>3, <2>2, EvmNextNames
  <2>4. Apart'
    BY <1>2, <1>3, <2>3 DEF Apart, Uncrossed, OnlyHapiOpensOnContracts, AddressNamesOneEntity
  <2>5. Supplied'
    BY <1>1, <1>3, <2>2, <2>4, EvmNextSupplied
  <2> QED
    BY <2>1, <2>3, <2>4, <2>5
<1> QED
  BY <1>1, <1>2, <1>3 DEF AInv, Unmixed

(* In every state before an address was taken for two things the two       *)
(* stores hold the genesis supply and what anvil_setBalance made, after    *)
(* any transactions (credit_burned_base_fee).                              *)
THEOREM EvmSupplyHolds == EvmSpec => []EvmSupplyConserved
<1>1. AInv /\ [EvmNext]_allVars => AInv'
  BY EvmNextAInv
<1>2. AInv => EvmSupplyConserved
  BY AInvApart, SuppliedConserves DEF EvmSupplyConserved
<1> QED
  BY <1>1, <1>2, EvmInitAInv, PTL DEF EvmSpec

-----------------------------------------------------------------------------
(* What a transaction takes from an address, it takes from its sender's or *)
(* from one with code.                                                     *)
LEMMA ShiftTakes ==
    ASSUME NEW tx \in Txs, NEW ok \in BOOLEAN, NEW a, Shift(a, tx, ok) < 0
    PROVE  a = tx.from \/ (a = tx.to /\ tx.pay # NoPay)
<1> SUFFICES ASSUME a # tx.from, ~(a = tx.to /\ tx.pay # NoPay) PROVE FALSE
  OBVIOUS
<1>1. tx.tip + GAS_PRICE \in Nat /\ tx.value \in Nat /\ (tx.pay # NoPay => tx.pay.amount \in Nat)
  BY TxIs, EvmAssumption
<1>2. Delta(a, tx.from, Beneficiary, tx.tip + GAS_PRICE) \in Nat
  BY <1>1 DEF Delta
<1>3. Delta(a, tx.from, Callee(tx), tx.value) \in Nat
  BY <1>1 DEF Delta
<1>4. tx.pay # NoPay => Delta(a, tx.to, tx.pay.to, tx.pay.amount) \in Nat
  BY <1>1 DEF Delta
<1>5. Gains(a, tx, ok) \in Nat
  BY <1>3, <1>4 DEF Gains
<1> QED
  BY <1>2, <1>5 DEF Shift

(* An account an execution leaves with less is its sender's, or has code.  *)
LEMMA ExecutionTakes ==
    ASSUME EInv, Apart, Supplied, EInv', Apart', Uncrossed',
           NEW accts, NEW tx \in Txs, NEW ok \in BOOLEAN, Runner(accts, tx, ok),
           NEW id \in DOMAIN accounts, accounts'[id].balance < accts[id].balance
    PROVE  \/ evm_address(id, accounts[id]) = tx.from
           \/ At(db, evm_address(id, accounts[id])).code
<1> DEFINE C == DOMAIN contract_by_evm
           a == evm_address(id, accounts[id])
<1>1. Shape /\ EShape /\ IdsFresh /\ Named' /\ Idle(accounts, db, C)
  BY DEF EInv, Base, Apart, Supplied
<1>0. /\ accts \in [DOMAIN accounts -> Account] /\ Holds(accts, accounts, DOMAIN accounts)
      /\ ExecuteAndMine(accts, tx, ok) /\ Single(tx, ok)
  BY DEF Runner
<1>2. Countable(accts, db, C) /\ a = evm_address(id, accts[id])
  BY <1>0, <1>1, CountableIs
<1>3. Idle(accts, db, C) /\ Unshared(accts)
  BY <1>2 DEF Countable
<1>4. PICK before, after, source, hollow, created, news :
        Executed(accts, tx, ok, before, after, source, hollow, created, news)
  BY <1>0, <1>1, ExecuteIs
<1>5. Held(accounts', db', a) = Held(accts, db, a) + Shift(a, tx, ok)
  BY <1>0, <1>1, <1>3, <1>4, ExecutionHeld DEF Runs
<1>6. /\ id \in DOMAIN accounts' /\ a = evm_address(id, accounts'[id])
      /\ accounts' \in [DOMAIN accounts' -> Account] /\ accts[id].balance \in Nat
  <2>1. ReadBack(accts, tx, ok, after, source, news)
    BY <1>0, <1>1, <1>4, ReadBackIs
  <2>2. id \in DOMAIN accounts' /\ accounts'[id].alias = accts[id].alias
    BY <2>1 DEF ReadBack, Holds
  <2>3. accounts' \in [DOMAIN accounts' -> Account]
    BY DEF EInv, Base, Shape
  <2> QED
    BY <2>2, <2>3, <1>0, <1>2 DEF evm_address, Account
<1>7. Unshared(accounts')
  <2>1. Named' => Unshared(accounts)'
    BY NamedUnshared, PTL
  <2> QED
    BY <1>1, <2>1
<1>8. Held(accounts', db', a) = accounts'[id].balance
  BY <1>6, <1>7, OwnerIs
<1>9. Held(accts, db, a) = accts[id].balance
  BY <1>0, <1>2, <1>3, OwnerIs
<1>10. Shift(a, tx, ok) < 0
  <2>1. accounts'[id].balance \in Nat
    BY <1>6 DEF Account
  <2>2. Shift(a, tx, ok) \in Int
    BY ShiftIs
  <2> QED
    BY <1>5, <1>6, <1>8, <1>9, <2>1, <2>2
<1>11. a = tx.from \/ (a = tx.to /\ tx.pay # NoPay)
  BY <1>10, ShiftTakes
<1>12. tx.pay # NoPay => At(before, tx.to).code
  BY <1>4 DEF Executed, Ended, Outcome
<1>13. At(before, tx.to).code = At(db, tx.to).code
  BY <1>4 DEF Executed, Synced
<1>14. CASE a = tx.from
  BY <1>14
<1>15. CASE a = tx.to /\ tx.pay # NoPay
  <2>1. At(db, tx.to).code
    BY <1>12, <1>13, <1>15
  <2> QED
    BY <2>1, <1>15
<1> QED
  BY <1>11, <1>14, <1>15

(* An execution takes no nonce back, and uses up its sender's. *)
LEMMA ExecutionCounts ==
    ASSUME EInv, Apart, Uncrossed',
           NEW accts, NEW tx \in Txs, NEW ok \in BOOLEAN, Runner(accts, tx, ok)
    PROVE  /\ \A id \in DOMAIN nonces : nonces'[id] >= nonces[id]
           /\ tx.from \in DOMAIN by_evm => nonces'[by_evm[tx.from]] = nonces[by_evm[tx.from]] + 1
<1> DEFINE D == DOMAIN accounts
           T == Touched(tx, ok)
           own(id) == evm_address(id, accounts[id])
<1>0. /\ accts \in [DOMAIN accounts -> Account] /\ Holds(accts, accounts, DOMAIN accounts)
      /\ ExecuteAndMine(accts, tx, ok) /\ Single(tx, ok)
  BY DEF Runner
<1>1. Shape /\ EShape /\ IdsFresh /\ Named
  BY DEF EInv, Base, Apart
<1>2. PICK before, after, source, hollow, created, news :
        Executed(accts, tx, ok, before, after, source, hollow, created, news)
  BY <1>0, <1>1, ExecuteIs
<1>3. /\ Synced(before, accts) /\ Ended(tx, ok, before, after)
      /\ Chosen(tx, ok, after, source, hollow, created, news)
      /\ Written_back(accts, tx, ok, before, after, source, created, news)
  BY <1>2 DEF Executed
<1>4. nonces \in [D -> Nat]
  BY <1>1 DEF EShape
<1>5. /\ \A id \in D : evm_address(id, accts[id]) = own(id)
      /\ Unshared(accts) /\ DOMAIN accts = D
  <2>1. Unshared(accounts)
    BY <1>1, NamedUnshared
  <2>2. DOMAIN accts = D /\ \A id \in D : accts[id].alias = accounts[id].alias
    BY <1>0 DEF Holds
  <2> QED
    BY <2>1, <2>2, SameOwn
<1>6. \A a \in T : a \in DOMAIN by_evm => by_evm[a] \in D /\ a = own(by_evm[a])
  BY <1>0, <1>1, TouchedOwn
<1>7. ASSUME NEW id \in D PROVE At(before, own(id)).nonce = nonces[id]
  <2>1. Owns(accts, id, own(id)) /\ own(id) \in DOMAIN before
    BY <1>3, <1>5 DEF Owns, Own, Synced
  <2>2. PICK i : Owns(accts, i, own(id)) /\ before[own(id)].nonce = nonces[i]
    BY <1>3, <2>1 DEF Synced
  <2>3. i = id
    BY <1>5, <2>1, <2>2 DEF Owns, Unshared
  <2> QED
    BY <2>1, <2>2, <2>3 DEF At
<1>8. \A a : /\ At(after, a).nonce = IF Creates(a, tx, ok) THEN 1
                                      ELSE At(before, a).nonce + (IF a = tx.from THEN 1 ELSE 0)
             /\ Creates(a, tx, ok) => At(before, a).nonce = 0
  BY <1>3 DEF Ended, Ran, Outcome, Creates
<1>9. ASSUME NEW id \in D, id \in TouchedIds(T)
      PROVE  nonces'[id] >= nonces[id] /\ (own(id) = tx.from => nonces'[id] = nonces[id] + 1)
  <2>1. source[id] \in T \cap DOMAIN by_evm /\ by_evm[source[id]] = id
    BY <1>3, <1>9 DEF Chosen
  <2>2. source[id] = own(id)
    BY <2>1, <1>6
  <2>3. id \in DOMAIN accounts'
    BY ZenonT(120), <1>0, <1>1, <1>2, ReadBackIs DEF ReadBack
  <2>4. nonces'[id] = At(after, own(id)).nonce
    BY <1>3, <1>9, <2>2, <2>3 DEF Written_back
  <2>5. nonces[id] \in Nat /\ At(before, own(id)).nonce = nonces[id]
    BY <1>4, <1>7
  <2> DEFINE a == own(id)
             x == At(after, a).nonce
             y == At(before, a).nonce
  <2>6. /\ x = IF Creates(a, tx, ok) THEN 1 ELSE y + (IF a = tx.from THEN 1 ELSE 0)
        /\ Creates(a, tx, ok) => y = 0
    BY <1>8
  <2> HIDE DEF a, x, y
  <2>7. nonces[id] \in Nat /\ y = nonces[id] /\ nonces'[id] = x
    BY <2>4, <2>5 DEF a, x, y
  <2>8. nonces'[id] >= nonces[id] /\ (a = tx.from => nonces'[id] = nonces[id] + 1)
    BY <2>6, <2>7
  <2> QED
    BY <2>8 DEF a
<1>10. ASSUME NEW id \in D, id \notin TouchedIds(T) PROVE nonces'[id] = nonces[id]
  <2>1. id \in DOMAIN accounts'
    BY <1>0, <1>1, <1>2, ReadBackIs DEF ReadBack
  <2> QED
    BY <1>3, <1>4, <1>10, <2>1 DEF Written_back
<1>11. ASSUME NEW id \in DOMAIN nonces PROVE nonces'[id] >= nonces[id]
  <2>1. id \in D /\ nonces[id] \in Nat
    BY <1>4
  <2>2. CASE id \in TouchedIds(T)
    BY <2>1, <2>2, <1>9
  <2>3. CASE id \notin TouchedIds(T)
    BY <2>1, <2>3, <1>10
  <2> QED
    BY <2>2, <2>3
<1>12. ASSUME tx.from \in DOMAIN by_evm
       PROVE  nonces'[by_evm[tx.from]] = nonces[by_evm[tx.from]] + 1
  <2>1. tx.from \in T
    BY TouchedIs
  <2>2. by_evm[tx.from] \in D /\ tx.from = own(by_evm[tx.from]) /\ by_evm[tx.from] \in TouchedIds(T)
    BY <1>6, <1>12, <2>1 DEF TouchedIds
  <2> QED
    BY <2>2, <1>9
<1> QED
  BY <1>11, <1>12

(* The steps that OnlyTheSenderPays and NoncesNeverBack are about. *)
SenderPays ==
  sender' # NoSender /\ Uncrossed' =>
    \A id \in DOMAIN accounts :
      accounts'[id].balance < accounts[id].balance
      => \/ evm_address(id, accounts[id]) = sender'
         \/ At(db, evm_address(id, accounts[id])).code
         \/ records' # records /\ records'[Len(records')].id.payer = id

NoncesGrow ==
  sender' # NoSender /\ Uncrossed' =>
    /\ \A id \in DOMAIN nonces : nonces'[id] >= nonces[id]
    /\ sender' \in DOMAIN by_evm => nonces'[by_evm[sender']] = nonces[by_evm[sender']] + 1

LEMMA SendActs ==
    ASSUME EInv, Apart, Supplied, EInv', Apart', Uncrossed',
           NEW tx \in Txs, NEW ok \in BOOLEAN, Send(tx, ok)
    PROVE  SenderPays /\ NoncesGrow
<1>1. Runner(accounts, tx, ok) /\ sender' = tx.from
  BY SendRuns DEF Send
<1>2. SenderPays
  BY <1>1, ExecutionTakes DEF SenderPays
<1>3. NoncesGrow
  BY <1>1, ExecutionCounts DEF NoncesGrow
<1> QED
  BY <1>2, <1>3

(* Of an ethereumTransaction the payer pays the fee. *)
LEMMA EthereumActs ==
    ASSUME EInv, Apart, Supplied, EInv', Apart', Uncrossed',
           NEW txid \in TxIds, NEW tx \in Txs, NEW ok \in BOOLEAN, ApplyEthereum(txid, tx, ok)
    PROVE  SenderPays /\ NoncesGrow
<1> DEFINE paid == Charged(txid.payer)
           P == paid.accounts
           r == [id |-> txid, ok |-> ok, transfers |-> aggregate(paid.transfers), sequence |-> 0]
<1>1. /\ Precheck(txid, {}, Keys) /\ ExecuteAndMine(P, tx, ok) /\ sender' = tx.from
      /\ records' = Append(records, r)
  BY DEF ApplyEthereum, Consensus
<1>2. Shape /\ records \in Seq(Record)
  BY DEF EInv, Base, Shape
<1>3. P \in [DOMAIN accounts -> Account] /\ Holds(P, accounts, DOMAIN accounts)
  BY <1>1, <1>2, PaidIs
<1>7. Runner(P, tx, ok)
  BY EthereumRuns
<1>4. ASSUME NEW id \in DOMAIN accounts, id # txid.payer PROVE P[id].balance >= accounts[id].balance
  <2>1. is_live(txid.payer) /\ accounts[txid.payer].balance >= HAPI_FEE
    BY <1>1 DEF Precheck
  <2>2. P[id].balance = accounts[id].balance + Delta(id, txid.payer, FEE_COLLECTOR, HAPI_FEE)
    BY <1>2, <2>1, ChargedIs
  <2>3. accounts[id].balance \in Nat /\ HAPI_FEE \in Nat
    BY <1>2, LedgerAssumption DEF Shape, Account
  <2>4. Delta(id, txid.payer, FEE_COLLECTOR, HAPI_FEE) \in Nat
    BY <1>4, <2>3 DEF Delta
  <2> HIDE DEF P
  <2> QED
    BY <2>2, <2>3, <2>4
<1>5. records' # records /\ records'[Len(records')].id.payer = txid.payer
  <2>1. r.id = txid
    OBVIOUS
  <2> HIDE DEF r
  <2>2. Len(records') = Len(records) + 1 /\ Len(records) \in Nat /\ records'[Len(records) + 1] = r
    BY <1>1, <1>2
  <2> QED
    BY <2>1, <2>2
<1> HIDE DEF paid, P, r
<1>6. SenderPays
  <2> SUFFICES ASSUME NEW id \in DOMAIN accounts, accounts'[id].balance < accounts[id].balance, id # txid.payer
               PROVE  \/ evm_address(id, accounts[id]) = tx.from
                      \/ At(db, evm_address(id, accounts[id])).code
    BY <1>1, <1>5 DEF SenderPays
  <2>1. P[id].balance >= accounts[id].balance /\ P[id].balance \in Int /\ accounts[id].balance \in Int
    BY <1>2, <1>3, <1>4 DEF Shape, Account
  <2>2. accounts'[id].balance \in Int
    <3>1. DOMAIN accounts \subseteq DOMAIN accounts'
      <4>1. PICK before, after, source, hollow, created, news :
              Executed(P, tx, ok, before, after, source, hollow, created, news)
        BY <1>1, <1>3, ExecuteIs DEF EInv, Base
      <4>2. ReadBack(P, tx, ok, after, source, news)
        BY <1>3, <4>1, ReadBackIs DEF EInv, Base
      <4> QED
        BY <4>2 DEF ReadBack
    <3>2. accounts' \in [DOMAIN accounts' -> Account]
      BY DEF EInv, Base, Shape
    <3> QED
      BY <3>1, <3>2 DEF Account
  <2>3. accounts'[id].balance < P[id].balance
    BY <2>1, <2>2
  <2> QED
    BY <1>7, <2>3, ExecutionTakes
<1>8. NoncesGrow
  BY <1>1, <1>7, ExecutionCounts DEF NoncesGrow
<1> QED
  BY <1>6, <1>8

LEMMA EvmNextActs ==
    ASSUME AInv, EvmNext PROVE SenderPays /\ NoncesGrow
<1> SUFFICES ASSUME Uncrossed' PROVE SenderPays /\ NoncesGrow
  BY DEF SenderPays, NoncesGrow
<1>0. EInv /\ Apart /\ Supplied /\ EInv' /\ Apart'
  BY EvmNextAInv, AInvApart DEF AInv
<1>1. ASSUME sender' = NoSender PROVE SenderPays /\ NoncesGrow
  BY <1>1 DEF SenderPays, NoncesGrow
<1>2. ASSUME NEW tx \in Txs, NEW ok \in BOOLEAN, Send(tx, ok) PROVE SenderPays /\ NoncesGrow
  BY <1>0, <1>2, SendActs
<1>3. ASSUME NEW txid \in TxIds, NEW tx \in Txs, NEW ok \in BOOLEAN, ApplyEthereum(txid, tx, ok)
      PROVE  SenderPays /\ NoncesGrow
  BY <1>0, <1>3, EthereumActs
<1>4. CASE SyncOnly \/ Hapi
  BY <1>1, <1>4 DEF SyncOnly, Hapi
<1>5. ASSUME NEW txid \in TxIds, NEW tx \in Txs, ApplyEthereumRefused(txid, tx) PROVE SenderPays /\ NoncesGrow
  BY <1>1, <1>5 DEF ApplyEthereumRefused
<1>6. ASSUME NEW address \in CheatTargets, NEW balance \in CheatBalances, set_balance(address, balance)
      PROVE  SenderPays /\ NoncesGrow
  BY <1>1, <1>6 DEF set_balance, Cheat
<1>7. ASSUME NEW address \in CheatTargets, set_code(address) PROVE SenderPays /\ NoncesGrow
  BY <1>1, <1>7 DEF set_code, Cheat
<1>8. ASSUME NEW address \in CheatTargets, NEW nonce \in CheatNonces, set_nonce(address, nonce)
      PROVE  SenderPays /\ NoncesGrow
  BY <1>1, <1>8 DEF set_nonce, Cheat
<1> QED
  BY <1>2, <1>3, <1>4, <1>5, <1>6, <1>7, <1>8 DEF EvmNext

(* Until an address is taken for two things an EVM transaction takes its   *)
(* sender's tinybar and uses up its sender's nonce, no one else's          *)
(* (execute_and_mine).                                                     *)
THEOREM EvmSenderActs == EvmSpec => OnlyTheSenderActs
<1>1. AInv /\ [EvmNext]_allVars => AInv'
  BY EvmNextAInv
<1>2. AInv /\ [EvmNext]_allVars => [SenderPays]_allVars /\ [NoncesGrow]_allVars
  BY EvmNextActs
<1>3. EvmSpec => [][SenderPays]_allVars /\ [][NoncesGrow]_allVars
  BY <1>1, <1>2, EvmInitAInv, PTL DEF EvmSpec
<1> QED
  BY <1>3, Zenon DEF OnlyTheSenderActs, OnlyTheSenderPays, NoncesNeverBack, SenderPays, NoncesGrow
=============================================================================
