---------------------------- MODULE SumTheorems ----------------------------
(***************************************************************************)
(* Sums of functions over finite sets: what the models count in stock,     *)
(* revenue and payments.  The sum is defined by recursion on the set with  *)
(* an arbitrary choice of the next element; these lemmas show that the     *)
(* choice does not matter and how the sum changes with its set and its     *)
(* function.                                                               *)
(***************************************************************************)
EXTENDS Integers, Functions, FiniteSetsExt, FiniteSetTheorems, WellFoundedInduction, TLAPS

(* Induction over the naturals and over the subsets of a finite set, with  *)
(* a set in place of the predicate.                                        *)
LEMMA NatInduces ==
  ASSUME NEW T, 0 \in T, \A n \in Nat : n \in T => n + 1 \in T
  PROVE  Nat \subseteq T
<1> SUFFICES ASSUME Nat \ T # {} PROVE FALSE
  OBVIOUS
<1>1. PICK n \in Nat \ T : \A m \in Nat \ T : ~(<<m, n>> \in OpToRel(<, Nat))
  BY NatLessThanWellFounded, WFMin, (Nat \ T) \subseteq Nat, Zenon
<1>2. \A m \in Nat \ T : ~(m < n)
  BY <1>1 DEF OpToRel
<1>3. n # 0 /\ n - 1 \in Nat
  OBVIOUS
<1>4. n - 1 \in T
  BY <1>2, <1>3
<1>5. QED
  BY <1>3, <1>4

(* A set that contains the empty set, and every subset of S all of whose   *)
(* proper parts by one element it contains, contains all subsets of S.     *)
LEMMA SubsetsInduce ==
  ASSUME NEW S, IsFiniteSet(S), NEW C, {} \in C,
         \A T \in SUBSET S : T # {} /\ (\A x \in T : T \ {x} \in C) => T \in C
  PROVE  SUBSET S \subseteq C
<1> DEFINE N == {n \in Nat : \A T \in SUBSET S : Cardinality(T) = n => T \in C}
<1>1. \A T \in SUBSET S : IsFiniteSet(T) /\ Cardinality(T) \in Nat
  BY FS_Subset, FS_CardinalityType
<1>2. 0 \in N
  BY <1>1, FS_EmptySet
<1>3. ASSUME NEW n \in Nat, n \in N PROVE n + 1 \in N
  <2> SUFFICES ASSUME NEW T \in SUBSET S, Cardinality(T) = n + 1 PROVE T \in C
    OBVIOUS
  <2>1. IsFiniteSet(T) /\ T # {}
    BY <1>1, FS_EmptySet
  <2>2. ASSUME NEW x \in T PROVE T \ {x} \in C
    <3>1. Cardinality(T \ {x}) = Cardinality(T) - 1
      BY <2>1, FS_RemoveElement, Zenon
    <3>2. Cardinality(T \ {x}) = n
      BY <3>1
    <3>3. QED
      BY <1>3, <3>2
  <2>3. QED
    BY <2>1, <2>2
<1>4. Nat \subseteq N
  <2> HIDE DEF N
  <2>1. QED
    BY <1>2, <1>3, NatInduces
<1>5. QED
  BY <1>1, <1>4

-----------------------------------------------------------------------------
(* The recursive function behind a sum of f over S.                        *)
Chosen(T) == CHOOSE x \in T : TRUE
Part(g, f, T) == IF T = {} THEN 0 ELSE f[Chosen(T)] + g[T \ {Chosen(T)}]
Adds(g, f, S) == g = [T \in SUBSET S |-> Part(g, f, T)]

(* The element taken out first is one of the set.                          *)
LEMMA ChosenElement == ASSUME NEW T, T # {} PROVE Chosen(T) \in T
BY DEF Chosen

(* It exists: it is built up from the subsets with few elements.           *)
LEMMA AddsExists ==
  ASSUME NEW S, IsFiniteSet(S), NEW f
  PROVE  \E g : Adds(g, f, S)
<1> DEFINE Small(n) == {T \in SUBSET S : Cardinality(T) <= n}
           Upto(n) == \E g : DOMAIN g = Small(n) /\ \A T \in Small(n) : g[T] = Part(g, f, T)
           N == {n \in Nat : Upto(n)}
<1>1. \A T \in SUBSET S : IsFiniteSet(T) /\ Cardinality(T) \in Nat
  BY FS_Subset, FS_CardinalityType
<1>2. Upto(0)
  <2> DEFINE g == [T \in Small(0) |-> 0]
  <2>1. \A T \in Small(0) : T = {}
    BY <1>1, FS_EmptySet
  <2>2. \A T \in Small(0) : g[T] = Part(g, f, T)
    BY <2>1 DEF Part
  <2>3. DOMAIN g = Small(0)
    OBVIOUS
  <2>4. QED
    BY <2>2, <2>3
<1>3. ASSUME NEW n \in Nat, Upto(n) PROVE Upto(n + 1)
  <2>1. PICK g : DOMAIN g = Small(n) /\ \A T \in Small(n) : g[T] = Part(g, f, T)
    BY <1>3
  <2> DEFINE h == [T \in Small(n + 1) |-> Part(g, f, T)]
  <2>2. ASSUME NEW T \in Small(n + 1), T # {} PROVE h[T \ {Chosen(T)}] = g[T \ {Chosen(T)}]
    <3>1. Chosen(T) \in T /\ IsFiniteSet(T)
      BY <2>2, <1>1, ChosenElement
    <3>2. Cardinality(T \ {Chosen(T)}) = Cardinality(T) - 1
      BY <3>1, FS_RemoveElement, Zenon
    <3>3. T \ {Chosen(T)} \in Small(n) /\ T \ {Chosen(T)} \in Small(n + 1)
      BY <3>2, <1>1
    <3>4. QED
      BY <2>1, <3>3
  <2>3. \A T \in Small(n + 1) : h[T] = Part(h, f, T)
    BY <2>2 DEF Part
  <2>4. DOMAIN h = Small(n + 1)
    OBVIOUS
  <2> HIDE DEF h, Small
  <2>5. QED
    BY <2>3, <2>4
<1>4. Nat \subseteq N
  <2> HIDE DEF Upto
  <2>1. 0 \in N /\ \A n \in Nat : n \in N => n + 1 \in N
    BY <1>2, <1>3
  <2> HIDE DEF N
  <2>2. QED
    BY <2>1, NatInduces
<1>5. Upto(Cardinality(S))
  BY <1>1, <1>4
<1>6. PICK g : DOMAIN g = Small(Cardinality(S)) /\ \A T \in Small(Cardinality(S)) : g[T] = Part(g, f, T)
  BY <1>5
<1>7. Small(Cardinality(S)) = SUBSET S
  BY FS_Subset
<1> DEFINE h == [T \in SUBSET S |-> Part(g, f, T)]
<1>8. \A T \in SUBSET S : T # {} => h[T \ {Chosen(T)}] = g[T \ {Chosen(T)}]
  BY <1>6, <1>7
<1>9. h = [T \in SUBSET S |-> Part(h, f, T)]
  BY <1>8 DEF Part
<1>10. Adds(h, f, S)
  BY <1>9 DEF Adds
<1> QED
  BY <1>10

(* The sum is its value at the whole set.                                  *)
LEMMA SumAdds ==
  ASSUME NEW S, IsFiniteSet(S), NEW f
  PROVE  \E g : Adds(g, f, S) /\ SumFunctionOnSet(f, S) = g[S]
<1> DEFINE g == CHOOSE h : Adds(h, f, S)
<1>1. Adds(g, f, S)
  BY AddsExists, Zenon
<1>2. SumFunctionOnSet(f, S) = g[S]
  BY DEF SumFunctionOnSet, FoldFunctionOnSet, MapThenFoldSet, Adds, Part, Chosen
<1>3. QED
  BY <1>1, <1>2

(* Two such functions agree wherever both are defined and the summed       *)
(* functions agree.                                                        *)
LEMMA AddsAgree ==
  ASSUME NEW S, IsFiniteSet(S), NEW f, NEW g, NEW h, NEW e, NEW R, S \subseteq R,
         Adds(g, f, R), Adds(h, e, S), \A x \in S : f[x] = e[x]
  PROVE  g[S] = h[S]
<1> DEFINE C == {T \in SUBSET S : g[T] = h[T]}
<1>1. \A T \in SUBSET S : g[T] = Part(g, f, T) /\ h[T] = Part(h, e, T)
  BY DEF Adds
<1>2. {} \in C
  BY <1>1 DEF Part
<1>3. ASSUME NEW T \in SUBSET S, T # {}, \A x \in T : T \ {x} \in C PROVE T \in C
  BY <1>1, <1>3, ChosenElement DEF Part
<1> HIDE DEF C
<1>4. SUBSET S \subseteq C
  BY <1>2, <1>3, SubsetsInduce
<1>5. QED
  BY <1>4 DEF C

-----------------------------------------------------------------------------
(* The sum over no element is zero.                                        *)
LEMMA SumEmpty == ASSUME NEW f PROVE SumFunctionOnSet(f, {}) = 0
<1>1. PICK g : Adds(g, f, {}) /\ SumFunctionOnSet(f, {}) = g[{}]
  BY SumAdds, FS_EmptySet
<1>2. QED
  BY <1>1 DEF Adds, Part

(* Functions that agree on a set have the same sum over it.                *)
LEMMA SumSame ==
  ASSUME NEW S, IsFiniteSet(S), NEW f, NEW e, \A x \in S : f[x] = e[x]
  PROVE  SumFunctionOnSet(f, S) = SumFunctionOnSet(e, S)
<1>1. PICK g : Adds(g, f, S) /\ SumFunctionOnSet(f, S) = g[S]
  BY SumAdds
<1>2. PICK h : Adds(h, e, S) /\ SumFunctionOnSet(e, S) = h[S]
  BY SumAdds
<1>3. QED
  BY <1>1, <1>2, AddsAgree

(* The element the recursion takes out first.                              *)
LEMMA SumTakesOut ==
  ASSUME NEW S, IsFiniteSet(S), S # {}, NEW f
  PROVE  SumFunctionOnSet(f, S) = f[Chosen(S)] + SumFunctionOnSet(f, S \ {Chosen(S)})
<1>1. PICK g : Adds(g, f, S) /\ SumFunctionOnSet(f, S) = g[S]
  BY SumAdds
<1> DEFINE T == S \ {Chosen(S)}
<1>2. IsFiniteSet(T) /\ T \subseteq S
  BY FS_Subset
<1>3. PICK h : Adds(h, f, T) /\ SumFunctionOnSet(f, T) = h[T]
  BY <1>2, SumAdds
<1>4. g[T] = h[T]
  BY <1>1, <1>2, <1>3, AddsAgree
<1>5. g[S] = f[Chosen(S)] + g[T]
  BY <1>1 DEF Adds, Part
<1>6. QED
  BY <1>1, <1>3, <1>4, <1>5

(* A sum of integers is an integer.                                        *)
LEMMA SumInt ==
  ASSUME NEW S, IsFiniteSet(S), NEW f, \A x \in S : f[x] \in Int
  PROVE  SumFunctionOnSet(f, S) \in Int
<1> DEFINE C == {T \in SUBSET S : SumFunctionOnSet(f, T) \in Int}
<1>1. {} \in C
  BY SumEmpty
<1>2. ASSUME NEW T \in SUBSET S, T # {}, \A x \in T : T \ {x} \in C PROVE T \in C
  <2>1. IsFiniteSet(T) /\ Chosen(T) \in T
    BY <1>2, FS_Subset, ChosenElement
  <2>2. SumFunctionOnSet(f, T) = f[Chosen(T)] + SumFunctionOnSet(f, T \ {Chosen(T)})
    BY <1>2, <2>1, SumTakesOut
  <2>3. QED
    BY <1>2, <2>1, <2>2
<1> HIDE DEF C
<1>3. SUBSET S \subseteq C
  BY <1>1, <1>2, SubsetsInduce
<1>4. QED
  BY <1>3 DEF C

(* Any element may be taken out first: the order does not matter.          *)
LEMMA SumRemove ==
  ASSUME NEW S, IsFiniteSet(S), NEW f, \A x \in S : f[x] \in Int, NEW a \in S
  PROVE  SumFunctionOnSet(f, S) = f[a] + SumFunctionOnSet(f, S \ {a})
<1> DEFINE Splits(T) == \A x \in T :
             SumFunctionOnSet(f, T) = f[x] + SumFunctionOnSet(f, T \ {x})
           C == {T \in SUBSET S : Splits(T)}
<1>1. \A T \in SUBSET S : IsFiniteSet(T) /\ SumFunctionOnSet(f, T) \in Int
  BY FS_Subset, SumInt
<1>2. {} \in C
  OBVIOUS
<1>3. ASSUME NEW T \in SUBSET S, T # {}, \A x \in T : T \ {x} \in C PROVE T \in C
  <2>1. ASSUME NEW x \in T
        PROVE  SumFunctionOnSet(f, T) = f[x] + SumFunctionOnSet(f, T \ {x})
    <3> DEFINE c == Chosen(T)
    <3>1. c \in T /\ SumFunctionOnSet(f, T) = f[c] + SumFunctionOnSet(f, T \ {c})
      BY <1>1, <1>3, ChosenElement, SumTakesOut
    <3> HIDE DEF c
    <3>2. CASE x = c
      BY <3>1, <3>2
    <3>3. CASE x # c
      <4>1. Splits(T \ {c}) /\ Splits(T \ {x})
        BY <1>3, <3>1
      <4> DEFINE rest == SumFunctionOnSet(f, (T \ {c}) \ {x})
      <4>2. SumFunctionOnSet(f, T \ {c}) = f[x] + rest
        BY <3>3, <4>1
      <4>3. (T \ {c}) \ {x} = (T \ {x}) \ {c}
        OBVIOUS
      <4>4. SumFunctionOnSet(f, T \ {x}) = f[c] + rest
        BY <3>1, <3>3, <4>1, <4>3
      <4>5. rest \in Int /\ f[x] \in Int /\ f[c] \in Int
        BY <1>1, <3>1
      <4> HIDE DEF rest
      <4>6. f[c] + (f[x] + rest) = f[x] + (f[c] + rest)
        BY <4>5
      <4>7. QED
        BY <3>1, <4>2, <4>4, <4>6, Zenon
    <3>4. QED
      BY <3>2, <3>3
  <2>2. QED
    BY <2>1
<1>4. SUBSET S \subseteq C
  <2> HIDE DEF C
  <2>1. QED
    BY <1>2, <1>3, SubsetsInduce
<1>5. Splits(S)
  BY <1>4
<1>6. QED
  BY <1>5

(* A new element adds its value.                                           *)
LEMMA SumAdd ==
  ASSUME NEW S, IsFiniteSet(S), NEW f, NEW a, a \notin S, \A x \in S \cup {a} : f[x] \in Int
  PROVE  SumFunctionOnSet(f, S \cup {a}) = SumFunctionOnSet(f, S) + f[a]
<1>1. IsFiniteSet(S \cup {a})
  BY FS_AddElement
<1>2. SumFunctionOnSet(f, (S \cup {a}) \ {a}) = SumFunctionOnSet(f, S)
  <2>1. (S \cup {a}) \ {a} = S
    OBVIOUS
  <2>2. QED
    BY <2>1, Zenon
<1>3. SumFunctionOnSet(f, S \cup {a}) = f[a] + SumFunctionOnSet(f, (S \cup {a}) \ {a})
  BY <1>1, SumRemove
<1>4. SumFunctionOnSet(f, S) \in Int /\ f[a] \in Int
  BY SumInt
<1>5. QED
  BY <1>2, <1>3, <1>4

(* What an element adds to the sum over a set. *)
Share(f, S, a) == IF a \in S THEN f[a] ELSE 0

(* When one element changes its value, enters or leaves the set, the sum   *)
(* changes by just that.                                                   *)
LEMMA SumMoves ==
  ASSUME NEW S, NEW T, IsFiniteSet(S), IsFiniteSet(T), NEW f, NEW e, NEW a,
         S \ {a} = T \ {a}, \A x \in S \ {a} : f[x] = e[x],
         \A x \in S : f[x] \in Int, \A x \in T : e[x] \in Int
  PROVE  SumFunctionOnSet(e, T)
           = SumFunctionOnSet(f, S) - Share(f, S, a) + Share(e, T, a)
<1> DEFINE rest == SumFunctionOnSet(f, S \ {a})
<1>1. IsFiniteSet(S \ {a}) /\ \A x \in S \ {a} : f[x] \in Int
  BY FS_Subset
<1>2. rest \in Int
  BY <1>1, SumInt
<1>3. SumFunctionOnSet(e, T \ {a}) = rest
  BY <1>1, SumSame
<1>4. SumFunctionOnSet(f, S) = Share(f, S, a) + rest
  <2>1. CASE a \in S
    BY <2>1, SumRemove DEF Share
  <2>2. CASE a \notin S
    <3>1. S \ {a} = S /\ Share(f, S, a) = 0
      BY <2>2 DEF Share
    <3>2. SumFunctionOnSet(f, S) = rest
      BY <3>1, Zenon
    <3> HIDE DEF rest
    <3>3. QED
      BY <1>2, <3>1, <3>2
  <2>3. QED
    BY <2>1, <2>2
<1>5. SumFunctionOnSet(e, T) = Share(e, T, a) + rest
  <2>1. CASE a \in T
    BY <1>3, <2>1, SumRemove DEF Share
  <2>2. CASE a \notin T
    <3>1. T \ {a} = T /\ Share(e, T, a) = 0
      BY <2>2 DEF Share
    <3>2. SumFunctionOnSet(e, T) = rest
      BY <1>3, <3>1, Zenon
    <3> HIDE DEF rest
    <3>3. QED
      BY <1>2, <3>1, <3>2
  <2>3. QED
    BY <2>1, <2>2
<1>6. Share(f, S, a) \in Int /\ Share(e, T, a) \in Int
  BY DEF Share
<1> HIDE DEF rest
<1>7. QED
  BY <1>2, <1>4, <1>5, <1>6

(* The sum over two sets without a common element is the sum of the sums.  *)
LEMMA SumUnion ==
  ASSUME NEW S, NEW T, IsFiniteSet(S), IsFiniteSet(T), S \cap T = {},
         NEW f, \A x \in S \cup T : f[x] \in Int
  PROVE  SumFunctionOnSet(f, S \cup T) = SumFunctionOnSet(f, S) + SumFunctionOnSet(f, T)
<1> DEFINE C == {U \in SUBSET T : SumFunctionOnSet(f, S \cup U)
                                    = SumFunctionOnSet(f, S) + SumFunctionOnSet(f, U)}
<1>1. \A U \in SUBSET T : /\ IsFiniteSet(U) /\ IsFiniteSet(S \cup U)
                          /\ SumFunctionOnSet(f, U) \in Int
  BY FS_Subset, FS_Union, SumInt
<1>2. SumFunctionOnSet(f, S) \in Int
  BY SumInt
<1>3. {} \in C
  <2>1. S \cup {} = S
    OBVIOUS
  <2>2. QED
    BY <1>2, <2>1, SumEmpty
<1>4. ASSUME NEW U \in SUBSET T, U # {}, \A x \in U : U \ {x} \in C PROVE U \in C
  <2>1. PICK a \in U : TRUE
    BY <1>4
  <2>2. SumFunctionOnSet(f, U) = f[a] + SumFunctionOnSet(f, U \ {a})
    BY <1>1, SumRemove
  <2>3. SumFunctionOnSet(f, S \cup U) = f[a] + SumFunctionOnSet(f, (S \cup U) \ {a})
    BY <1>1, SumRemove
  <2>4. SumFunctionOnSet(f, S \cup (U \ {a})) = SumFunctionOnSet(f, S) + SumFunctionOnSet(f, U \ {a})
    BY <1>4
  <2>5. SumFunctionOnSet(f, (S \cup U) \ {a}) = SumFunctionOnSet(f, S) + SumFunctionOnSet(f, U \ {a})
    <3>1. (S \cup U) \ {a} = S \cup (U \ {a})
      OBVIOUS
    <3>2. QED
      BY <2>4, <3>1, Zenon
  <2>6. SumFunctionOnSet(f, U \ {a}) \in Int /\ f[a] \in Int
    BY <1>1
  <2>7. SumFunctionOnSet(f, S \cup U) = SumFunctionOnSet(f, S) + SumFunctionOnSet(f, U)
    BY <1>2, <2>2, <2>3, <2>5, <2>6
  <2>8. QED
    BY <2>7
<1> HIDE DEF C
<1>5. SUBSET T \subseteq C
  BY <1>3, <1>4, SubsetsInduce
<1>6. QED
  BY <1>5 DEF C

(* A larger function has a larger sum.                                     *)
LEMMA SumGrows ==
  ASSUME NEW S, IsFiniteSet(S), NEW f, NEW e,
         \A x \in S : f[x] \in Int /\ e[x] \in Int /\ f[x] <= e[x]
  PROVE  SumFunctionOnSet(f, S) <= SumFunctionOnSet(e, S)
<1> DEFINE C == {T \in SUBSET S : SumFunctionOnSet(f, T) <= SumFunctionOnSet(e, T)}
<1>1. \A T \in SUBSET S : /\ IsFiniteSet(T)
                          /\ SumFunctionOnSet(f, T) \in Int
                          /\ SumFunctionOnSet(e, T) \in Int
  BY FS_Subset, SumInt
<1>2. {} \in C
  BY SumEmpty
<1>3. ASSUME NEW T \in SUBSET S, T # {}, \A x \in T : T \ {x} \in C PROVE T \in C
  <2>1. PICK a \in T : TRUE
    BY <1>3
  <2>2. SumFunctionOnSet(f, T) = f[a] + SumFunctionOnSet(f, T \ {a})
    BY <1>1, SumRemove
  <2>3. SumFunctionOnSet(e, T) = e[a] + SumFunctionOnSet(e, T \ {a})
    BY <1>1, SumRemove
  <2>4. SumFunctionOnSet(f, T \ {a}) <= SumFunctionOnSet(e, T \ {a})
    BY <1>3
  <2>5. /\ SumFunctionOnSet(f, T \ {a}) \in Int /\ f[a] \in Int
        /\ SumFunctionOnSet(e, T \ {a}) \in Int /\ e[a] \in Int /\ f[a] <= e[a]
    BY <1>1
  <2>6. SumFunctionOnSet(f, T) <= SumFunctionOnSet(e, T)
    BY <2>2, <2>3, <2>4, <2>5
  <2>7. QED
    BY <2>6
<1> HIDE DEF C
<1>4. SUBSET S \subseteq C
  BY <1>2, <1>3, SubsetsInduce
<1>5. QED
  BY <1>4 DEF C

(* A sum of zeros is zero.                                                 *)
LEMMA SumZero ==
  ASSUME NEW S, IsFiniteSet(S), NEW f, \A x \in S : f[x] = 0
  PROVE  SumFunctionOnSet(f, S) = 0
<1> DEFINE zero == [x \in S |-> 0]
           C == {T \in SUBSET S : SumFunctionOnSet(f, T) = 0}
<1>1. {} \in C
  BY SumEmpty
<1>2. ASSUME NEW T \in SUBSET S, T # {}, \A x \in T : T \ {x} \in C PROVE T \in C
  <2>1. PICK a \in T : TRUE
    BY <1>2
  <2>2. IsFiniteSet(T) /\ \A x \in T : f[x] \in Int
    BY FS_Subset
  <2>3. SumFunctionOnSet(f, T) = f[a] + SumFunctionOnSet(f, T \ {a})
    BY <2>2, SumRemove
  <2>4. QED
    BY <1>2, <2>3
<1> HIDE DEF C
<1>3. SUBSET S \subseteq C
  BY <1>1, <1>2, SubsetsInduce
<1>4. QED
  BY <1>3 DEF C

(* A sum of naturals is a natural.                                         *)
LEMMA SumNat ==
  ASSUME NEW S, IsFiniteSet(S), NEW f, \A x \in S : f[x] \in Nat
  PROVE  SumFunctionOnSet(f, S) \in Nat
<1> DEFINE zero == [x \in S |-> 0]
<1>1. SumFunctionOnSet(zero, S) = 0
  BY SumZero
<1>2. SumFunctionOnSet(zero, S) <= SumFunctionOnSet(f, S)
  <2>1. \A x \in S : zero[x] \in Int /\ f[x] \in Int /\ zero[x] <= f[x]
    OBVIOUS
  <2> HIDE DEF zero
  <2>2. QED
    BY <2>1, SumGrows
<1>3. SumFunctionOnSet(f, S) \in Int
  BY SumInt
<1> HIDE DEF zero
<1>4. QED
  BY <1>1, <1>2, <1>3

(* Fewer elements of natural values have a smaller sum.                    *)
LEMMA SumSubset ==
  ASSUME NEW S, IsFiniteSet(S), NEW T \in SUBSET S, NEW f, \A x \in S : f[x] \in Nat
  PROVE  SumFunctionOnSet(f, T) <= SumFunctionOnSet(f, S)
<1>1. IsFiniteSet(T) /\ IsFiniteSet(S \ T)
  BY FS_Subset
<1>2. SumFunctionOnSet(f, T \cup (S \ T)) = SumFunctionOnSet(f, T) + SumFunctionOnSet(f, S \ T)
  BY <1>1, SumUnion
<1>3. SumFunctionOnSet(f, S) = SumFunctionOnSet(f, T) + SumFunctionOnSet(f, S \ T)
  <2>1. T \cup (S \ T) = S
    OBVIOUS
  <2>2. QED
    BY <1>2, <2>1, Zenon
<1>4. SumFunctionOnSet(f, T) \in Nat /\ SumFunctionOnSet(f, S \ T) \in Nat
  BY <1>1, SumNat
<1>5. QED
  BY <1>3, <1>4

(* The sum of two functions is the sum of their sums.                      *)
LEMMA SumPlus ==
  ASSUME NEW S, IsFiniteSet(S), NEW f, NEW e, NEW h,
         \A x \in S : f[x] \in Int /\ e[x] \in Int /\ h[x] = f[x] + e[x]
  PROVE  SumFunctionOnSet(h, S) = SumFunctionOnSet(f, S) + SumFunctionOnSet(e, S)
<1> DEFINE C == {T \in SUBSET S : SumFunctionOnSet(h, T)
                                    = SumFunctionOnSet(f, T) + SumFunctionOnSet(e, T)}
<1>1. \A T \in SUBSET S : /\ IsFiniteSet(T)
                          /\ SumFunctionOnSet(f, T) \in Int
                          /\ SumFunctionOnSet(e, T) \in Int
  BY FS_Subset, SumInt
<1>2. {} \in C
  BY SumEmpty
<1>3. ASSUME NEW T \in SUBSET S, T # {}, \A x \in T : T \ {x} \in C PROVE T \in C
  <2>1. PICK a \in T : TRUE
    BY <1>3
  <2>2. SumFunctionOnSet(f, T) = f[a] + SumFunctionOnSet(f, T \ {a})
    BY <1>1, SumRemove
  <2>3. SumFunctionOnSet(e, T) = e[a] + SumFunctionOnSet(e, T \ {a})
    BY <1>1, SumRemove
  <2>4. SumFunctionOnSet(h, T) = h[a] + SumFunctionOnSet(h, T \ {a})
    <3>1. \A x \in T : h[x] \in Int
      OBVIOUS
    <3>2. QED
      BY <1>1, <3>1, SumRemove
  <2>5. SumFunctionOnSet(h, T \ {a}) = SumFunctionOnSet(f, T \ {a}) + SumFunctionOnSet(e, T \ {a})
    BY <1>3
  <2>6. /\ SumFunctionOnSet(f, T \ {a}) \in Int /\ f[a] \in Int
        /\ SumFunctionOnSet(e, T \ {a}) \in Int /\ e[a] \in Int /\ h[a] = f[a] + e[a]
    BY <1>1
  <2>7. SumFunctionOnSet(h, T) = SumFunctionOnSet(f, T) + SumFunctionOnSet(e, T)
    BY <2>2, <2>3, <2>4, <2>5, <2>6
  <2>8. QED
    BY <2>7
<1> HIDE DEF C
<1>4. SUBSET S \subseteq C
  BY <1>2, <1>3, SubsetsInduce
<1>5. QED
  BY <1>4 DEF C

(* A finite set of naturals has a greatest member.                         *)
LEMMA GreatestMember ==
  ASSUME NEW n \in Nat, NEW S \in SUBSET (1..n), S # {}
  PROVE  Max(S) \in S /\ \A y \in S : y <= Max(S)
<1> DEFINE T == {m \in Nat : \A U \in SUBSET (1..m) : U # {} => \E x \in U : \A y \in U : x >= y}
<1>1. 0 \in T
  <2>1. 1..0 = {}
    OBVIOUS
  <2>2. QED
    BY <2>1, Zenon
<1>2. ASSUME NEW m \in Nat, m \in T PROVE m + 1 \in T
  <2> SUFFICES ASSUME NEW U \in SUBSET (1..(m + 1)), U # {}
               PROVE  \E x \in U : \A y \in U : x >= y
    OBVIOUS
  <2>1. CASE m + 1 \in U
    BY <2>1
  <2>2. CASE m + 1 \notin U
    <3>1. U \in SUBSET (1..m)
      BY <2>2
    <3>2. QED
      BY <1>2, <3>1
  <2>3. QED
    BY <2>1, <2>2
<1> HIDE DEF T
<1>3. n \in T
  BY <1>1, <1>2, NatInduces
<1>4. \E x \in S : \A y \in S : x >= y
  BY <1>3 DEF T
<1>5. Max(S) \in S /\ \A y \in S : Max(S) >= y
  BY <1>4 DEF Max
<1>6. QED
  BY <1>5
=============================================================================
