------------------------------- MODULE Sums --------------------------------
(***************************************************************************)
(* Sums over finite sets are folds, that is, values of a recursive         *)
(* function on the subsets of the set summed over.  Total is the sum of    *)
(* the values of a function; what follows is what a sum can be relied on   *)
(* to do, whatever the order in which it is formed.  At the end, what      *)
(* finite sets have in the way of least, last and sorted members.          *)
(***************************************************************************)
EXTENDS Integers, FiniteSetsExt, Functions, FiniteSetTheorems,
        SequenceTheorems, WellFoundedInduction, TLAPS

OneOf(s) == CHOOSE x \in s : TRUE

IsSum(f, g) ==
  g = [s \in SUBSET DOMAIN f |-> IF s = {} THEN 0 ELSE f[OneOf(s)] + g[s \ {OneOf(s)}]]

Total(f) == (CHOOSE g : IsSum(f, g))[DOMAIN f]

(* Induction over numbers, in the form of a set that grows.                *)
LEMMA EveryNumber ==
  ASSUME NEW S, 0 \in S, \A n \in Nat : n \in S => n + 1 \in S
  PROVE  Nat \subseteq S
<1> SUFFICES ASSUME Nat \ S # {} PROVE FALSE
  OBVIOUS
<1>1. \E x \in Nat \ S : \A y \in Nat \ S : ~(<<y, x>> \in OpToRel(<, Nat))
  BY NatLessThanWellFounded, WFMin
<1>2. PICK x \in Nat \ S : \A y \in Nat \ S : ~(<<y, x>> \in OpToRel(<, Nat))
  BY <1>1
<1>3. \A y \in Nat : y < x => <<y, x>> \in OpToRel(<, Nat)
  BY DEF OpToRel
<1>4. x # 0 /\ x \in Nat
  OBVIOUS
<1>5. x - 1 \in Nat /\ x - 1 < x
  BY <1>4
<1>6. x - 1 \in S
  BY <1>2, <1>3, <1>5
<1> QED BY <1>4, <1>5, <1>6

(* Subsets of a finite set, from the smaller to the larger.                *)
LEMMA EverySubset ==
  ASSUME NEW D, IsFiniteSet(D), NEW Good,
         \A T \in SUBSET D : (\A x \in T : T \ {x} \in Good) => T \in Good
  PROVE  SUBSET D \subseteq Good
<1> DEFINE S == {n \in Nat : \A T \in SUBSET D : Cardinality(T) = n => T \in Good}
<1>1. \A T \in SUBSET D : IsFiniteSet(T) /\ Cardinality(T) \in Nat
  BY FS_Subset, FS_CardinalityType
<1>2. 0 \in S
  <2> SUFFICES ASSUME NEW T \in SUBSET D, Cardinality(T) = 0 PROVE T \in Good
    OBVIOUS
  <2>1. T = {}
    BY <1>1, FS_EmptySet
  <2> QED BY <2>1
<1>3. ASSUME NEW n \in Nat, n \in S PROVE n + 1 \in S
  <2> SUFFICES ASSUME NEW T \in SUBSET D, Cardinality(T) = n + 1 PROVE T \in Good
    OBVIOUS
  <2>1. ASSUME NEW x \in T PROVE T \ {x} \in Good
    <3>1. Cardinality(T \ {x}) = Cardinality(T) - 1
      BY <1>1, FS_RemoveElement
    <3>2. T \ {x} \in SUBSET D /\ Cardinality(T \ {x}) = n
      BY <3>1
    <3> QED BY <1>3, <3>2
  <2> QED BY <2>1
<1>4. Nat \subseteq S
  <2> HIDE DEF S
  <2> QED BY <1>2, <1>3, EveryNumber
<1> QED BY <1>1, <1>4

(* The recursion has a solution.                                           *)
LEMMA SumExists ==
  ASSUME NEW D, IsFiniteSet(D), NEW f \in [D -> Int]
  PROVE  \E g : IsSum(f, g)
<1> DEFINE Small(n) == {u \in SUBSET D : Cardinality(u) <= n}
           Upto(n, g) == g = [s \in Small(n) |-> IF s = {} THEN 0 ELSE f[OneOf(s)] + g[s \ {OneOf(s)}]]
           S == {n \in Nat : \E g : Upto(n, g)}
<1>1. \A T \in SUBSET D : IsFiniteSet(T) /\ Cardinality(T) \in Nat
  BY FS_Subset, FS_CardinalityType
<1>2. 0 \in S
  <2> DEFINE g == [s \in Small(0) |-> 0]
  <2>1. \A s \in Small(0) : s = {}
    BY <1>1, FS_EmptySet
  <2>2. Upto(0, g)
    BY <2>1
  <2> QED BY <2>2
<1>3. ASSUME NEW n \in Nat, n \in S PROVE n + 1 \in S
  <2>1. PICK g : Upto(n, g)
    BY <1>3
  <2> DEFINE h == [s \in Small(n + 1) |-> IF s = {} THEN 0 ELSE f[OneOf(s)] + g[s \ {OneOf(s)}]]
  <2>2. \A s \in Small(n) : s \in Small(n + 1) /\ h[s] = g[s]
    <3>1. \A s \in Small(n) : s \in Small(n + 1)
      BY <1>1
    <3>2. \A s \in Small(n) : g[s] = IF s = {} THEN 0 ELSE f[OneOf(s)] + g[s \ {OneOf(s)}]
      BY <2>1
    <3> QED BY <3>1, <3>2
  <2>3. ASSUME NEW s \in Small(n + 1), s # {} PROVE s \ {OneOf(s)} \in Small(n)
    <3>1. OneOf(s) \in s
      BY <2>3 DEF OneOf
    <3>2. Cardinality(s \ {OneOf(s)}) = Cardinality(s) - 1
      BY <1>1, <3>1, FS_RemoveElement
    <3> QED BY <1>1, <3>2
  <2>4. h = [s \in Small(n + 1) |-> IF s = {} THEN 0 ELSE f[OneOf(s)] + h[s \ {OneOf(s)}]]
    <3>1. \A s \in Small(n + 1) : s # {} => h[s \ {OneOf(s)}] = g[s \ {OneOf(s)}]
      BY <2>2, <2>3
    <3>2. \A s \in Small(n + 1) : (IF s = {} THEN 0 ELSE f[OneOf(s)] + g[s \ {OneOf(s)}])
                                  = (IF s = {} THEN 0 ELSE f[OneOf(s)] + h[s \ {OneOf(s)}])
      BY <3>1
    <3> HIDE DEF Small
    <3> QED BY <3>2
  <2>5. Upto(n + 1, h)
    BY <2>4
  <2>6. PICK k : Upto(n + 1, k)
    BY <2>5
  <2> HIDE DEF Upto, h
  <2> QED BY <2>6
<1>4. Nat \subseteq S
  <2> HIDE DEF S
  <2> QED BY <1>2, <1>3, EveryNumber
<1>5. PICK g : Upto(Cardinality(D), g)
  BY <1>1, <1>4
<1>6. Small(Cardinality(D)) = SUBSET DOMAIN f
  BY <1>1, FS_Subset
<1> QED BY <1>5, <1>6 DEF IsSum

(* A sum may be split at any element, in whatever order it is formed.      *)
LEMMA SumStep ==
  ASSUME NEW D, IsFiniteSet(D), NEW f \in [D -> Int], NEW g, IsSum(f, g)
  PROVE  \A T \in SUBSET D : /\ g[T] \in Int
                             /\ T = {} => g[T] = 0
                             /\ \A x \in T : g[T] = f[x] + g[T \ {x}]
<1> DEFINE Integer == {T \in SUBSET D : g[T] \in Int}
           Split == {T \in SUBSET D : \A x \in T : g[T] = f[x] + g[T \ {x}]}
<1>1. \A T \in SUBSET D : g[T] = IF T = {} THEN 0 ELSE f[OneOf(T)] + g[T \ {OneOf(T)}]
  BY DEF IsSum
<1>2. \A T \in SUBSET D : T # {} => OneOf(T) \in T
  BY DEF OneOf
<1>3. SUBSET D \subseteq Integer
  <2>1. ASSUME NEW T \in SUBSET D, \A x \in T : T \ {x} \in Integer PROVE T \in Integer
    <3>1. CASE T = {}
      <4>1. g[T] = 0
        BY <1>1, <3>1
      <4> QED BY <4>1
    <3>2. CASE T # {}
      <4>1. PICK y \in T : y = OneOf(T)
        BY <1>2, <3>2
      <4>2. f[y] \in Int /\ g[T \ {y}] \in Int
        BY <2>1
      <4>3. g[T] = f[y] + g[T \ {y}]
        BY <1>1, <3>2, <4>1
      <4>4. g[T] \in Int
        BY <4>2, <4>3
      <4> QED BY <4>4
    <3> QED BY <3>1, <3>2
  <2> HIDE DEF Integer
  <2> QED BY <2>1, EverySubset
<1>4. SUBSET D \subseteq Split
  <2>1. ASSUME NEW T \in SUBSET D, \A x \in T : T \ {x} \in Split,
               NEW x \in T
        PROVE  g[T] = f[x] + g[T \ {x}]
    <3>0. PICK y \in T : y = OneOf(T)
      BY <1>2
    <3>1. g[T] = f[y] + g[T \ {y}]
      BY <1>1, <3>0
    <3>2. CASE x = y
      BY <3>1, <3>2
    <3>3. CASE x # y
      <4>1. g[T \ {y}] = f[x] + g[(T \ {y}) \ {x}]
        BY <2>1, <3>3
      <4>2. g[T \ {x}] = f[y] + g[(T \ {x}) \ {y}]
        BY <2>1, <3>3
      <4>3. (T \ {y}) \ {x} = (T \ {x}) \ {y}
        OBVIOUS
      <4>4. PICK rest \in SUBSET D : rest = (T \ {x}) \ {y}
        OBVIOUS
      <4>5. g[rest] \in Int /\ f[x] \in Int /\ f[y] \in Int
        BY <1>3, <2>1
      <4>6. g[T \ {y}] = f[x] + g[rest] /\ g[T \ {x}] = f[y] + g[rest]
        BY <4>1, <4>2, <4>3, <4>4
      <4>7. g[T] = f[y] + (f[x] + g[rest])
        BY <3>1, <4>6
      <4> QED BY <4>5, <4>6, <4>7
    <3> QED BY <3>2, <3>3
  <2>2. ASSUME NEW T \in SUBSET D, \A x \in T : T \ {x} \in Split PROVE T \in Split
    BY <2>1, <2>2
  <2> HIDE DEF Split
  <2> QED BY <2>2, EverySubset
<1> QED BY <1>1, <1>3, <1>4

(* Any two solutions agree on the whole set.                               *)
LEMMA SumIsUnique ==
  ASSUME NEW D, IsFiniteSet(D), NEW f \in [D -> Int], NEW g, IsSum(f, g), NEW h, IsSum(f, h)
  PROVE  g[D] = h[D]
<1> DEFINE Good == {T \in SUBSET D : g[T] = h[T]}
<1>1. ASSUME NEW T \in SUBSET D, \A x \in T : T \ {x} \in Good PROVE g[T] = h[T]
  <2>1. CASE T = {}
    BY <2>1, SumStep
  <2>2. CASE T # {}
    <3>1. PICK x \in T : TRUE
      BY <2>2
    <3>2. g[T] = f[x] + g[T \ {x}]
      BY SumStep
    <3>3. h[T] = f[x] + h[T \ {x}]
      BY SumStep
    <3> QED BY <1>1, <3>2, <3>3
  <2> QED BY <2>1, <2>2
<1>2. \A T \in SUBSET D : (\A x \in T : T \ {x} \in Good) => T \in Good
  BY <1>1
<1>3. SUBSET D \subseteq Good
  <2> HIDE DEF Good
  <2> QED BY <1>2, EverySubset
<1> QED BY <1>3

(* So Total is the value of any of them.                                   *)
LEMMA TotalIsSum ==
  ASSUME NEW D, IsFiniteSet(D), NEW f \in [D -> Int], NEW g, IsSum(f, g)
  PROVE  Total(f) = g[D]
<1>1. IsSum(f, CHOOSE h : IsSum(f, h))
  <2>1. \E h : IsSum(f, h)
    BY SumExists
  <2> QED BY <2>1
<1>2. PICK h : h = CHOOSE k : IsSum(f, k)
  OBVIOUS
<1>3. Total(f) = h[D] /\ IsSum(f, h)
  BY <1>1, <1>2 DEF Total
<1> QED BY <1>3, SumIsUnique

Without(f, x) == [i \in DOMAIN f \ {x} |-> f[i]]

(* What a sum is, without the order in which it is formed.                 *)
LEMMA TotalStep ==
  ASSUME NEW D, IsFiniteSet(D), NEW f \in [D -> Int]
  PROVE  /\ Total(f) \in Int
         /\ D = {} => Total(f) = 0
         /\ \A x \in D : Total(f) = f[x] + Total(Without(f, x))
<1>1. PICK g : IsSum(f, g)
  BY SumExists
<1>2. Total(f) = g[D]
  BY <1>1, TotalIsSum
<1>3. ASSUME NEW x \in D PROVE Total(Without(f, x)) = g[D \ {x}]
  <2> DEFINE E == D \ {x}
             r == Without(f, x)
             h == [s \in SUBSET E |-> g[s]]
  <2>1. r \in [E -> Int] /\ DOMAIN r = E /\ IsFiniteSet(E)
    BY FS_Subset DEF Without
  <2>2. h = [s \in SUBSET E |-> IF s = {} THEN 0 ELSE r[OneOf(s)] + h[s \ {OneOf(s)}]]
    <3>1. ASSUME NEW s \in SUBSET E, s # {} PROVE g[s] = r[OneOf(s)] + h[s \ {OneOf(s)}]
      <4>1. OneOf(s) \in s
        BY <3>1 DEF OneOf
      <4>2. g[s] = f[OneOf(s)] + g[s \ {OneOf(s)}]
        BY <1>1, <3>1 DEF IsSum
      <4>3. r[OneOf(s)] = f[OneOf(s)]
        BY <4>1 DEF Without
      <4>4. h[s \ {OneOf(s)}] = g[s \ {OneOf(s)}]
        OBVIOUS
      <4> QED BY <4>2, <4>3, <4>4
    <3>2. g[{}] = 0
      BY <1>1, SumStep
    <3>3. \A s \in SUBSET E : g[s] = IF s = {} THEN 0 ELSE r[OneOf(s)] + h[s \ {OneOf(s)}]
      BY <3>1, <3>2
    <3> HIDE DEF r, E
    <3> QED BY <3>3
  <2>3. IsSum(r, h)
    <3> HIDE DEF r, h, E
    <3> QED BY <2>1, <2>2 DEF IsSum
  <2>4. Total(r) = h[E]
    <3> HIDE DEF r, h, E
    <3> QED BY <2>1, <2>3, TotalIsSum
  <2> QED BY <2>4
<1>4. /\ g[D] \in Int /\ (D = {} => g[D] = 0)
      /\ \A x \in D : g[D] = f[x] + g[D \ {x}]
  <2>1. PICK T \in SUBSET D : T = D
    OBVIOUS
  <2>2. g[T] \in Int
    BY <1>1, SumStep
  <2>3. T = {} => g[T] = 0
    BY <1>1, SumStep
  <2>4. \A x \in T : g[T] = f[x] + g[T \ {x}]
    BY <1>1, SumStep
  <2> QED BY <2>1, <2>2, <2>3, <2>4
<1> QED BY <1>2, <1>3, <1>4

(* One element more.                                                       *)
LEMMA TotalExtended ==
  ASSUME NEW D, IsFiniteSet(D), NEW x, x \notin D, NEW h \in [D \cup {x} -> Int],
         NEW f, f = [i \in D |-> h[i]]
  PROVE  Total(h) = Total(f) + h[x]
<1>1. IsFiniteSet(D \cup {x})
  BY FS_AddElement
<1>2. Without(h, x) = f
  BY DEF Without
<1>3. f \in [D -> Int] /\ h[x] \in Int
  OBVIOUS
<1>4. Total(h) = h[x] + Total(f)
  BY <1>1, <1>2, TotalStep
<1>5. Total(f) \in Int
  BY <1>3, TotalStep
<1> QED BY <1>3, <1>4, <1>5

(* One value changed.                                                      *)
LEMMA TotalChanged ==
  ASSUME NEW D, IsFiniteSet(D), NEW f \in [D -> Int], NEW h \in [D -> Int],
         NEW x \in D, \A i \in D \ {x} : h[i] = f[i]
  PROVE  Total(h) = Total(f) + (h[x] - f[x])
<1>1. Without(h, x) = Without(f, x) /\ Without(f, x) \in [D \ {x} -> Int] /\ IsFiniteSet(D \ {x})
  BY FS_Subset DEF Without
<1>2. Total(h) = h[x] + Total(Without(f, x)) /\ Total(f) = f[x] + Total(Without(f, x))
  BY <1>1, TotalStep
<1>3. Total(Without(f, x)) \in Int
  BY <1>1, TotalStep
<1>4. f[x] \in Int /\ h[x] \in Int
  OBVIOUS
<1> QED BY <1>2, <1>3, <1>4

(* The sums of two functions over the same elements.                       *)
LEMMA TotalOfDifference ==
  ASSUME NEW D, IsFiniteSet(D), NEW f \in [D -> Int], NEW h \in [D -> Int],
         NEW d, d = [i \in D |-> f[i] - h[i]]
  PROVE  Total(d) = Total(f) - Total(h)
<1> DEFINE Cut(k, T) == [i \in T |-> k[i]]
           Good == {T \in SUBSET D : Total(Cut(d, T)) = Total(Cut(f, T)) - Total(Cut(h, T))}
<1>0. d \in [D -> Int]
  OBVIOUS
<1>1. ASSUME NEW T \in SUBSET D, \A x \in T : T \ {x} \in Good PROVE T \in Good
  <2>1. /\ Cut(f, T) \in [T -> Int] /\ Cut(h, T) \in [T -> Int] /\ Cut(d, T) \in [T -> Int]
        /\ IsFiniteSet(T)
    BY <1>0, FS_Subset
  <2>2. CASE T = {}
    <3>1. Total(Cut(f, T)) = 0 /\ Total(Cut(h, T)) = 0 /\ Total(Cut(d, T)) = 0
      <4> HIDE DEF Cut
      <4> QED BY <2>1, <2>2, TotalStep
    <3> QED BY <3>1
  <2>3. CASE T # {}
    <3>1. PICK x \in T : TRUE
      BY <2>3
    <3>2. /\ Without(Cut(f, T), x) = Cut(f, T \ {x}) /\ Without(Cut(h, T), x) = Cut(h, T \ {x})
          /\ Without(Cut(d, T), x) = Cut(d, T \ {x})
      BY DEF Without
    <3>3. /\ Cut(f, T)[x] = f[x] /\ Cut(h, T)[x] = h[x] /\ Cut(d, T)[x] = f[x] - h[x]
          /\ f[x] \in Int /\ h[x] \in Int
      OBVIOUS
    <3>4. /\ Cut(f, T \ {x}) \in [T \ {x} -> Int] /\ Cut(h, T \ {x}) \in [T \ {x} -> Int]
          /\ IsFiniteSet(T \ {x})
      BY <2>1, FS_Subset
    <3>5. Total(Cut(d, T \ {x})) = Total(Cut(f, T \ {x})) - Total(Cut(h, T \ {x}))
      BY <1>1
    <3> HIDE DEF Cut
    <3>6. /\ Total(Cut(f, T)) = f[x] + Total(Cut(f, T \ {x}))
          /\ Total(Cut(h, T)) = h[x] + Total(Cut(h, T \ {x}))
          /\ Total(Cut(d, T)) = (f[x] - h[x]) + Total(Cut(d, T \ {x}))
      BY <2>1, <3>2, <3>3, TotalStep
    <3>7. Total(Cut(f, T \ {x})) \in Int /\ Total(Cut(h, T \ {x})) \in Int
      BY <3>4, TotalStep
    <3> QED BY <3>3, <3>5, <3>6, <3>7
  <2> QED BY <2>2, <2>3
<1>2. SUBSET D \subseteq Good
  <2> HIDE DEF Good
  <2> QED BY <1>1, EverySubset
<1>3. Cut(f, D) = f /\ Cut(h, D) = h /\ Cut(d, D) = d
  OBVIOUS
<1> QED BY <1>2, <1>3

(* A sum is the sum over a part and the sum over the rest.                 *)
LEMMA TotalOfParts ==
  ASSUME NEW D, IsFiniteSet(D), NEW f \in [D -> Int], NEW E \in SUBSET D,
         NEW g, g = [i \in E |-> f[i]], NEW h, h = [i \in D \ E |-> f[i]]
  PROVE  Total(f) = Total(g) + Total(h)
<1> DEFINE Cut(T) == [i \in T |-> f[i]]
           Good == {T \in SUBSET D : Total(Cut(T)) = Total(Cut(T \cap E)) + Total(Cut(T \ E))}
<1>0. \A T \in SUBSET D : Cut(T) \in [T -> Int] /\ IsFiniteSet(T)
  BY FS_Subset
<1>1. ASSUME NEW T \in SUBSET D, \A x \in T : T \ {x} \in Good PROVE T \in Good
  <2>1. \A S \in SUBSET D : Total(Cut(S)) \in Int /\ (S = {} => Total(Cut(S)) = 0)
    <3> HIDE DEF Cut
    <3> QED BY <1>0, TotalStep
  <2>2. CASE T = {}
    <3>1. T \cap E = {} /\ T \ E = {}
      BY <2>2
    <3>2. T \cap E \in SUBSET D /\ T \ E \in SUBSET D
      OBVIOUS
    <3>3. Total(Cut(T)) = 0 /\ Total(Cut(T \cap E)) = 0 /\ Total(Cut(T \ E)) = 0
      <4> HIDE DEF Cut
      <4> QED BY <2>1, <2>2, <3>1, <3>2
    <3> HIDE DEF Cut
    <3> QED BY <3>3
  <2>3. CASE T # {}
    <3>1. PICK x \in T : TRUE
      BY <2>3
    <3>2. ASSUME NEW S \in SUBSET D, x \in S
          PROVE  Total(Cut(S)) = f[x] + Total(Cut(S \ {x}))
      <4>1. Without(Cut(S), x) = Cut(S \ {x}) /\ Cut(S)[x] = f[x]
        BY <3>2 DEF Without
      <4> HIDE DEF Cut
      <4> QED BY <1>0, <3>2, <4>1, TotalStep
    <3>3. Total(Cut(T \ {x})) = Total(Cut((T \ {x}) \cap E)) + Total(Cut((T \ {x}) \ E))
      BY <1>1
    <3>4. f[x] \in Int
      OBVIOUS
    <3> HIDE DEF Cut
    <3>5. CASE x \in E
      <4>1. (T \ {x}) \cap E = (T \cap E) \ {x} /\ (T \ {x}) \ E = T \ E
        BY <3>5
      <4>2. Total(Cut(T)) = f[x] + Total(Cut(T \ {x}))
        BY <3>2
      <4>3. Total(Cut(T \cap E)) = f[x] + Total(Cut((T \cap E) \ {x}))
        BY <3>2, <3>5
      <4>4. Total(Cut((T \cap E) \ {x})) \in Int /\ Total(Cut(T \ E)) \in Int
        BY <2>1
      <4>5. Total(Cut(T \ {x})) = Total(Cut((T \cap E) \ {x})) + Total(Cut(T \ E))
        BY <3>3, <4>1
      <4> QED BY <3>4, <4>2, <4>3, <4>4, <4>5
    <3>6. CASE x \notin E
      <4>1. (T \ {x}) \cap E = T \cap E /\ (T \ {x}) \ E = (T \ E) \ {x}
        BY <3>6
      <4>2. Total(Cut(T)) = f[x] + Total(Cut(T \ {x}))
        BY <3>2
      <4>3. Total(Cut(T \ E)) = f[x] + Total(Cut((T \ E) \ {x}))
        BY <3>2, <3>6
      <4>4. Total(Cut((T \ E) \ {x})) \in Int /\ Total(Cut(T \cap E)) \in Int
        BY <2>1
      <4>5. Total(Cut(T \ {x})) = Total(Cut(T \cap E)) + Total(Cut((T \ E) \ {x}))
        BY <3>3, <4>1
      <4> QED BY <3>4, <4>2, <4>3, <4>4, <4>5
    <3> QED BY <3>5, <3>6
  <2> QED BY <2>2, <2>3
<1>2. SUBSET D \subseteq Good
  <2> HIDE DEF Good
  <2> QED BY <1>1, EverySubset
<1>3. Cut(D) = f /\ D \cap E = E /\ Cut(E) = g /\ Cut(D \ E) = h
  OBVIOUS
<1> QED BY <1>2, <1>3

(* Nothing adds up to nothing.                                             *)
LEMMA TotalOfZeros ==
  ASSUME NEW D, IsFiniteSet(D)
  PROVE  Total([i \in D |-> 0]) = 0
<1> DEFINE f == [i \in D |-> 0]
           d == [i \in D |-> f[i] - f[i]]
<1>1. f \in [D -> Int] /\ d = f
  OBVIOUS
<1>2. Total(f) = Total(f) - Total(f)
  <2> PICK k : k = f
    OBVIOUS
  <2>1. k \in [D -> Int] /\ k = [i \in D |-> k[i] - k[i]]
    BY <1>1
  <2> HIDE DEF f, d
  <2> QED BY <2>1, TotalOfDifference
<1>3. Total(f) \in Int
  <2> HIDE DEF f
  <2> QED BY <1>1, TotalStep
<1> QED BY <1>2, <1>3

(* The community modules' sum over a function is this sum.                 *)
LEMMA SumIsTotal ==
  ASSUME NEW D, IsFiniteSet(D), NEW f \in [D -> Int]
  PROVE  SumFunctionOnSet(f, D) = Total(f)
<1> DEFINE Fold(g) == g = [s \in SUBSET D |-> IF s = {} THEN 0
                             ELSE f[OneOf(s)] + g[s \ {OneOf(s)}]]
           it == CHOOSE g : Fold(g)
<1>1. SumFunctionOnSet(f, D) = it[D]
  BY DEF SumFunctionOnSet, FoldFunctionOnSet, MapThenFoldSet, OneOf
<1>2. DOMAIN f = D
  OBVIOUS
<1>3. \A g : Fold(g) <=> IsSum(f, g)
  BY <1>2 DEF IsSum
<1>4. IsSum(f, it)
  <2>1. \E g : Fold(g)
    <3> HIDE DEF Fold
    <3> QED BY <1>3, SumExists
  <2> HIDE DEF Fold
  <2> QED BY <2>1, <1>3
<1>5. Total(f) = it[D]
  <2> HIDE DEF Fold, it
  <2> QED BY <1>4, TotalIsSum
<1> QED BY <1>1, <1>5

(* A sum of naturals is one.                                               *)
LEMMA TotalOfNaturals ==
  ASSUME NEW D, IsFiniteSet(D), NEW f \in [D -> Nat]
  PROVE  Total(f) \in Nat
<1> DEFINE Cut(T) == [i \in T |-> f[i]]
           Good == {T \in SUBSET D : Total(Cut(T)) \in Nat}
<1>1. ASSUME NEW T \in SUBSET D, \A x \in T : T \ {x} \in Good PROVE T \in Good
  <2>1. Cut(T) \in [T -> Int] /\ IsFiniteSet(T)
    BY FS_Subset
  <2>2. CASE T = {}
    <3> HIDE DEF Cut
    <3>1. Total(Cut(T)) = 0
      BY <2>1, <2>2, TotalStep
    <3> QED BY <3>1
  <2>3. CASE T # {}
    <3>1. PICK x \in T : TRUE
      BY <2>3
    <3>2. Without(Cut(T), x) = Cut(T \ {x}) /\ Cut(T)[x] \in Nat
      BY DEF Without
    <3>3. Total(Cut(T)) = Cut(T)[x] + Total(Without(Cut(T), x))
      <4> HIDE DEF Cut
      <4> QED BY <2>1, TotalStep
    <3>4. Total(Cut(T \ {x})) \in Nat
      BY <1>1
    <3> HIDE DEF Cut
    <3>5. Total(Cut(T)) \in Nat
      BY <3>2, <3>3, <3>4
    <3> QED BY <3>5
  <2> QED BY <2>2, <2>3
<1>2. D \in SUBSET D /\ Cut(D) = f
  OBVIOUS
<1>3. SUBSET D \subseteq Good
  <2> HIDE DEF Good
  <2> QED BY <1>1, EverySubset
<1>4. D \in Good
  BY <1>2, <1>3
<1> QED BY <1>2, <1>4

(* A set of numbers has a least one.                                       *)
LEMMA LeastOf ==
  ASSUME NEW S \in SUBSET Nat, S # {}
  PROVE  Min(S) \in S /\ \A y \in S : Min(S) <= y
<1>1. \E x \in S : \A y \in S : ~(<<y, x>> \in OpToRel(<, Nat))
  BY NatLessThanWellFounded, WFMin
<1>2. PICK x \in S : \A y \in S : ~(<<y, x>> \in OpToRel(<, Nat))
  BY <1>1
<1>3. \A y \in S : y < x => <<y, x>> \in OpToRel(<, Nat)
  BY DEF OpToRel
<1>4. \A y \in S : x <= y
  <2>1. \A y \in S : ~(y < x)
    BY <1>2, <1>3, Zenon
  <2>2. x \in Nat /\ \A y \in S : y \in Nat
    OBVIOUS
  <2> QED BY <2>1, <2>2
<1> QED BY <1>4 DEF Min

(* A finite set in a linear order has a last element.                      *)
LEMMA LastOf ==
  ASSUME NEW S, IsFiniteSet(S), S # {}, NEW R,
         \A x, y, z \in S : <<x, y>> \in R /\ <<y, z>> \in R => <<x, z>> \in R,
         \A x, y \in S : x # y => <<x, y>> \in R \/ <<y, x>> \in R
  PROVE  \E m \in S : \A x \in S \ {m} : <<x, m>> \in R
<1> DEFINE Ends(T) == \E m \in T : \A x \in T \ {m} : <<x, m>> \in R
           Good == {T \in SUBSET S : T = {} \/ Ends(T)}
<1>1. ASSUME NEW T \in SUBSET S, \A x \in T : T \ {x} \in Good PROVE T \in Good
  <2> SUFFICES ASSUME T # {} PROVE Ends(T)
    OBVIOUS
  <2>1. PICK x \in T : TRUE
    OBVIOUS
  <2>2. CASE T \ {x} = {}
    BY <2>1, <2>2
  <2>3. CASE T \ {x} # {}
    <3>1. PICK m \in T \ {x} : \A y \in (T \ {x}) \ {m} : <<y, m>> \in R
      BY <1>1, <2>1, <2>3
    <3>2. CASE <<x, m>> \in R
      <4>1. \A y \in T \ {m} : <<y, m>> \in R
        BY <3>1, <3>2
      <4> QED BY <3>1, <4>1
    <3>3. CASE <<m, x>> \in R
      <4>1. \A y \in T \ {x} : <<y, x>> \in R
        BY <3>1, <3>3
      <4> QED BY <2>1, <4>1
    <3> QED BY <3>1, <3>2, <3>3
  <2> QED BY <2>2, <2>3
<1>2. S \in Good
  <2> HIDE DEF Good
  <2>1. SUBSET S \subseteq Good
    BY <1>1, EverySubset
  <2> QED BY <2>1
<1> QED BY <1>2

(* And can be listed in that order.                                        *)
LEMMA SortExists ==
  ASSUME NEW S, IsFiniteSet(S), NEW R,
         \A x, y, z \in S : <<x, y>> \in R /\ <<y, z>> \in R => <<x, z>> \in R,
         \A x, y \in S : x # y => <<x, y>> \in R \/ <<y, x>> \in R
  PROVE  \E s \in [1 .. Cardinality(S) -> S] :
           \A k, l \in 1 .. Cardinality(S) : k < l => <<s[k], s[l]>> \in R
<1> DEFINE Sorts(s, T) == /\ s \in [1 .. Cardinality(T) -> T]
                          /\ \A k, l \in 1 .. Cardinality(T) : k < l => <<s[k], s[l]>> \in R
           Good == {T \in SUBSET S : \E s : Sorts(s, T)}
<1>0. \A T \in SUBSET S : IsFiniteSet(T) /\ Cardinality(T) \in Nat
  BY FS_Subset, FS_CardinalityType
<1>1. ASSUME NEW T \in SUBSET S, \A x \in T : T \ {x} \in Good PROVE \E s : Sorts(s, T)
  <2>1. CASE T = {}
    <3>1. Cardinality(T) = 0
      BY <2>1, FS_EmptySet
    <3>2. 1 .. Cardinality(T) = {}
      BY <3>1
    <3> DEFINE s == [k \in {} |-> 0]
    <3>3. s \in [{} -> T] /\ \A k, l \in {} : k < l => <<s[k], s[l]>> \in R
      OBVIOUS
    <3> HIDE DEF s
    <3>4. Sorts(s, T)
      BY <3>2, <3>3
    <3> QED BY <3>4
  <2>2. CASE T # {}
    <3>0. /\ IsFiniteSet(T) /\ T # {}
          /\ \A x, y, z \in T : <<x, y>> \in R /\ <<y, z>> \in R => <<x, z>> \in R
          /\ \A x, y \in T : x # y => <<x, y>> \in R \/ <<y, x>> \in R
      BY <1>0, <2>2
    <3>1. PICK m \in T : \A x \in T \ {m} : <<x, m>> \in R
      <4> HIDE DEF Good, Sorts
      <4>1. \E m \in T : \A x \in T \ {m} : <<x, m>> \in R
        BY <3>0, LastOf
      <4> QED BY <4>1
    <3>2. PICK s : Sorts(s, T \ {m})
      BY <1>1, <3>1
    <3>3. PICK n \in Nat : n = Cardinality(T \ {m}) /\ Cardinality(T) = n + 1
      <4>1. Cardinality(T \ {m}) = Cardinality(T) - 1 /\ T \ {m} \in SUBSET S
        BY <1>0, <3>1, FS_RemoveElement
      <4> QED BY <1>0, <4>1
    <3> DEFINE t == [k \in 1 .. n + 1 |-> IF k = n + 1 THEN m ELSE s[k]]
    <3>4. \A k \in 1 .. n : s[k] \in T \ {m}
      BY <3>2, <3>3
    <3>5. t \in [1 .. n + 1 -> T]
      BY <3>1, <3>4
    <3>6. ASSUME NEW k \in 1 .. n + 1, NEW l \in 1 .. n + 1, k < l PROVE <<t[k], t[l]>> \in R
      <4>1. k \in 1 .. n /\ t[k] = s[k]
        BY <3>6
      <4>2. CASE l = n + 1
        BY <3>1, <3>4, <4>1, <4>2
      <4>3. CASE l # n + 1
        <5>1. l \in 1 .. n /\ t[l] = s[l]
          BY <4>3
        <5> QED BY <3>2, <3>3, <3>6, <4>1, <5>1
      <4> QED BY <4>2, <4>3
    <3> HIDE DEF t
    <3>7. Sorts(t, T)
      BY <3>3, <3>5, <3>6
    <3> QED BY <3>7
  <2> QED BY <2>1, <2>2
<1>2. S \in Good
  <2>1. \A T \in SUBSET S : (\A x \in T : T \ {x} \in Good) => T \in Good
    BY <1>1
  <2> HIDE DEF Good
  <2>2. SUBSET S \subseteq Good
    BY <2>1, EverySubset
  <2> QED BY <2>2
<1> QED BY <1>2

(* The first entries of a sequence.                                        *)
LEMMA FirstOf ==
  ASSUME NEW S, NEW s \in Seq(S), NEW m \in Nat, m <= Len(s)
  PROVE  /\ SubSeq(s, 1, m) \in Seq(S) /\ DOMAIN SubSeq(s, 1, m) = 1 .. m
         /\ \A k \in 1 .. m : SubSeq(s, 1, m)[k] = s[k]
OBVIOUS

(* What a bijection is, without the definitions it is made of.             *)
LEMMA BijectionIs ==
  ASSUME NEW S, NEW T, NEW f
  PROVE  f \in Bijection(S, T) <=>
           /\ f \in [S -> T] /\ \A x, y \in S : f[x] = f[y] => x = y
           /\ \A t \in T : \E x \in S : f[x] = t
<1>1. f \in [S -> T] => DOMAIN f = S
  OBVIOUS
<1> QED BY <1>1, Zenon DEF Bijection, Injection, Surjection, IsInjective
============================================================================
