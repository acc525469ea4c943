----------------------- MODULE MemoryEventStoreProofs -----------------------
(***************************************************************************)
(* Proofs about MemoryEventStore for every ring size, batch mode and       *)
(* event set.  The inductive invariant is TypeOK, CursorOrder and          *)
(* UnackedRetained together: an unacked slot survives a put because the    *)
(* cursors keep the written sequences less than one lap ahead of it, and   *)
(* the cursors keep that distance because put checks both readers.         *)
(* The account of memory follows from what the sums of the community       *)
(* modules add up to; what a single caller can rely on comes last.         *)
(***************************************************************************)
EXTENDS MemoryEventStore, FiniteSetTheorems, TLAPS

-----------------------------------------------------------------------------
(* Finite sets of numbers and the sums of the community modules.  Induction *)
(* is by the well-foundedness of the strict subset relation on finite sets. *)

\* Induction over the subsets of a finite set: G is the set of those for which
\* the claim holds.
LEMMA SubsetInduction ==
  ASSUME NEW S, IsFiniteSet(S), NEW G,
         \A T \in SUBSET S : (\A U \in SUBSET T : U # T => U \in G) => T \in G
  PROVE  SUBSET S \subseteq G
<1> DEFINE Bad == (SUBSET S) \ G
<1> SUFFICES ASSUME Bad # {} PROVE FALSE
  OBVIOUS
<1>1. Bad \subseteq FiniteSubsetsOf(S)
  BY FS_FiniteSubsetsOfFinite
<1> HIDE DEF Bad
<1>2. PICK T \in Bad : \A U \in Bad : ~ (<<U, T>> \in StrictSubsetOrdering(S))
  BY <1>1, FS_StrictSubsetOrderingWellFounded, WFMin
<1>3. ASSUME NEW U \in SUBSET T, U # T PROVE U \in G
  <2>1. <<U, T>> \in StrictSubsetOrdering(S)
    BY <1>2, <1>3 DEF StrictSubsetOrdering, Bad
  <2> QED BY <1>2, <1>3, <2>1 DEF Bad
<1> QED BY <1>2, <1>3 DEF Bad

\* A set of integers that lies in an interval has a maximum.
LEMMA IntervalMax ==
  ASSUME NEW a \in Int, NEW b \in Int, NEW S \in SUBSET (a..b), S # {}
  PROVE  Max(S) \in S /\ \A s \in S : s <= Max(S)
<1> DEFINE G == {T \in SUBSET S : T = {} \/ \E t \in T : \A u \in T : u <= t}
<1>1. IsFiniteSet(S)
  BY FS_Interval, FS_Subset
<1>2. ASSUME NEW T \in SUBSET S, \A U \in SUBSET T : U # T => U \in G
      PROVE  T \in G
  <2> SUFFICES ASSUME T # {} PROVE \E t \in T : \A u \in T : u <= t
    OBVIOUS
  <2>1. PICK x \in T : TRUE
    OBVIOUS
  <2>2. T \ {x} \in G /\ T \subseteq Int
    <3>1. T \ {x} \in SUBSET T /\ T \ {x} # T /\ T \subseteq Int
      BY <2>1
    <3> HIDE DEF G
    <3> QED BY <1>2, <3>1
  <2>3. CASE T \ {x} = {}
    BY <2>1, <2>2, <2>3
  <2>4. CASE T \ {x} # {}
    <3>1. PICK y \in T \ {x} : \A u \in T \ {x} : u <= y
      BY <2>2, <2>4
    <3>2. CASE x <= y
      BY <3>1, <3>2, <2>2
    <3>3. CASE ~ (x <= y)
      BY <3>1, <3>3, <2>1, <2>2
    <3> QED BY <3>2, <3>3
  <2> QED BY <2>3, <2>4
<1>3. SUBSET S \subseteq G
  <2> HIDE DEF G
  <2> QED BY <1>1, <1>2, SubsetInduction
<1>4. PICK t \in S : \A u \in S : u <= t
  BY <1>3
<1>5. t \in S /\ \A u \in S : t >= u
  BY <1>4
<1>6. Max(S) \in S /\ \A u \in S : Max(S) >= u
  BY <1>5 DEF Max
<1> QED BY <1>6

-----------------------------------------------------------------------------
(* SumFunctionOnSet as a recursion over the subsets of its index set. *)

Pick(s) == CHOOSE x \in s : TRUE

IsSum(f, S, g) ==
  g = [s \in SUBSET S |-> IF s = {} THEN 0 ELSE f[Pick(s)] + g[s \ {Pick(s)}]]

LEMMA SumIsChosen ==
  ASSUME NEW f, NEW S
  PROVE  SumFunctionOnSet(f, S) = (CHOOSE g : IsSum(f, S, g))[S]
BY DEF SumFunctionOnSet, FoldFunctionOnSet, MapThenFoldSet, IsSum, Pick

\* Two such recursions agree where both are defined.
LEMMA SumUnique ==
  ASSUME NEW f, NEW S, IsFiniteSet(S), NEW T, S \subseteq T,
         NEW g, IsSum(f, S, g), NEW h, IsSum(f, T, h)
  PROVE  \A s \in SUBSET S : g[s] = h[s]
<1> DEFINE G == {s \in SUBSET S : g[s] = h[s]}
<1>1. ASSUME NEW s \in SUBSET S, \A U \in SUBSET s : U # s => U \in G
      PROVE  s \in G
  <2>1. CASE s = {}
    BY <2>1 DEF IsSum
  <2>2. CASE s # {}
    <3>1. Pick(s) \in s
      BY <2>2 DEF Pick
    <3>2. s \ {Pick(s)} \in G
      BY <1>1, <3>1
    <3>3. g[s] = f[Pick(s)] + g[s \ {Pick(s)}]
      BY <2>2 DEF IsSum
    <3>4. h[s] = f[Pick(s)] + h[s \ {Pick(s)}]
      BY <2>2 DEF IsSum
    <3> QED BY <3>2, <3>3, <3>4
  <2> QED BY <2>1, <2>2
<1>2. SUBSET S \subseteq G
  <2> HIDE DEF G
  <2> QED BY <1>1, SubsetInduction
<1> QED BY <1>2

\* The sum over a set is what any such recursion over it gives.
LEMMA SumOfRecursion ==
  ASSUME NEW f, NEW S, IsFiniteSet(S), NEW g, IsSum(f, S, g)
  PROVE  SumFunctionOnSet(f, S) = g[S]
<1> DEFINE h == CHOOSE r : IsSum(f, S, r)
<1>1. IsSum(f, S, h)
  OBVIOUS
<1>2. h[S] = g[S]
  <2> HIDE DEF h
  <2> QED BY <1>1, SumUnique
<1> QED BY <1>2, SumIsChosen

\* The recursion exists: the sums themselves are one.
LEMMA SumRecursion ==
  ASSUME NEW f, NEW S, IsFiniteSet(S)
  PROVE  IsSum(f, S, [s \in SUBSET S |-> SumFunctionOnSet(f, s)])
<1> DEFINE Sums(T) == [s \in SUBSET T |-> SumFunctionOnSet(f, s)]
           G == {T \in SUBSET S : IsSum(f, T, Sums(T))}
<1>1. ASSUME NEW T \in SUBSET S, \A U \in SUBSET T : U # T => U \in G
      PROVE  T \in G
  <2>1. IsFiniteSet(T)
    BY FS_Subset
  <2> DEFINE h == [s \in SUBSET T |->
                     IF s = {} THEN 0
                     ELSE f[Pick(s)] + SumFunctionOnSet(f, s \ {Pick(s)})]
  <2>2. ASSUME NEW s \in SUBSET T, s # T
        PROVE  SumFunctionOnSet(f, s) = h[s]
    <3>1. IsSum(f, s, Sums(s))
      BY <1>1, <2>2
    <3>2. CASE s = {}
      BY <3>1, <3>2 DEF IsSum
    <3>3. CASE s # {}
      BY <3>1, <3>3 DEF IsSum, Pick
    <3> QED BY <3>2, <3>3
  <2>3. IsSum(f, T, h)
    <3> SUFFICES ASSUME NEW s \in SUBSET T, s # {}
                 PROVE  h[s \ {Pick(s)}] = SumFunctionOnSet(f, s \ {Pick(s)})
      BY DEF IsSum
    <3>1. Pick(s) \in s
      BY DEF Pick
    <3>2. s \ {Pick(s)} \in SUBSET T /\ s \ {Pick(s)} # T
      BY <3>1
    <3> HIDE DEF h
    <3> QED BY <3>2, <2>2
  <2>4. SumFunctionOnSet(f, T) = h[T]
    <3> HIDE DEF h
    <3> QED BY <2>1, <2>3, SumOfRecursion
  <2>5. \A s \in SUBSET T : SumFunctionOnSet(f, s) = h[s]
    BY <2>2, <2>4
  <2>6. Sums(T) = h
    BY <2>5
  <2> QED BY <2>3, <2>6
<1>2. SUBSET S \subseteq G
  <2> HIDE DEF G
  <2> QED BY <1>1, SubsetInduction
<1> QED BY <1>2

LEMMA SumEmpty == ASSUME NEW f PROVE SumFunctionOnSet(f, {}) = 0
BY SumRecursion, FS_EmptySet DEF IsSum

LEMMA SumPick ==
  ASSUME NEW f, NEW S, IsFiniteSet(S), S # {}
  PROVE  /\ Pick(S) \in S
         /\ SumFunctionOnSet(f, S) = f[Pick(S)] + SumFunctionOnSet(f, S \ {Pick(S)})
<1> DEFINE g == [s \in SUBSET S |-> SumFunctionOnSet(f, s)]
<1>1. Pick(S) \in S
  BY DEF Pick
<1>2. g[S] = f[Pick(S)] + g[S \ {Pick(S)}]
  <2>1. IsSum(f, S, g)
    BY SumRecursion
  <2> HIDE DEF g
  <2> QED BY <2>1 DEF IsSum
<1> QED BY <1>1, <1>2

-----------------------------------------------------------------------------
(* Sums of integers. *)

LEMMA SumInt ==
  ASSUME NEW f, NEW S, IsFiniteSet(S), \A x \in S : f[x] \in Int
  PROVE  SumFunctionOnSet(f, S) \in Int
<1> DEFINE G == {T \in SUBSET S : SumFunctionOnSet(f, T) \in Int}
<1>1. ASSUME NEW T \in SUBSET S, \A U \in SUBSET T : U # T => U \in G
      PROVE  T \in G
  <2>1. CASE T = {}
    BY <2>1, SumEmpty
  <2>2. CASE T # {}
    <3>1. IsFiniteSet(T)
      BY FS_Subset
    <3>2. /\ Pick(T) \in T
          /\ SumFunctionOnSet(f, T) = f[Pick(T)] + SumFunctionOnSet(f, T \ {Pick(T)})
      BY <2>2, <3>1, SumPick
    <3>3. T \ {Pick(T)} \in G
      BY <1>1, <3>2
    <3> QED BY <3>2, <3>3
  <2> QED BY <2>1, <2>2
<1>2. SUBSET S \subseteq G
  <2> HIDE DEF G
  <2> QED BY <1>1, SubsetInduction
<1> QED BY <1>2

\* Any element may be the one that is added last.
LEMMA SumRemove ==
  ASSUME NEW f, NEW S, IsFiniteSet(S), \A x \in S : f[x] \in Int, NEW y \in S
  PROVE  SumFunctionOnSet(f, S) = f[y] + SumFunctionOnSet(f, S \ {y})
<1> DEFINE Split(T) == \A x \in T :
             SumFunctionOnSet(f, T) = f[x] + SumFunctionOnSet(f, T \ {x})
           G == {T \in SUBSET S : Split(T)}
<1>1. ASSUME NEW T \in SUBSET S, \A U \in SUBSET T : U # T => U \in G
      PROVE  T \in G
  <2> SUFFICES ASSUME NEW x \in T
               PROVE  SumFunctionOnSet(f, T) = f[x] + SumFunctionOnSet(f, T \ {x})
    OBVIOUS
  <2>1. IsFiniteSet(T)
    BY FS_Subset
  <2>2. PICK p \in T : SumFunctionOnSet(f, T) = f[p] + SumFunctionOnSet(f, T \ {p})
    BY <2>1, SumPick
  <2>3. CASE p = x
    BY <2>2, <2>3
  <2>4. CASE p # x
    <3> DEFINE r == SumFunctionOnSet(f, T \ {p, x})
    <3>1. (T \ {p}) \ {x} = T \ {p, x} /\ (T \ {x}) \ {p} = T \ {p, x}
      OBVIOUS
    <3>2. SumFunctionOnSet(f, T \ {p}) = f[x] + r
      <4>1. T \ {p} \in SUBSET T /\ T \ {p} # T /\ x \in T \ {p}
        BY <2>4
      <4>2. Split(T \ {p})
        BY <1>1, <4>1
      <4> QED BY <4>1, <4>2, <3>1
    <3>3. SumFunctionOnSet(f, T \ {x}) = f[p] + r
      <4>1. T \ {x} \in SUBSET T /\ T \ {x} # T /\ p \in T \ {x}
        BY <2>4
      <4>2. Split(T \ {x})
        BY <1>1, <4>1
      <4> QED BY <4>1, <4>2, <3>1
    <3>4. r \in Int /\ f[p] \in Int /\ f[x] \in Int
      <4>1. IsFiniteSet(T \ {p, x}) /\ \A z \in T \ {p, x} : f[z] \in Int
        BY <2>1, FS_Subset
      <4> QED BY <4>1, SumInt
    <3> HIDE DEF r
    <3> QED BY <2>2, <3>2, <3>3, <3>4
  <2> QED BY <2>3, <2>4
<1>2. SUBSET S \subseteq G
  <2> HIDE DEF G
  <2> QED BY <1>1, SubsetInduction
<1> QED BY <1>2

\* The sum only depends on the values at its indices.
LEMMA SumCongruence ==
  ASSUME NEW f, NEW g, NEW S, IsFiniteSet(S), \A x \in S : f[x] = g[x]
  PROVE  SumFunctionOnSet(f, S) = SumFunctionOnSet(g, S)
<1> DEFINE G == {T \in SUBSET S : SumFunctionOnSet(f, T) = SumFunctionOnSet(g, T)}
<1>1. ASSUME NEW T \in SUBSET S, \A U \in SUBSET T : U # T => U \in G
      PROVE  T \in G
  <2>1. CASE T = {}
    BY <2>1, SumEmpty
  <2>2. CASE T # {}
    <3>1. IsFiniteSet(T)
      BY FS_Subset
    <3>2. /\ Pick(T) \in T
          /\ SumFunctionOnSet(f, T) = f[Pick(T)] + SumFunctionOnSet(f, T \ {Pick(T)})
          /\ SumFunctionOnSet(g, T) = g[Pick(T)] + SumFunctionOnSet(g, T \ {Pick(T)})
      BY <2>2, <3>1, SumPick
    <3>3. T \ {Pick(T)} \in G
      BY <1>1, <3>2
    <3> QED BY <3>2, <3>3
  <2> QED BY <2>1, <2>2
<1>2. SUBSET S \subseteq G
  <2> HIDE DEF G
  <2> QED BY <1>1, SubsetInduction
<1> QED BY <1>2

\* Indices may be renumbered by a constant.
LEMMA SumShift ==
  ASSUME NEW f, NEW g, NEW a \in Int, NEW b \in Int, NEW c \in Int,
         \A i \in a..b : f[i] \in Int /\ g[c + i] = f[i]
  PROVE  SumFunctionOnSet(g, c+a..c+b) = SumFunctionOnSet(f, a..b)
<1> DEFINE Moved(T) == {j \in c+a..c+b : j - c \in T}
           G == {T \in SUBSET (a..b) :
                   SumFunctionOnSet(g, Moved(T)) = SumFunctionOnSet(f, T)}
<1>1. IsFiniteSet(a..b) /\ IsFiniteSet(c+a..c+b)
  BY FS_Interval
<1>2. \A j \in c+a..c+b : g[j] \in Int
  <2>1. ASSUME NEW j \in c+a..c+b PROVE g[j] \in Int
    <3>1. j - c \in a..b /\ c + (j - c) = j
      OBVIOUS
    <3> QED BY <3>1
  <2> QED BY <2>1
<1>3. ASSUME NEW T \in SUBSET (a..b), \A U \in SUBSET T : U # T => U \in G
      PROVE  T \in G
  <2>1. CASE T = {}
    BY <2>1, SumEmpty
  <2>2. CASE T # {}
    <3>1. IsFiniteSet(T) /\ IsFiniteSet(Moved(T))
      BY <1>1, FS_Subset
    <3>2. PICK x \in T : SumFunctionOnSet(f, T) = f[x] + SumFunctionOnSet(f, T \ {x})
      BY <2>2, <3>1, SumPick
    <3>3. T \ {x} \in G
      <4>1. T \ {x} \in SUBSET T /\ T \ {x} # T
        OBVIOUS
      <4> HIDE DEF G
      <4> QED BY <1>3, <4>1
    <3>4. c + x \in Moved(T) /\ Moved(T) \ {c + x} = Moved(T \ {x})
      OBVIOUS
    <3>5. \A j \in Moved(T) : g[j] \in Int
      BY <1>2
    <3>6. SumFunctionOnSet(g, Moved(T))
            = g[c + x] + SumFunctionOnSet(g, Moved(T) \ {c + x})
      <4> HIDE DEF Moved
      <4> QED BY <3>1, <3>4, <3>5, SumRemove
    <3> QED BY <3>2, <3>3, <3>4, <3>6
  <2> QED BY <2>1, <2>2
<1>4. SUBSET (a..b) \subseteq G
  <2> HIDE DEF G
  <2> SUFFICES ASSUME NEW S, IsFiniteSet(S),
                      \A T \in SUBSET S : (\A U \in SUBSET T : U # T => U \in G) => T \in G
               PROVE  SUBSET S \subseteq G
    BY <1>1, <1>3
  <2> QED BY SubsetInduction
<1>5. Moved(a..b) = c+a..c+b
  OBVIOUS
<1> QED BY <1>4, <1>5

\* The sum over a union of disjoint sets.
LEMMA SumUnion ==
  ASSUME NEW f, NEW A, NEW B, IsFiniteSet(A), IsFiniteSet(B), A \cap B = {},
         \A x \in A \cup B : f[x] \in Int
  PROVE  SumFunctionOnSet(f, A \cup B) = SumFunctionOnSet(f, A) + SumFunctionOnSet(f, B)
<1> DEFINE G == {T \in SUBSET B : SumFunctionOnSet(f, A \cup T)
                                    = SumFunctionOnSet(f, A) + SumFunctionOnSet(f, T)}
<1>1. ASSUME NEW T \in SUBSET B, \A U \in SUBSET T : U # T => U \in G
      PROVE  T \in G
  <2>1. CASE T = {}
    <3>1. SumFunctionOnSet(f, A) \in Int
      BY SumInt
    <3> QED BY <2>1, <3>1, SumEmpty
  <2>2. CASE T # {}
    <3>1. IsFiniteSet(T) /\ IsFiniteSet(A \cup T)
      BY FS_Subset, FS_Union
    <3>2. PICK x \in T : TRUE
      BY <2>2
    <3>3. T \ {x} \in G
      <4>1. T \ {x} \in SUBSET T /\ T \ {x} # T
        BY <3>2
      <4> HIDE DEF G
      <4> QED BY <1>1, <4>1
    <3>4. SumFunctionOnSet(f, T) = f[x] + SumFunctionOnSet(f, T \ {x})
      BY <3>1, <3>2, SumRemove
    <3>5. SumFunctionOnSet(f, A \cup T) = f[x] + SumFunctionOnSet(f, A \cup (T \ {x}))
      <4>1. (A \cup T) \ {x} = A \cup (T \ {x}) /\ x \in A \cup T
        BY <3>2
      <4>2. \A y \in A \cup T : f[y] \in Int
        OBVIOUS
      <4> QED BY <3>1, <4>1, <4>2, SumRemove
    <3>6. f[x] \in Int /\ SumFunctionOnSet(f, A) \in Int
                       /\ SumFunctionOnSet(f, T \ {x}) \in Int
      <4>1. IsFiniteSet(T \ {x}) /\ \A y \in T \ {x} : f[y] \in Int
        BY <3>1, FS_Subset
      <4> QED BY <4>1, SumInt, <3>2
    <3> QED BY <3>3, <3>4, <3>5, <3>6
  <2> QED BY <2>1, <2>2
<1>2. SUBSET B \subseteq G
  <2> HIDE DEF G
  <2> QED BY <1>1, SubsetInduction
<1> QED BY <1>2

\* Sums of natural numbers are natural numbers.
LEMMA SumNat ==
  ASSUME NEW f, NEW S, IsFiniteSet(S), \A x \in S : f[x] \in Nat
  PROVE  SumFunctionOnSet(f, S) \in Nat
<1> DEFINE G == {T \in SUBSET S : SumFunctionOnSet(f, T) \in Nat}
<1>1. ASSUME NEW T \in SUBSET S, \A U \in SUBSET T : U # T => U \in G
      PROVE  T \in G
  <2>1. CASE T = {}
    BY <2>1, SumEmpty
  <2>2. CASE T # {}
    <3>1. IsFiniteSet(T)
      BY FS_Subset
    <3>2. /\ Pick(T) \in T
          /\ SumFunctionOnSet(f, T) = f[Pick(T)] + SumFunctionOnSet(f, T \ {Pick(T)})
      BY <2>2, <3>1, SumPick
    <3>3. T \ {Pick(T)} \in G
      BY <1>1, <3>2
    <3> QED BY <3>2, <3>3
  <2> QED BY <2>1, <2>2
<1>2. SUBSET S \subseteq G
  <2> HIDE DEF G
  <2> QED BY <1>1, SubsetInduction
<1> QED BY <1>2

\* Adjacent intervals add up.
LEMMA SumInterval ==
  ASSUME NEW f, NEW a \in Int, NEW b \in Int, NEW c \in Int, a <= b + 1, b <= c,
         \A x \in a..c : f[x] \in Int
  PROVE  SumFunctionOnSet(f, a..c)
           = SumFunctionOnSet(f, a..b) + SumFunctionOnSet(f, b+1..c)
<1>1. IsFiniteSet(a..b) /\ IsFiniteSet(b+1..c)
  BY FS_Interval
<1>2. a..c = (a..b) \cup (b+1..c) /\ (a..b) \cap (b+1..c) = {}
  OBVIOUS
<1>3. SumFunctionOnSet(f, (a..b) \cup (b+1..c))
        = SumFunctionOnSet(f, a..b) + SumFunctionOnSet(f, b+1..c)
  BY <1>1, <1>2, SumUnion
<1> QED BY <1>2, <1>3

-----------------------------------------------------------------------------
(* The inductive invariant. *)

Inv == TypeOK /\ CursorOrder /\ UnackedRetained

-----------------------------------------------------------------------------
(* Arithmetic of the ring. *)

\* Two sequences less than one lap apart never share a slot.
LEMMA ModDistinct ==
  ASSUME NEW N \in Nat \ {0}, NEW a \in Int, NEW b \in Int, a < b, b - a < N
  PROVE  a % N # b % N
<1> SUFFICES ASSUME a % N = b % N PROVE FALSE
  OBVIOUS
<1> DEFINE qa == a \div N
           qb == b \div N
           d == qb - qa
<1>1. qa \in Int /\ qb \in Int /\ a % N \in Int
  OBVIOUS
<1>2. a = N * qa + (a % N)
  OBVIOUS
<1>3. b = N * qb + (b % N)
  OBVIOUS
<1> HIDE DEF qa, qb
<1>4. b - a = N * d
  <2>1. N * d = N * qb - N * qa
    BY <1>1
  <2> QED BY <1>1, <1>2, <1>3, <2>1
<1>5. CASE d <= 0
  <2>1. N * d <= 0
    BY <1>1, <1>5
  <2> QED BY <1>4, <2>1
<1>6. CASE d >= 1
  <2>1. N * d >= N
    BY <1>1, <1>6
  <2> QED BY <1>4, <2>1
<1> QED BY <1>1, <1>5, <1>6

\* The slot of a sequence is in the ring.
LEMMA IndexRange == ASSUME NEW q \in Int PROVE Index(q) \in 0..BufferSize-1
<1>1. ASSUME NEW N \in Nat \ {0}, NEW a \in Int PROVE a % N \in 0..N-1
  OBVIOUS
<1> QED BY <1>1, StoreAssumption DEF Index

\* Distinct sequences of one lap have distinct slots.
LEMMA IndexDistinct ==
  ASSUME NEW p \in Int, NEW q \in Int, p # q,
         p - q < BufferSize, q - p < BufferSize
  PROVE  Index(p) # Index(q)
<1>1. CASE p < q
  BY <1>1, ModDistinct, StoreAssumption DEF Index
<1>2. CASE q < p
  BY <1>2, ModDistinct, StoreAssumption DEF Index
<1> QED BY <1>1, <1>2

-----------------------------------------------------------------------------
(* The steps. *)

\* What the invariant says of the cursors, without the ring.
LEMMA CursorFacts ==
  ASSUME TypeOK, CursorOrder
  PROVE  /\ putSequence \in Int /\ getSequence \in Int /\ ackSequence \in Int
         /\ fetched \in Int
         /\ -1 <= getSequence /\ getSequence <= fetched
         /\ -1 <= ackSequence /\ ackSequence <= fetched
         /\ fetched <= putSequence
         /\ putSequence - BufferSize <= getSequence
         /\ putSequence - BufferSize <= ackSequence
BY StoreAssumption DEF TypeOK, CursorOrder, MinimumGetOrAck

\* The lists of PutSome are lists of events with at least one.
LEMMA DataLists == ASSUME NEW data \in DataList PROVE data \in Seq(Event) /\ data # <<>>
BY StoreAssumption DEF DataList

\* A put keeps the invariant, however long its list.
LEMMA PutInv ==
  ASSUME Inv, NEW data \in Seq(Event), data # <<>>, Put(data) PROVE Inv'
<1> DEFINE end == putSequence + Len(data)
<1>1. /\ data \in Seq(Event) /\ Len(data) \in Nat /\ Len(data) > 0
      /\ \A k \in 1..Len(data) : data[k] \in Event
  OBVIOUS
<1>3. /\ putSequence \in Int /\ getSequence \in Int /\ ackSequence \in Int
      /\ fetched \in Int
      /\ -1 <= getSequence /\ getSequence <= fetched
      /\ -1 <= ackSequence /\ ackSequence <= fetched
      /\ fetched <= putSequence
      /\ putSequence = Len(log) - 1 /\ log \in Seq(Event)
  BY CursorFacts DEF Inv, TypeOK
<1>4. end - BufferSize <= getSequence /\ end - BufferSize <= ackSequence
  BY <1>3, <1>1, StoreAssumption DEF Put, CheckFreeSlotAt, MinimumGetOrAck
<1>5. ASSUME NEW q \in putSequence+1..end
      PROVE  /\ Index(q) \in 0..BufferSize-1
             /\ (CHOOSE p \in putSequence+1..end : Index(p) = Index(q)) = q
  <2>1. \A p \in putSequence+1..end : Index(p) = Index(q) => p = q
    BY <1>1, <1>3, <1>4, IndexDistinct, StoreAssumption
  <2> QED BY <2>1, <1>1, <1>3, IndexRange
<1>6. ASSUME NEW q \in putSequence+1..end
      PROVE  entries'[Index(q)] = Full(data[q - putSequence])
  BY <1>5 DEF Put
<1>7. ASSUME NEW q \in ackSequence+1..putSequence
      PROVE  entries'[Index(q)] = entries[Index(q)]
  <2>1. \A p \in putSequence+1..end : Index(p) # Index(q)
    BY <1>1, <1>3, <1>4, IndexDistinct, StoreAssumption
  <2> QED BY <2>1, <1>3, IndexRange DEF Put
<1>8. /\ log' \in Seq(Event) /\ Len(log') = Len(log) + Len(data)
      /\ \A k \in 1..Len(log) : log'[k] = log[k]
      /\ \A k \in 1..Len(data) : log'[Len(log) + k] = data[k]
  BY <1>1, <1>3 DEF Put
<1>9. TypeOK'
  <2>1. ASSUME NEW i \in 0..BufferSize-1 PROVE entries'[i] \in Slot
    <3>1. CASE \E q \in putSequence+1..end : Index(q) = i
      <4>1. PICK q \in putSequence+1..end : Index(q) = i
        BY <3>1
      <4>2. entries'[i] = Full(data[q - putSequence]) /\ q - putSequence \in 1..Len(data)
        BY <4>1, <1>6, <1>1, <1>3
      <4> QED BY <4>2, <1>1 DEF Full, Slot
    <3>2. CASE ~ \E q \in putSequence+1..end : Index(q) = i
      BY <3>2 DEF Put, Inv, TypeOK
    <3> QED BY <3>1, <3>2
  <2>2. entries' \in [0..BufferSize-1 -> Slot]
    BY <2>1 DEF Put
  <2>3. UNCHANGED <<running, getSequence, ackSequence, fetched>> /\ putSequence' = end
    BY DEF Put
  <2> QED BY <2>2, <2>3, <1>1, <1>3, <1>8 DEF TypeOK, Inv
<1>10. CursorOrder'
  BY <1>3, <1>4 DEF Put, CursorOrder, MinimumGetOrAck
<1>11. UnackedRetained'
  <2> SUFFICES ASSUME NEW q \in ackSequence+1..end
               PROVE  entries'[Index(q)] = Full(log'[q+1])
    BY DEF UnackedRetained, Put, At, Index
  <2>1. CASE q <= putSequence
    <3>1. log'[q+1] = log[q+1]
      BY <1>3, <1>8, <2>1
    <3> QED BY <3>1, <2>1, <1>3, <1>7 DEF Inv, UnackedRetained, At
  <2>2. CASE q > putSequence
    <3>1. q - putSequence \in 1..Len(data) /\ q + 1 = Len(log) + (q - putSequence)
      BY <1>1, <1>3, <2>2
    <3>2. log'[q+1] = data[q - putSequence]
      BY <3>1, <1>8
    <3> QED BY <3>2, <1>6, <1>1, <1>3, <2>2
  <2> QED BY <1>1, <1>3, <2>1, <2>2
<1> QED BY <1>9, <1>10, <1>11 DEF Inv

\* A get keeps the invariant: it moves only the get cursor, up to at most the
\* put cursor.
LEMMA GetInv ==
  ASSUME Inv, NEW batchSize \in BatchSizes, Get(batchSize) PROVE Inv'
<1>1. PICK end \in getSequence+1..putSequence : GetTo(end, batchSize)
  BY DEF Get
<1>2. /\ getSequence' = end
      /\ fetched' = IF end > fetched THEN end ELSE fetched
      /\ UNCHANGED <<running, entries, putSequence, ackSequence, log>>
  BY <1>1 DEF GetTo
<1>3. TypeOK'
  BY <1>2, CursorFacts DEF Inv, TypeOK
<1>4. CursorOrder'
  BY <1>2, CursorFacts, StoreAssumption DEF Inv, CursorOrder, MinimumGetOrAck
<1>5. UnackedRetained'
  BY <1>2 DEF Inv, UnackedRetained, At, Index
<1> QED BY <1>3, <1>4, <1>5 DEF Inv

\* Releasing the slots up to next keeps the invariant, whichever fetched
\* sequence above the ack cursor next is.
LEMMA CleanToInv ==
  ASSUME Inv, NEW next \in ackSequence+1..fetched, CleanTo(next) PROVE Inv'
<1>1. /\ ackSequence' = next
      /\ UNCHANGED <<running, putSequence, getSequence, log, fetched>>
  BY DEF CleanTo
<1>2. TypeOK'
  <2>1. entries' \in [0..BufferSize-1 -> Slot]
    <3>1. CASE MemMode
      <4>1. ASSUME NEW i \in 0..BufferSize-1
            PROVE  entries'[i] \in {[entries[i] EXCEPT !.entry = FALSE], Empty, entries[i]}
        BY <3>1 DEF CleanTo
      <4>2. ASSUME NEW i \in 0..BufferSize-1 PROVE entries'[i] \in Slot
        <5>1. entries[i] \in Slot
          BY DEF Inv, TypeOK
        <5>2. [entries[i] EXCEPT !.entry = FALSE] \in Slot
          BY <5>1 DEF Slot
        <5>3. Empty \in Slot
          BY DEF Slot, Empty
        <5> QED BY <4>1, <5>1, <5>2, <5>3
      <4>3. PICK f : entries' = [i \in 0..BufferSize-1 |-> f[i]]
        <5>1. entries' = [i \in 0..BufferSize-1 |-> entries'[i]]
          BY <3>1 DEF CleanTo
        <5> QED BY <5>1
      <4> QED BY <4>2, <4>3
    <3>2. CASE ~ MemMode
      BY <3>2 DEF CleanTo, Inv, TypeOK
    <3> QED BY <3>1, <3>2
  <2> QED BY <2>1, <1>1, CursorFacts DEF Inv, TypeOK
<1>3. CursorOrder'
  BY <1>1, CursorFacts, StoreAssumption DEF Inv, CursorOrder, MinimumGetOrAck
<1>4. UnackedRetained'
  <2> SUFFICES ASSUME NEW q \in next+1..putSequence
               PROVE  entries'[Index(q)] = Full(log[q+1])
    BY <1>1 DEF UnackedRetained, At, Index
  <2>1. q \in ackSequence+1..putSequence
    BY CursorFacts DEF Inv
  <2>2. entries[Index(q)] = Full(log[q+1])
    BY <2>1 DEF Inv, UnackedRetained, At
  <2>3. \A p \in ackSequence+1..next : Index(p) # Index(q)
    BY CursorFacts, IndexDistinct, StoreAssumption DEF Inv
  <2>4. entries'[Index(q)] = entries[Index(q)]
    <3>1. CASE MemMode
      <4>1. Index(q) # Index(next)
        BY <2>3, CursorFacts DEF Inv
      <4>2. ~ \E p \in ackSequence+1..next-1 : Index(p) = Index(q)
        BY <2>3, CursorFacts DEF Inv
      <4>3. Index(q) \in 0..BufferSize-1
        BY IndexRange, <2>1, CursorFacts DEF Inv
      <4> QED BY <4>1, <4>2, <4>3, <3>1 DEF CleanTo
    <3>2. CASE ~ MemMode
      BY <3>2 DEF CleanTo
    <3> QED BY <3>1, <3>2
  <2> QED BY <2>2, <2>4
<1> QED BY <1>2, <1>3, <1>4 DEF Inv

\* Every ack, however late, releases the slots up to a fetched sequence; an ack by
\* position alone never scans past the get cursor.
LEMMA AckCleans ==
  ASSUME Inv, AckSequence \/ AckPosition
  PROVE  \E next \in ackSequence+1..fetched : CleanTo(next)
<1>1. CASE AckSequence
  <2>1. PICK q \in 0..fetched : CleanUntil(log[q+1], q)
    BY <1>1 DEF AckSequence
  <2>2. PICK next \in AckMatches(log[q+1], q) : CleanTo(next)
    BY <2>1 DEF CleanUntil
  <2>3. next \in ackSequence+1..fetched
    BY <2>2, CursorFacts DEF AckMatches, Inv
  <2> QED BY <2>2, <2>3
<1>2. CASE AckPosition
  <2>1. PICK e \in Event : CleanUntil(e, -1)
    BY <1>2 DEF AckPosition
  <2>2. PICK next \in AckMatches(e, -1) : CleanTo(next)
    BY <2>1 DEF CleanUntil
  <2>3. next \in ackSequence+1..fetched
    BY <2>2, CursorFacts DEF AckMatches, Inv
  <2> QED BY <2>2, <2>3
<1> QED BY <1>1, <1>2

LEMMA AckInv == ASSUME Inv, AckSequence \/ AckPosition PROVE Inv'
BY AckCleans, CleanToInv

\* A rollback moves the get cursor to the ack cursor.
LEMMA RollbackInv == ASSUME Inv, Rollback PROVE Inv'
<1>1. /\ getSequence' = ackSequence
      /\ UNCHANGED <<running, entries, putSequence, ackSequence, log, fetched>>
  BY DEF Rollback
<1>2. TypeOK'
  BY <1>1, CursorFacts DEF Inv, TypeOK
<1>3. CursorOrder'
  BY <1>1, CursorFacts, StoreAssumption DEF Inv, CursorOrder, MinimumGetOrAck
<1>4. UnackedRetained'
  BY <1>1 DEF Inv, UnackedRetained, At, Index
<1> QED BY <1>2, <1>3, <1>4 DEF Inv

\* The state of an empty store satisfies the invariant.
LEMMA EmptyInv ==
  ASSUME running \in BOOLEAN,
         entries = [i \in 0..BufferSize-1 |-> Empty],
         putSequence = InitSequence, getSequence = InitSequence,
         ackSequence = InitSequence, log = <<>>, fetched = InitSequence
  PROVE  Inv
<1>1. TypeOK
  BY DEF TypeOK, Slot, Empty, InitSequence
<1>2. CursorOrder
  BY StoreAssumption DEF CursorOrder, MinimumGetOrAck, InitSequence
<1>3. UnackedRetained
  BY DEF UnackedRetained, InitSequence
<1> QED BY <1>1, <1>2, <1>3 DEF Inv

\* stop() empties the store.
LEMMA StopInv == ASSUME Stop PROVE Inv'
<1>1. TypeOK'
  <2>1. entries' \in [0..BufferSize-1 -> Slot]
    BY DEF Stop, Reset, Slot, Empty
  <2>2. /\ running' \in BOOLEAN /\ log' = <<>>
        /\ putSequence' = -1 /\ getSequence' = -1 /\ ackSequence' = -1 /\ fetched' = -1
    BY DEF Stop, Reset, InitSequence
  <2>3. log' \in Seq(Event) /\ Len(log') = 0
    BY <2>2
  <2> QED BY <2>1, <2>2, <2>3 DEF TypeOK
<1>2. CursorOrder'
  BY StoreAssumption DEF Stop, Reset, CursorOrder, MinimumGetOrAck, InitSequence
<1>3. UnackedRetained'
  BY DEF Stop, Reset, UnackedRetained, InitSequence
<1> QED BY <1>1, <1>2, <1>3 DEF Inv

\* Steps that change none of the variables the invariant reads.
LEMMA StutterInv ==
  ASSUME Inv, running' \in BOOLEAN, UNCHANGED <<entries, cursors, log, fetched>>
  PROVE  Inv'
<1>1. UNCHANGED <<entries, putSequence, getSequence, ackSequence, log, fetched>>
  BY DEF cursors
<1> QED BY <1>1 DEF Inv, TypeOK, CursorOrder, MinimumGetOrAck, UnackedRetained, At, Index

LEMMA InitInv == Init => Inv
BY EmptyInv DEF Init

LEMMA NextInv == Inv /\ [Next]_storeVars => Inv'
<1> SUFFICES ASSUME Inv, [Next]_storeVars PROVE Inv'
  OBVIOUS
<1>1. CASE Start
  BY <1>1, StutterInv DEF Start
<1>2. CASE Stop
  BY <1>2, StopInv
<1>3. CASE PutSome
  BY <1>3, PutInv, DataLists DEF PutSome
<1>4. CASE GetSome
  BY <1>4, GetInv DEF GetSome
<1>5. CASE AckSequence \/ AckPosition
  BY <1>5, AckInv
<1>6. CASE Rollback
  BY <1>6, RollbackInv
<1>7. CASE UNCHANGED storeVars
  BY <1>7, StutterInv DEF storeVars, Inv, TypeOK
<1> QED BY <1>1, <1>2, <1>3, <1>4, <1>5, <1>6, <1>7 DEF Next

-----------------------------------------------------------------------------
\* The store's variables always have their types and the log is what the put
\* cursor counts.
THEOREM TypeCorrect == Spec => []TypeOK
<1>1. Inv => TypeOK
  BY DEF Inv
<1> QED BY <1>1, InitInv, NextInv, PTL DEF Spec

\* No put laps an unfinished reader, whatever order acks, gets and rollbacks
\* come in.
THEOREM CursorsOrdered == Spec => []CursorOrder
<1>1. Inv => CursorOrder
  BY DEF Inv
<1> QED BY <1>1, InitInv, NextInv, PTL DEF Spec

\* No unacked event is ever overwritten or released.
THEOREM UnackedNeverLost == Spec => []UnackedRetained
<1>1. Inv => UnackedRetained
  BY DEF Inv
<1> QED BY <1>1, InitInv, NextInv, PTL DEF Spec

-----------------------------------------------------------------------------
(* What the slots behind the ack cursor still hold. *)

\* A slot of the last lap is empty or names the event of its sequence, its
\* entry possibly released.
SlotsHoldLog ==
  \A q \in 0..putSequence :
    q > putSequence - BufferSize => At(q) = Empty \/ At(q).event = log[q+1]

\* A put leaves the slots of the last lap that it does not write.
LEMMA PutSlots ==
  ASSUME Inv, SlotsHoldLog, NEW data \in Seq(Event), data # <<>>, Put(data)
  PROVE  SlotsHoldLog'
<1> DEFINE end == putSequence + Len(data)
<1>1. /\ data \in Seq(Event) /\ Len(data) \in Nat /\ Len(data) > 0
      /\ putSequence \in Int /\ putSequence >= -1 /\ ackSequence \in Int
      /\ getSequence \in Int /\ ackSequence <= putSequence
      /\ putSequence = Len(log) - 1 /\ log \in Seq(Event)
  BY CursorFacts DEF Inv, TypeOK
<1>2. putSequence' = end /\ ackSequence' = ackSequence /\ log' = log \o data
  BY DEF Put
<1>3. end - BufferSize <= putSequence
  <2>1. MinimumGetOrAck \in Int /\ MinimumGetOrAck <= putSequence
    BY <1>1, CursorFacts DEF MinimumGetOrAck, Inv
  <2>2. end - BufferSize <= MinimumGetOrAck
    BY DEF Put, CheckFreeSlotAt
  <2> QED BY <1>1, <2>1, <2>2, StoreAssumption
<1> SUFFICES ASSUME NEW q \in 0..end, q > end - BufferSize
             PROVE  entries'[Index(q)] = Empty \/ entries'[Index(q)].event = log'[q+1]
  BY <1>2 DEF SlotsHoldLog, At, Index
<1>4. CASE q <= putSequence
  <2>1. \A p \in putSequence+1..end : Index(p) # Index(q)
    BY <1>1, <1>3, <1>4, IndexDistinct, StoreAssumption
  <2>2. entries'[Index(q)] = entries[Index(q)]
    BY <2>1, <1>1, IndexRange DEF Put
  <2>3. log'[q+1] = log[q+1]
    BY <1>1, <1>2, <1>4
  <2>4. q \in 0..putSequence /\ q > putSequence - BufferSize
    BY <1>1, <1>4, StoreAssumption
  <2> QED BY <2>2, <2>3, <2>4 DEF SlotsHoldLog, At
<1>5. CASE q > putSequence
  <2>1. UnackedRetained'
    BY PutInv DEF Inv
  <2>2. q \in ackSequence'+1..putSequence'
    BY <1>1, <1>2, <1>5
  <2>3. entries'[Index(q)] = Full(log'[q+1])
    BY <2>1, <2>2 DEF UnackedRetained, At, Index
  <2> QED BY <2>3 DEF Full
<1> QED BY <1>1, <1>4, <1>5

\* A slot is its event and its flag.
LEMMA SlotEquality ==
  ASSUME NEW r \in Slot, NEW s \in Slot, r.event = s.event, r.entry = s.entry
  PROVE  r = s
BY DEF Slot

\* A release empties slots or detaches an entry.
LEMMA CleanToSlots ==
  ASSUME Inv, SlotsHoldLog, NEW next \in ackSequence+1..fetched, CleanTo(next)
  PROVE  SlotsHoldLog'
<1>1. UNCHANGED <<putSequence, log>>
  BY DEF CleanTo
<1> SUFFICES ASSUME NEW q \in 0..putSequence, q > putSequence - BufferSize
             PROVE  entries'[Index(q)] = Empty \/ entries'[Index(q)].event = log[q+1]
  BY <1>1 DEF SlotsHoldLog, At, Index
<1>2. Index(q) \in 0..BufferSize-1 /\ entries[Index(q)] \in Slot
  BY IndexRange, CursorFacts DEF Inv, TypeOK
<1>3. entries[Index(q)] = Empty \/ entries[Index(q)].event = log[q+1]
  BY DEF SlotsHoldLog, At
<1>4. CASE MemMode
  <2> DEFINE slot == entries[Index(q)]
             detached == [slot EXCEPT !.entry = FALSE]
  <2>1. entries'[Index(q)] \in {detached, Empty, slot}
    BY <1>2, <1>4 DEF CleanTo
  <2>2. detached \in Slot /\ detached.event = slot.event /\ detached.entry = FALSE
    BY <1>2 DEF Slot
  <2>3. Empty \in Slot /\ Empty.entry = FALSE
    BY DEF Slot, Empty
  <2> HIDE DEF detached
  <2>4. detached.entry = Empty.entry
    BY <2>2, <2>3, Zenon
  <2>5. slot = Empty => detached = Empty
    BY <2>2, <2>3, <2>4, SlotEquality
  <2> QED BY <1>3, <2>1, <2>2, <2>5
<1>5. CASE ~ MemMode
  BY <1>3, <1>5 DEF CleanTo
<1> QED BY <1>4, <1>5

LEMMA InitSlots == Init => SlotsHoldLog
BY DEF Init, SlotsHoldLog, InitSequence

LEMMA NextSlots == Inv /\ SlotsHoldLog /\ [Next]_storeVars => SlotsHoldLog'
<1> SUFFICES ASSUME Inv, SlotsHoldLog, [Next]_storeVars PROVE SlotsHoldLog'
  OBVIOUS
<1>1. CASE Stop
  BY <1>1 DEF Stop, Reset, SlotsHoldLog, InitSequence
<1>2. CASE PutSome
  BY <1>2, PutSlots, DataLists DEF PutSome
<1>3. CASE AckSequence \/ AckPosition
  BY <1>3, AckCleans, CleanToSlots
<1>4. CASE Start \/ GetSome \/ Rollback \/ UNCHANGED storeVars
  <2>1. UNCHANGED <<entries, putSequence, log>>
    BY <1>4 DEF Start, GetSome, Get, GetTo, Rollback, storeVars, cursors
  <2> QED BY <2>1 DEF SlotsHoldLog, At, Index
<1> QED BY <1>1, <1>2, <1>3, <1>4 DEF Next

-----------------------------------------------------------------------------
(* What events weigh. *)

\* The weight of the events lo..hi of a log.
Weight(events, lo, hi) == SumFunction([q \in lo..hi |-> RawLength[events[q+1]]])

\* The weights of an interval of the log add up.
LEMMA WeightSplit ==
  ASSUME NEW events \in Seq(Event), NEW a \in Nat, NEW b \in Int, NEW c \in Int,
         a <= b + 1, b <= c, c < Len(events)
  PROVE  /\ Weight(events, a, c) = Weight(events, a, b) + Weight(events, b+1, c)
         /\ Weight(events, a, b) \in Nat /\ Weight(events, b+1, c) \in Nat
<1> DEFINE w == [q \in a..c |-> RawLength[events[q+1]]]
           v == [q \in a..b |-> RawLength[events[q+1]]]
           u == [q \in b+1..c |-> RawLength[events[q+1]]]
<1>1. /\ \A q \in a..c : w[q] \in Nat /\ w[q] \in Int
      /\ \A q \in a..b : v[q] = w[q] /\ v[q] \in Nat
      /\ \A q \in b+1..c : u[q] = w[q] /\ u[q] \in Nat
  BY StoreAssumption
<1>2. /\ Weight(events, a, c) = SumFunctionOnSet(w, a..c)
      /\ Weight(events, a, b) = SumFunctionOnSet(v, a..b)
      /\ Weight(events, b+1, c) = SumFunctionOnSet(u, b+1..c)
  BY DEF Weight, SumFunction
<1>3. IsFiniteSet(a..b) /\ IsFiniteSet(b+1..c)
  <2>1. a \in Int /\ b+1 \in Int
    OBVIOUS
  <2> QED BY <2>1, FS_Interval
<1> HIDE DEF w, v, u
<1>4. SumFunctionOnSet(w, a..c)
        = SumFunctionOnSet(w, a..b) + SumFunctionOnSet(w, b+1..c)
  BY <1>1, SumInterval
<1>5. SumFunctionOnSet(v, a..b) = SumFunctionOnSet(w, a..b)
  BY <1>1, <1>3, SumCongruence
<1>6. SumFunctionOnSet(u, b+1..c) = SumFunctionOnSet(w, b+1..c)
  BY <1>1, <1>3, SumCongruence
<1>7. SumFunctionOnSet(v, a..b) \in Nat /\ SumFunctionOnSet(u, b+1..c) \in Nat
  BY <1>1, <1>3, SumNat
<1> QED BY <1>2, <1>4, <1>5, <1>6, <1>7

\* No events weigh nothing.
LEMMA WeightEmpty ==
  ASSUME NEW events, NEW a \in Int, NEW b \in Int, b < a
  PROVE  Weight(events, a, b) = 0
<1> DEFINE v == [q \in a..b |-> RawLength[events[q+1]]]
<1>1. a..b = {} /\ DOMAIN v = a..b
  OBVIOUS
<1>2. Weight(events, a, b) = SumFunctionOnSet(v, a..b)
  BY DEF Weight, SumFunction
<1> HIDE DEF v
<1> QED BY <1>1, <1>2, SumEmpty

LEMMA WeightNat ==
  ASSUME NEW events \in Seq(Event), NEW a \in Nat, NEW b \in Int, b < Len(events)
  PROVE  Weight(events, a, b) \in Nat
<1>1. CASE a <= b + 1
  BY <1>1, WeightSplit
<1>2. CASE b < a
  BY <1>2, WeightEmpty
<1> QED BY <1>1, <1>2

\* Fewer events weigh less.
LEMMA WeightMonotone ==
  ASSUME NEW events \in Seq(Event), NEW a \in Nat, NEW b \in Nat, NEW c \in Int,
         NEW d \in Int, a <= b, c <= d, d < Len(events)
  PROVE  Weight(events, b, c) <= Weight(events, a, d)
<1>1. Weight(events, a, d) \in Nat
  BY WeightNat
<1>2. CASE b <= c
  <2>1. PICK k \in Int : b = k + 1
    OBVIOUS
  <2>2. /\ Weight(events, a, d) = Weight(events, a, k) + Weight(events, k+1, d)
        /\ Weight(events, a, k) \in Nat
    <3>1. a <= k + 1 /\ k <= d
      BY <1>2, <2>1
    <3> QED BY <3>1, WeightSplit
  <2>3. /\ Weight(events, b, d) = Weight(events, b, c) + Weight(events, c+1, d)
        /\ Weight(events, b, c) \in Nat /\ Weight(events, c+1, d) \in Nat
    <3>1. b <= c + 1
      BY <1>2
    <3> QED BY <3>1, WeightSplit
  <2> QED BY <2>1, <2>2, <2>3
<1>3. CASE c < b
  BY <1>1, <1>3, WeightEmpty
<1> QED BY <1>2, <1>3

\* What a put appends weighs what the put charges, and what was there weighs
\* the same.
LEMMA WeightAppend ==
  ASSUME NEW events \in Seq(Event), NEW data \in Seq(Event), NEW a \in Nat,
         a <= Len(events)
  PROVE  /\ Weight(events \o data, a, Len(events) + Len(data) - 1)
              = Weight(events, a, Len(events) - 1) + DataMem(data)
         /\ Weight(events, a, Len(events) - 1) \in Nat /\ DataMem(data) \in Nat
         /\ Weight(events \o data, a, Len(events) - 1) = Weight(events, a, Len(events) - 1)
<1> DEFINE both == events \o data
           w == [k \in 1..Len(data) |-> RawLength[data[k]]]
<1>1. PICK n \in Nat, m \in Nat, last \in Int :
        n = Len(events) /\ m = Len(data) /\ last = n - 1
  OBVIOUS
<1>2. /\ both \in Seq(Event) /\ Len(both) = n + m
      /\ \A k \in 1..n : both[k] = events[k]
      /\ \A k \in 1..m : both[n+k] = data[k] /\ data[k] \in Event
  BY <1>1
<1> HIDE DEF both
<1>3. /\ Weight(both, a, last+m) = Weight(both, a, last) + Weight(both, last+1, last+m)
      /\ Weight(both, a, last) \in Nat /\ Weight(both, last+1, last+m) \in Nat
  <2>1. a <= last + 1 /\ last <= last + m /\ last + m \in Int /\ last + m < Len(both)
    BY <1>1, <1>2
  <2> QED BY <1>2, <2>1, WeightSplit
<1>4. Weight(both, a, last) = Weight(events, a, last)
  <2>1. \A q \in a..last : both[q+1] = events[q+1]
    BY <1>1, <1>2
  <2>2. [q \in a..last |-> RawLength[both[q+1]]]
          = [q \in a..last |-> RawLength[events[q+1]]]
    BY <2>1
  <2> QED BY <2>2 DEF Weight
<1>5. Weight(both, last+1, last+m) = DataMem(data)
  <2> DEFINE v == [q \in last+1..last+m |-> RawLength[both[q+1]]]
  <2>1. \A k \in 1..m : w[k] \in Int /\ v[last+k] = w[k]
    BY <1>1, <1>2, StoreAssumption
  <2>2. DOMAIN w = 1..m /\ DOMAIN v = last+1..last+m
    BY <1>1
  <2>3. Weight(both, last+1, last+m) = SumFunctionOnSet(v, last+1..last+m)
    BY <2>2 DEF Weight, SumFunction
  <2>4. DataMem(data) = SumFunctionOnSet(w, 1..m)
    BY <2>2 DEF DataMem, SumFunction
  <2> HIDE DEF w, v
  <2>5. SumFunctionOnSet(v, last+1..last+m) = SumFunctionOnSet(w, 1..m)
    <3>1. m \in Int /\ \A i \in 1..m : w[i] \in Int /\ v[last+i] = w[i]
      BY <2>1
    <3>2. ASSUME NEW a1 \in Int, a1 = 1
          PROVE  SumFunctionOnSet(v, last+a1..last+m) = SumFunctionOnSet(w, a1..m)
      <4>1. \A i \in a1..m : w[i] \in Int /\ v[last+i] = w[i]
        BY <3>1, <3>2
      <4> QED BY <3>1, <4>1, SumShift
    <3> QED BY <3>2
  <2> QED BY <2>3, <2>4, <2>5
<1>6. n - 1 = last /\ n + m - 1 = last + m
  BY <1>1
<1> QED BY <1>1, <1>3, <1>4, <1>5, <1>6 DEF both

\* The slots of unacked events weigh what those events weigh.
LEMMA UnackedWeight ==
  ASSUME Inv, NEW lo \in Int, NEW hi \in Int, ackSequence < lo, hi <= putSequence
  PROVE  MemOf(lo..hi) = Weight(log, lo, hi)
<1>1. \A q \in lo..hi : At(q).event = log[q+1]
  <2>1. \A q \in lo..hi : q \in ackSequence+1..putSequence
    BY CursorFacts DEF Inv
  <2> QED BY <2>1 DEF Inv, UnackedRetained, Full
<1>2. [q \in lo..hi |-> RawLength[At(q).event]] = [q \in lo..hi |-> RawLength[log[q+1]]]
  BY <1>1
<1> QED BY <1>2 DEF MemOf, Weight

\* A number that fits into an int is left alone by Java's arithmetic.
LEMMA JavaIntSmall ==
  ASSUME NEW n \in Nat, n < IntBound PROVE JavaInt(n) = n
<1> DEFINE m == 2 * IntBound
           x == n + IntBound
           d == x \div m
<1>1. m \in Nat \ {0} /\ x \in 0..m-1 /\ IntBound \in Nat \ {0}
  BY StoreAssumption
<1>2. JavaInt(n) = (x % m) - IntBound
  BY DEF JavaInt
<1> HIDE DEF x, m
<1>3. d \in Int /\ x = m * d + (x % m) /\ x % m \in 0..m-1
  BY <1>1
<1>4. d = 0
  <2> HIDE DEF d
  <2>1. CASE d >= 1
    <3>1. m * d >= m
      BY <2>1, <1>1, <1>3
    <3> QED BY <3>1, <1>1, <1>3
  <2>2. CASE d <= -1
    <3>1. m * d <= -m
      BY <2>2, <1>1, <1>3
    <3> QED BY <3>1, <1>1, <1>3
  <2> QED BY <2>1, <2>2, <1>3
<1>5. x % m = x
  BY <1>1, <1>3, <1>4
<1>6. x = n + IntBound
  BY DEF x
<1> QED BY <1>1, <1>2, <1>5, <1>6

-----------------------------------------------------------------------------
(* The memory that holds back the sink.  The ring's capacity in bytes must   *)
(* fit into an int: otherwise the limit wraps below 0 and no put succeeds.   *)

RingFits == BufferSize * BufferMemUnit < IntBound

MemInv == Inv /\ putMemSize \in Int /\ ackMemSize \in Int /\ MemAccounting

LEMMA RingLimit ==
  ASSUME RingFits PROVE JavaInt(BufferSize * BufferMemUnit) \in Nat \ {0}
<1>1. BufferSize * BufferMemUnit \in Nat /\ BufferSize * BufferMemUnit # 0
  BY StoreAssumption
<1> QED BY <1>1, JavaIntSmall DEF RingFits

\* MemAccounting, said of the log.
LEMMA AccountingOfLog ==
  MemAccounting <=>
    IF MemMode
    THEN /\ putMemSize - ackMemSize = Weight(log, ackSequence+1, putSequence)
         /\ Weight(log, ackSequence+1, putSequence-MaxData)
              < JavaInt(BufferSize * BufferMemUnit)
    ELSE putMemSize = 0 /\ getMemSize = 0 /\ ackMemSize = 0
BY DEF MemAccounting, Volume, Weight, mems

LEMMA AccountingOfLogNext ==
  MemAccounting' <=>
    IF MemMode
    THEN /\ putMemSize' - ackMemSize' = Weight(log', ackSequence'+1, putSequence')
         /\ Weight(log', ackSequence'+1, putSequence'-MaxData)
              < JavaInt(BufferSize * BufferMemUnit)
    ELSE putMemSize' = 0 /\ getMemSize' = 0 /\ ackMemSize' = 0
BY DEF MemAccounting, Volume, Weight, mems

\* A put is charged what it appends, and only starts below the limit.
LEMMA PutMem ==
  ASSUME MemInv, RingFits, NEW data \in DataList, Put(data)
  PROVE  putMemSize' \in Int /\ ackMemSize' \in Int /\ MemAccounting'
<1>1. /\ data \in Seq(Event) /\ Len(data) \in Nat /\ 0 < Len(data)
      /\ Len(data) <= MaxData /\ MaxData \in Nat
  BY StoreAssumption DEF DataList
<1>2. /\ putSequence \in Int /\ ackSequence \in Int
      /\ -1 <= ackSequence /\ ackSequence <= putSequence
      /\ log \in Seq(Event) /\ putSequence = Len(log) - 1
  BY CursorFacts DEF MemInv, Inv, TypeOK
<1>3. /\ putSequence' = putSequence + Len(data) /\ log' = log \o data
      /\ ackSequence' = ackSequence /\ ackMemSize' = ackMemSize
      /\ getMemSize' = getMemSize
  BY DEF Put
<1>4. CASE MemMode
  <2>1. PICK a \in Nat : a = ackSequence + 1 /\ a <= Len(log)
    BY <1>2
  <2>2. /\ Weight(log \o data, a, Len(log) + Len(data) - 1)
             = Weight(log, a, Len(log) - 1) + DataMem(data)
        /\ Weight(log, a, Len(log) - 1) \in Nat /\ DataMem(data) \in Nat
        /\ Weight(log \o data, a, Len(log) - 1) = Weight(log, a, Len(log) - 1)
    BY <1>1, <1>2, <2>1, WeightAppend
  <2>3. /\ putMemSize \in Int /\ ackMemSize \in Int
        /\ putMemSize - ackMemSize = Weight(log, a, Len(log) - 1)
    BY <1>2, <1>4, <2>1, AccountingOfLog DEF MemInv
  <2>4. putMemSize' = putMemSize + DataMem(data)
    BY <1>4 DEF Put
  <2>5. putMemSize' - ackMemSize' = Weight(log', a, putSequence')
    <3>1. putSequence' = Len(log) + Len(data) - 1
      BY <1>1, <1>2, <1>3
    <3> QED BY <2>2, <2>3, <2>4, <1>3, <3>1
  <2>6. putMemSize - ackMemSize < JavaInt(BufferSize * BufferMemUnit)
    BY <1>4 DEF Put, CheckFreeSlotAt
  <2>7. Weight(log', a, putSequence' - MaxData) <= Weight(log', a, Len(log) - 1)
    <3>1. log' \in Seq(Event) /\ Len(log') = Len(log) + Len(data)
      BY <1>1, <1>2, <1>3
    <3>2. putSequence' - MaxData <= Len(log) - 1 /\ putSequence' - MaxData \in Int
          /\ Len(log) - 1 \in Int /\ Len(log) - 1 < Len(log')
      BY <1>1, <1>2, <1>3, <3>1
    <3> QED BY <3>1, <3>2, WeightMonotone
  <2>8. Weight(log', a, putSequence' - MaxData) < JavaInt(BufferSize * BufferMemUnit)
    <3>1. Weight(log', a, putSequence' - MaxData) \in Int
      <4>1. log' \in Seq(Event) /\ Len(log') = Len(log) + Len(data)
        BY <1>1, <1>2, <1>3
      <4>2. putSequence' - MaxData \in Int /\ putSequence' - MaxData < Len(log')
        BY <1>1, <1>2, <1>3, <4>1
      <4> QED BY <4>1, <4>2, WeightNat
    <3>2. JavaInt(BufferSize * BufferMemUnit) \in Int
      BY RingLimit
    <3> QED BY <1>3, <2>2, <2>3, <2>6, <2>7, <3>1, <3>2
  <2> QED BY <1>3, <1>4, <2>1, <2>2, <2>3, <2>4, <2>5, <2>8, AccountingOfLogNext
<1>5. CASE ~ MemMode
  BY <1>3, <1>5, AccountingOfLog, AccountingOfLogNext DEF MemInv, Put
<1> QED BY <1>4, <1>5

\* An ack takes off exactly what the events it confirms weigh.
LEMMA AckMem ==
  ASSUME MemInv, RingFits, AckSequence \/ AckPosition
  PROVE  putMemSize' \in Int /\ ackMemSize' \in Int /\ MemAccounting'
<1>1. PICK next \in ackSequence+1..fetched : CleanTo(next)
  BY AckCleans DEF MemInv
<1>2. /\ putSequence \in Int /\ ackSequence \in Int
      /\ -1 <= ackSequence /\ ackSequence < next /\ next <= putSequence
      /\ next \in Int /\ log \in Seq(Event) /\ putSequence = Len(log) - 1
      /\ MaxData \in Nat
  BY CursorFacts, StoreAssumption DEF MemInv, Inv, TypeOK
<1>3. /\ ackSequence' = next
      /\ UNCHANGED <<putSequence, log, putMemSize, getMemSize>>
  BY <1>1 DEF CleanTo
<1>4. CASE MemMode
  <2>1. PICK a \in Nat : a = ackSequence + 1 /\ a <= next
    BY <1>2
  <2>2. /\ Weight(log, a, putSequence)
             = Weight(log, a, next) + Weight(log, next+1, putSequence)
        /\ Weight(log, a, next) \in Nat /\ Weight(log, next+1, putSequence) \in Nat
    <3>1. a <= next + 1 /\ putSequence < Len(log)
      BY <1>2, <2>1
    <3> QED BY <1>2, <3>1, WeightSplit
  <2>3. ackMemSize' = ackMemSize + Weight(log, a, next)
    <3>1. ackSequence < a
      BY <2>1, <1>2
    <3>2. MemOf(a..next) = Weight(log, a, next)
      BY <1>2, <3>1, UnackedWeight DEF MemInv
    <3>3. ackMemSize' = ackMemSize + MemOf(a..next)
      BY <1>1, <1>4, <2>1 DEF CleanTo
    <3> QED BY <3>2, <3>3
  <2>4. /\ putMemSize \in Int /\ ackMemSize \in Int
        /\ putMemSize - ackMemSize = Weight(log, a, putSequence)
        /\ Weight(log, a, putSequence-MaxData) < JavaInt(BufferSize * BufferMemUnit)
    BY <1>4, <2>1, AccountingOfLog DEF MemInv
  <2>5. putMemSize' - ackMemSize' = Weight(log', ackSequence'+1, putSequence')
    BY <1>3, <2>2, <2>3, <2>4
  <2>6. Weight(log, next+1, putSequence-MaxData) < JavaInt(BufferSize * BufferMemUnit)
    <3>1. PICK d \in Int : d = putSequence - MaxData /\ d < Len(log)
      BY <1>2
    <3>2. PICK b \in Nat : b = next + 1 /\ a <= b
      BY <1>2, <2>1
    <3>3. Weight(log, b, d) <= Weight(log, a, d)
      BY <1>2, <3>1, <3>2, WeightMonotone
    <3>4. Weight(log, b, d) \in Int /\ Weight(log, a, d) \in Int
      BY <1>2, <3>1, WeightNat
    <3>5. JavaInt(BufferSize * BufferMemUnit) \in Int
      BY RingLimit
    <3> QED BY <2>4, <3>1, <3>2, <3>3, <3>4, <3>5
  <2> QED BY <1>3, <1>4, <2>2, <2>3, <2>4, <2>5, <2>6, AccountingOfLogNext
<1>5. CASE ~ MemMode
  BY <1>1, <1>3, <1>5, AccountingOfLog, AccountingOfLogNext DEF MemInv, CleanTo
<1> QED BY <1>4, <1>5

\* An empty store holds no memory.
LEMMA EmptyMem ==
  ASSUME RingFits, putSequence = -1, ackSequence = -1, putMemSize = 0,
         getMemSize = 0, ackMemSize = 0
  PROVE  putMemSize \in Int /\ ackMemSize \in Int /\ MemAccounting
<1>1. -1 - MaxData \in Int /\ -1 - MaxData < 0
  BY StoreAssumption
<1>2. Weight(log, 0, -1) = 0 /\ Weight(log, 0, -1 - MaxData) = 0
  BY <1>1, WeightEmpty
<1>3. 0 < JavaInt(BufferSize * BufferMemUnit)
  BY RingLimit
<1> QED BY <1>2, <1>3, AccountingOfLog

LEMMA InitMem == ASSUME RingFits PROVE Init => MemInv
BY InitInv, EmptyMem DEF MemInv, Init, InitSequence

LEMMA NextMem == ASSUME RingFits PROVE MemInv /\ [Next]_storeVars => MemInv'
<1> SUFFICES ASSUME MemInv, [Next]_storeVars
             PROVE  putMemSize' \in Int /\ ackMemSize' \in Int /\ MemAccounting'
  BY NextInv DEF MemInv
<1>1. CASE Stop
  <2>1. /\ putSequence' = -1 /\ ackSequence' = -1 /\ putMemSize' = 0
        /\ getMemSize' = 0 /\ ackMemSize' = 0
    BY <1>1 DEF Stop, Reset, InitSequence
  <2>2. -1 - MaxData \in Int /\ -1 - MaxData < 0
    BY StoreAssumption
  <2>3. Weight(log', 0, -1) = 0 /\ Weight(log', 0, -1 - MaxData) = 0
    BY <2>2, WeightEmpty
  <2>4. 0 < JavaInt(BufferSize * BufferMemUnit)
    BY RingLimit
  <2> QED BY <2>1, <2>3, <2>4, AccountingOfLogNext
<1>2. CASE PutSome
  BY <1>2, PutMem DEF PutSome
<1>3. CASE AckSequence \/ AckPosition
  BY <1>3, AckMem
<1>4. CASE Start \/ GetSome \/ Rollback \/ UNCHANGED storeVars
  <2>1. /\ UNCHANGED <<putSequence, ackSequence, putMemSize, ackMemSize, log>>
        /\ ~ MemMode => getMemSize' = getMemSize \/ getMemSize' = ackMemSize
    BY <1>4 DEF Start, GetSome, Get, GetTo, Rollback, storeVars, cursors, mems
  <2> QED BY <2>1, AccountingOfLog, AccountingOfLogNext DEF MemInv
<1> QED BY <1>1, <1>2, <1>3, <1>4 DEF Next

\* What the sink is held back by is exactly what the unacked events weigh, and
\* only the last put may overshoot the limit, whatever order acks, gets and
\* rollbacks come in.
THEOREM MemoryAccounted == ASSUME RingFits PROVE Spec => []MemAccounting
<1>1. MemInv => MemAccounting
  BY DEF MemInv
<1> QED BY <1>1, InitMem, NextMem, PTL DEF Spec

-----------------------------------------------------------------------------
(* A single caller: the ring implements the bounded queue. *)

SerialInv == Inv /\ GetAheadOfAck

\* A serial ack is one of the acks of Spec.
LEMMA SerialIsNext == ASSUME Inv, [SerialNext]_storeVars PROVE [Next]_storeVars
<1>1. CASE SerialAckSequence
  <2>1. PICK q \in ackSequence+1..getSequence : CleanUntil(log[q+1], q)
    BY <1>1 DEF SerialAckSequence
  <2>2. q \in 0..fetched
    BY CursorFacts DEF Inv
  <2> QED BY <2>1, <2>2 DEF AckSequence, Next
<1> QED BY <1>1 DEF SerialNext, Next

LEMMA SerialAckCleans ==
  ASSUME Inv, SerialAckSequence \/ AckPosition
  PROVE  \E next \in ackSequence+1..getSequence : CleanTo(next)
<1>1. CASE SerialAckSequence
  <2>1. PICK q \in ackSequence+1..getSequence : CleanUntil(log[q+1], q)
    BY <1>1 DEF SerialAckSequence
  <2>2. PICK next \in AckMatches(log[q+1], q) : CleanTo(next)
    BY <2>1 DEF CleanUntil
  <2>3. next \in ackSequence+1..getSequence
    BY <2>2, CursorFacts DEF AckMatches, Inv
  <2> QED BY <2>2, <2>3
<1>2. CASE AckPosition
  <2>1. PICK e \in Event : CleanUntil(e, -1)
    BY <1>2 DEF AckPosition
  <2>2. PICK next \in AckMatches(e, -1) : CleanTo(next)
    BY <2>1 DEF CleanUntil
  <2>3. next \in ackSequence+1..getSequence
    BY <2>2, CursorFacts DEF AckMatches, Inv
  <2> QED BY <2>2, <2>3
<1> QED BY <1>1, <1>2

\* What an ack of a single caller does: it moves the ack cursor to next, at
\* most to the get cursor, and leaves the other cursors and the log alone.
SerialAcksTo(next) ==
  /\ next \in ackSequence+1..getSequence
  /\ ackSequence' = next
  /\ UNCHANGED <<putSequence, getSequence, log>>

LEMMA SerialAck ==
  ASSUME Inv, SerialAckSequence \/ AckPosition
  PROVE  \E next : SerialAcksTo(next)
<1>1. PICK next \in ackSequence+1..getSequence : CleanTo(next)
  BY SerialAckCleans
<1> QED BY <1>1 DEF CleanTo, SerialAcksTo

LEMMA InitSerialInv == Init => SerialInv
BY InitInv DEF Init, SerialInv, GetAheadOfAck, InitSequence

LEMMA NextSerialInv == SerialInv /\ [SerialNext]_storeVars => SerialInv'
<1> SUFFICES ASSUME SerialInv, [SerialNext]_storeVars PROVE SerialInv'
  OBVIOUS
<1>1. Inv'
  BY SerialIsNext, NextInv DEF SerialInv
<1>2. GetAheadOfAck'
  <2>1. CASE Start \/ UNCHANGED storeVars
    BY <2>1 DEF Start, storeVars, cursors, SerialInv, GetAheadOfAck
  <2>2. CASE Stop
    BY <2>2 DEF Stop, Reset, GetAheadOfAck, InitSequence
  <2>3. CASE PutSome
    BY <2>3 DEF PutSome, Put, SerialInv, GetAheadOfAck
  <2>4. CASE GetSome
    <3>1. PICK batchSize \in BatchSizes, end \in getSequence+1..putSequence :
            GetTo(end, batchSize)
      BY <2>4 DEF GetSome, Get
    <3>2. getSequence' = end /\ ackSequence' = ackSequence
      BY <3>1 DEF GetTo
    <3> QED BY <3>2, CursorFacts DEF SerialInv, Inv, GetAheadOfAck
  <2>5. CASE SerialAckSequence \/ AckPosition
    <3>1. PICK next : SerialAcksTo(next)
      BY <2>5, SerialAck DEF SerialInv
    <3> QED BY <3>1, CursorFacts DEF SerialAcksTo, SerialInv, Inv, GetAheadOfAck
  <2>6. CASE Rollback
    BY <2>6, CursorFacts DEF Rollback, SerialInv, Inv, GetAheadOfAck
  <2> QED BY <2>1, <2>2, <2>3, <2>4, <2>5, <2>6 DEF SerialNext
<1> QED BY <1>1, <1>2 DEF SerialInv

\* The queue's content is the unacked suffix of the log.
UnackedFacts ==
  /\ Unacked = [i \in 1..putSequence-ackSequence |-> Full(log[ackSequence+i+1])]
  /\ Len(Unacked) = putSequence - ackSequence
  /\ Unacked \in Seq({Full(e) : e \in Event})

LEMMA UnackedIsLog == Inv => UnackedFacts
<1> SUFFICES ASSUME Inv PROVE UnackedFacts
  OBVIOUS
<1>1. /\ putSequence \in Int /\ ackSequence \in Int
      /\ -1 <= ackSequence /\ ackSequence <= putSequence
      /\ log \in Seq(Event) /\ putSequence = Len(log) - 1
  BY CursorFacts DEF Inv, TypeOK
<1>2. ASSUME NEW i \in 1..putSequence-ackSequence
      PROVE  /\ At(ackSequence+i) = Full(log[ackSequence+i+1])
             /\ log[ackSequence+i+1] \in Event
  <2>1. ackSequence+i \in ackSequence+1..putSequence
    BY <1>1
  <2>2. ackSequence+i+1 \in 1..Len(log)
    BY <1>1
  <2> QED BY <2>1, <2>2, <1>1 DEF Inv, UnackedRetained
<1>3. Unacked = [i \in 1..putSequence-ackSequence |-> Full(log[ackSequence+i+1])]
  BY <1>2 DEF Unacked
<1>4. putSequence - ackSequence \in Nat
  BY <1>1
<1>5. Unacked \in [1..putSequence-ackSequence -> {Full(e) : e \in Event}]
  BY <1>2, <1>3
<1> QED BY <1>3, <1>4, <1>5 DEF UnackedFacts

LEMMA UnackedIsLogNext == Inv' => UnackedFacts'
BY UnackedIsLog, PTL

\* Each step of a single caller is a step of the queue.
LEMMA PutRefines ==
  ASSUME Inv, Inv', NEW data \in DataList, Put(data) PROVE Queue!QNext
<1> DEFINE n == Len(data)
           m == putSequence - ackSequence
           items == [k \in 1..n |-> Full(data[k])]
<1>1. /\ data \in Seq(Event) /\ n \in Nat /\ n > 0
      /\ \A k \in 1..n : data[k] \in Event
  BY StoreAssumption DEF DataList
<1>2. /\ putSequence \in Int /\ ackSequence \in Int /\ m \in Nat
      /\ ackSequence <= putSequence /\ -1 <= ackSequence
      /\ log \in Seq(Event) /\ putSequence = Len(log) - 1
  BY CursorFacts DEF Inv, TypeOK
<1>3. /\ putSequence' = putSequence + n /\ log' = log \o data
      /\ ackSequence' = ackSequence /\ getSequence' = getSequence
      /\ CheckFreeSlotAt(putSequence + n)
  BY DEF Put
<1>4. putSequence + n - BufferSize <= ackSequence
  BY <1>1, <1>2, <1>3, CursorFacts, StoreAssumption
     DEF CheckFreeSlotAt, MinimumGetOrAck, Inv
<1>5. /\ Unacked = [i \in 1..m |-> Full(log[ackSequence+i+1])]
      /\ Len(Unacked) = m
  BY UnackedIsLog DEF UnackedFacts
<1>6. Unacked' = [i \in 1..m+n |-> Full(log'[ackSequence+i+1])]
  <2>1. (putSequence - ackSequence)' = m + n
    BY <1>1, <1>2, <1>3
  <2> QED BY <2>1, <1>3, UnackedIsLogNext DEF UnackedFacts
<1>7. Unacked' = Unacked \o items
  <2>1. Unacked \o items
          = [i \in 1..m+n |-> IF i <= m THEN Unacked[i] ELSE items[i-m]]
    BY <1>1, <1>2, <1>5
  <2>2. ASSUME NEW i \in 1..m+n
        PROVE  Full(log'[ackSequence+i+1]) = IF i <= m THEN Unacked[i] ELSE items[i-m]
    <3>1. CASE i <= m
      <4>1. ackSequence+i+1 \in 1..Len(log)
        BY <3>1, <1>2
      <4>2. log'[ackSequence+i+1] = log[ackSequence+i+1]
        BY <4>1, <1>1, <1>2, <1>3
      <4> QED BY <4>2, <3>1, <1>2, <1>5
    <3>2. CASE i > m
      <4>1. i - m \in 1..n /\ ackSequence+i+1 = Len(log) + (i - m)
        BY <3>2, <1>1, <1>2
      <4>2. \A k \in 1..n : log'[Len(log) + k] = data[k]
        BY <1>1, <1>2, <1>3
      <4>3. log'[ackSequence+i+1] = data[i - m]
        BY <4>1, <4>2
      <4> QED BY <4>1, <4>3, <3>2, <1>2
    <3> QED BY <3>1, <3>2, <1>2
  <2> QED BY <2>1, <2>2, <1>6
<1>8. items \in [1..n -> {Full(e) : e \in Event}]
  BY <1>1
<1>9. n \in 1..BufferSize - Len(Unacked)
  BY <1>1, <1>4, <1>5, <1>2, StoreAssumption
<1> QED BY <1>3, <1>7, <1>8, <1>9 DEF Queue!QNext, Queue!Enqueue

LEMMA GetRefines ==
  ASSUME SerialInv, NEW batchSize \in BatchSizes, Get(batchSize) PROVE Queue!QNext
<1>1. PICK end \in getSequence+1..putSequence : GetTo(end, batchSize)
  BY DEF Get
<1>2. getSequence' = end /\ UNCHANGED <<entries, putSequence, ackSequence>>
  BY <1>1 DEF GetTo
<1>3. Unacked' = Unacked
  BY <1>2 DEF Unacked, At, Index
<1>4. Len(Unacked) = putSequence - ackSequence
  BY UnackedIsLog DEF UnackedFacts, SerialInv
<1>5. end - getSequence \in 1..Len(Unacked) - (getSequence - ackSequence)
  BY <1>4, CursorFacts DEF SerialInv, Inv
<1>6. (getSequence - ackSequence)' = (getSequence - ackSequence) + (end - getSequence)
  BY <1>2, CursorFacts DEF SerialInv, Inv
<1> QED BY <1>3, <1>5, <1>6 DEF Queue!QNext, Queue!HandOut

LEMMA AckRefines ==
  ASSUME SerialInv, SerialInv', NEW next, SerialAcksTo(next) PROVE Queue!QNext
<1> DEFINE n == next - ackSequence
           m == putSequence - ackSequence
<1>1. /\ putSequence \in Int /\ ackSequence \in Int /\ getSequence \in Int
      /\ ackSequence <= getSequence /\ getSequence <= putSequence
      /\ next \in ackSequence+1..getSequence
  BY CursorFacts DEF SerialInv, Inv, GetAheadOfAck, SerialAcksTo
<1>2. ackSequence' = next /\ UNCHANGED <<putSequence, getSequence, log>>
  BY DEF SerialAcksTo
<1>3. n \in 1..getSequence - ackSequence /\ n \in Nat /\ m \in Nat /\ n <= m
  BY <1>1
<1>4. /\ Unacked = [i \in 1..m |-> Full(log[ackSequence+i+1])]
      /\ Len(Unacked) = m /\ Unacked \in Seq({Full(e) : e \in Event})
  BY UnackedIsLog DEF UnackedFacts, SerialInv
<1>5. Unacked' = [i \in 1..m-n |-> Full(log[next+i+1])]
  <2>1. (putSequence - ackSequence)' = m - n
    BY <1>1, <1>2
  <2> QED BY <2>1, <1>2, UnackedIsLogNext DEF UnackedFacts, SerialInv
<1>6. SubSeq(Unacked, n+1, Len(Unacked)) = [i \in 1..m-n |-> Unacked[n+i]]
  BY <1>3, <1>4
<1>7. ASSUME NEW i \in 1..m-n PROVE Unacked[n+i] = Full(log[next+i+1])
  <2>1. n+i \in 1..m /\ ackSequence+(n+i)+1 = next+i+1
    BY <1>1, <1>3
  <2> QED BY <2>1, <1>4
<1>8. Unacked' = SubSeq(Unacked, n+1, Len(Unacked))
  BY <1>5, <1>6, <1>7
<1>9. (getSequence - ackSequence)' = (getSequence - ackSequence) - n
  BY <1>1, <1>2
<1> QED BY <1>3, <1>8, <1>9 DEF Queue!QNext, Queue!Confirm

LEMMA NoStepRefines ==
  ASSUME UNCHANGED <<entries, cursors>> PROVE UNCHANGED Queue!queueVars
BY DEF cursors, Queue!queueVars, Unacked, At, Index

LEMMA InitRefines == Init => Queue!QInit
<1> SUFFICES ASSUME Init PROVE Unacked = <<>> /\ getSequence - ackSequence = 0
  BY DEF Queue!QInit
<1> QED BY DEF Init, InitSequence, Unacked

LEMMA StepRefines ==
  SerialInv /\ SerialInv' /\ [SerialNext]_storeVars => [Queue!QNext]_(Queue!queueVars)
<1> SUFFICES ASSUME SerialInv, SerialInv', [SerialNext]_storeVars
             PROVE  Queue!QNext \/ UNCHANGED Queue!queueVars
  OBVIOUS
<1>1. CASE Start
  BY <1>1, NoStepRefines DEF Start
<1>2. CASE UNCHANGED storeVars
  BY <1>2, NoStepRefines DEF storeVars
<1>3. CASE Stop
  <2>1. Unacked' = <<>> /\ (getSequence - ackSequence)' = 0
    BY <1>3 DEF Stop, Reset, InitSequence, Unacked
  <2> QED BY <2>1 DEF Queue!QNext, Queue!Clear
<1>4. CASE PutSome
  BY <1>4, PutRefines DEF PutSome, SerialInv
<1>5. CASE GetSome
  BY <1>5, GetRefines DEF GetSome
<1>6. CASE SerialAckSequence \/ AckPosition
  <2>1. PICK next : SerialAcksTo(next)
    BY <1>6, SerialAck DEF SerialInv
  <2> QED BY <2>1, AckRefines
<1>7. CASE Rollback
  <2>1. /\ getSequence' = ackSequence
        /\ UNCHANGED <<entries, putSequence, ackSequence>>
    BY <1>7 DEF Rollback
  <2>2. Unacked' = Unacked
    BY <2>1 DEF Unacked, At, Index
  <2>3. (getSequence - ackSequence)' = 0
    BY <2>1, CursorFacts DEF SerialInv, Inv
  <2> QED BY <2>2, <2>3 DEF Queue!QNext, Queue!Replay
<1> QED BY <1>1, <1>2, <1>3, <1>4, <1>5, <1>6, <1>7 DEF SerialNext

\* With a single caller the store never returns a confirmed event.
THEOREM SerialGetAheadOfAck == SerialSpec => []GetAheadOfAck
<1>1. SerialInv => GetAheadOfAck
  BY DEF SerialInv
<1> QED BY <1>1, InitSerialInv, NextSerialInv, PTL DEF SerialSpec

\* With a single caller the ring buffer implements the at-least-once queue.
THEOREM SerialImplementsQueue == SerialSpec => ImplementsQueue
<1>1. SerialSpec => []SerialInv
  BY InitSerialInv, NextSerialInv, PTL DEF SerialSpec
<1> QED BY <1>1, InitRefines, StepRefines, PTL
        DEF SerialSpec, ImplementsQueue, Queue!QSpec

-----------------------------------------------------------------------------
(* What a single caller can fetch.  The batch sizes asked for, in bytes,     *)
(* must fit into an int.                                                     *)

BatchesFit == \A batchSize \in BatchSizes : batchSize * BufferMemUnit < IntBound

LEMMA BatchLimit ==
  ASSUME BatchesFit, NEW batchSize \in BatchSizes
  PROVE  MaxMemSize(batchSize) = batchSize * BufferMemUnit /\ MaxMemSize(batchSize) \in Nat
<1>1. batchSize * BufferMemUnit \in Nat /\ batchSize * BufferMemUnit < IntBound
  BY StoreAssumption DEF BatchesFit
<1>2. MaxMemSize(batchSize) = JavaInt(batchSize * BufferMemUnit)
  BY DEF MaxMemSize
<1> QED BY <1>1, <1>2, JavaIntSmall

\* An unfetched event lies behind no ack, so its slot is intact and it is
\* taken whatever it weighs.
LEMMA SerialFetches == ASSUME BatchesFit, SerialInv PROVE FirstAlwaysFetchable
<1> SUFFICES ASSUME getSequence < putSequence, NEW batchSize \in BatchSizes
             PROVE  CanGet(batchSize)
  BY DEF FirstAlwaysFetchable
<1>1. getSequence + 1 \in ackSequence+1..putSequence
  BY CursorFacts DEF SerialInv, Inv, GetAheadOfAck
<1>2. At(getSequence+1) = Full(log[getSequence+2])
  <2>1. (getSequence + 1) + 1 = getSequence + 2
    BY CursorFacts DEF SerialInv, Inv
  <2> QED BY <1>1, <2>1 DEF SerialInv, Inv, UnackedRetained
<1>3. At(getSequence+1) # Empty
  BY <1>2 DEF Full, Empty
<1>4. Reached(getSequence+1, batchSize)
  <2>1. CASE MemMode
    <3>1. getSequence+1..(getSequence+1)-1 = {}
      BY CursorFacts DEF SerialInv, Inv
    <3>2. MemOf({}) = 0
      <4> DEFINE none == [q \in {} |-> RawLength[At(q).event]]
      <4>1. DOMAIN none = {} /\ MemOf({}) = SumFunctionOnSet(none, DOMAIN none)
        BY DEF MemOf, SumFunction
      <4> HIDE DEF none
      <4> QED BY <4>1, SumEmpty
    <3>3. MemOf(getSequence+1..(getSequence+1)-1) = 0
      <4> QED BY <3>1, <3>2
    <3>4. 0 <= MaxMemSize(batchSize)
      BY BatchLimit
    <3> QED BY <2>1, <3>3, <3>4 DEF Reached
  <2>2. CASE ~ MemMode
    <3>1. batchSize \in Nat /\ batchSize >= 1
      BY StoreAssumption
    <3> QED BY <2>2, <3>1, CursorFacts DEF Reached, SerialInv, Inv
  <2> QED BY <2>1, <2>2
<1> QED BY <1>3, <1>4 DEF CanGet

\* With a single caller an event that is stored and unfetched can always be
\* had, whichever of the batch sizes, each within an int in bytes, is asked for and
\* however heavy the event.
THEOREM SerialFirstFetchable == ASSUME BatchesFit PROVE SerialSpec => []FirstAlwaysFetchable
<1>1. SerialInv => FirstAlwaysFetchable
  BY SerialFetches
<1> QED BY <1>1, InitSerialInv, NextSerialInv, PTL DEF SerialSpec

\* The memory fetched minus the memory acked weighs what a rollback would hand
\* out again.
FetchedAccounting ==
  MemMode => /\ getMemSize \in Int
             /\ getMemSize - ackMemSize = Weight(log, ackSequence+1, getSequence)

FetchInv == SerialInv /\ MemInv /\ FetchedAccounting

\* What a get adds weighs what it hands out; no event is left out, as an
\* isolated DDL would be.
LEMMA GetFetched ==
  ASSUME FetchInv, DdlIsolation = FALSE, NEW batchSize \in BatchSizes, Get(batchSize)
  PROVE  FetchedAccounting'
<1> SUFFICES ASSUME MemMode
             PROVE  /\ getMemSize' \in Int
                    /\ getMemSize' - ackMemSize'
                         = Weight(log', ackSequence'+1, getSequence')
  BY DEF FetchedAccounting, Weight
<1>1. PICK end \in getSequence+1..putSequence : GetTo(end, batchSize)
  BY DEF Get
<1>2. /\ getSequence' = end /\ UNCHANGED <<ackSequence, ackMemSize, log>>
      /\ getMemSize' = getMemSize + MemOf(getSequence+1..end)
  BY <1>1 DEF GetTo
<1>3. /\ putSequence \in Int /\ ackSequence \in Int /\ getSequence \in Int /\ end \in Int
      /\ -1 <= ackSequence /\ ackSequence <= getSequence
      /\ getSequence < end /\ end <= putSequence
      /\ log \in Seq(Event) /\ putSequence = Len(log) - 1
  BY CursorFacts DEF FetchInv, SerialInv, Inv, TypeOK, GetAheadOfAck
<1>4. MemOf(getSequence+1..end) = Weight(log, getSequence+1, end)
  <2>1. getSequence + 1 \in Int /\ ackSequence < getSequence + 1
    BY <1>3
  <2> QED BY <2>1, <1>3, UnackedWeight DEF FetchInv, MemInv
<1>5. PICK a \in Nat : a = ackSequence + 1
  BY <1>3
<1>6. /\ Weight(log, a, end) = Weight(log, a, getSequence) + Weight(log, getSequence+1, end)
      /\ Weight(log, a, getSequence) \in Nat /\ Weight(log, getSequence+1, end) \in Nat
  <2>1. a <= getSequence + 1 /\ getSequence <= end /\ end < Len(log)
    BY <1>3, <1>5
  <2> QED BY <1>3, <2>1, WeightSplit
<1>7. /\ getMemSize \in Int /\ ackMemSize \in Int
      /\ getMemSize - ackMemSize = Weight(log, a, getSequence)
  BY <1>5 DEF FetchInv, FetchedAccounting, MemInv
<1> QED BY <1>2, <1>4, <1>5, <1>6, <1>7

LEMMA AckFetched ==
  ASSUME FetchInv, NEW next \in ackSequence+1..getSequence, CleanTo(next)
  PROVE  FetchedAccounting'
<1> SUFFICES ASSUME MemMode
             PROVE  /\ getMemSize' \in Int
                    /\ getMemSize' - ackMemSize'
                         = Weight(log', ackSequence'+1, getSequence')
  BY DEF FetchedAccounting, Weight
<1>1. /\ putSequence \in Int /\ ackSequence \in Int /\ getSequence \in Int /\ next \in Int
      /\ -1 <= ackSequence /\ ackSequence < next
      /\ next <= getSequence /\ getSequence <= putSequence
      /\ log \in Seq(Event) /\ putSequence = Len(log) - 1
  BY CursorFacts DEF FetchInv, SerialInv, Inv, TypeOK
<1>2. PICK a \in Nat : a = ackSequence + 1
  BY <1>1
<1>3. /\ ackSequence' = next /\ UNCHANGED <<getSequence, getMemSize, log>>
      /\ ackMemSize' = ackMemSize + MemOf(a..next)
  BY <1>2 DEF CleanTo
<1>4. MemOf(a..next) = Weight(log, a, next)
  <2>1. ackSequence < a /\ next <= putSequence
    BY <1>1, <1>2
  <2> QED BY <2>1, <1>1, UnackedWeight DEF FetchInv, MemInv
<1>5. /\ Weight(log, a, getSequence) = Weight(log, a, next) + Weight(log, next+1, getSequence)
      /\ Weight(log, a, next) \in Nat /\ Weight(log, next+1, getSequence) \in Nat
  <2>1. a <= next + 1 /\ getSequence < Len(log)
    BY <1>1, <1>2
  <2> QED BY <1>1, <2>1, WeightSplit
<1>6. /\ getMemSize \in Int /\ ackMemSize \in Int
      /\ getMemSize - ackMemSize = Weight(log, a, getSequence)
  BY <1>2 DEF FetchInv, FetchedAccounting, MemInv
<1> QED BY <1>3, <1>4, <1>5, <1>6

LEMMA PutFetched ==
  ASSUME FetchInv, NEW data \in DataList, Put(data) PROVE FetchedAccounting'
<1> SUFFICES ASSUME MemMode
             PROVE  /\ getMemSize' \in Int
                    /\ getMemSize' - ackMemSize'
                         = Weight(log', ackSequence'+1, getSequence')
  BY DEF FetchedAccounting, Weight
<1>1. data \in Seq(Event)
  BY DEF DataList
<1>2. /\ log' = log \o data
      /\ UNCHANGED <<getSequence, ackSequence, getMemSize, ackMemSize>>
  BY DEF Put
<1>3. /\ getSequence \in Int /\ ackSequence \in Int /\ -1 <= ackSequence
      /\ log \in Seq(Event) /\ getSequence < Len(log)
  BY CursorFacts DEF FetchInv, SerialInv, Inv, TypeOK
<1>4. \A q \in ackSequence+1..getSequence : (log \o data)[q+1] = log[q+1]
  BY <1>1, <1>3
<1>5. [q \in ackSequence+1..getSequence |-> RawLength[(log \o data)[q+1]]]
        = [q \in ackSequence+1..getSequence |-> RawLength[log[q+1]]]
  BY <1>4
<1>6. Weight(log \o data, ackSequence+1, getSequence) = Weight(log, ackSequence+1, getSequence)
  BY <1>5 DEF Weight
<1> QED BY <1>2, <1>6 DEF FetchInv, FetchedAccounting

LEMMA InitFetch == ASSUME RingFits PROVE Init => FetchInv
<1> SUFFICES ASSUME Init PROVE FetchedAccounting
  BY InitSerialInv, InitMem DEF FetchInv
<1>1. Weight(log, 0, -1) = 0
  BY WeightEmpty
<1> QED BY <1>1 DEF Init, InitSequence, FetchedAccounting

LEMMA NextFetch ==
  ASSUME RingFits, DdlIsolation = FALSE
  PROVE  FetchInv /\ [SerialNext]_storeVars => FetchInv'
<1> SUFFICES ASSUME FetchInv, [SerialNext]_storeVars PROVE FetchInv'
  OBVIOUS
<1>1. SerialInv' /\ MemInv'
  BY NextSerialInv, SerialIsNext, NextMem DEF FetchInv, MemInv
<1>2. FetchedAccounting'
  <2>1. CASE Stop
    <3>1. /\ getSequence' = -1 /\ ackSequence' = -1 /\ getMemSize' = 0 /\ ackMemSize' = 0
      BY <2>1 DEF Stop, Reset, InitSequence
    <3>2. Weight(log', 0, -1) = 0
      BY WeightEmpty
    <3> QED BY <3>1, <3>2 DEF FetchedAccounting, Weight
  <2>2. CASE PutSome
    BY <2>2, PutFetched DEF PutSome
  <2>3. CASE GetSome
    BY <2>3, GetFetched DEF GetSome
  <2>4. CASE SerialAckSequence \/ AckPosition
    <3>1. PICK next \in ackSequence+1..getSequence : CleanTo(next)
      BY <2>4, SerialAckCleans DEF FetchInv, MemInv
    <3> QED BY <3>1, AckFetched
  <2>5. CASE Rollback
    <3>1. /\ getSequence' = ackSequence /\ getMemSize' = ackMemSize
          /\ UNCHANGED <<ackSequence, ackMemSize, log>>
      BY <2>5 DEF Rollback
    <3>2. ackMemSize \in Int /\ ackSequence \in Int
      BY CursorFacts DEF FetchInv, MemInv, Inv
    <3>3. Weight(log, ackSequence+1, ackSequence) = 0
      BY <3>2, WeightEmpty
    <3> QED BY <3>1, <3>2, <3>3 DEF FetchedAccounting, Weight
  <2>6. CASE Start \/ UNCHANGED storeVars
    BY <2>6 DEF Start, storeVars, cursors, mems, FetchInv, FetchedAccounting, Weight
  <2> QED BY <2>1, <2>2, <2>3, <2>4, <2>5, <2>6 DEF SerialNext
<1> QED BY <1>1, <1>2 DEF FetchInv

LEMMA FetchIsEnough == ASSUME BatchesFit, FetchInv PROVE EnoughMeansEnough
<1> SUFFICES ASSUME NEW batchSize \in BatchSizes, CheckUnGetSlotAt(batchSize)
             PROVE  IF MemMode
                    THEN Volume(getSequence+1, putSequence) >= batchSize * BufferMemUnit
                    ELSE putSequence - getSequence >= batchSize
  BY DEF EnoughMeansEnough
<1>1. /\ putSequence \in Int /\ ackSequence \in Int /\ getSequence \in Int
      /\ -1 <= ackSequence /\ ackSequence <= getSequence /\ getSequence <= putSequence
      /\ log \in Seq(Event) /\ putSequence = Len(log) - 1
  BY CursorFacts DEF FetchInv, SerialInv, Inv, TypeOK, GetAheadOfAck
<1>2. CASE MemMode
  <2>1. PICK a \in Nat : a = ackSequence + 1
    BY <1>1
  <2>2. /\ Weight(log, a, putSequence)
             = Weight(log, a, getSequence) + Weight(log, getSequence+1, putSequence)
        /\ Weight(log, a, getSequence) \in Nat
        /\ Weight(log, getSequence+1, putSequence) \in Nat
    <3>1. a <= getSequence + 1 /\ putSequence < Len(log)
      BY <1>1, <2>1
    <3> QED BY <1>1, <3>1, WeightSplit
  <2>3. /\ putMemSize \in Int /\ getMemSize \in Int /\ ackMemSize \in Int
        /\ putMemSize - ackMemSize = Weight(log, a, putSequence)
        /\ getMemSize - ackMemSize = Weight(log, a, getSequence)
    BY <1>2, <2>1, AccountingOfLog DEF FetchInv, FetchedAccounting, MemInv
  <2>4. putMemSize - getMemSize >= MaxMemSize(batchSize)
    BY <1>2 DEF CheckUnGetSlotAt
  <2>5. /\ MaxMemSize(batchSize) = batchSize * BufferMemUnit
        /\ MaxMemSize(batchSize) \in Nat
    BY BatchLimit
  <2>6. Weight(log, getSequence+1, putSequence) >= MaxMemSize(batchSize)
    BY <2>2, <2>3, <2>4, <2>5
  <2>7. Volume(getSequence+1, putSequence) = Weight(log, getSequence+1, putSequence)
    BY DEF Volume, Weight
  <2> QED BY <1>2, <2>5, <2>6, <2>7
<1>3. CASE ~ MemMode
  <2>1. batchSize \in Int
    BY StoreAssumption
  <2> QED BY <1>1, <1>3, <2>1 DEF CheckUnGetSlotAt
<1> QED BY <1>2, <1>3

\* With a single caller, and DDLs not isolated, a get is only told that there is
\* enough when the unfetched events do weigh that much.
THEOREM SerialEnough ==
  ASSUME RingFits, BatchesFit, DdlIsolation = FALSE PROVE SerialSpec => []EnoughMeansEnough
<1>1. FetchInv => EnoughMeansEnough
  BY FetchIsEnough
<1> QED BY <1>1, InitFetch, NextFetch, PTL DEF SerialSpec

=============================================================================
