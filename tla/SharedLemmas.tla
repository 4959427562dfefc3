---------------------------- MODULE SharedLemmas ----------------------------
(* Lemmas several proofs rest on: least numbers, finite sets and sums, and *)
(* what the semaphore operations do to the permits, for every set of tasks. *)
EXTENDS AsyncSemaphore, Integers, FiniteSets, FiniteSetsExt, FiniteSetTheorems,
        SequenceTheorems, WellFoundedInduction, TLAPS

(* Numbers and finite sets.                                                *)
LEMMA LeastOfNaturals ==
  ASSUME NEW T, T \subseteq Nat, T # {}
  PROVE  \E x \in T : \A y \in T : x <= y
<1>1. PICK x \in T : \A y \in T : ~ (<<y, x>> \in OpToRel(<, Nat))
  BY NatLessThanWellFounded, WFMin
<1>2. \A y \in T : ~ (y < x)
  BY <1>1 DEF OpToRel
<1>. QED  BY <1>2

HasGreatest(X) == \E x \in X : \A y \in X : y <= x

(* A smallest set without a greatest element would lose one and keep none. *)
LEMMA GreatestOfFinite ==
  ASSUME NEW S, S \subseteq Nat, S # {}, IsFiniteSet(S)
  PROVE  HasGreatest(S)
<1> DEFINE Sizes == {n \in Nat : \E X \in SUBSET S : /\ X # {} /\ ~HasGreatest(X)
                                                    /\ Cardinality(X) = n}
<1> SUFFICES ASSUME ~HasGreatest(S) PROVE FALSE
  OBVIOUS
<1>1. Sizes # {} /\ Sizes \subseteq Nat
  BY FS_CardinalityType
<1>2. PICK n \in Sizes : \A m \in Sizes : n <= m
  BY <1>1, LeastOfNaturals
<1>3. PICK X \in SUBSET S : X # {} /\ ~HasGreatest(X) /\ Cardinality(X) = n
  BY <1>2
<1>4. PICK x \in X : TRUE
  BY <1>3
<1>5. IsFiniteSet(X) /\ Cardinality(X \ {x}) = n - 1 /\ n \in Nat
  BY <1>2, <1>3, <1>4, FS_Subset, FS_RemoveElement
<1>6. X \ {x} # {}
  <2> SUFFICES ASSUME X \ {x} = {} PROVE HasGreatest(X)
    BY <1>3
  <2>1. \A y \in X : y = x /\ y <= x
    BY <1>4
  <2>. QED  BY <1>4, <2>1 DEF HasGreatest
<1>7. IsFiniteSet(X \ {x}) /\ n - 1 \in Nat
  BY <1>5, FS_RemoveElement, FS_CardinalityType
<1>8. HasGreatest(X \ {x})
  BY <1>2, <1>3, <1>5, <1>6, <1>7
<1>9. PICK m \in X \ {x} : \A y \in X \ {x} : y <= m
  BY <1>8 DEF HasGreatest
<1>10. CASE x <= m
  BY <1>3, <1>9, <1>10 DEF HasGreatest
<1>11. CASE ~(x <= m)
  <2>1. \A y \in X : y <= x
    BY <1>9, <1>11
  <2>. QED  BY <1>3, <1>4, <2>1 DEF HasGreatest
<1>. QED  BY <1>10, <1>11

LEMMA ImageOfFinite ==
  ASSUME NEW D, IsFiniteSet(D), NEW f \in [D -> Nat]
  PROVE  IsFiniteSet({f[i] : i \in D}) /\ {f[i] : i \in D} \subseteq Nat
<1>1. f \in Surjection(D, {f[i] : i \in D})
  BY DEF Surjection
<1>. QED  BY <1>1, FS_Surjection

-----------------------------------------------------------------------------
LEMMA SizeOfBoth ==
  ASSUME NEW A, NEW B, IsFiniteSet(A), IsFiniteSet(B), A \cap B = {}
  PROVE  Cardinality(A \cup B) = Cardinality(A) + Cardinality(B)
<1>1. /\ Cardinality(A \cup B)
           = Cardinality(A) + Cardinality(B) - Cardinality(A \cap B)
      /\ Cardinality(A) \in Nat /\ Cardinality(B) \in Nat
  BY FS_Union, FS_CardinalityType
<1>2. Cardinality(A \cap B) = 0
  BY FS_EmptySet
<1>. QED  BY <1>1, <1>2

LEMMA Positions ==
  ASSUME NEW S, NEW s \in Seq(S)
  PROVE  /\ Len(s) \in Nat /\ DOMAIN s = 1 .. Len(s)
         /\ IsFiniteSet(DOMAIN s)
         /\ \A i \in DOMAIN s : s[i] \in S
BY LenProperties, ElementOfSeq, FS_Interval

(* A list lengthened by another one keeps its positions.                   *)
LEMMA Lengthened ==
  ASSUME NEW S, NEW s \in Seq(S), NEW t \in Seq(S)
  PROVE  /\ s \o t \in Seq(S)
         /\ DOMAIN (s \o t) = DOMAIN s \cup {Len(s) + i : i \in DOMAIN t}
         /\ \A i \in DOMAIN s : (s \o t)[i] = s[i]
         /\ \A i \in DOMAIN t : (s \o t)[Len(s) + i] = t[i]
<1>1. /\ Len(s) \in Nat /\ DOMAIN s = 1 .. Len(s)
      /\ Len(t) \in Nat /\ DOMAIN t = 1 .. Len(t)
  BY Positions
<1>2. /\ s \o t \in Seq(S)
      /\ Len(s \o t) = Len(s) + Len(t)
      /\ \A i \in 1 .. Len(s) + Len(t) :
           (s \o t)[i] = IF i <= Len(s) THEN s[i] ELSE t[i - Len(s)]
  BY ConcatProperties
<1>3. DOMAIN (s \o t) = 1 .. Len(s) + Len(t)
  BY <1>2, Positions
<1>4. 1 .. Len(s) + Len(t) = (1 .. Len(s)) \cup {Len(s) + i : i \in 1 .. Len(t)}
  <2>1. ASSUME NEW i \in 1 .. Len(s) + Len(t), i \notin 1 .. Len(s)
        PROVE  i \in {Len(s) + j : j \in 1 .. Len(t)}
    <3>1. i - Len(s) \in 1 .. Len(t) /\ i = Len(s) + (i - Len(s))
      BY <1>1, <2>1
    <3>. QED  BY <3>1
  <2>2. ASSUME NEW i \in 1 .. Len(t) PROVE Len(s) + i \in 1 .. Len(s) + Len(t)
    BY <1>1
  <2>3. 1 .. Len(s) \subseteq 1 .. Len(s) + Len(t)
    BY <1>1
  <2>. QED  BY <2>1, <2>2, <2>3
<1>5. ASSUME NEW i \in DOMAIN t PROVE (s \o t)[Len(s) + i] = t[i]
  <2>1. Len(s) + i \in 1 .. Len(s) + Len(t) /\ ~(Len(s) + i <= Len(s))
        /\ (Len(s) + i) - Len(s) = i
    BY <1>1
  <2>. QED  BY <1>2, <2>1
<1>6. ASSUME NEW i \in DOMAIN s PROVE (s \o t)[i] = s[i]
  BY <1>1, <1>2
<1>. QED  BY <1>1, <1>2, <1>3, <1>4, <1>5, <1>6

LEMMA Shifted ==
  ASSUME NEW n \in Nat, NEW A, A \subseteq Nat, IsFiniteSet(A)
  PROVE  /\ IsFiniteSet({n + i : i \in A})
         /\ Cardinality({n + i : i \in A}) = Cardinality(A)
<1> DEFINE B == {n + i : i \in A}
           f == [i \in A |-> n + i]
<1>1. f \in Bijection(A, B)
  <2>1. f \in [A -> B]
    OBVIOUS
  <2>2. \A i, j \in A : f[i] = f[j] => i = j
    OBVIOUS
  <2>3. \A b \in B : \E i \in A : f[i] = b
    OBVIOUS
  <2>. QED  BY <2>1, <2>2, <2>3 DEF Bijection, Injection, Surjection, IsInjective
<1>2. IsFiniteSet(B) /\ Cardinality(B) = Cardinality(A)
  BY <1>1, FS_Bijection DEF ExistsBijection
<1>. QED  BY <1>2

(* Sums over a finite set.  The fold takes the elements in an order of its *)
(* own; a function that grows by f[x] with any x is the sum.               *)
Any(s) == CHOOSE x \in s : TRUE
Folded(f, S, h) ==
  h = [s \in SUBSET S |-> IF s = {} THEN 0 ELSE f[Any(s)] + h[s \ {Any(s)}]]
Adds(f, S, g) ==
  /\ g = [s \in SUBSET S |-> g[s]]
  /\ g[{}] = 0
  /\ \A s \in SUBSET S : \A x \in s : g[s] = f[x] + g[s \ {x}]

LEMMA AnyIsElement == \A s : s # {} => Any(s) \in s
BY DEF Any

LEMMA AddsFolds ==
  ASSUME NEW S, NEW f, NEW g, Adds(f, S, g)
  PROVE  Folded(f, S, g)
<1>1. \A s \in SUBSET S : s # {} => g[s] = f[Any(s)] + g[s \ {Any(s)}]
  BY AnyIsElement DEF Adds
<1>2. \A s \in SUBSET S : g[s] = IF s = {} THEN 0 ELSE f[Any(s)] + g[s \ {Any(s)}]
  BY <1>1 DEF Adds
<1>. QED  BY <1>2 DEF Folded, Adds

LEMMA FoldIsUnique ==
  ASSUME NEW S, IsFiniteSet(S), NEW f, NEW g, Adds(f, S, g), NEW h, Folded(f, S, h)
  PROVE  h[S] = g[S]
<1> DEFINE Sizes == {n \in Nat : \E s \in SUBSET S : Cardinality(s) = n /\ h[s] # g[s]}
<1> SUFFICES ASSUME h[S] # g[S] PROVE FALSE
  OBVIOUS
<1>1. Sizes # {} /\ Sizes \subseteq Nat
  BY FS_CardinalityType
<1>2. PICK n \in Sizes : \A m \in Sizes : n <= m
  BY <1>1, LeastOfNaturals
<1>3. PICK s \in SUBSET S : Cardinality(s) = n /\ h[s] # g[s]
  BY <1>2
<1>4. s # {}
  <2>1. h[{}] = 0
    BY DEF Folded
  <2>. QED  BY <1>3, <2>1 DEF Adds
<1>5. Any(s) \in s
  BY <1>4, AnyIsElement
<1> DEFINE rest == s \ {Any(s)}
<1>6. n \in Nat /\ Cardinality(rest) = n - 1 /\ Cardinality(rest) \in Nat
  <2>1. IsFiniteSet(s) /\ IsFiniteSet(rest)
    BY FS_Subset
  <2>. QED  BY <1>3, <1>5, <2>1, FS_RemoveElement, FS_CardinalityType
<1>7. h[rest] = g[rest]
  BY <1>2, <1>6
<1>8. h[s] = f[Any(s)] + h[rest]
  BY <1>4 DEF Folded
<1>. QED  BY <1>3, <1>5, <1>7, <1>8 DEF Adds

SumOf(f, S) == MapThenSumSet(LAMBDA k : f[k], S)

LEMMA SumIs ==
  ASSUME NEW S, IsFiniteSet(S), NEW f, NEW g, Adds(f, S, g)
  PROVE  SumOf(f, S) = g[S]
<1>1. SumOf(f, S) = (CHOOSE h : Folded(f, S, h))[S]
  BY DEF SumOf, MapThenSumSet, MapThenFoldSet, Folded, Any
<1>2. Folded(f, S, CHOOSE h : Folded(f, S, h))
  BY AddsFolds
<1>. QED  BY <1>1, <1>2, FoldIsUnique

(* The sum of natural numbers is the size of a union of that many things.  *)
Blocks(f, s) == UNION {{k} \X (1 .. f[k]) : k \in s}

LEMMA BlocksAdd ==
  ASSUME NEW S, IsFiniteSet(S), NEW f, \A k \in S : f[k] \in Nat
  PROVE  /\ Cardinality(Blocks(f, {})) = 0
         /\ \A s \in SUBSET S : /\ Cardinality(Blocks(f, s)) \in Nat
                                /\ \A x \in s : Cardinality(Blocks(f, s))
                                                  = f[x] + Cardinality(Blocks(f, s \ {x}))
<1>1. \A k \in S : /\ IsFiniteSet({k} \X (1 .. f[k]))
                   /\ Cardinality({k} \X (1 .. f[k])) = f[k]
  <2> TAKE k \in S
  <2>1. /\ IsFiniteSet({k}) /\ Cardinality({k}) = 1
        /\ IsFiniteSet(1 .. f[k]) /\ Cardinality(1 .. f[k]) = f[k]
    <3>1. \A n \in Nat : IsFiniteSet(1 .. n) /\ Cardinality(1 .. n) = n
      BY FS_Interval
    <3>. QED  BY <3>1, FS_Singleton
  <2>2. Cardinality({k} \X (1 .. f[k])) = 1 * f[k] /\ IsFiniteSet({k} \X (1 .. f[k]))
    BY <2>1, FS_Product
  <2>. QED  BY <2>2
<1>2. \A s \in SUBSET S : IsFiniteSet(Blocks(f, s))
  <2> TAKE s \in SUBSET S
  <2> DEFINE parts == {{k} \X (1 .. f[k]) : k \in s}
             block == [k \in s |-> {k} \X (1 .. f[k])]
  <2>1. block \in Surjection(s, parts)
    BY DEF Surjection
  <2>2. IsFiniteSet(parts)
    <3> HIDE DEF parts, block
    <3>. QED  BY <2>1, FS_Subset, FS_Surjection
  <2>3. \A p \in parts : IsFiniteSet(p)
    BY <1>1
  <2> HIDE DEF parts
  <2>4. IsFiniteSet(UNION parts)
    BY <2>2, <2>3, FS_UNION
  <2>. QED  BY <2>4 DEF Blocks, parts
<1>3. ASSUME NEW s \in SUBSET S, NEW x \in s
      PROVE  Cardinality(Blocks(f, s)) = f[x] + Cardinality(Blocks(f, s \ {x}))
  <2> DEFINE own == {x} \X (1 .. f[x])
  <2>1. Blocks(f, s) = own \cup Blocks(f, s \ {x})
    BY DEF Blocks
  <2>2. own \cap Blocks(f, s \ {x}) = {}
    BY DEF Blocks
  <2>3. IsFiniteSet(own) /\ IsFiniteSet(Blocks(f, s \ {x})) /\ Cardinality(own) = f[x]
    BY <1>1, <1>2
  <2>. QED  BY <2>1, <2>2, <2>3, SizeOfBoth
<1>4. Blocks(f, {}) = {}
  BY DEF Blocks
<1>. QED  BY <1>2, <1>3, <1>4, FS_CardinalityType, FS_EmptySet

LEMMA SumOfNaturals ==
  ASSUME NEW S, IsFiniteSet(S), NEW f, \A k \in S : f[k] \in Nat
  PROVE  /\ SumOf(f, {}) = 0
         /\ \A s \in SUBSET S : SumOf(f, s) \in Nat
         /\ \A s \in SUBSET S : \A x \in s : SumOf(f, s) = f[x] + SumOf(f, s \ {x})
         /\ \E g : Folded(f, S, g)
<1> DEFINE g(s) == [z \in SUBSET s |-> Cardinality(Blocks(f, z))]
<1>1. \A s \in SUBSET S : Adds(f, s, g(s))
  BY BlocksAdd DEF Adds
<1>2. \A s \in SUBSET S : SumOf(f, s) = Cardinality(Blocks(f, s))
  <2> TAKE s \in SUBSET S
  <2>1. g(s)[s] = Cardinality(Blocks(f, s))
    OBVIOUS
  <2> HIDE DEF g
  <2>. QED  BY <1>1, <2>1, SumIs, FS_Subset
<1>3. Folded(f, S, g(S))
  <2> HIDE DEF g
  <2>. QED  BY <1>1, AddsFolds
<1>. QED  BY <1>2, <1>3, BlocksAdd

(* A fold over another expression of the same values.                      *)
LEMMA SameFold ==
  ASSUME NEW S, IsFiniteSet(S), NEW f, \A k \in S : f[k] \in Nat,
         NEW h, Folded(f, S, h)
  PROVE  h[S] = SumOf(f, S)
<1>1. SumOf(f, S) = (CHOOSE z : Folded(f, S, z))[S]
  BY DEF SumOf, MapThenSumSet, MapThenFoldSet, Folded, Any
<1>2. Folded(f, S, CHOOSE z : Folded(f, S, z))
  BY SumOfNaturals
<1> DEFINE g == [z \in SUBSET S |-> Cardinality(Blocks(f, z))]
<1>3. Adds(f, S, g)
  BY BlocksAdd DEF Adds
<1> HIDE DEF g
<1>. QED  BY <1>1, <1>2, <1>3, FoldIsUnique

(* Only the values at the elements count.                                  *)
LEMMA SumSame ==
  ASSUME NEW S, IsFiniteSet(S), NEW f, NEW g,
         \A k \in S : f[k] \in Nat /\ g[k] = f[k]
  PROVE  SumOf(f, S) = SumOf(g, S)
<1>1. PICK h : Folded(f, S, h)
  BY SumOfNaturals
<1>2. [s \in SUBSET S |-> IF s = {} THEN 0 ELSE f[Any(s)] + h[s \ {Any(s)}]]
        = [s \in SUBSET S |-> IF s = {} THEN 0 ELSE g[Any(s)] + h[s \ {Any(s)}]]
  BY AnyIsElement
<1>3. Folded(g, S, h)
  BY <1>1, <1>2 DEF Folded
<1>4. \A k \in S : g[k] \in Nat
  OBVIOUS
<1>. QED  BY <1>1, <1>3, <1>4, SameFold

LEMMA SumWithOneMore ==
  ASSUME NEW S, IsFiniteSet(S), NEW f, \A k \in S : f[k] \in Nat,
         NEW x, x \notin S, f[x] \in Nat
  PROVE  SumOf(f, S \cup {x}) = f[x] + SumOf(f, S)
<1> DEFINE T == S \cup {x}
<1>1. IsFiniteSet(T) /\ (\A k \in T : f[k] \in Nat) /\ T \ {x} = S
  BY FS_AddElement
<1>2. \A y \in T : SumOf(f, T) = f[y] + SumOf(f, T \ {y})
  <2> HIDE DEF T
  <2>. QED  BY <1>1, SumOfNaturals
<1>. QED  BY <1>1, <1>2

(* (sum x)^2 <= n * sum x^2                                                *)
LEMMA OneSquareMore ==
  ASSUME NEW n \in Nat, NEW t \in Nat, NEW q \in Nat, NEW x \in Nat, t * t <= n * q
  PROVE  (x + t) * (x + t) <= (n + 1) * (x * x + q)
<1>1. (x + t) * (x + t) = x * x + 2 * (x * t) + t * t
  OBVIOUS
<1>2. (n + 1) * (x * x + q) = n * (x * x) + n * q + x * x + q
  OBVIOUS
<1>3. 2 * (x * t) <= n * (x * x) + q
  <2>1. CASE n = 0
    <3>1. t * t <= 0
      BY <2>1
    <3>2. t = 0
      BY <3>1
    <3>. QED  BY <2>1, <3>2
  <2>2. CASE n # 0
    <3>1. (n * x - t) * (n * x - t) >= 0
      OBVIOUS
    <3>2. (n * x - t) * (n * x - t) = n * (n * (x * x)) - n * (2 * (x * t)) + t * t
      OBVIOUS
    <3>3. n * (2 * (x * t)) <= n * (n * (x * x)) + n * q
      BY <3>1, <3>2
    <3>4. n * (2 * (x * t)) <= n * (n * (x * x) + q)
      BY <3>3
    <3>. QED  BY <2>2, <3>4
  <2>. QED  BY <2>1, <2>2
<1>. QED  BY <1>1, <1>2, <1>3

LEMMA SquareOfSum ==
  ASSUME NEW S, IsFiniteSet(S), NEW f, NEW sq,
         \A k \in S : f[k] \in Nat /\ sq[k] = f[k] * f[k]
  PROVE  SumOf(f, S) * SumOf(f, S) <= Cardinality(S) * SumOf(sq, S)
<1> DEFINE Bounded(s) == SumOf(f, s) * SumOf(f, s) <= Cardinality(s) * SumOf(sq, s)
           Sizes == {n \in Nat : \E s \in SUBSET S : Cardinality(s) = n /\ ~Bounded(s)}
<1> SUFFICES ASSUME ~Bounded(S) PROVE FALSE
  OBVIOUS
<1>0. \A k \in S : sq[k] \in Nat
  OBVIOUS
<1>1. Sizes # {} /\ Sizes \subseteq Nat
  BY FS_CardinalityType
<1>2. PICK n \in Sizes : \A m \in Sizes : n <= m
  BY <1>1, LeastOfNaturals
<1>3. PICK s \in SUBSET S : Cardinality(s) = n /\ ~Bounded(s)
  BY <1>2
<1>4. s # {}
  <2>1. SumOf(f, {}) = 0 /\ SumOf(sq, {}) = 0 /\ Cardinality({}) = 0
    BY <1>0, SumOfNaturals, FS_EmptySet
  <2>2. Bounded({})
    BY <2>1
  <2>. QED  BY <1>3, <2>2
<1>5. PICK x \in s : TRUE
  BY <1>4
<1> DEFINE rest == s \ {x}
<1>6. n - 1 \in Nat /\ Cardinality(rest) = n - 1
  <2>1. IsFiniteSet(s) /\ IsFiniteSet(rest)
    BY FS_Subset
  <2>. QED  BY <1>3, <1>5, <2>1, FS_RemoveElement, FS_CardinalityType
<1>7. Bounded(rest)
  <2>1. n - 1 < n
    BY <1>6
  <2> HIDE DEF Bounded
  <2>. QED  BY <1>2, <1>6, <2>1
<1>8. /\ SumOf(f, rest) \in Nat /\ SumOf(sq, rest) \in Nat
      /\ SumOf(f, s) = f[x] + SumOf(f, rest)
      /\ SumOf(sq, s) = sq[x] + SumOf(sq, rest)
  BY <1>0, <1>5, SumOfNaturals
<1>9. SumOf(f, s) * SumOf(f, s) <= ((n - 1) + 1) * (f[x] * f[x] + SumOf(sq, rest))
  BY <1>6, <1>7, <1>8, OneSquareMore
<1>10. ((n - 1) + 1) * (f[x] * f[x] + SumOf(sq, rest)) = Cardinality(s) * SumOf(sq, s)
  BY <1>3, <1>6, <1>8
<1>. QED  BY <1>3, <1>9, <1>10

-----------------------------------------------------------------------------
(* Queues and semaphores.                                                  *)
LEMMA MembersOfSeq ==
  ASSUME NEW S, NEW s \in Seq(S)
  PROVE  Members(s) \subseteq S
BY DEF Members

LEMMA AppendMembers ==
  ASSUME NEW S, NEW s \in Seq(S), NEW e \in S
  PROVE  /\ Append(s, e) \in Seq(S)
         /\ Members(Append(s, e)) = Members(s) \cup {e}
         /\ Distinct(s) /\ e \notin Members(s) => Distinct(Append(s, e))
<1>1. /\ Append(s, e) \in Seq(S)
      /\ Len(Append(s, e)) = Len(s) + 1
      /\ \A k \in 1 .. Len(s) : Append(s, e)[k] = s[k]
      /\ Append(s, e)[Len(s) + 1] = e
  BY AppendProperties
<1>2. DOMAIN s = 1 .. Len(s) /\ DOMAIN Append(s, e) = 1 .. Len(s) + 1
  BY <1>1, LenProperties
<1>3. Len(s) \in Nat
  BY LenProperties
<1>4. Members(Append(s, e)) = Members(s) \cup {e}
  BY <1>1, <1>2, <1>3 DEF Members
<1>5. Distinct(s) /\ e \notin Members(s) => Distinct(Append(s, e))
  BY <1>1, <1>2, <1>3 DEF Members, Distinct
<1>. QED  BY <1>1, <1>4, <1>5

(* Removing a queued acquirer removes it alone and keeps the queue free of *)
(* duplicates.                                                             *)
LEMMA ClosedUp ==
  ASSUME NEW S, NEW s \in Seq(S), Distinct(s), NEW k \in DOMAIN s, NEW w,
         w = [j \in 1 .. Len(s) - 1 |-> IF j < k THEN s[j] ELSE s[j + 1]]
  PROVE  /\ w \in Seq(S)
         /\ Members(w) = Members(s) \ {s[k]}
         /\ Distinct(w)
<1> DEFINE n == Len(s)
<1>1. n \in Nat /\ DOMAIN s = 1 .. n /\ k \in 1 .. n /\ n - 1 \in Nat
  BY LenProperties
<1>2. \A j \in 1 .. n : s[j] \in S
  BY <1>1, ElementOfSeq
<1>3. w \in [1 .. n - 1 -> S]
  BY <1>1, <1>2
<1>4. w \in Seq(S) /\ DOMAIN w = 1 .. n - 1
  BY <1>1, <1>3, IsASeq
<1>5. \A j \in 1 .. n - 1 : w[j] = IF j < k THEN s[j] ELSE s[j + 1]
  BY <1>1
<1> HIDE DEF n
<1>6. \A j \in 1 .. n - 1 : w[j] \in Members(s) \ {s[k]}
  <2> SUFFICES ASSUME NEW j \in 1 .. n - 1
               PROVE  w[j] \in Members(s) \ {s[k]}
    OBVIOUS
  <2>1. CASE j < k
    BY <2>1, <1>1, <1>5 DEF Members, Distinct
  <2>2. CASE ~(j < k)
    <3>1. j + 1 \in 1 .. n /\ j + 1 # k /\ w[j] = s[j + 1]
      BY <2>2, <1>1, <1>5
    <3>. QED  BY <3>1, <1>1 DEF Members, Distinct
  <2>. QED  BY <2>1, <2>2
<1>7. \A m \in 1 .. n : s[m] # s[k] => s[m] \in Members(w)
  <2> SUFFICES ASSUME NEW m \in 1 .. n, s[m] # s[k]
               PROVE  s[m] \in Members(w)
    OBVIOUS
  <2>1. CASE m < k
    BY <2>1, <1>1, <1>4, <1>5 DEF Members
  <2>2. CASE m > k
    <3>1. m - 1 \in 1 .. n - 1 /\ w[m - 1] = s[m]
      BY <2>2, <1>1, <1>5
    <3>. QED  BY <3>1, <1>4 DEF Members
  <2>. QED  BY <2>1, <2>2, <1>1
<1>8. Distinct(w)
  BY <1>1, <1>4, <1>5, SMTT(60) DEF Distinct
<1>9. Members(w) \subseteq Members(s) \ {s[k]}
  BY <1>4, <1>6 DEF Members
<1>10. Members(s) \ {s[k]} \subseteq Members(w)
  BY <1>1, <1>7 DEF Members
<1>. QED
  BY <1>4, <1>8, <1>9, <1>10

LEMMA WithoutMembers ==
  ASSUME NEW S, NEW s \in Seq(S), Distinct(s), NEW e \in Members(s)
  PROVE  /\ Without(s, e) \in Seq(S)
         /\ Members(Without(s, e)) = Members(s) \ {e}
         /\ Distinct(Without(s, e))
<1>1. PICK k \in DOMAIN s : k = CHOOSE n \in DOMAIN s : s[n] = e
  BY DEF Members
<1>2. s[k] = e
  BY <1>1 DEF Members
<1>3. Without(s, e)
        = [j \in 1 .. Len(s) - 1 |-> IF j < k THEN s[j] ELSE s[j + 1]]
  BY <1>1 DEF Without
<1>. QED  BY <1>2, <1>3, ClosedUp

(* The waiter a release serves is one that is queued and not yet served.   *)
LEMMA FirstPendingIsPending ==
  ASSUME NEW S, NEW sem, WellFormed(sem, S), Pending(sem) # {}
  PROVE  /\ FirstPending(sem) \in Members(sem.waiters)
         /\ FirstPending(sem) \notin sem.woken
<1>1. /\ sem.waiters \in Seq(S)
      /\ Len(sem.waiters) \in Nat
      /\ DOMAIN sem.waiters = 1 .. Len(sem.waiters)
  BY LenProperties DEF WellFormed
<1>2. Pending(sem) \subseteq Nat
  BY <1>1 DEF Pending
<1>3. PICK k \in Pending(sem) : \A j \in Pending(sem) : k <= j
  BY <1>2, LeastOfNaturals
<1>. QED
  BY <1>1, <1>3 DEF FirstPending, Pending, Members

-----------------------------------------------------------------------------
(* The effect of each operation in terms of permits and queue members; the *)
(* proofs about run_mixed use these facts and never the operations' text.  *)
LEMMA NewIsWellFormed ==
  ASSUME NEW S, NEW n \in Nat
  PROVE  /\ WellFormed(NewSemaphore(n), S)
         /\ NewSemaphore(n).value = n
         /\ NewSemaphore(n).woken = {}
         /\ Members(NewSemaphore(n).waiters) = {}
<1>1. <<>> \in Seq(S) /\ DOMAIN <<>> = {}
  BY EmptySeq, LenProperties
<1>. QED
  BY <1>1 DEF NewSemaphore, WellFormed, Distinct, Members

LEMMA TakeEffect ==
  ASSUME NEW S, NEW sem, WellFormed(sem, S), ~Locked(sem)
  PROVE  /\ WellFormed(Take(sem), S)
         /\ Take(sem).value = sem.value - 1
         /\ Take(sem).woken = sem.woken
         /\ Take(sem).waiters = sem.waiters
BY DEF WellFormed, Locked, Take

LEMMA EnqueueEffect ==
  ASSUME NEW S, NEW sem, WellFormed(sem, S),
         NEW i \in S, i \notin Members(sem.waiters)
  PROVE  /\ WellFormed(Enqueue(sem, i), S)
         /\ Enqueue(sem, i).value = sem.value
         /\ Enqueue(sem, i).woken = sem.woken
         /\ Members(Enqueue(sem, i).waiters) = Members(sem.waiters) \cup {i}
<1>1. sem.waiters \in Seq(S) /\ Distinct(sem.waiters)
  BY DEF WellFormed
<1>2. /\ Append(sem.waiters, i) \in Seq(S)
      /\ Members(Append(sem.waiters, i)) = Members(sem.waiters) \cup {i}
      /\ Distinct(Append(sem.waiters, i))
  BY <1>1, AppendMembers
<1> DEFINE q == Append(sem.waiters, i)
<1>3. Enqueue(sem, i) = [sem EXCEPT !.waiters = q]
  BY DEF Enqueue
<1> HIDE DEF q
<1>4. Enqueue(sem, i) = [value |-> sem.value, waiters |-> q,
                         woken |-> sem.woken]
  BY <1>3 DEF WellFormed
<1>5. Enqueue(sem, i) = [value |-> sem.value,
                         waiters |-> Append(sem.waiters, i),
                         woken |-> sem.woken]
  BY <1>4 DEF q
<1>. QED
  BY <1>2, <1>5 DEF WellFormed

LEMMA WakeNextEffect ==
  ASSUME NEW S, NEW sem, WellFormed(sem, S)
  PROVE  /\ WellFormed(WakeNext(sem), S)
         /\ WakeNext(sem).waiters = sem.waiters
         /\ \/ /\ WakeNext(sem).value = sem.value
               /\ WakeNext(sem).woken = sem.woken
            \/ \E w \in Members(sem.waiters) \ sem.woken :
                 /\ WakeNext(sem).value = sem.value - 1
                 /\ WakeNext(sem).woken = sem.woken \cup {w}
<1>1. CASE sem.value > 0 /\ Pending(sem) # {}
  <2> DEFINE w == FirstPending(sem)
  <2>1. w \in Members(sem.waiters) /\ w \notin sem.woken
    BY <1>1, FirstPendingIsPending
  <2>2. WakeNext(sem) = [value |-> sem.value - 1, waiters |-> sem.waiters,
                         woken |-> sem.woken \cup {w}]
    BY <1>1 DEF WakeNext, WellFormed
  <2>3. w \in S
    BY <2>1, MembersOfSeq DEF WellFormed
  <2> HIDE DEF w
  <2>. QED  BY <1>1, <2>1, <2>2, <2>3 DEF WellFormed
<1>2. CASE ~(sem.value > 0 /\ Pending(sem) # {})
  BY <1>2 DEF WakeNext
<1>. QED  BY <1>1, <1>2

LEMMA ReleaseEffect ==
  ASSUME NEW S, NEW sem, WellFormed(sem, S)
  PROVE  /\ WellFormed(Release(sem), S)
         /\ Release(sem).waiters = sem.waiters
         /\ \/ /\ Release(sem).value = sem.value + 1
               /\ Release(sem).woken = sem.woken
            \/ \E w \in Members(sem.waiters) \ sem.woken :
                 /\ Release(sem).value = sem.value
                 /\ Release(sem).woken = sem.woken \cup {w}
<1> DEFINE mid == [sem EXCEPT !.value = @ + 1]
<1>1. /\ WellFormed(mid, S)
      /\ mid.value = sem.value + 1 /\ mid.value - 1 = sem.value
      /\ mid.waiters = sem.waiters
      /\ mid.woken = sem.woken
  BY DEF WellFormed
<1>2. Release(sem) = WakeNext(mid)
  BY DEF Release
<1> HIDE DEF mid
<1>. QED  BY <1>1, <1>2, WakeNextEffect

LEMMA ResumeEffect ==
  ASSUME NEW S, NEW sem, WellFormed(sem, S), NEW i \in sem.woken
  PROVE  /\ WellFormed(Resume(sem, i), S)
         /\ Members(Resume(sem, i).waiters) = Members(sem.waiters) \ {i}
         /\ \/ /\ Resume(sem, i).value = sem.value
               /\ Resume(sem, i).woken = sem.woken \ {i}
            \/ \E w \in Members(sem.waiters) \ sem.woken :
                 /\ Resume(sem, i).value = sem.value - 1
                 /\ Resume(sem, i).woken = (sem.woken \ {i}) \cup {w}
<1> DEFINE mid == Dequeue(sem, i)
<1>1. /\ Without(sem.waiters, i) \in Seq(S)
      /\ Members(Without(sem.waiters, i)) = Members(sem.waiters) \ {i}
      /\ Distinct(Without(sem.waiters, i))
  BY WithoutMembers DEF WellFormed
<1>2. mid = [value |-> sem.value, waiters |-> Without(sem.waiters, i),
             woken |-> sem.woken \ {i}]
  BY DEF Dequeue
<1>3. /\ WellFormed(mid, S)
      /\ mid.value = sem.value
      /\ Members(mid.waiters) = Members(sem.waiters) \ {i}
      /\ mid.woken = sem.woken \ {i}
  BY <1>1, <1>2 DEF WellFormed
<1>4. Resume(sem, i) = WakeNext(mid)
  BY DEF Resume
<1> HIDE DEF mid
<1>5. /\ WellFormed(WakeNext(mid), S)
      /\ WakeNext(mid).waiters = mid.waiters
      /\ \/ /\ WakeNext(mid).value = mid.value
            /\ WakeNext(mid).woken = mid.woken
         \/ \E w \in Members(mid.waiters) \ mid.woken :
              /\ WakeNext(mid).value = mid.value - 1
              /\ WakeNext(mid).woken = mid.woken \cup {w}
  BY <1>3, WakeNextEffect
<1>6. Members(mid.waiters) \ mid.woken
        \subseteq Members(sem.waiters) \ sem.woken
  BY <1>3
<1>. QED  BY <1>3, <1>4, <1>5, <1>6

(* What an operation puts on the ready queue is what it served.            *)
LEMMA NewlyWokenIsWoken ==
  ASSUME NEW S, NEW sem, NEW next,
         next.woken \ sem.woken = {} \/ \E w \in S : next.woken \ sem.woken = {w}
  PROVE  /\ NewlyWoken(sem, next) \in Seq(S)
         /\ Members(NewlyWoken(sem, next)) = next.woken \ sem.woken
         /\ Distinct(NewlyWoken(sem, next))
<1>1. CASE next.woken \ sem.woken = {}
  <2>1. NewlyWoken(sem, next) = <<>>
    BY <1>1 DEF NewlyWoken, QueueOf
  <2>. QED  BY <1>1, <2>1 DEF Members, Distinct
<1>2. ASSUME NEW w \in S, next.woken \ sem.woken = {w}
      PROVE  /\ NewlyWoken(sem, next) \in Seq(S)
             /\ Members(NewlyWoken(sem, next)) = next.woken \ sem.woken
             /\ Distinct(NewlyWoken(sem, next))
  <2>1. NewlyWoken(sem, next) = <<w>>
    BY <1>2 DEF NewlyWoken, QueueOf
  <2>2. DOMAIN <<w>> = {1} /\ <<w>>[1] = w /\ <<w>> \in Seq(S)
    OBVIOUS
  <2>. QED  BY <1>2, <2>1, <2>2 DEF Members, Distinct
<1>. QED  BY <1>1, <1>2

-----------------------------------------------------------------------------
(* Queues of runnable tasks.                                               *)
LEMMA TailMembers ==
  ASSUME NEW S, NEW s \in Seq(S), s # <<>>, Distinct(s)
  PROVE  /\ Tail(s) \in Seq(S)
         /\ Distinct(Tail(s))
         /\ Members(Tail(s)) = Members(s) \ {Head(s)}
         /\ Head(s) \in Members(s)
<1>1. /\ Tail(s) \in Seq(S)
      /\ Len(Tail(s)) = Len(s) - 1
      /\ \A k \in 1 .. Len(Tail(s)) : Tail(s)[k] = s[k + 1]
  BY HeadTailProperties
<1>2. /\ Len(s) \in Nat \ {0}
      /\ DOMAIN s = 1 .. Len(s)
      /\ DOMAIN Tail(s) = 1 .. Len(s) - 1
  BY <1>1, LenProperties, EmptySeq
<1>3. Head(s) = s[1]
  OBVIOUS
<1> DEFINE t == Tail(s)
           n == Len(s)
           h == Head(s)
<1>4. /\ n \in Nat \ {0} /\ DOMAIN s = 1 .. n /\ DOMAIN t = 1 .. n - 1
      /\ \A k \in 1 .. n - 1 : t[k] = s[k + 1]
      /\ h = s[1]
      /\ t \in Seq(S)
  BY <1>1, <1>2, <1>3
<1> HIDE DEF t, n, h
<1>a. \A k \in 1 .. n - 1 : k \in 1 .. n /\ k + 1 \in 1 .. n /\ k + 1 # 1
  BY <1>4
<1>b. 1 \in 1 .. n
  BY <1>4
<1>c. \A j, k \in 1 .. n : s[j] = s[k] => j = k
  BY <1>4 DEF Distinct
<1>5. Distinct(t)
  <2> SUFFICES ASSUME NEW j \in 1 .. n - 1, NEW k \in 1 .. n - 1, t[j] = t[k]
               PROVE  j = k
    BY <1>4 DEF Distinct
  <2>1. j + 1 = k + 1
    BY <1>4, <1>a, <1>c
  <2>. QED  BY <2>1
<1>6. \A k \in 1 .. n - 1 : t[k] \in Members(s) \ {h}
  <2> SUFFICES ASSUME NEW k \in 1 .. n - 1
               PROVE  t[k] \in Members(s) /\ t[k] # h
    OBVIOUS
  <2>1. t[k] = s[k + 1] /\ k + 1 \in 1 .. n /\ k + 1 # 1
    BY <1>4, <1>a
  <2>2. t[k] \in Members(s)
    BY <2>1, <1>4 DEF Members
  <2>3. t[k] # h
    BY <2>1, <1>4, <1>b, <1>c
  <2>. QED  BY <2>2, <2>3
<1>7. \A k \in 1 .. n : s[k] # h => s[k] \in Members(t)
  <2> SUFFICES ASSUME NEW k \in 1 .. n, s[k] # h
               PROVE  s[k] \in Members(t)
    OBVIOUS
  <2>1. k - 1 \in 1 .. n - 1 /\ t[k - 1] = s[k]
    BY <1>4
  <2>. QED  BY <2>1, <1>4 DEF Members
<1>8. Members(t) = Members(s) \ {h} /\ h \in Members(s)
  <2>1. Members(t) \subseteq Members(s) \ {h}
    BY <1>4, <1>6 DEF Members
  <2>2. Members(s) \ {h} \subseteq Members(t)
    BY <1>4, <1>7 DEF Members
  <2>3. h \in Members(s)
    BY <1>4, <1>b DEF Members
  <2>. QED  BY <2>1, <2>2, <2>3
<1>. QED  BY <1>4, <1>5, <1>8 DEF t, h

LEMMA ConcatMembers ==
  ASSUME NEW S, NEW s \in Seq(S), NEW t \in Seq(S),
         Distinct(s), Distinct(t), Members(s) \cap Members(t) = {}
  PROVE  /\ s \o t \in Seq(S)
         /\ Members(s \o t) = Members(s) \cup Members(t)
         /\ Distinct(s \o t)
<1> DEFINE m == Len(s)
           n == Len(t)
           c == s \o t
<1>1. /\ m \in Nat /\ n \in Nat
      /\ DOMAIN s = 1 .. m /\ DOMAIN t = 1 .. n
      /\ c \in Seq(S)
      /\ DOMAIN c = 1 .. m + n
      /\ \A k \in 1 .. m + n : c[k] = IF k <= m THEN s[k] ELSE t[k - m]
  BY LenProperties, ConcatProperties
<1> HIDE DEF m, n, c
<1>2. \A k \in 1 .. m + n : \/ k \in 1 .. m /\ c[k] = s[k]
                            \/ k - m \in 1 .. n /\ c[k] = t[k - m]
  BY <1>1
<1>3. \A k \in 1 .. m : k \in 1 .. m + n /\ c[k] = s[k]
  BY <1>1
<1>4. \A k \in 1 .. n : k + m \in 1 .. m + n /\ c[k + m] = t[k]
  <2> SUFFICES ASSUME NEW k \in 1 .. n
               PROVE  k + m \in 1 .. m + n /\ c[k + m] = t[k]
    OBVIOUS
  <2>1. k + m \in 1 .. m + n /\ ~ (k + m <= m) /\ (k + m) - m = k
    BY <1>1
  <2>. QED  BY <2>1, <1>1
<1>5. Members(c) = Members(s) \cup Members(t)
  <2>1. Members(c) \subseteq Members(s) \cup Members(t)
    BY <1>1, <1>2 DEF Members
  <2>2. Members(s) \subseteq Members(c)
    BY <1>1, <1>3 DEF Members
  <2>3. Members(t) \subseteq Members(c)
    <3> SUFFICES ASSUME NEW k \in 1 .. n
                 PROVE  t[k] \in Members(c)
      BY <1>1 DEF Members
    <3>1. k + m \in DOMAIN c /\ c[k + m] = t[k]
      BY <1>1, <1>4
    <3>. QED  BY <3>1 DEF Members
  <2>. QED  BY <2>1, <2>2, <2>3
<1>6. Distinct(c)
  <2> SUFFICES ASSUME NEW j \in 1 .. m + n, NEW k \in 1 .. m + n, c[j] = c[k]
               PROVE  j = k
    BY <1>1 DEF Distinct
  <2>1. \A x \in 1 .. m, y \in 1 .. n : s[x] # t[y]
    BY <1>1 DEF Members
  <2>2. \A x, y \in 1 .. m : s[x] = s[y] => x = y
    BY <1>1 DEF Distinct
  <2>3. \A x, y \in 1 .. n : t[x] = t[y] => x = y
    BY <1>1 DEF Distinct
  <2>4. CASE j \in 1 .. m /\ c[j] = s[j]
    <3>1. k \in 1 .. m /\ c[k] = s[k]
      BY <2>4, <1>2, <2>1
    <3>. QED  BY <2>4, <3>1, <2>2
  <2>5. CASE j - m \in 1 .. n /\ c[j] = t[j - m]
    <3>1. k - m \in 1 .. n /\ c[k] = t[k - m]
      BY <2>5, <1>2, <2>1
    <3>2. j - m = k - m
      BY <2>5, <3>1, <2>3
    <3>. QED  BY <3>2, <1>1
  <2>. QED  BY <2>4, <2>5, <1>2
<1>. QED  BY <1>1, <1>5, <1>6 DEF c

-----------------------------------------------------------------------------
(* The state of a semaphore seen from its users: W are the tasks suspended *)
(* in it, H the tasks inside its block.  Free permits, permits given to    *)
(* suspended tasks and permits inside add up to the limit, and a permit is *)
(* free beside an unserved waiter only while a served one is about to run. *)
Balanced(sem, S, W, H, limit) ==
  /\ WellFormed(sem, S)
  /\ Members(sem.waiters) = W
  /\ H \subseteq S /\ W \cap H = {}
  /\ sem.value + Cardinality(H \cup sem.woken) = limit
  /\ W \ sem.woken # {} => sem.value = 0 \/ sem.woken # {}

(* From sem to next one waiter at most was served, and it is made ready.   *)
Served(sem, next, S, W) ==
  /\ NewlyWoken(sem, next) \in Seq(S)
  /\ Distinct(NewlyWoken(sem, next))
  /\ Members(NewlyWoken(sem, next)) \subseteq W \ sem.woken
  /\ Members(NewlyWoken(sem, next)) \subseteq next.woken
  /\ next.woken \subseteq sem.woken \cup Members(NewlyWoken(sem, next))

LEMMA WaitersAndPending ==
  ASSUME NEW S, NEW sem, WellFormed(sem, S)
  PROVE  /\ Members(sem.waiters) \subseteq S
         /\ Pending(sem) = {} <=> Members(sem.waiters) \ sem.woken = {}
         /\ sem.waiters = <<>> <=> Members(sem.waiters) = {}
<1>1. sem.waiters \in Seq(S)
  BY DEF WellFormed
<1>2. /\ DOMAIN sem.waiters = 1 .. Len(sem.waiters)
      /\ Len(sem.waiters) \in Nat
      /\ sem.waiters # <<>> => Len(sem.waiters) \in Nat \ {0}
      /\ Len(<<>>) = 0
  BY <1>1, LenProperties, EmptySeq
<1>3. sem.waiters = <<>> <=> DOMAIN sem.waiters = {}
  <2>1. sem.waiters # <<>> => 1 \in DOMAIN sem.waiters
    BY <1>2
  <2>2. sem.waiters = <<>> => DOMAIN sem.waiters = 1 .. 0
    BY <1>2
  <2>. QED  BY <2>1, <2>2
<1>. QED  BY <1>1, <1>3, MembersOfSeq DEF Members, Pending

LEMMA NewBalanced ==
  ASSUME NEW S, NEW n \in Nat
  PROVE  Balanced(NewSemaphore(n), S, {}, {}, n)
BY NewIsWellFormed, FS_EmptySet DEF Balanced

LEMMA TakeBalanced ==
  ASSUME NEW S, IsFiniteSet(S), NEW sem, NEW W, NEW H, NEW limit,
         Balanced(sem, S, W, H, limit), ~Locked(sem),
         NEW i \in S \ (W \cup H)
  PROVE  /\ Balanced(Take(sem), S, W, H \cup {i}, limit)
         /\ Take(sem).woken = sem.woken
<1>1. WellFormed(sem, S) /\ WellFormed(Take(sem), S)
  BY TakeEffect DEF Balanced
<1>2. /\ Take(sem).value = sem.value - 1
      /\ Take(sem).woken = sem.woken
      /\ Take(sem).waiters = sem.waiters
  BY <1>1, TakeEffect
<1>3. W = {} /\ sem.woken = {}
  <2>1. sem.waiters = <<>>
    BY DEF Locked
  <2>2. Members(sem.waiters) = {}
    BY <1>1, <2>1, WaitersAndPending
  <2>3. W = {}
    BY <2>2 DEF Balanced
  <2>4. sem.woken \subseteq Members(sem.waiters)
    BY <1>1 DEF WellFormed
  <2>. QED  BY <2>2, <2>3, <2>4
<1>4. IsFiniteSet(H)
  BY FS_Subset DEF Balanced
<1>5. Cardinality(H \cup {i}) = Cardinality(H) + 1 /\ Cardinality(H) \in Nat
  BY <1>4, FS_AddElement, FS_CardinalityType
<1>6. sem.value \in Nat /\ sem.value + Cardinality(H) = limit
  BY <1>1, <1>3 DEF Balanced, WellFormed
<1>7. (sem.value - 1) + Cardinality(H \cup {i}) = limit
  BY <1>5, <1>6
<1>8. H \cup {i} \cup sem.woken = H \cup {i}
  BY <1>3
<1>. QED  BY <1>1, <1>2, <1>3, <1>7, <1>8 DEF Balanced

LEMMA EnqueueBalanced ==
  ASSUME NEW S, NEW sem, NEW W, NEW H, NEW limit,
         Balanced(sem, S, W, H, limit), Locked(sem),
         NEW i \in S \ (W \cup H)
  PROVE  /\ Balanced(Enqueue(sem, i), S, W \cup {i}, H, limit)
         /\ Enqueue(sem, i).woken = sem.woken
<1>1. WellFormed(sem, S)
  BY DEF Balanced
<1>2. /\ WellFormed(Enqueue(sem, i), S)
      /\ Enqueue(sem, i).value = sem.value
      /\ Enqueue(sem, i).woken = sem.woken
      /\ Members(Enqueue(sem, i).waiters) = W \cup {i}
  BY <1>1, EnqueueEffect DEF Balanced
<1>3. sem.value = 0 \/ sem.woken # {}
  BY <1>1, WaitersAndPending DEF Locked, Balanced
<1>. QED  BY <1>2, <1>3 DEF Balanced

(* Passing a permit on, to the oldest unserved waiter if there is one, is  *)
(* where a permit could be lost or doubled.                                *)
LEMMA WakeNextBalanced ==
  ASSUME NEW S, IsFiniteSet(S), NEW sem, NEW W, NEW H, NEW limit,
         WellFormed(sem, S), Members(sem.waiters) = W,
         H \subseteq S, W \cap H = {},
         sem.value + Cardinality(H \cup sem.woken) = limit
  PROVE  /\ Balanced(WakeNext(sem), S, W, H, limit)
         /\ Served(sem, WakeNext(sem), S, W)
<1> DEFINE next == WakeNext(sem)
<1>1. /\ WellFormed(next, S)
      /\ next.waiters = sem.waiters
  BY WakeNextEffect
<1>2. Members(sem.waiters) \subseteq S /\ sem.value \in Nat
  BY WaitersAndPending DEF WellFormed
<1>3. CASE /\ next.value = sem.value
           /\ next.woken = sem.woken
           /\ ~(sem.value > 0 /\ Pending(sem) # {})
  <2>1. W \ next.woken # {} => next.value = 0
    BY <1>2, <1>3, WaitersAndPending
  <2>2. next.woken \ sem.woken = {}
    BY <1>3
  <2>3. /\ NewlyWoken(sem, next) \in Seq(S)
        /\ Members(NewlyWoken(sem, next)) = {}
        /\ Distinct(NewlyWoken(sem, next))
    BY <2>2, NewlyWokenIsWoken
  <2>. QED  BY <1>1, <1>3, <2>1, <2>3 DEF Balanced, Served
<1>4. ASSUME NEW w \in Members(sem.waiters) \ sem.woken,
             next.value = sem.value - 1,
             next.woken = sem.woken \cup {w}
      PROVE  /\ Balanced(next, S, W, H, limit)
             /\ Served(sem, next, S, W)
  <2>1. w \in S /\ w \notin H \cup sem.woken
    BY <1>2, <1>4
  <2>2. IsFiniteSet(H \cup sem.woken)
    BY FS_Subset DEF WellFormed
  <2>3. /\ Cardinality(H \cup sem.woken \cup {w})
             = Cardinality(H \cup sem.woken) + 1
        /\ Cardinality(H \cup sem.woken) \in Nat
    BY <2>1, <2>2, FS_AddElement, FS_CardinalityType
  <2>4. H \cup next.woken = H \cup sem.woken \cup {w}
    BY <1>4
  <2>5. next.value + Cardinality(H \cup next.woken) = limit
    <3> DEFINE c == Cardinality(H \cup sem.woken)
    <3>1. c \in Nat /\ Cardinality(H \cup next.woken) = c + 1
      BY <2>3, <2>4
    <3>2. next.value = sem.value - 1 /\ sem.value \in Nat
      BY <1>2, <1>4
    <3>3. sem.value + c = limit
      OBVIOUS
    <3> HIDE DEF c, next
    <3>. QED  BY <3>1, <3>2, <3>3
  <2>6. next.woken \ sem.woken = {w}
    BY <1>4
  <2>7. /\ NewlyWoken(sem, next) \in Seq(S)
        /\ Members(NewlyWoken(sem, next)) = {w}
        /\ Distinct(NewlyWoken(sem, next))
    BY <2>1, <2>6, NewlyWokenIsWoken
  <2>. QED  BY <1>1, <1>4, <2>5, <2>7 DEF Balanced, Served
<1>5. CASE sem.value > 0 /\ Pending(sem) # {}
  <2>1. next.value = sem.value - 1
    BY <1>5 DEF WakeNext, WellFormed
  <2>2. next.value # sem.value
    BY <2>1, <1>2
  <2>. QED  BY <1>4, <2>2, WakeNextEffect
<1>6. CASE ~(sem.value > 0 /\ Pending(sem) # {})
  <2>1. next = sem
    BY <1>6 DEF WakeNext
  <2>. QED  BY <1>3, <1>6, <2>1
<1>. QED  BY <1>5, <1>6

LEMMA ReleaseBalanced ==
  ASSUME NEW S, IsFiniteSet(S), NEW sem, NEW W, NEW H, NEW limit,
         Balanced(sem, S, W, H, limit), NEW i \in H
  PROVE  /\ Balanced(Release(sem), S, W, H \ {i}, limit)
         /\ Served(sem, Release(sem), S, W)
<1> DEFINE mid == [sem EXCEPT !.value = @ + 1]
<1>1. WellFormed(sem, S) /\ sem.value \in Nat
  BY DEF Balanced, WellFormed
<1>2. /\ WellFormed(mid, S)
      /\ mid.value = sem.value + 1
      /\ mid.waiters = sem.waiters
      /\ mid.woken = sem.woken
  BY <1>1 DEF WellFormed
<1>3. i \notin sem.woken /\ sem.woken \subseteq W
  BY DEF Balanced, WellFormed
<1>4. (H \ {i}) \cup sem.woken = (H \cup sem.woken) \ {i}
  BY <1>3
<1>5. IsFiniteSet(H \cup sem.woken)
  BY FS_Subset, <1>1 DEF Balanced, WellFormed
<1>6. /\ Cardinality((H \ {i}) \cup sem.woken)
           = Cardinality(H \cup sem.woken) - 1
      /\ Cardinality(H \cup sem.woken) \in Nat
  BY <1>4, <1>5, FS_RemoveElement, FS_CardinalityType
<1>7. mid.value + Cardinality((H \ {i}) \cup mid.woken) = limit
  <2>1. sem.value + Cardinality(H \cup sem.woken) = limit
    BY DEF Balanced
  <2>. QED  BY <1>1, <1>2, <1>6, <2>1
<1>8. Release(sem) = WakeNext(mid)
  BY DEF Release
<1> HIDE DEF mid
<1>9. /\ Balanced(WakeNext(mid), S, W, H \ {i}, limit)
      /\ Served(mid, WakeNext(mid), S, W)
  <2>1. /\ Members(mid.waiters) = W
        /\ H \ {i} \subseteq S
        /\ W \cap (H \ {i}) = {}
    BY <1>2 DEF Balanced
  <2>. QED  BY <2>1, <1>2, <1>7, WakeNextBalanced
<1>10. NewlyWoken(mid, WakeNext(mid)) = NewlyWoken(sem, WakeNext(mid))
  BY <1>2 DEF NewlyWoken
<1>. QED  BY <1>2, <1>8, <1>9, <1>10 DEF Served

LEMMA ResumeBalanced ==
  ASSUME NEW S, IsFiniteSet(S), NEW sem, NEW W, NEW H, NEW limit,
         Balanced(sem, S, W, H, limit), NEW i \in sem.woken
  PROVE  /\ Balanced(Resume(sem, i), S, W \ {i}, H \cup {i}, limit)
         /\ Served(sem, Resume(sem, i), S, W)
         /\ i \notin Resume(sem, i).woken
<1> DEFINE mid == Dequeue(sem, i)
<1>1. /\ WellFormed(sem, S) /\ sem.woken \subseteq W
      /\ sem.value + Cardinality(H \cup sem.woken) = limit
      /\ H \subseteq S /\ W \cap H = {} /\ W \subseteq S
      /\ Members(sem.waiters) = W
  BY WaitersAndPending DEF Balanced, WellFormed
<1>2. /\ Without(sem.waiters, i) \in Seq(S)
      /\ Members(Without(sem.waiters, i)) = W \ {i}
      /\ Distinct(Without(sem.waiters, i))
  BY <1>1, WithoutMembers DEF WellFormed
<1>3. /\ WellFormed(mid, S)
      /\ Members(mid.waiters) = W \ {i}
      /\ mid.value = sem.value
      /\ mid.woken = sem.woken \ {i}
  BY <1>1, <1>2 DEF Dequeue, WellFormed
<1>4. Resume(sem, i) = WakeNext(mid)
  BY DEF Resume
<1> HIDE DEF mid
<1>5. (H \cup {i}) \cup mid.woken = H \cup sem.woken
  BY <1>3
<1>6. /\ Balanced(WakeNext(mid), S, W \ {i}, H \cup {i}, limit)
      /\ Served(mid, WakeNext(mid), S, W \ {i})
  BY <1>1, <1>3, <1>5, WakeNextBalanced
<1>7. i \notin WakeNext(mid).woken
  BY <1>6 DEF Balanced, WellFormed
<1>8. WakeNext(mid).woken \ mid.woken = WakeNext(mid).woken \ sem.woken
  BY <1>3, <1>7
<1>9. NewlyWoken(mid, WakeNext(mid)) = NewlyWoken(sem, WakeNext(mid))
  BY <1>8 DEF NewlyWoken
<1>10. Served(sem, WakeNext(mid), S, W)
  BY <1>3, <1>6, <1>7, <1>9 DEF Served
<1>. QED  BY <1>4, <1>6, <1>7, <1>10

(* No waiter that was served is forgotten.                                 *)
LEMMA WakeNextKeepsWoken ==
  ASSUME NEW S, NEW sem, WellFormed(sem, S)
  PROVE  sem.woken \subseteq WakeNext(sem).woken
BY WakeNextEffect

LEMMA ReleaseKeepsWoken ==
  ASSUME NEW S, NEW sem, WellFormed(sem, S)
  PROVE  sem.woken \subseteq Release(sem).woken
BY ReleaseEffect

LEMMA ResumeKeepsWoken ==
  ASSUME NEW S, NEW sem, WellFormed(sem, S), NEW i \in sem.woken
  PROVE  sem.woken \ {i} \subseteq Resume(sem, i).woken
BY ResumeEffect

-----------------------------------------------------------------------------
(* The order of service, for acquirers that are numbered and queue in that *)
(* order.                                                                  *)
Ascending(s) == \A j, k \in DOMAIN s : j < k => s[j] < s[k]

Unserved(sem) == Members(sem.waiters) \ sem.woken

(* No permit is free beside an unserved waiter.                            *)
NoneIdle(sem) == Unserved(sem) # {} => sem.value = 0

(* From sem to next nobody was served before one who waited longer.        *)
InTurn(sem, next) ==
  /\ Ascending(next.waiters)
  /\ \A w \in next.woken \ sem.woken : \A j \in Unserved(sem) : w <= j

LEMMA AppendAscending ==
  ASSUME NEW S, S \subseteq Nat, NEW s \in Seq(S), Ascending(s),
         NEW e \in S, \A x \in Members(s) : x < e
  PROVE  Ascending(Append(s, e))
<1>1. /\ Len(Append(s, e)) = Len(s) + 1
      /\ \A k \in 1 .. Len(s) : Append(s, e)[k] = s[k]
      /\ Append(s, e)[Len(s) + 1] = e
      /\ Append(s, e) \in Seq(S)
  BY AppendProperties
<1>2. /\ DOMAIN s = 1 .. Len(s) /\ Len(s) \in Nat
      /\ DOMAIN Append(s, e) = 1 .. Len(s) + 1
  BY <1>1, LenProperties
<1>3. \A k \in 1 .. Len(s) : s[k] < e
  BY <1>2 DEF Members
<1>. QED  BY <1>1, <1>2, <1>3 DEF Ascending

LEMMA WithoutAscending ==
  ASSUME NEW S, S \subseteq Nat, NEW s \in Seq(S), Ascending(s),
         NEW e \in Members(s)
  PROVE  Ascending(Without(s, e))
<1>1. PICK k \in DOMAIN s : k = CHOOSE n \in DOMAIN s : s[n] = e
  BY DEF Members
<1> DEFINE n == Len(s)
           w == Without(s, e)
<1>2. n \in Nat /\ DOMAIN s = 1 .. n /\ k \in 1 .. n /\ n - 1 \in Nat
  BY LenProperties
<1>3. w = [j \in 1 .. n - 1 |-> IF j < k THEN s[j] ELSE s[j + 1]]
  BY <1>1 DEF Without
<1> HIDE DEF n, w
<1>4. DOMAIN w = 1 .. n - 1
  BY <1>3
<1>5. \A j \in 1 .. n - 1 : \/ j < k /\ w[j] = s[j] /\ j \in 1 .. n
                            \/ j >= k /\ w[j] = s[j + 1] /\ j + 1 \in 1 .. n
  BY <1>2, <1>3
<1>6. \A i, j \in 1 .. n : i < j => s[i] < s[j]
  BY <1>2 DEF Ascending
<1>7. \A i, j \in 1 .. n - 1 : i < j => w[i] < w[j]
  <2> SUFFICES ASSUME NEW i \in 1 .. n - 1, NEW j \in 1 .. n - 1, i < j
               PROVE  w[i] < w[j]
    OBVIOUS
  <2>1. CASE j < k
    <3>1. i < k
      BY <1>2, <2>1
    <3>. QED  BY <1>2, <1>5, <1>6, <2>1, <3>1
  <2>2. CASE j >= k /\ i < k
    <3>1. i \in 1 .. n /\ j + 1 \in 1 .. n /\ i < j + 1
      BY <1>2
    <3>. QED  BY <1>2, <1>5, <1>6, <2>2, <3>1
  <2>3. CASE j >= k /\ i >= k
    <3>1. i + 1 \in 1 .. n /\ j + 1 \in 1 .. n /\ i + 1 < j + 1
      BY <1>2
    <3>. QED  BY <1>2, <1>5, <1>6, <2>3, <3>1
  <2>. QED  BY <1>2, <2>1, <2>2, <2>3
<1>. QED  BY <1>4, <1>7 DEF Ascending, w

LEMMA WakeNextInTurn ==
  ASSUME NEW S, S \subseteq Nat, NEW sem, WellFormed(sem, S),
         Ascending(sem.waiters)
  PROVE  InTurn(sem, WakeNext(sem))
<1>1. /\ sem.waiters \in Seq(S)
      /\ DOMAIN sem.waiters = 1 .. Len(sem.waiters)
      /\ Len(sem.waiters) \in Nat
  BY LenProperties DEF WellFormed
<1>2. WakeNext(sem).waiters = sem.waiters
  BY WakeNextEffect
<1>3. CASE sem.value > 0 /\ Pending(sem) # {}
  <2>1. Pending(sem) \subseteq DOMAIN sem.waiters /\ Pending(sem) \subseteq Nat
    BY <1>1 DEF Pending
  <2>2. PICK p \in Pending(sem) : \A j \in Pending(sem) : p <= j
    BY <1>3, <2>1, LeastOfNaturals
  <2> DEFINE f == CHOOSE k \in Pending(sem) : \A j \in Pending(sem) : k <= j
  <2>3. f \in Pending(sem) /\ \A j \in Pending(sem) : f <= j
    BY <2>2
  <2> HIDE DEF f
  <2>4. FirstPending(sem) = sem.waiters[f]
    BY DEF FirstPending, f
  <2>5. \A j \in Unserved(sem) : sem.waiters[f] <= j
    <3> SUFFICES ASSUME NEW k \in DOMAIN sem.waiters,
                        sem.waiters[k] \notin sem.woken
                 PROVE  sem.waiters[f] <= sem.waiters[k]
      BY DEF Unserved, Members
    <3>1. k \in Pending(sem)
      BY DEF Pending
    <3>2. f <= k /\ f \in Nat /\ k \in Nat
      BY <2>1, <2>3, <3>1
    <3>3. sem.waiters[f] \in Nat /\ sem.waiters[k] \in Nat
      BY <1>1, <2>1, <2>3, ElementOfSeq
    <3>. QED  BY <2>1, <2>3, <3>2, <3>3 DEF Ascending
  <2>6. WakeNext(sem).woken \ sem.woken \subseteq {sem.waiters[f]}
    <3>1. WakeNext(sem)
            = [sem EXCEPT !.value = @ - 1, !.woken = @ \cup {FirstPending(sem)}]
      BY <1>3 DEF WakeNext
    <3>. QED  BY <2>4, <3>1 DEF WellFormed
  <2>. QED  BY <1>2, <2>5, <2>6 DEF InTurn
<1>4. CASE ~(sem.value > 0 /\ Pending(sem) # {})
  <2>1. WakeNext(sem) = sem
    BY <1>4 DEF WakeNext
  <2>. QED  BY <2>1 DEF InTurn
<1>. QED  BY <1>3, <1>4

LEMMA WakeNextUsesPermit ==
  ASSUME NEW S, NEW sem, WellFormed(sem, S),
         Unserved(sem) # {} => sem.value <= 1
  PROVE  NoneIdle(WakeNext(sem))
<1>1. sem.value \in Nat
  BY DEF WellFormed
<1>2. Pending(sem) = {} <=> Unserved(sem) = {}
  BY WaitersAndPending DEF Unserved
<1>3. CASE sem.value > 0 /\ Pending(sem) # {}
  <2>1. WakeNext(sem).value = sem.value - 1
    BY <1>3 DEF WakeNext, WellFormed
  <2>2. WakeNext(sem).value = 0
    BY <1>1, <1>2, <1>3, <2>1
  <2>. QED  BY <2>2 DEF NoneIdle
<1>4. CASE ~(sem.value > 0 /\ Pending(sem) # {})
  BY <1>1, <1>2, <1>4 DEF WakeNext, NoneIdle
<1>. QED  BY <1>3, <1>4

LEMMA EnqueueInTurn ==
  ASSUME NEW S, S \subseteq Nat, NEW sem, WellFormed(sem, S),
         Ascending(sem.waiters), NEW i \in S,
         \A x \in Members(sem.waiters) : x < i
  PROVE  Ascending(Enqueue(sem, i).waiters)
<1>1. Enqueue(sem, i).waiters = Append(sem.waiters, i)
  BY DEF Enqueue, WellFormed
<1>2. sem.waiters \in Seq(S)
  BY DEF WellFormed
<1>3. Ascending(Append(sem.waiters, i))
  BY <1>2, AppendAscending
<1>. QED  BY <1>1, <1>3

(* The permit of a request that ends goes to the longest waiting one.      *)
LEMMA ReleaseInTurn ==
  ASSUME NEW S, S \subseteq Nat, NEW sem, WellFormed(sem, S),
         Ascending(sem.waiters)
  PROVE  /\ InTurn(sem, Release(sem))
         /\ NoneIdle(sem) => NoneIdle(Release(sem))
<1> DEFINE mid == [sem EXCEPT !.value = @ + 1]
<1>1. /\ WellFormed(mid, S)
      /\ mid.value = sem.value + 1
      /\ mid.waiters = sem.waiters
      /\ mid.woken = sem.woken
  BY DEF WellFormed
<1>2. Release(sem) = WakeNext(mid)
  BY DEF Release
<1>3. Unserved(mid) = Unserved(sem)
  BY <1>1 DEF Unserved
<1> HIDE DEF mid
<1>4. InTurn(mid, WakeNext(mid))
  BY <1>1, WakeNextInTurn
<1>5. NoneIdle(sem) => (Unserved(mid) # {} => mid.value <= 1)
  BY <1>1, <1>3 DEF NoneIdle
<1>6. NoneIdle(sem) => NoneIdle(WakeNext(mid))
  BY <1>1, <1>5, WakeNextUsesPermit
<1>. QED  BY <1>1, <1>2, <1>3, <1>4, <1>6 DEF InTurn

LEMMA ResumeInTurn ==
  ASSUME NEW S, S \subseteq Nat, NEW sem, WellFormed(sem, S),
         Ascending(sem.waiters), NEW i \in sem.woken
  PROVE  /\ InTurn(sem, Resume(sem, i))
         /\ NoneIdle(sem) => NoneIdle(Resume(sem, i))
<1> DEFINE mid == Dequeue(sem, i)
<1>1. /\ sem.waiters \in Seq(S) /\ Distinct(sem.waiters)
      /\ i \in Members(sem.waiters) /\ sem.woken \subseteq Members(sem.waiters)
  BY DEF WellFormed
<1>2. /\ Without(sem.waiters, i) \in Seq(S)
      /\ Members(Without(sem.waiters, i)) = Members(sem.waiters) \ {i}
      /\ Distinct(Without(sem.waiters, i))
      /\ Ascending(Without(sem.waiters, i))
  BY <1>1, WithoutMembers, WithoutAscending
<1>3. /\ WellFormed(mid, S)
      /\ Ascending(mid.waiters)
      /\ Members(mid.waiters) = Members(sem.waiters) \ {i}
      /\ mid.value = sem.value
      /\ mid.woken = sem.woken \ {i}
  BY <1>1, <1>2 DEF Dequeue, WellFormed
<1>4. Resume(sem, i) = WakeNext(mid)
  BY DEF Resume
<1> HIDE DEF mid
<1>5. Unserved(mid) = Unserved(sem)
  BY <1>3 DEF Unserved
<1>6. InTurn(mid, WakeNext(mid))
  BY <1>3, WakeNextInTurn
<1>7. NoneIdle(sem) => NoneIdle(WakeNext(mid))
  BY <1>3, <1>5, WakeNextUsesPermit DEF NoneIdle
<1>8. WakeNext(mid).woken \ sem.woken \subseteq WakeNext(mid).woken \ mid.woken
  BY <1>3
<1>. QED  BY <1>4, <1>5, <1>6, <1>7, <1>8 DEF InTurn

-----------------------------------------------------------------------------
(* A queue that begins with the members of N, in ascending order: the      *)
(* tasks of a gather that have not started.                                *)
Leading(s, N) ==
  \A k \in DOMAIN s : s[k] \in N =>
    \A m \in 1 .. k - 1 : s[m] \in N /\ s[m] < s[k]

LEMMA HeadLeads ==
  ASSUME NEW S, NEW s \in Seq(S), NEW N, N \subseteq Nat, Leading(s, N),
         NEW x \in N \cap Members(s)
  PROVE  s # <<>> /\ Head(s) \in N /\ Head(s) <= x
<1>1. DOMAIN s = 1 .. Len(s) /\ Len(s) \in Nat
  BY LenProperties
<1>2. PICK k \in 1 .. Len(s) : s[k] = x
  BY <1>1 DEF Members
<1>3. s # <<>> /\ Head(s) = s[1]
  BY <1>1, <1>2
<1>4. CASE k = 1
  BY <1>2, <1>3, <1>4
<1>5. CASE k # 1
  <2>1. 1 \in 1 .. k - 1
    BY <1>1, <1>2, <1>5
  <2>2. s[1] \in N /\ s[1] < x
    BY <1>1, <1>2, <2>1 DEF Leading
  <2>3. s[1] <= x
    <3>1. s[1] \in Nat /\ x \in Nat
      BY <2>2
    <3>. QED  BY <2>2, <3>1
  <2>. QED  BY <1>3, <2>2, <2>3
<1>. QED  BY <1>4, <1>5

(* It still does when its head has run and others were put on its end.     *)
LEMMA RestLeads ==
  ASSUME NEW S, NEW s \in Seq(S), s # <<>>, Distinct(s),
         NEW N, N \subseteq Nat, Leading(s, N),
         NEW t \in Seq(S), Members(t) \cap N = {}
  PROVE  Leading(Tail(s) \o t, N \ {Head(s)})
<1> DEFINE r == Tail(s)
           m == Len(r)
           c == r \o t
           h == Head(s)
<1>1. /\ r \in Seq(S) /\ m = Len(s) - 1
      /\ \A k \in 1 .. m : r[k] = s[k + 1]
  BY HeadTailProperties
<1>2. /\ Len(s) \in Nat \ {0} /\ DOMAIN s = 1 .. Len(s)
      /\ Len(t) \in Nat /\ DOMAIN t = 1 .. Len(t)
      /\ h = s[1]
  BY LenProperties, EmptySeq
<1>3. /\ DOMAIN c = 1 .. m + Len(t)
      /\ \A k \in 1 .. m + Len(t) : c[k] = IF k <= m THEN r[k] ELSE t[k - m]
  BY <1>1, ConcatProperties, LenProperties
<1> HIDE DEF r, c, h, m
<1>4. m \in Nat
  BY <1>1, <1>2
<1> SUFFICES ASSUME NEW k \in 1 .. m + Len(t), c[k] \in N \ {h},
                    NEW j \in 1 .. k - 1
             PROVE  c[j] \in N \ {h} /\ c[j] < c[k]
  BY <1>3 DEF Leading, c, r, h
<1>5. k <= m
  <2> SUFFICES ASSUME ~(k <= m) PROVE FALSE
    OBVIOUS
  <2>1. k - m \in 1 .. Len(t) /\ c[k] = t[k - m]
    BY <1>2, <1>3, <1>4
  <2>. QED  BY <1>2, <2>1 DEF Members
<1>6. c[k] = s[k + 1] /\ k + 1 \in 1 .. Len(s)
  BY <1>1, <1>2, <1>3, <1>4, <1>5
<1>7. /\ c[j] = s[j + 1] /\ j + 1 \in 1 .. Len(s)
      /\ j + 1 \in 1 .. (k + 1) - 1 /\ j + 1 # 1 /\ 1 \in 1 .. Len(s)
  BY <1>1, <1>2, <1>3, <1>4, <1>5
<1>8. s[j + 1] \in N /\ s[j + 1] < s[k + 1]
  BY <1>2, <1>6, <1>7 DEF Leading
<1>9. s[j + 1] # h
  BY <1>2, <1>7 DEF Distinct
<1>. QED  BY <1>6, <1>7, <1>8, <1>9

LEMMA LongerLeads ==
  ASSUME NEW S, NEW s \in Seq(S), NEW N, Leading(s, N),
         NEW e \in S, e \notin N
  PROVE  Leading(Append(s, e), N)
<1>1. /\ Len(Append(s, e)) = Len(s) + 1
      /\ \A k \in 1 .. Len(s) : Append(s, e)[k] = s[k]
      /\ Append(s, e)[Len(s) + 1] = e
      /\ Append(s, e) \in Seq(S)
  BY AppendProperties
<1>2. /\ DOMAIN s = 1 .. Len(s) /\ Len(s) \in Nat
      /\ DOMAIN Append(s, e) = 1 .. Len(s) + 1
  BY <1>1, LenProperties
<1>. QED  BY <1>1, <1>2 DEF Leading
=============================================================================
