--------------------------- MODULE SelectionProofs ---------------------------
(***************************************************************************)
(* Proofs about Selection and RoundRobin for every finite set of accounts, *)
(* every set of requests and models, and every width of durations.         *)
(*                                                                         *)
(* Induction over the candidates is a search for the smallest counter-     *)
(* example: Least gives every set of naturals that is not empty a smallest *)
(* element, so a first position at which a claim fails.                    *)
(***************************************************************************)
EXTENDS Selection, FiniteSetTheorems, WellFoundedInduction, TLAPS

(***************************************************************************)
(* Sets of naturals.                                                       *)
(***************************************************************************)
\* Every set of naturals that is not empty has a smallest element.
LEMMA Least ==
  ASSUME NEW T \in SUBSET Nat, T # {}
  PROVE  \E m \in T : \A k \in T : m <= k
<1> DEFINE R == OpToRel(<, Nat)
<1>1. IsWellFoundedOn(R, Nat)
  BY NatLessThanWellFounded
<1>2. \A x, y \in Nat : x < y => <<x, y>> \in R
  BY DEF OpToRel
<1> HIDE DEF R
<1>3. PICK x \in T : \A y \in T : ~ (<<y, x>> \in R)
  BY <1>1, WFMin
<1>4. \A y \in T : ~ (y < x)
  BY <1>2, <1>3
<1>5. \A y \in T : x <= y
  BY <1>4
<1> QED
  BY <1>5

\* Min is that element.
LEMMA MinOf ==
  ASSUME NEW T \in SUBSET Nat, T # {}
  PROVE  Min(T) \in T /\ \A k \in T : Min(T) <= k
  BY Least DEF Min

\* An element that is not above the others is the minimum.
LEMMA MinIs ==
  ASSUME NEW T \in SUBSET Nat, NEW m \in T, \A k \in T : m <= k
  PROVE  Min(T) = m
<1>1. Min(T) \in T /\ \A k \in T : Min(T) <= k
  BY MinOf
<1>2. Min(T) <= m /\ m <= Min(T) /\ Min(T) \in Nat /\ m \in Nat
  BY <1>1
<1> QED
  BY <1>2

\* The minimum with one element more.
LEMMA MinAdd ==
  ASSUME NEW T \in SUBSET Nat, T # {}, NEW x \in Nat
  PROVE  Min(T \cup {x}) = IF x < Min(T) THEN x ELSE Min(T)
<1>1. Min(T) \in T /\ Min(T) \in Nat /\ \A k \in T : Min(T) <= k
  BY MinOf
<1>2. T \cup {x} \in SUBSET Nat
  OBVIOUS
<1>3. CASE x < Min(T)
  <2>1. \A k \in T \cup {x} : x <= k
    BY <1>1, <1>3
  <2> QED
    BY <1>2, <1>3, <2>1, MinIs
<1>4. CASE ~(x < Min(T))
  <2>1. \A k \in T \cup {x} : Min(T) <= k
    BY <1>1, <1>4
  <2>2. Min(T) \in T \cup {x}
    BY <1>1
  <2> QED
    BY <1>2, <1>4, <2>1, <2>2, MinIs
<1> QED
  BY <1>3, <1>4

\* The larger of two numbers.
LEMMA MaxOfTwo ==
  ASSUME NEW x \in Int, NEW y \in Int
  PROVE  Max({x, y}) = IF x >= y THEN x ELSE y
<1>1. Max({x, y}) \in {x, y} /\ \A k \in {x, y} : Max({x, y}) >= k
  <2>1. \E m \in {x, y} : \A k \in {x, y} : m >= k
    OBVIOUS
  <2> QED
    BY <2>1 DEF Max
<1> QED
  BY <1>1

(***************************************************************************)
(* The candidates in ascending order.                                      *)
(***************************************************************************)
InOrder(ids, S) ==
  /\ ids \in SetToSeqs(S)
  /\ \A j, k \in DOMAIN ids : j < k => ids[j] < ids[k]

\* The smallest element goes in front of the others.
LEMMA Prepend ==
  ASSUME NEW S \in SUBSET Nat, IsFiniteSet(S), NEW m \in S, \A k \in S : m <= k,
         NEW f, InOrder(f, S \ {m})
  PROVE  \E g : InOrder(g, S)
<1> DEFINE n == Cardinality(S)
           g == [j \in 1..n |-> IF j = 1 THEN m ELSE f[j - 1]]
<1>1. n \in Nat /\ IsFiniteSet(S \ {m}) /\ Cardinality(S \ {m}) = n - 1
  BY FS_CardinalityType, FS_RemoveElement
<1> HIDE DEF n
<1>2. n # 0
  BY FS_EmptySet DEF n
<1>3. f \in [1..(n - 1) -> S \ {m}]
  BY <1>1 DEF InOrder, SetToSeqs
<1>4. \A j, k \in 1..(n - 1) : j < k => f[j] < f[k]
  BY <1>3 DEF InOrder
<1>5. \A j \in 1..n : j # 1 => j - 1 \in 1..(n - 1)
  BY <1>1
<1>6. \A j \in 1..n : g[j] \in S
  BY <1>3, <1>5
<1>7. \A j \in 1..n : j # 1 => m < g[j]
  <2>1. \A x \in S \ {m} : m < x
    OBVIOUS
  <2> QED
    BY <1>3, <1>5, <2>1
<1>8. \A j, k \in 1..n : j < k => g[j] < g[k]
  <2> SUFFICES ASSUME NEW j \in 1..n, NEW k \in 1..n, j < k PROVE g[j] < g[k]
    OBVIOUS
  <2>1. k # 1 /\ g[k] = f[k - 1] /\ k - 1 \in 1..(n - 1)
    BY <1>1, <1>5
  <2>2. CASE j = 1
    BY <1>7, <2>1, <2>2
  <2>3. CASE j # 1
    <3>1. j - 1 \in 1..(n - 1) /\ j - 1 < k - 1 /\ g[j] = f[j - 1]
      BY <1>1, <1>5, <2>3
    <3> QED
      BY <1>4, <2>1, <3>1
  <2> QED
    BY <2>2, <2>3
<1>9. g \in [1..n -> S]
  BY <1>6
<1>10. \A j, k \in 1..n : j # k => g[j] # g[k]
  <2>1. \A j, k \in 1..n : j # k => j < k \/ k < j
    BY <1>1
  <2>2. \A j \in 1..n : g[j] \in Nat
    BY <1>6
  <2> QED
    BY <1>8, <2>1, <2>2
<1> HIDE DEF g
<1>11. g \in SetToSeqs(S)
  BY <1>9, <1>10 DEF SetToSeqs, n
<1>12. DOMAIN g = 1..n
  BY <1>9
<1> QED
  BY <1>8, <1>11, <1>12 DEF InOrder

\* Every finite set of naturals can be listed in order.
LEMMA OrderExists ==
  ASSUME NEW S \in SUBSET Nat, IsFiniteSet(S)
  PROVE  \E ids : InOrder(ids, S)
<1> DEFINE Bad == {n \in Nat : \E T \in SUBSET Nat :
                     IsFiniteSet(T) /\ Cardinality(T) = n /\ ~ \E ids : InOrder(ids, T)}
<1>1. Cardinality(S) \in Nat
  BY FS_CardinalityType
<1>2. Bad = {}
  <2> SUFFICES ASSUME Bad # {} PROVE FALSE
    OBVIOUS
  <2>1. PICK n \in Bad : \A k \in Bad : n <= k
    BY Least
  <2>2. PICK T \in SUBSET Nat : IsFiniteSet(T) /\ Cardinality(T) = n /\ ~ \E ids : InOrder(ids, T)
    BY <2>1
  <2>3. CASE T = {}
    <3> DEFINE e == [j \in 1..0 |-> 0]
    <3>1. Cardinality(T) = 0 /\ 1..0 = {}
      BY <2>3, FS_EmptySet
    <3>2. e \in [1..0 -> T] /\ DOMAIN e = {}
      BY <3>1
    <3> HIDE DEF e
    <3>3. InOrder(e, T)
      BY <3>1, <3>2 DEF InOrder, SetToSeqs
    <3> QED
      BY <2>2, <3>3
  <2>4. CASE T # {}
    <3>1. PICK m \in T : \A k \in T : m <= k
      BY <2>4, Least
    <3>2. IsFiniteSet(T \ {m}) /\ Cardinality(T \ {m}) = n - 1 /\ Cardinality(T) \in Nat
      BY <2>2, FS_RemoveElement, FS_CardinalityType
    <3>3. Cardinality(T \ {m}) \in Nat
      BY <3>2, FS_CardinalityType
    <3>4. n - 1 \notin Bad
      BY <2>1, <2>2, <3>2
    <3>5. \E ids : InOrder(ids, T \ {m})
      BY <3>2, <3>3, <3>4
    <3> QED
      BY <2>2, <3>1, <3>5, Prepend
  <2> QED
    BY <2>3, <2>4
<1> QED
  BY <1>1, <1>2

\* Ascending lists exactly the elements of its argument.
LEMMA AscendingLists ==
  ASSUME NEW S \in SUBSET Nat, IsFiniteSet(S)
  PROVE  /\ Ascending(S) \in Seq(S)
         /\ ToSet(Ascending(S)) = S
         /\ Ascending(S) = <<>> <=> S = {}
<1> DEFINE ids == Ascending(S)
           n == Cardinality(S)
<1>1. InOrder(ids, S)
  BY OrderExists DEF InOrder, Ascending
<1>2. n \in Nat
  BY FS_CardinalityType
<1> HIDE DEF ids
<1>3. ids \in [1..n -> S] /\ \A j, k \in 1..n : j # k => ids[j] # ids[k]
  BY <1>1 DEF InOrder, SetToSeqs
<1>4. Cardinality(1..n) = Cardinality(S)
  BY <1>2, FS_Interval
<1>5. ids \in Injection(1..n, S)
  BY <1>3 DEF Injection, IsInjective
<1>6. ids \in Surjection(1..n, S)
  <2> HIDE DEF n
  <2> QED
    BY <1>4, <1>5, FS_Injection
<1>7. \A x \in S : \E j \in 1..n : ids[j] = x
  BY <1>6 DEF Surjection
<1>8. ToSet(ids) = S
  BY <1>3, <1>7 DEF ToSet
<1>9. ids \in Seq(S)
  BY <1>2, <1>3
<1>10. ids = <<>> <=> S = {}
  <2>1. n = 0 <=> S = {}
    BY FS_EmptySet
  <2>2. Len(ids) = n
    BY <1>2, <1>3
  <2> QED
    BY <1>9, <2>1, <2>2
<1> QED
  BY <1>8, <1>9, <1>10 DEF ids

(***************************************************************************)
(* Select's loop finds the next candidate in cyclic order.                 *)
(***************************************************************************)
\* The candidates above the last choice.
Above(last, S) == {i \in S : last # None /\ i > last}

\* What the comment of Select promises.
NextOf(last, S) == Min(IF Above(last, S) = {} THEN S ELSE Above(last, S))

\* What the loop has found after n candidates.
Firsts(ids, n) == {ids[k] : k \in 1..n}
FoundAfter(last, ids, n) ==
  [smallest |-> Min({ids[1]} \cup Firsts(ids, n)),
   next |-> IF Above(last, Firsts(ids, n)) = {} THEN None ELSE Min(Above(last, Firsts(ids, n)))]

\* One turn of the loop.
LEMMA ScanTurn ==
  ASSUME NEW last \in Ids \cup {None}, NEW ids \in Seq(Ids), NEW n \in 1..Len(ids)
  PROVE  FoundAfter(last, ids, n) = Scan(last, FoundAfter(last, ids, n - 1), ids[n])
<1> DEFINE F == Firsts(ids, n - 1)
           A == Above(last, F)
           x == ids[n]
<1>0. Ids \subseteq Nat /\ Len(ids) \in Nat /\ \A k \in 1..Len(ids) : ids[k] \in Ids
  BY RoundRobinAssumption
<1>1. n - 1 \in Nat /\ n \in Nat /\ x \in Ids /\ x \in Nat
  <2>1. n \in Nat /\ n - 1 \in Nat
    BY <1>0
  <2>2. ids[n] \in Ids
    BY <1>0
  <2> QED
    BY <1>0, <2>1, <2>2
<1>2. ids[1] \in Ids /\ ids[1] \in Nat
  <2>1. 1 \in 1..Len(ids)
    BY <1>0
  <2>2. ids[1] \in Ids
    BY <1>0, <2>1
  <2> QED
    BY <1>0, <2>2
<1>3. Firsts(ids, n) = F \cup {x}
  BY <1>1 DEF Firsts
<1>4. F \subseteq Ids /\ F \subseteq Nat
  <2>1. \A k \in 1..(n - 1) : k \in 1..Len(ids)
    BY <1>0, <1>1
  <2> QED
    BY <1>0, <2>1 DEF Firsts
<1>5. A \subseteq Nat
  BY <1>4 DEF Above
<1> HIDE DEF F, A, x
<1>6. Min({ids[1]} \cup (F \cup {x})) =
        IF x < Min({ids[1]} \cup F) THEN x ELSE Min({ids[1]} \cup F)
  <2>1. {ids[1]} \cup F \in SUBSET Nat /\ {ids[1]} \cup F # {}
    BY <1>2, <1>4
  <2>2. {ids[1]} \cup (F \cup {x}) = ({ids[1]} \cup F) \cup {x}
    OBVIOUS
  <2> QED
    BY <1>1, <2>1, <2>2, MinAdd
<1>7. CASE last # None /\ x > last
  <2>1. Above(last, F \cup {x}) = A \cup {x} /\ A \cup {x} # {}
    BY <1>7 DEF Above, A
  <2>2. CASE A = {}
    <3>1. A \cup {x} = {x} /\ Min({x}) = x
      <4>1. {x} \in SUBSET Nat /\ \A k \in {x} : x <= k
        BY <1>1
      <4> QED
        BY <2>2, <4>1, MinIs
    <3> QED
      BY <1>3, <1>6, <1>7, <2>1, <2>2, <3>1 DEF FoundAfter, Scan, F, A, x
  <2>3. CASE A # {}
    <3>1. Min(A \cup {x}) = IF x < Min(A) THEN x ELSE Min(A)
      BY <1>1, <1>5, <2>3, MinAdd
    <3>2. Min(A) # None
      <4>1. Min(A) \in A
        BY <1>5, <2>3, MinOf
      <4> QED
        BY <1>4, <4>1, RoundRobinAssumption DEF A, Above
    <3> QED
      BY <1>3, <1>6, <1>7, <2>1, <2>3, <3>1, <3>2 DEF FoundAfter, Scan, F, A, x
  <2> QED
    BY <2>2, <2>3
<1>8. CASE ~(last # None /\ x > last)
  <2>1. Above(last, F \cup {x}) = A
    BY <1>8 DEF Above, A
  <2> QED
    BY <1>3, <1>6, <1>8, <2>1 DEF FoundAfter, Scan, F, A, x
<1> QED
  BY <1>7, <1>8

\* The pass over the candidates finds the smallest one above the last choice, or else the
\* smallest one: what the comment at selection/round_robin.go:22 says of Select, for every
\* list of candidates in every order.
THEOREM ChoiceIsNext ==
  \A last \in Ids \cup {None}, ids \in Seq(Ids) \ {<<>>} :
    Choice(last, ids) = NextOf(last, ToSet(ids))
<1> SUFFICES ASSUME NEW last \in Ids \cup {None}, NEW ids \in Seq(Ids), ids # <<>>
             PROVE  Choice(last, ids) = NextOf(last, ToSet(ids))
  OBVIOUS
<1> DEFINE Loop(f) == f = [n \in 0..Len(ids) |->
                              IF n = 0 THEN [smallest |-> ids[1], next |-> None]
                              ELSE Scan(last, f[n - 1], ids[n])]
           scan == CHOOSE f : Loop(f)
           found == scan[Len(ids)]
           g == [n \in 0..Len(ids) |-> FoundAfter(last, ids, n)]
<1>1. Choice(last, ids) = IF found.next # None THEN found.next ELSE found.smallest
  BY DEF Choice
<1>2. Len(ids) \in Nat /\ Len(ids) # 0
  OBVIOUS
<1>3. ids[1] \in Ids /\ Ids \subseteq Nat
  BY <1>2, RoundRobinAssumption
<1>4. FoundAfter(last, ids, 0) = [smallest |-> ids[1], next |-> None]
  <2>1. Firsts(ids, 0) = {}
    BY DEF Firsts
  <2>2. {ids[1]} \in SUBSET Nat /\ \A k \in {ids[1]} : ids[1] <= k
    <3>1. ids[1] \in Nat
      BY <1>3
    <3> QED
      BY <3>1
  <2>3. Min({ids[1]} \cup Firsts(ids, 0)) = ids[1]
    BY <2>1, <2>2, MinIs
  <2>4. Above(last, Firsts(ids, 0)) = {}
    BY <2>1 DEF Above
  <2> QED
    BY <2>3, <2>4 DEF FoundAfter
<1>5. Loop(g)
  <2>1. ASSUME NEW n \in 0..Len(ids)
        PROVE  g[n] = IF n = 0 THEN [smallest |-> ids[1], next |-> None]
                      ELSE Scan(last, g[n - 1], ids[n])
    <3>1. CASE n = 0
      BY <1>4, <3>1
    <3>2. CASE n # 0
      <4>1. n \in 1..Len(ids) /\ n - 1 \in 0..Len(ids)
        BY <1>2, <3>2
      <4> QED
        BY <3>2, <4>1, ScanTurn
    <3> QED
      BY <3>1, <3>2
  <2> QED
    BY <2>1
<1>6. Loop(scan)
  BY <1>5
<1> HIDE DEF scan, g
<1>7. \A n \in 0..Len(ids) : scan[n] = g[n]
  <2> DEFINE Bad == {n \in 0..Len(ids) : scan[n] # g[n]}
  <2> SUFFICES ASSUME Bad # {} PROVE FALSE
    OBVIOUS
  <2>0. Bad \in SUBSET Nat
    BY <1>2
  <2>1. PICK n \in Bad : \A k \in Bad : n <= k
    BY <2>0, Least
  <2>2. n \in 0..Len(ids) /\ scan[n] # g[n]
    BY <2>1
  <2>3. n # 0
    BY <1>5, <1>6, <2>2
  <2>4. n - 1 \in 0..Len(ids) /\ n - 1 \notin Bad
    BY <1>2, <2>1, <2>2, <2>3
  <2>5. scan[n - 1] = g[n - 1]
    BY <2>4
  <2> QED
    BY <1>5, <1>6, <2>2, <2>3, <2>5
<1>8. found = FoundAfter(last, ids, Len(ids))
  BY <1>2, <1>7 DEF g
<1>9. Firsts(ids, Len(ids)) = ToSet(ids) /\ {ids[1]} \cup ToSet(ids) = ToSet(ids)
  BY <1>2 DEF Firsts, ToSet
<1>10. Above(last, ToSet(ids)) # {} => Min(Above(last, ToSet(ids))) # None
  <2>1. ToSet(ids) \subseteq Ids
    BY DEF ToSet
  <2>2. Above(last, ToSet(ids)) \subseteq Ids
    BY <2>1 DEF Above
  <2> QED
    BY <1>3, <2>2, MinOf, RoundRobinAssumption
<1> HIDE DEF found
<1> QED
  BY <1>1, <1>8, <1>9, <1>10 DEF FoundAfter, NextOf

(***************************************************************************)
(* The times a provider names.                                             *)
(***************************************************************************)
\* What a duration holds: the guard of ParseRetryAfter is exact.
LEMMA DurationHolds ==
  ASSUME NEW n \in Nat
  PROVE  /\ n > MaxInt \div Second <=> n * Second > MaxInt
         /\ n * Second <= MaxInt => n <= MaxInt
         /\ (n * Second) \div Second = n
<1>1. Second \in Nat /\ Second > 0 /\ MaxInt \in Nat
  BY SelectionAssumption
<1>2. n * Second \in Nat /\ n * Second >= n
  BY <1>1
<1>3. PICK q \in Int, d \in Int : /\ q = MaxInt \div Second /\ MaxInt = Second * q + d
                                   /\ 0 <= d /\ d < Second
  BY <1>1, Z3
<1>4. n > q <=> n * Second > MaxInt
  <2>1. n > q => n >= q + 1
    BY <1>3
  <2>2. n >= q + 1 => n * Second >= (q + 1) * Second
    BY <1>1, <1>3
  <2>3. (q + 1) * Second = Second * q + Second
    BY <1>1, <1>3
  <2>4. n <= q => n * Second <= q * Second
    BY <1>1, <1>3
  <2>5. q * Second = Second * q
    BY <1>1, <1>3
  <2> QED
    BY <1>1, <1>2, <1>3, <2>1, <2>2, <2>3, <2>4, <2>5
<1>5. (n * Second) \div Second = n
  BY <1>1
<1> QED
  BY <1>1, <1>2, <1>3, <1>4, <1>5

\* Multiplication does not wrap below the bound.
LEMMA NoWrap ==
  ASSUME NEW d \in Nat, d <= MaxInt
  PROVE  Wrap(d) = d
<1>1. MaxInt \in Nat
  BY SelectionAssumption
<1>2. (d + MaxInt + 1) % (2 * (MaxInt + 1)) = d + MaxInt + 1
  BY <1>1
<1> QED
  BY <1>1, <1>2 DEF Wrap

\* ParseSeconds: the number of seconds from now, or blocked if a duration holds less.
LEMMA SecondsAre ==
  ASSUME NEW n \in Nat, NEW received \in Nat
  PROVE  ParseSeconds(n, received) =
           IF n * Second <= MaxInt THEN RetryAt(received + n) ELSE Blocked
<1>1. Second \in Nat /\ MaxInt \in Nat /\ n * Second \in Nat
  BY SelectionAssumption
<1>2. CASE n * Second <= MaxInt
  <2>1. n <= MaxInt /\ ~(n > MaxInt \div Second) /\ (n * Second) \div Second = n
    BY <1>1, <1>2, DurationHolds
  <2>2. ~(n > 2 * MaxInt + 1)
    BY <1>1, <2>1
  <2>3. Wrap(n * Second) = n * Second
    BY <1>1, <1>2, NoWrap
  <2> QED
    BY <1>2, <2>1, <2>2, <2>3 DEF ParseSeconds
<1>3. CASE ~(n * Second <= MaxInt)
  <2>1. n > MaxInt \div Second
    BY <1>1, <1>3, DurationHolds
  <2> QED
    BY <1>3, <2>1 DEF ParseSeconds
<1> QED
  BY <1>2, <1>3

\* Failures, and what is known of the two times of a limit.
Failure == [limit : {FALSE}, retry : BOOLEAN]
             \cup [limit : {TRUE}, retry : BOOLEAN, after : Int, asked : Int]
Honest(after, asked, t) == asked = after \/ (asked <= t /\ after <= t)

After(a) == IF a.kind = "RetryAt" THEN a.until ELSE 0
InSeconds(n, received) == IF n > 0 /\ n * Second <= MaxInt THEN received + n ELSE 0

\* The seconds form of Retry-After (ParseRetryAfter): the product is used only while it fits
\* in a duration, so that the time is never earlier than the one that was asked for.
LEMMA SecondsHonest ==
  ASSUME NEW n \in Nat, NEW received \in Nat
  PROVE  /\ After(ParseSeconds(n, received)) \in Int /\ InSeconds(n, received) \in Int
         /\ Honest(After(ParseSeconds(n, received)), InSeconds(n, received), received)
         /\ n > 0 => After(ParseSeconds(n, received)) = InSeconds(n, received)
<1>1. Second \in Nat /\ n * Second \in Nat /\ MaxInt \in Nat
  BY SelectionAssumption
<1>2. CASE n * Second <= MaxInt
  <2>1. After(ParseSeconds(n, received)) = received + n
    BY <1>2, SecondsAre DEF After, RetryAt
  <2>2. CASE n = 0
    BY <2>1, <2>2 DEF InSeconds, Honest
  <2>3. CASE n > 0
    BY <1>2, <2>1, <2>3 DEF InSeconds, Honest
  <2> QED
    BY <2>2, <2>3
<1>3. CASE ~(n * Second <= MaxInt)
  <2>1. After(ParseSeconds(n, received)) = 0
    BY <1>3, SecondsAre DEF After, Blocked
  <2>2. InSeconds(n, received) = 0
    BY <1>3 DEF InSeconds
  <2> QED
    BY <2>1, <2>2 DEF Honest
<1> QED
  BY <1>2, <1>3

\* The header alone.
LEMMA HeaderHonest ==
  ASSUME NEW header \in Headers, NEW received \in Nat
  PROVE  /\ After(ParseRetryAfter(header, received)) \in Int
         /\ header.is = "none" => ParseRetryAfter(header, received) = NoLimit
         /\ header.is # "none" =>
              /\ ParseRetryAfter(header, received) # NoLimit
              /\ \A body : /\ Asked(header, body, received) \in Int
                           /\ Honest(After(ParseRetryAfter(header, received)),
                                     Asked(header, body, received), received)
<1>1. NoLimit # Blocked /\ \A t : NoLimit # RetryAt(t)
  <2>1. NoLimit.kind = "NoCooldown" /\ Blocked.kind = "RetryBlocked" /\ \A t : RetryAt(t).kind = "RetryAt"
    BY DEF NoLimit, Blocked, RetryAt
  <2> QED
    BY <2>1
<1>2. CASE header.is = "none"
  BY <1>2 DEF ParseRetryAfter, After, NoLimit
<1>3. CASE header.is = "seconds"
  <2>1. header.n \in Nat
    <3>1. header \in [is : {"seconds"}, n : Seconds]
      BY <1>3 DEF Headers
    <3>2. header.n \in Seconds
      BY <3>1
    <3> QED
      BY <3>2, SelectionAssumption
  <2>2. ParseRetryAfter(header, received) = ParseSeconds(header.n, received)
    BY <1>3 DEF ParseRetryAfter
  <2>3. \A body : Asked(header, body, received) = InSeconds(header.n, received)
    BY <1>3 DEF Asked, InSeconds
  <2>4. ParseSeconds(header.n, received) # NoLimit
    BY <1>1, <2>1, SecondsAre
  <2> QED
    BY <1>3, <2>1, <2>2, <2>3, <2>4, SecondsHonest
<1>4. CASE header.is = "date"
  <2>1. header.at \in Int
    BY <1>4, SelectionAssumption DEF Headers
  <2>2. ParseRetryAfter(header, received) = RetryAt(header.at)
    BY <1>4 DEF ParseRetryAfter
  <2>3. \A body : Asked(header, body, received) = header.at
    BY <1>4 DEF Asked
  <2>4. After(RetryAt(header.at)) = header.at
    BY DEF After, RetryAt
  <2> QED
    BY <1>1, <1>4, <2>1, <2>2, <2>3, <2>4 DEF Honest
<1> QED
  BY <1>2, <1>3, <1>4 DEF Headers

\* Header and body of a 429.
LEMMA BodyHonest ==
  ASSUME NEW header \in Headers, NEW body \in Bodies, NEW received \in Nat
  PROVE  /\ After(RetryAfter(header, body, received)) \in Int
         /\ Asked(header, body, received) \in Int
         /\ Honest(After(RetryAfter(header, body, received)),
                   Asked(header, body, received), received)
<1>1. CASE header.is # "none"
  BY <1>1, HeaderHonest DEF RetryAfter
<1>2. CASE header.is = "none"
  <2>1. RetryAfter(header, body, received) = QuotaReset(body, received)
    BY <1>2, HeaderHonest DEF RetryAfter
  <2>2. Asked(header, body, received) =
          IF body.at > received THEN body.at ELSE InSeconds(body.in, received)
    BY <1>2 DEF Asked, InSeconds
  <2>3. body.at \in {0, MaxNow} /\ body.in \in Nat /\ MaxNow \in Nat /\ MaxNow <= LastSecond
        /\ LastSecond \in Nat /\ MaxInt \in Nat
    <3>1. body.at \in {0, MaxNow} /\ body.in \in Seconds \cup {0}
      BY DEF Bodies
    <3>2. body.in \in Nat
      <4>1. Seconds \cup {0} \subseteq Nat
        BY SelectionAssumption
      <4> QED
        BY <3>1, <4>1
    <3>3. MaxNow \in Nat /\ MaxNow <= LastSecond /\ LastSecond \in Nat /\ MaxInt \in Nat
      BY SelectionAssumption
    <3> QED
      BY <3>1, <3>2, <3>3
  <2>4. CASE body.at > received
    <3>1. QuotaReset(body, received) = RetryAt(body.at)
      BY <2>3, <2>4 DEF QuotaReset
    <3>2. After(RetryAt(body.at)) = body.at
      BY DEF After, RetryAt
    <3> QED
      BY <2>1, <2>2, <2>3, <2>4, <3>1, <3>2 DEF Honest
  <2>5. CASE ~(body.at > received) /\ body.in > 0 /\ body.in <= MaxInt
    <3>1. QuotaReset(body, received) = ParseSeconds(body.in, received)
      BY <2>5 DEF QuotaReset
    <3> QED
      BY <2>1, <2>2, <2>3, <2>5, <3>1, SecondsHonest
  <2>6. CASE ~(body.at > received) /\ ~(body.in > 0 /\ body.in <= MaxInt)
    <3>1. QuotaReset(body, received) = NoLimit
      BY <2>6 DEF QuotaReset
    <3>2. After(NoLimit) = 0
      BY DEF After, NoLimit
    <3>3. InSeconds(body.in, received) = 0
      BY <2>3, <2>6, DurationHolds DEF InSeconds
    <3> QED
      BY <2>1, <2>2, <2>6, <3>1, <3>2, <3>3 DEF Honest
  <2> QED
    BY <2>4, <2>5, <2>6
<1> QED
  BY <1>1, <1>2

\* The failure that a 429 leaves, or that a limit reported by a stream will leave.
LEMMA LimitHonest ==
  ASSUME NEW header \in Headers, NEW body \in Bodies, NEW received \in Nat, NEW b \in BOOLEAN
  PROVE  LET f == Limit(RetryAfter(header, body, received), Asked(header, body, received), b)
             g == Limit(ParseRetryAfter(header, received), Asked(header, NoBody, received), b)
         IN /\ f \in Failure /\ f.limit /\ Honest(f.after, f.asked, received)
            /\ g \in Failure /\ g.limit /\ Honest(g.after, g.asked, received)
<1>1. \A a, t : Limit(a, t, b) = [limit |-> TRUE, retry |-> b, after |-> After(a), asked |-> t]
  BY DEF Limit, After
<1>2. \A x, y \in Int : [limit |-> TRUE, retry |-> b, after |-> x, asked |-> y] \in Failure
  BY DEF Failure
<1>3. /\ After(ParseRetryAfter(header, received)) \in Int
      /\ Asked(header, NoBody, received) \in Int
      /\ Honest(After(ParseRetryAfter(header, received)), Asked(header, NoBody, received), received)
  <2>1. CASE header.is # "none"
    BY <2>1, HeaderHonest
  <2>2. CASE header.is = "none"
    <3>1. Asked(header, NoBody, received) = 0
      BY <2>2 DEF Asked, NoBody
    <3>2. After(ParseRetryAfter(header, received)) = 0
      BY <2>2, HeaderHonest DEF After, NoLimit
    <3> QED
      BY <3>1, <3>2 DEF Honest
  <2> QED
    BY <2>1, <2>2
<1> QED
  BY <1>1, <1>2, <1>3, BodyHonest

(***************************************************************************)
(* The inductive invariant.                                                *)
(***************************************************************************)
Phases == {"idle", "ready", "selected", "sent", "streaming", "failed", "noting"}
Chosen == Phases \ {"idle", "ready"}
Request == [phase : Phases, model : Models \cup {None}, candidates : SUBSET Ids, tried : SUBSET Ids,
            account : Ids \cup {None}, ctx : BOOLEAN, failure : Failure]

\* Every variable has its type.
TypeOK ==
  /\ now \in Nat /\ enabled \in SUBSET Ids
  /\ cooldowns \in [Ids -> Int] /\ barred \in [Ids -> Int]
  /\ requests \in [Requests -> Request]
  /\ positions \in [Models -> Ids \cup {None}]
  /\ passed \in [Models -> [Ids -> Nat]]

\* A request has a model and, once it selected, an account; the time that its limit will
\* be noted with is the one that the provider named, unless both have passed.
RequestInvOf(q, t) ==
  /\ q.phase # "idle" => q.model \in Models
  /\ q.phase \in Chosen => q.account \in Ids
  /\ q.phase \in {"streaming", "failed"} /\ q.failure.limit => Honest(q.failure.after, q.failure.asked, t)
  /\ q.phase = "noting" => q.failure.limit /\ q.failure.asked = q.failure.after
RequestInv == \A r \in Requests : RequestInvOf(requests[r], now)

\* An enabled account cools down at least as long as it is barred.
CooldownInv == \A i \in enabled : barred[i] <= cooldowns[i] \/ barred[i] <= now

\* The accounts from i, exclusive, to the last choice, inclusive, in cyclic order: those
\* that can have been chosen since i was.
Between(i, last) ==
  IF last = None THEN {}
  ELSE IF last >= i THEN {j \in Ids : i < j /\ j <= last}
  ELSE {j \in Ids : i < j \/ j <= last}

\* No account is passed by more often than there are accounts between.
TurnInv == \A m \in Models, i \in Ids : passed[m][i] <= Cardinality(Between(i, positions[m]))

\* The conjunction, which every step preserves.
IInv == TypeOK /\ RequestInv /\ CooldownInv /\ TurnInv

(***************************************************************************)
(* The selector.                                                           *)
(***************************************************************************)
\* The next choice of a set that holds i, if it is not i, lies after the last one on the way
\* round to i: it is one account more between i and the last choice.
LEMMA TurnGrows ==
  ASSUME NEW last \in Ids \cup {None}, NEW S \in SUBSET Ids, NEW i \in S, NextOf(last, S) # i
  PROVE  /\ NextOf(last, S) \notin Between(i, last)
         /\ Between(i, last) \cup {NextOf(last, S)} \subseteq Between(i, NextOf(last, S))
<1> DEFINE c == NextOf(last, S)
<1>1. Ids \subseteq Nat /\ None \notin Ids /\ S \subseteq Nat /\ i \in Nat
  BY RoundRobinAssumption
<1>2. CASE Above(last, S) # {}
  <2>1. c \in Above(last, S) /\ \A k \in Above(last, S) : c <= k
    <3>1. Above(last, S) \in SUBSET Nat
      BY <1>1 DEF Above
    <3> QED
      BY <1>2, <3>1, MinOf DEF NextOf
  <2> HIDE DEF c
  <2>2. c \in Ids /\ c \in Nat /\ c # None /\ last # None /\ last \in Nat /\ c > last
    BY <1>1, <2>1 DEF Above
  <2>3. i > last => c < i
    <3>1. i > last => c <= i
      BY <2>1, <2>2 DEF Above
    <3> QED
      BY <1>1, <2>2, <3>1 DEF c
  <2>4. CASE last >= i
    <3>1. c >= i /\ \A j \in Ids : i < j /\ j <= last => i < j /\ j <= c
      BY <1>1, <2>2, <2>4
    <3>2. Between(i, last) = {j \in Ids : i < j /\ j <= last}
          /\ Between(i, c) = {j \in Ids : i < j /\ j <= c}
      BY <2>2, <2>4, <3>1 DEF Between
    <3>3. ~(c <= last) /\ i < c /\ c <= c
      BY <1>1, <2>2, <2>4
    <3> QED
      BY <2>2, <3>1, <3>2, <3>3 DEF c
  <2>5. CASE last < i
    <3>1. c < i /\ \A j \in Ids : i < j \/ j <= last => i < j \/ j <= c
      BY <1>1, <2>2, <2>3, <2>5
    <3>2. Between(i, last) = {j \in Ids : i < j \/ j <= last}
          /\ Between(i, c) = {j \in Ids : i < j \/ j <= c}
      BY <1>1, <2>2, <2>5, <3>1 DEF Between
    <3>3. ~(i < c \/ c <= last) /\ c <= c
      BY <1>1, <2>2, <3>1
    <3> QED
      BY <2>2, <3>1, <3>2, <3>3 DEF c
  <2> QED
    BY <1>1, <2>2, <2>4, <2>5
<1>3. CASE Above(last, S) = {}
  <2>1. c \in S /\ \A k \in S : c <= k
    BY <1>1, <1>3, MinOf DEF NextOf
  <2> HIDE DEF c
  <2>2. c \in Ids /\ c \in Nat /\ c # None /\ c < i
    <3>1. c <= i /\ c # i
      BY <2>1 DEF c
    <3> QED
      BY <1>1, <2>1, <3>1
  <2>3. CASE last = None
    BY <1>1, <2>2, <2>3 DEF Between, c
  <2>4. CASE last # None
    <3>1. last \in Nat /\ last >= i
      BY <1>1, <1>3, <2>4 DEF Above
    <3> QED
      BY <1>1, <2>2, <2>4, <3>1 DEF Between, c
  <2> QED
    BY <2>3, <2>4
<1> QED
  BY <1>2, <1>3

\* Select keeps its types and turns, and chooses a candidate.
LEMMA SelectStep ==
  ASSUME TypeOK, TurnInv, NEW m \in Models, NEW ids \in Seq(Ids), Select(m, ids)
  PROVE  /\ Choice(positions[m], ids) \in ToSet(ids)
         /\ positions' \in [Models -> Ids \cup {None}]
         /\ passed' \in [Models -> [Ids -> Nat]]
         /\ TurnInv'
<1> DEFINE c == Choice(positions[m], ids)
           S == ToSet(ids)
<1>1. ids # <<>> /\ positions' = [positions EXCEPT ![m] = c] /\ passed' = Passed(m, ids, c)
  BY DEF Select
<1>2. positions[m] \in Ids \cup {None}
  BY DEF TypeOK
<1>3. c = NextOf(positions[m], S)
  BY <1>1, <1>2, ChoiceIsNext
<1>4. S \subseteq Ids /\ S \subseteq Nat /\ S # {} /\ Ids \subseteq Nat /\ IsFiniteSet(Ids)
  <2>1. Len(ids) \in Nat /\ Len(ids) # 0 /\ DOMAIN ids = 1..Len(ids)
    BY <1>1
  <2>2. \A k \in 1..Len(ids) : ids[k] \in Ids
    OBVIOUS
  <2>3. S \subseteq Ids /\ S # {}
    BY <2>1, <2>2 DEF ToSet
  <2> QED
    BY <2>3, RoundRobinAssumption
<1> HIDE DEF c, S
<1>5. c \in S
  <2> DEFINE T == IF Above(positions[m], S) = {} THEN S ELSE Above(positions[m], S)
  <2>1. T \in SUBSET S /\ T # {}
    BY <1>4 DEF Above
  <2>2. T \in SUBSET Nat
    BY <1>4, <2>1
  <2>3. c = Min(T)
    BY <1>3 DEF NextOf
  <2> HIDE DEF T
  <2> QED
    BY <2>1, <2>2, <2>3, MinOf
<1>6. positions' \in [Models -> Ids \cup {None}]
  BY <1>1, <1>4, <1>5 DEF TypeOK
<1>7. \A i \in Ids : passed[m][i] \in Nat
  BY DEF TypeOK
<1>8. passed' = [passed EXCEPT ![m] = [i \in Ids |-> IF i \in S \ {c} THEN passed[m][i] + 1 ELSE 0]]
  BY <1>1 DEF Passed, S, TypeOK
<1>9. passed' \in [Models -> [Ids -> Nat]]
  <2>1. [i \in Ids |-> IF i \in S \ {c} THEN passed[m][i] + 1 ELSE 0] \in [Ids -> Nat]
    BY <1>7
  <2> QED
    BY <1>8, <2>1 DEF TypeOK
<1>10. \A i \in Ids : \A last : /\ IsFiniteSet(Between(i, last))
                                  /\ Cardinality(Between(i, last)) \in Nat
  <2> SUFFICES ASSUME NEW i \in Ids, NEW last PROVE /\ IsFiniteSet(Between(i, last))
                                                    /\ Cardinality(Between(i, last)) \in Nat
    OBVIOUS
  <2>1. Between(i, last) \in SUBSET Ids
    BY DEF Between
  <2> QED
    BY <1>4, <2>1, FS_Subset, FS_CardinalityType
<1>11. ASSUME NEW i \in Ids PROVE passed'[m][i] <= Cardinality(Between(i, positions'[m]))
  <2>1. positions'[m] = c /\ passed'[m][i] = IF i \in S \ {c} THEN passed[m][i] + 1 ELSE 0
    BY <1>1, <1>8 DEF TypeOK
  <2>2. CASE i \in S \ {c}
    <3>1. c \notin Between(i, positions[m])
          /\ Between(i, positions[m]) \cup {c} \subseteq Between(i, c)
      BY <1>2, <1>3, <1>4, <2>2, TurnGrows
    <3>2. Cardinality(Between(i, positions[m]) \cup {c}) = Cardinality(Between(i, positions[m])) + 1
      BY <1>10, <3>1, FS_AddElement
    <3>3. Cardinality(Between(i, positions[m]) \cup {c}) <= Cardinality(Between(i, c))
      BY <1>10, <3>1, FS_Subset
    <3>4. passed[m][i] <= Cardinality(Between(i, positions[m]))
      BY DEF TurnInv
    <3>5. Cardinality(Between(i, positions[m])) \in Nat /\ Cardinality(Between(i, c)) \in Nat
      BY <1>10
    <3> QED
      BY <1>7, <2>1, <2>2, <3>2, <3>3, <3>4, <3>5
  <2>3. CASE i \notin S \ {c}
    <3>1. Cardinality(Between(i, c)) \in Nat
      BY <1>10
    <3> QED
      BY <2>1, <2>3, <3>1
  <2> QED
    BY <2>2, <2>3
<1>12. ASSUME NEW k \in Models \ {m}, NEW i \in Ids
       PROVE  passed'[k][i] <= Cardinality(Between(i, positions'[k]))
  <2>1. passed'[k] = passed[k] /\ positions'[k] = positions[k]
    BY <1>1, <1>8 DEF TypeOK
  <2> QED
    BY <2>1 DEF TurnInv
<1>13. TurnInv'
  BY <1>11, <1>12 DEF TurnInv, Between
<1> QED
  BY <1>5, <1>6, <1>9, <1>13 DEF c, S

(***************************************************************************)
(* One request changes.                                                    *)
(***************************************************************************)
RequestsOK == requests \in [Requests -> Request] /\ RequestInv

\* Replacing one request by one that is well formed keeps them all well formed.
LEMMA OneRequest ==
  ASSUME RequestsOK, NEW r \in Requests, NEW x \in Request, RequestInvOf(x, now),
         requests' = [requests EXCEPT ![r] = x], UNCHANGED now
  PROVE  RequestsOK'
<1>1. requests' \in [Requests -> Request]
  BY DEF RequestsOK
<1>2. \A q \in Requests : requests'[q] = IF q = r THEN x ELSE requests[q]
  BY DEF RequestsOK
<1>3. \A q \in Requests : RequestInvOf(requests'[q], now)
  BY <1>2 DEF RequestsOK, RequestInv
<1>4. RequestInv'
  BY <1>3 DEF RequestInv, RequestInvOf, Honest
<1> QED
  BY <1>1, <1>4 DEF RequestsOK

\* What the updates of a request's record set.
LEMMA Updates ==
  ASSUME NEW q \in Request
  PROVE  /\ \A x \in Phases : [q EXCEPT !.phase = x] \in Request
         /\ \A x \in Phases, f \in Failure : [q EXCEPT !.phase = x, !.failure = f] \in Request
         /\ [q EXCEPT !.ctx = FALSE] \in Request
  BY DEF Request

\* A request that open has not started, or has returned from, is well formed at any time.
LEMMA IdleOK == Idle \in Request /\ \A t : RequestInvOf(Idle, t)
<1>1. Other \in Failure
  BY DEF Other, Failure
<1> QED
  BY <1>1 DEF Idle, Request, Phases, Chosen, RequestInvOf

\* open returns.
LEMMA ReturnStep ==
  ASSUME RequestsOK, NEW r \in Requests, Return(r), UNCHANGED now
  PROVE  RequestsOK'
  BY IdleOK, OneRequest DEF Return

\* open goes on with another account.
LEMMA AgainStep ==
  ASSUME RequestsOK, NEW r \in Requests, requests[r].phase # "idle", Again(r), UNCHANGED now
  PROVE  RequestsOK'
<1> DEFINE q == requests[r]
           x == [q EXCEPT !.phase = "ready", !.account = None, !.failure = Other]
<1>1. q \in Request /\ RequestInvOf(q, now)
  BY DEF RequestsOK, RequestInv
<1>2. Other \in Failure
  BY DEF Other, Failure
<1>3. requests' = [requests EXCEPT ![r] = x]
  BY DEF Again, RequestsOK
<1>4. x \in Request
  BY <1>1, <1>2 DEF Request, Phases
<1>5. x.phase = "ready" /\ x.model = q.model
  BY <1>1 DEF Request
<1> HIDE DEF x
<1>6. RequestInvOf(x, now)
  BY <1>1, <1>5 DEF RequestInvOf, Chosen
<1> QED
  BY <1>3, <1>4, <1>6, OneRequest

\* The phase of a request changes, and perhaps its failure, which is honest.
LEMMA PhaseStep ==
  ASSUME RequestsOK, NEW r \in Requests, requests[r].phase \in Chosen,
         NEW p \in {"sent", "streaming", "failed"}, NEW f \in Failure,
         p # "sent" /\ f.limit => Honest(f.after, f.asked, now),
         requests' = [requests EXCEPT ![r].phase = p, ![r].failure = f], UNCHANGED now
  PROVE  RequestsOK'
<1> DEFINE q == requests[r]
           x == [q EXCEPT !.phase = p, !.failure = f]
<1>1. q \in Request /\ RequestInvOf(q, now)
  BY DEF RequestsOK, RequestInv
<1>2. requests' = [requests EXCEPT ![r] = x]
  BY DEF RequestsOK
<1>3. x \in Request
  BY <1>1 DEF Request, Phases
<1>4. x.phase = p /\ x.model = q.model /\ x.account = q.account /\ x.failure = f
  BY <1>1 DEF Request
<1> HIDE DEF x
<1>5. RequestInvOf(x, now)
  BY <1>1, <1>4 DEF RequestInvOf, Chosen
<1> QED
  BY <1>2, <1>3, <1>5, OneRequest

(***************************************************************************)
(* The steps.                                                              *)
(***************************************************************************)
\* The invariant in the form in which the steps show it.
LEMMA Parts ==
  IInv <=> /\ now \in Nat /\ enabled \in SUBSET Ids
           /\ cooldowns \in [Ids -> Int] /\ barred \in [Ids -> Int]
           /\ RequestsOK
           /\ positions \in [Models -> Ids \cup {None}] /\ passed \in [Models -> [Ids -> Nat]]
           /\ CooldownInv /\ TurnInv
  BY DEF IInv, TypeOK, RequestsOK

\* A step that only changes one request.
LEMMA RequestOnly ==
  ASSUME IInv, RequestsOK', UNCHANGED <<now, enabled, cooldowns, barred, selector>>
  PROVE  IInv'
  BY Parts DEF IInv, TypeOK, RequestsOK, CooldownInv, TurnInv, Between, selector

\* Init is in the invariant.
LEMMA InvInit == Init => IInv
<1> SUFFICES ASSUME Init PROVE IInv
  OBVIOUS
<1>1. now \in Nat /\ enabled \in SUBSET Ids /\ cooldowns \in [Ids -> Int] /\ barred \in [Ids -> Int]
  BY DEF Init
<1>2. RequestsOK
  BY IdleOK DEF Init, RequestsOK, RequestInv
<1>3. positions \in [Models -> Ids \cup {None}] /\ passed \in [Models -> [Ids -> Nat]]
  BY DEF Init, SelectorInit
<1>4. CooldownInv
  BY DEF Init, CooldownInv
<1>5. TurnInv
  <2>1. \A i \in Ids : Between(i, None) = {}
    BY DEF Between
  <2>2. \A m \in Models, i \in Ids : passed[m][i] = 0 /\ positions[m] = None
    BY DEF Init, SelectorInit
  <2> QED
    BY <2>1, <2>2, FS_EmptySet DEF TurnInv
<1> QED
  BY <1>1, <1>2, <1>3, <1>4, <1>5, Parts

\* A request takes its candidates; cooldowns of accounts that are not enabled go.
LEMMA OpenStep ==
  ASSUME IInv, NEW r \in Requests, NEW model \in Models, Open(r, model)
  PROVE  IInv'
<1> DEFINE q == requests[r]
           x == [q EXCEPT !.phase = "ready", !.model = model, !.candidates = enabled]
<1>1. RequestsOK /\ q \in Request /\ enabled \in SUBSET Ids /\ cooldowns \in [Ids -> Int]
  BY Parts DEF RequestsOK
<1>2. requests' = [requests EXCEPT ![r] = x]
  BY <1>1 DEF Open, RequestsOK
<1>3. x \in Request /\ x.phase = "ready" /\ x.model = model
  BY <1>1 DEF Request, Phases
<1> HIDE DEF x
<1>4. RequestInvOf(x, now)
  BY <1>3 DEF RequestInvOf, Chosen
<1>5. RequestsOK'
  BY <1>1, <1>2, <1>3, <1>4, OneRequest DEF Open
<1>6. cooldowns' \in [Ids -> Int] /\ \A i \in enabled : cooldowns'[i] = cooldowns[i]
  BY <1>1 DEF Open, Synced
<1>7. UNCHANGED <<now, enabled, barred, positions, passed>>
  BY DEF Open, selector
<1>8. CooldownInv'
  BY <1>6, <1>7, Parts DEF CooldownInv
<1>9. TurnInv'
  BY <1>7, Parts DEF TurnInv, Between
<1> QED
  BY <1>5, <1>6, <1>7, <1>8, <1>9, Parts DEF IInv, TypeOK, RequestsOK

\* The candidates of a request that selects.
LEMMA UntriedLists ==
  ASSUME IInv, NEW r \in Requests
  PROVE  /\ Untried(r) \subseteq Ids
         /\ Ascending(Untried(r)) \in Seq(Ids)
         /\ ToSet(Ascending(Untried(r))) = Untried(r)
<1>1. Untried(r) \subseteq Ids
  BY Parts DEF RequestsOK, Request, Untried
<1>2. IsFiniteSet(Untried(r)) /\ Untried(r) \in SUBSET Nat
  BY <1>1, RoundRobinAssumption, FS_Subset
<1>3. Ascending(Untried(r)) \in Seq(Untried(r)) /\ ToSet(Ascending(Untried(r))) = Untried(r)
  BY <1>2, AscendingLists
<1>4. Ascending(Untried(r)) \in Seq(Ids)
  BY <1>1, <1>3
<1> QED
  BY <1>1, <1>3, <1>4

\* A choice: what the step does when there are candidates.
Chooses(r, ids, id) ==
  /\ Select(requests[r].model, ids)
  /\ cooldowns' = [i \in Ids |-> IF i \in ToSet(ids) THEN 0 ELSE cooldowns[i]]
  /\ requests' = [requests EXCEPT ![r].phase = "selected", ![r].account = id, ![r].tried = @ \cup {id}]

\* SelectAccount returns without an account, or takes the choice of the scan.
LEMMA SelectCases ==
  ASSUME NEW r \in Requests, SelectAccount(r)
  PROVE  /\ requests[r].phase = "ready" /\ UNCHANGED <<now, enabled, barred>>
         /\ \/ Return(r) /\ UNCHANGED <<cooldowns, selector>>
            \/ Chooses(r, Ascending(Untried(r)),
                       Choice(positions[requests[r].model], Ascending(Untried(r))))
  BY DEF SelectAccount, Chooses

\* The accounts that are offered do not cool down, so forgetting their cooldowns is safe.
LEMMA SelectAccountStep ==
  ASSUME IInv, NEW r \in Requests, SelectAccount(r)
  PROVE  IInv'
<1>1. requests[r].phase = "ready" /\ UNCHANGED <<now, enabled, barred>>
  BY SelectCases
<1>2. CASE Return(r) /\ UNCHANGED <<cooldowns, selector>>
  BY <1>1, <1>2, ReturnStep, RequestOnly, Parts
<1>3. CASE Chooses(r, Ascending(Untried(r)),
                   Choice(positions[requests[r].model], Ascending(Untried(r))))
  <2> DEFINE q == requests[r]
             ids == Ascending(Untried(r))
             id == Choice(positions[q.model], ids)
             x == [q EXCEPT !.phase = "selected", !.account = id, !.tried = @ \cup {id}]
  <2>1. RequestsOK /\ q \in Request /\ RequestInvOf(q, now)
    BY Parts DEF RequestsOK, RequestInv
  <2>2. q.model \in Models
    BY <1>1, <2>1 DEF RequestInvOf
  <2>3. ids \in Seq(Ids) /\ ToSet(ids) = Untried(r) /\ Untried(r) \subseteq Ids
    BY UntriedLists
  <2>4. Chooses(r, ids, id)
    BY <1>3
  <2> HIDE DEF ids
  <2>5. TypeOK /\ TurnInv
    BY DEF IInv
  <2>6. Select(q.model, ids)
    BY <2>4 DEF Chooses
  <2>7. /\ id \in ToSet(ids)
        /\ positions' \in [Models -> Ids \cup {None}] /\ passed' \in [Models -> [Ids -> Nat]]
        /\ TurnInv'
    BY <2>2, <2>3, <2>5, <2>6, SelectStep
  <2> HIDE DEF id
  <2>8. id \in Ids
    BY <2>3, <2>7
  <2>9. requests' = [requests EXCEPT ![r] = x]
    BY <2>1, <2>4 DEF Chooses, RequestsOK
  <2>10. x \in Request /\ x.phase = "selected" /\ x.model = q.model /\ x.account = id
    BY <2>1, <2>8 DEF Request, Phases
  <2> HIDE DEF x
  <2>11. RequestInvOf(x, now)
    BY <2>2, <2>8, <2>10 DEF RequestInvOf
  <2>12. RequestsOK'
    BY <1>1, <2>1, <2>9, <2>10, <2>11, OneRequest
  <2>13. cooldowns' = [i \in Ids |-> IF i \in Untried(r) THEN 0 ELSE cooldowns[i]]
    BY <2>3, <2>4 DEF Chooses
  <2>14. cooldowns' \in [Ids -> Int]
    BY <2>13, Parts
  <2>15. CooldownInv'
    <3>1. \A i \in Untried(r) : ~(now < cooldowns[i])
      BY DEF Untried, Cooling
    <3>2. now \in Nat /\ enabled \subseteq Ids /\ cooldowns \in [Ids -> Int] /\ barred \in [Ids -> Int]
          /\ CooldownInv
      BY Parts
    <3>3. ASSUME NEW i \in enabled PROVE barred[i] <= cooldowns'[i] \/ barred[i] <= now
      <4>1. CASE i \in Untried(r)
        BY <3>1, <3>2, <4>1 DEF CooldownInv
      <4>2. CASE i \notin Untried(r)
        BY <2>13, <3>2, <4>2 DEF CooldownInv
      <4> QED
        BY <4>1, <4>2
    <3> QED
      BY <1>1, <3>3 DEF CooldownInv
  <2> QED
    BY <1>1, <2>7, <2>12, <2>14, <2>15, Parts DEF IInv, TypeOK, RequestsOK
<1> QED
  BY <1>2, <1>3, SelectCases

\* A failure without a limit needs no time.
LEMMA FailStep ==
  ASSUME IInv, NEW r \in Requests, requests[r].phase \in Chosen, NEW f \in {Problem, Other},
         Fail(r, f), UNCHANGED now
  PROVE  RequestsOK'
<1>1. f \in Failure /\ f.limit = FALSE
  <2>1. Problem \in Failure /\ Problem.limit = FALSE
    BY DEF Problem, Failure
  <2>2. Other \in Failure /\ Other.limit = FALSE
    BY DEF Other, Failure
  <2> QED
    BY <2>1, <2>2
<1> QED
  BY <1>1, PhaseStep, Parts DEF Fail

\* Registering the attempt with the coordinator changes the request alone.
LEMMA RegisterAccountStep ==
  ASSUME IInv, NEW r \in Requests, RegisterAccount(r)
  PROVE  IInv'
<1>1. requests[r].phase \in Chosen /\ UNCHANGED <<now, enabled, cooldowns, barred, selector>>
  BY DEF RegisterAccount, Chosen, Phases
<1>2. CASE requests' = [requests EXCEPT ![r].phase = "sent"]
  <2> DEFINE q == requests[r]
             x == [q EXCEPT !.phase = "sent"]
  <2>1. RequestsOK /\ q \in Request /\ RequestInvOf(q, now)
    BY Parts DEF RequestsOK, RequestInv
  <2>2. requests' = [requests EXCEPT ![r] = x]
    BY <1>2
  <2>3. x \in Request /\ x.phase = "sent" /\ x.model = q.model /\ x.account = q.account
    BY <2>1 DEF Request, Phases
  <2> HIDE DEF x
  <2>4. RequestInvOf(x, now)
    BY <1>1, <2>1, <2>3 DEF RequestInvOf, Chosen
  <2>5. RequestsOK'
    BY <1>1, <2>1, <2>2, <2>3, <2>4, OneRequest
  <2> QED
    BY <1>1, <2>5, RequestOnly
<1>3. CASE Fail(r, Problem) \/ Fail(r, Other)
  <2>1. RequestsOK'
    BY <1>1, <1>3, FailStep
  <2> QED
    BY <1>1, <2>1, RequestOnly
<1> QED
  BY <1>2, <1>3 DEF RegisterAccount

\* An account without a token, or one that the provider rejects, ends in a failure without a time.
LEMMA RefusedStep ==
  ASSUME IInv, NEW r \in Requests, Refused(r)
  PROVE  IInv'
<1>1. requests[r].phase \in Chosen /\ UNCHANGED <<now, enabled, cooldowns, barred, selector>>
  BY DEF Refused, Chosen, Phases
<1>2. RequestsOK'
  BY <1>1, FailStep DEF Refused
<1> QED
  BY <1>1, <1>2, RequestOnly

\* The limit of a 429 is honest.
LEMMA LimitedStep ==
  ASSUME IInv, NEW r \in Requests, Limited(r)
  PROVE  IInv'
<1>1. requests[r].phase \in Chosen /\ UNCHANGED <<now, enabled, cooldowns, barred, selector>>
  BY DEF Limited, Chosen, Phases
<1>2. now \in Nat
  BY Parts
<1>3. ASSUME NEW f \in Failure, Honest(f.after, f.asked, now), Fail(r, f)
      PROVE  RequestsOK'
  BY <1>1, <1>3, PhaseStep, Parts DEF Fail
<1>4. ASSUME NEW header \in Headers, NEW body \in Bodies,
             Fail(r, Limit(RetryAfter(header, body, now), Asked(header, body, now), TRUE))
      PROVE  RequestsOK'
  <2> DEFINE f == Limit(RetryAfter(header, body, now), Asked(header, body, now), TRUE)
  <2>1. f \in Failure /\ Honest(f.after, f.asked, now)
    BY <1>2, LimitHonest
  <2>2. Fail(r, f)
    BY <1>4
  <2> HIDE DEF f
  <2> QED
    BY <1>3, <2>1, <2>2
<1>5. ASSUME Fail(r, Limit(NoLimit, 0, FALSE))
      PROVE  RequestsOK'
  <2> DEFINE g == Limit(NoLimit, 0, FALSE)
  <2>1. g = [limit |-> TRUE, retry |-> FALSE, after |-> 0, asked |-> 0]
    BY DEF Limit, NoLimit
  <2>3. [limit |-> TRUE, retry |-> FALSE, after |-> 0, asked |-> 0] \in Failure
    BY DEF Failure
  <2>4. Fail(r, g)
    BY <1>5
  <2> HIDE DEF g
  <2>2. g.after = 0 /\ g.asked = 0
    BY <2>1
  <2>5. g \in Failure /\ Honest(g.after, g.asked, now)
    BY <2>1, <2>2, <2>3 DEF Honest
  <2> QED
    BY <1>3, <2>4, <2>5
<1>6. RequestsOK'
  <2>1. \/ \E header \in Headers, body \in Bodies :
             Fail(r, Limit(RetryAfter(header, body, now), Asked(header, body, now), TRUE))
        \/ Fail(r, Limit(NoLimit, 0, FALSE))
    BY DEF Limited
  <2> QED
    BY <1>4, <1>5, <2>1
<1> QED
  BY <1>1, <1>6, RequestOnly

\* And so is the limit that a stream may report later.
LEMMA StreamsStep ==
  ASSUME IInv, NEW r \in Requests, Streams(r)
  PROVE  IInv'
<1>1. requests[r].phase \in Chosen /\ UNCHANGED <<now, enabled, cooldowns, barred, selector>>
  BY DEF Streams, Chosen, Phases
<1>2. now \in Nat /\ NoBody \in Bodies
  BY Parts DEF NoBody, Bodies
<1>3. PICK header \in Headers :
        requests' = [requests EXCEPT ![r].phase = "streaming", ![r].failure =
          Limit(ParseRetryAfter(header, now), Asked(header, NoBody, now), FALSE)]
  BY DEF Streams
<1> DEFINE f == Limit(ParseRetryAfter(header, now), Asked(header, NoBody, now), FALSE)
<1>4. f \in Failure /\ Honest(f.after, f.asked, now)
  BY <1>2, LimitHonest
<1>5. requests' = [requests EXCEPT ![r].phase = "streaming", ![r].failure = f]
  BY <1>3
<1> HIDE DEF f
<1>6. RequestsOK'
  BY <1>1, <1>4, <1>5, PhaseStep, Parts
<1> QED
  BY <1>1, <1>6, RequestOnly

\* A stream that ends returns, or notes the failure that its header promised.
LEMMA StreamEndsStep ==
  ASSUME IInv, NEW r \in Requests, StreamEnds(r)
  PROVE  IInv'
<1>1. requests[r].phase = "streaming" /\ requests[r].phase \in Chosen
      /\ UNCHANGED <<now, enabled, cooldowns, barred, selector>>
  BY DEF StreamEnds, Chosen, Phases
<1>2. RequestsOK
  BY Parts
<1>3. CASE Return(r)
  BY <1>1, <1>2, <1>3, ReturnStep, RequestOnly
<1>4. CASE Fail(r, Other)
  <2>1. RequestsOK'
    BY <1>1, <1>4, FailStep
  <2> QED
    BY <1>1, <2>1, RequestOnly
<1>5. CASE Fail(r, requests[r].failure)
  <2> DEFINE f == requests[r].failure
  <2>1. f \in Failure /\ (f.limit => Honest(f.after, f.asked, now))
    BY <1>1, <1>2 DEF RequestsOK, Request, RequestInv, RequestInvOf
  <2>2. requests' = [requests EXCEPT ![r].phase = "failed", ![r].failure = f]
    BY <1>5 DEF Fail
  <2> HIDE DEF f
  <2>3. RequestsOK'
    BY <1>1, <1>2, <2>1, <2>2, PhaseStep
  <2> QED
    BY <1>1, <2>3, RequestOnly
<1> QED
  BY <1>3, <1>4, <1>5 DEF StreamEnds

\* Both times are moved to the future alike.
LEMMA NoteChecksStep ==
  ASSUME IInv, NEW r \in Requests, NoteChecks(r)
  PROVE  IInv'
<1>1. requests[r].phase = "failed" /\ UNCHANGED <<now, enabled, cooldowns, barred, selector>>
  BY DEF NoteChecks
<1>2. RequestsOK /\ now \in Nat /\ Minute \in Nat
  BY Parts, SelectionAssumption
<1>3. CASE Again(r)
  BY <1>1, <1>2, <1>3, AgainStep, RequestOnly
<1>4. CASE Return(r)
  BY <1>2, <1>1, <1>4, ReturnStep, RequestOnly
<1>5. CASE /\ requests[r].failure.limit
           /\ requests' = [requests EXCEPT ![r].phase = "noting",
                                           ![r].failure.after = Until(@, now),
                                           ![r].failure.asked = IF @ > now THEN @ ELSE now + Minute]
  <2> DEFINE q == requests[r]
             f == q.failure
             after == Until(f.after, now)
             asked == IF f.asked > now THEN f.asked ELSE now + Minute
             g == [f EXCEPT !.after = after, !.asked = asked]
             x == [q EXCEPT !.phase = "noting", !.failure = g]
  <2>1. q \in Request /\ RequestInvOf(q, now)
    BY <1>2 DEF RequestsOK, RequestInv
  <2>2. f \in [limit : {TRUE}, retry : BOOLEAN, after : Int, asked : Int]
    BY <1>5, <2>1 DEF Request, Failure
  <2>3. Honest(f.after, f.asked, now)
    BY <1>1, <1>5, <2>1 DEF RequestInvOf
  <2>4. f.after \in Int /\ f.asked \in Int
    BY <2>2
  <2>5. after = asked /\ after \in Int
    BY <1>2, <2>3, <2>4 DEF Honest, Until
  <2>6. requests' = [requests EXCEPT ![r] = x]
    BY <1>2, <1>5, <2>1, <2>2 DEF RequestsOK, Request
  <2> HIDE DEF after, asked, f
  <2>7. g \in [limit : {TRUE}, retry : BOOLEAN, after : Int, asked : Int]
        /\ g.after = after /\ g.asked = asked /\ g.limit
    BY <2>2, <2>5
  <2> HIDE DEF g
  <2>8. x \in Request /\ x.phase = "noting" /\ x.model = q.model /\ x.account = q.account
        /\ x.failure = g
    BY <2>1, <2>7 DEF Request, Phases, Failure
  <2> HIDE DEF x
  <2>9. RequestInvOf(x, now)
    BY <1>1, <2>1, <2>5, <2>7, <2>8 DEF RequestInvOf, Chosen, Phases
  <2>10. RequestsOK'
    BY <1>1, <1>2, <2>6, <2>8, <2>9, OneRequest
  <2> QED
    BY <1>1, <2>10, RequestOnly
<1> QED
  BY <1>3, <1>4, <1>5 DEF NoteChecks

\* A cooldown is extended at least to the time that bars the account.
LEMMA NoteWritesStep ==
  ASSUME IInv, NEW r \in Requests, NoteWrites(r)
  PROVE  IInv'
<1> DEFINE q == requests[r]
           i == q.account
           t == q.failure.after
<1>1. q.phase = "noting" /\ UNCHANGED <<now, enabled, positions, passed>>
  BY DEF NoteWrites, selector
<1>2. RequestsOK /\ now \in Nat /\ q \in Request /\ RequestInvOf(q, now)
  BY Parts DEF RequestsOK, RequestInv
<1>3. i \in Ids /\ q.failure.limit /\ q.failure.asked = t
  BY <1>1, <1>2 DEF RequestInvOf, Chosen, Phases
<1>4. t \in Int
  <2>1. q.failure \in [limit : {TRUE}, retry : BOOLEAN, after : Int, asked : Int]
    BY <1>2, <1>3 DEF Request, Failure
  <2> QED
    BY <2>1
<1>5. cooldowns' = [cooldowns EXCEPT ![i] = Max({t, cooldowns[i]})]
      /\ barred' = [barred EXCEPT ![i] = Max({barred[i], t})]
  BY <1>3, Parts DEF NoteWrites, Extended
<1>6. RequestsOK'
  BY <1>1, <1>2, AgainStep, ReturnStep DEF NoteWrites
<1>7. cooldowns \in [Ids -> Int] /\ barred \in [Ids -> Int] /\ enabled \subseteq Ids /\ CooldownInv
  BY Parts
<1> HIDE DEF i, t
<1>8. /\ Max({t, cooldowns[i]}) = IF t >= cooldowns[i] THEN t ELSE cooldowns[i]
      /\ Max({barred[i], t}) = IF barred[i] >= t THEN barred[i] ELSE t
  BY <1>3, <1>4, <1>7, MaxOfTwo
<1>9. cooldowns' \in [Ids -> Int] /\ barred' \in [Ids -> Int]
  BY <1>3, <1>4, <1>5, <1>7, <1>8
<1>10. CooldownInv'
  <2>1. ASSUME NEW j \in enabled PROVE barred'[j] <= cooldowns'[j] \/ barred'[j] <= now
    <3>1. CASE j = i
      <4>1. /\ cooldowns'[i] = IF t >= cooldowns[i] THEN t ELSE cooldowns[i]
            /\ barred'[i] = IF barred[i] >= t THEN barred[i] ELSE t
        BY <1>3, <1>5, <1>7, <1>8
      <4>2. barred[i] <= cooldowns[i] \/ barred[i] <= now
        BY <1>7, <3>1 DEF CooldownInv
      <4>3. barred[i] \in Int /\ cooldowns[i] \in Int
        BY <1>3, <1>7
      <4> QED
        BY <1>2, <1>4, <3>1, <4>1, <4>2, <4>3
    <3>2. CASE j # i
      BY <1>5, <1>7, <3>2 DEF CooldownInv
    <3> QED
      BY <3>1, <3>2
  <2> QED
    BY <1>1, <2>1 DEF CooldownInv
<1>11. TurnInv'
  BY <1>1, Parts DEF TurnInv, Between
<1> QED
  BY <1>1, <1>6, <1>9, <1>10, <1>11, Parts DEF IInv, TypeOK, RequestsOK

\* The context of a request says nothing about its times.
LEMMA CtxStep ==
  ASSUME NEW q \in Request, NEW t, RequestInvOf(q, t)
  PROVE  [q EXCEPT !.ctx = FALSE] \in Request /\ RequestInvOf([q EXCEPT !.ctx = FALSE], t)
<1> DEFINE x == [q EXCEPT !.ctx = FALSE]
<1>1. x \in Request /\ x.phase = q.phase /\ x.model = q.model /\ x.account = q.account
      /\ x.failure = q.failure
  BY DEF Request
<1> HIDE DEF x
<1>2. RequestInvOf(x, t)
  BY <1>1 DEF RequestInvOf
<1> QED
  BY <1>1, <1>2 DEF x

\* Cancelling the context of a request changes the request alone.
LEMMA CancelStep ==
  ASSUME IInv, NEW r \in Requests, Cancel(r)
  PROVE  IInv'
<1>1. UNCHANGED <<now, enabled, cooldowns, barred, selector>>
      /\ requests' = [requests EXCEPT ![r] = [requests[r] EXCEPT !.ctx = FALSE]]
  BY DEF Cancel
<1>2. RequestsOK'
  BY <1>1, OneRequest, CtxStep, Parts DEF RequestsOK, RequestInv
<1> QED
  BY <1>1, <1>2, RequestOnly

\* Accounts that stay enabled keep their cooldowns.
LEMMA DisableStep ==
  ASSUME IInv, NEW i \in Ids, Disable(i)
  PROVE  IInv'
<1>1. enabled' = enabled \ {i} /\ UNCHANGED <<now, barred, positions, passed>>
  BY DEF Disable, selector
<1>2. RequestsOK /\ enabled \in SUBSET Ids /\ cooldowns \in [Ids -> Int] /\ CooldownInv
  BY Parts
<1>3. cooldowns' \in [Ids -> Int] /\ \A j \in enabled' : cooldowns'[j] = cooldowns[j]
  BY <1>1, <1>2 DEF Disable, Synced
<1>4. \A r \in Requests : requests'[r] = requests[r] \/ requests'[r] = [requests[r] EXCEPT !.ctx = FALSE]
  BY DEF Disable
<1>5. \A r \in Requests : requests'[r] \in Request /\ RequestInvOf(requests'[r], now)
  <2> SUFFICES ASSUME NEW r \in Requests
               PROVE  requests'[r] \in Request /\ RequestInvOf(requests'[r], now)
    OBVIOUS
  <2>1. requests[r] \in Request /\ RequestInvOf(requests[r], now)
    BY <1>2 DEF RequestsOK, RequestInv
  <2> QED
    BY <1>4, <2>1, CtxStep
<1>6. requests' \in [Requests -> Request]
  BY <1>5 DEF Disable
<1>7. RequestsOK'
  BY <1>1, <1>5, <1>6 DEF RequestsOK, RequestInv, RequestInvOf, Honest
<1>8. CooldownInv'
  BY <1>1, <1>2, <1>3 DEF CooldownInv
<1>9. TurnInv'
  BY <1>1, Parts DEF TurnInv, Between
<1> QED
  BY <1>1, <1>2, <1>3, <1>7, <1>8, <1>9, Parts DEF IInv, TypeOK, RequestsOK

\* Enabling an account starts no turn and bars nobody.
LEMMA EnableStep ==
  ASSUME IInv, NEW i \in Ids, Enable(i)
  PROVE  IInv'
<1>1. enabled' = enabled \cup {i} /\ UNCHANGED <<now, requests, positions, passed>>
      /\ barred' = [barred EXCEPT ![i] = 0]
  BY DEF Enable, selector
<1>2. RequestsOK /\ enabled \in SUBSET Ids /\ cooldowns \in [Ids -> Int] /\ barred \in [Ids -> Int]
      /\ CooldownInv /\ now \in Nat
  BY Parts
<1>3. cooldowns' \in [Ids -> Int] /\ \A j \in enabled' : cooldowns'[j] = cooldowns[j]
  BY <1>1, <1>2 DEF Enable, Synced
<1>4. RequestsOK'
  BY <1>1, <1>2 DEF RequestsOK, RequestInv, RequestInvOf, Honest
<1>5. CooldownInv'
  <2>1. ASSUME NEW j \in enabled' PROVE barred'[j] <= cooldowns'[j] \/ barred'[j] <= now
    <3>1. CASE j = i
      <4>1. barred'[j] = 0
        BY <1>1, <1>2, <3>1
      <4> QED
        BY <1>2, <4>1
    <3>2. CASE j # i
      BY <1>1, <1>2, <1>3, <3>2 DEF CooldownInv
    <3> QED
      BY <3>1, <3>2
  <2> QED
    BY <1>1, <2>1 DEF CooldownInv
<1>6. TurnInv'
  BY <1>1, Parts DEF TurnInv, Between
<1>7. barred' \in [Ids -> Int]
  BY <1>1, <1>2
<1> QED
  BY <1>1, <1>2, <1>3, <1>4, <1>5, <1>6, <1>7, Parts DEF IInv, TypeOK, RequestsOK

\* Time passes: what has passed stays past.
LEMMA TickStep == ASSUME IInv, Tick PROVE IInv'
<1>1. now' = now + 1 /\ UNCHANGED <<enabled, cooldowns, requests, positions, passed>>
      /\ barred' = [i \in Ids |-> IF barred[i] <= now' THEN 0 ELSE barred[i]]
  BY DEF Tick, selector
<1>2. RequestsOK /\ now \in Nat /\ enabled \in SUBSET Ids /\ cooldowns \in [Ids -> Int]
      /\ barred \in [Ids -> Int] /\ CooldownInv
  BY Parts
<1>3. \A r \in Requests : RequestInvOf(requests[r], now')
  <2> SUFFICES ASSUME NEW r \in Requests PROVE RequestInvOf(requests[r], now')
    OBVIOUS
  <2> DEFINE q == requests[r]
  <2>1. q \in Request /\ RequestInvOf(q, now)
    BY <1>2 DEF RequestsOK, RequestInv
  <2>2. q.failure.limit => q.failure.after \in Int /\ q.failure.asked \in Int
    BY <2>1 DEF Request, Failure
  <2>3. q.failure.limit /\ Honest(q.failure.after, q.failure.asked, now)
          => Honest(q.failure.after, q.failure.asked, now')
    BY <1>1, <1>2, <2>2 DEF Honest
  <2> QED
    BY <2>1, <2>3 DEF RequestInvOf
<1>4. RequestsOK'
  BY <1>1, <1>2, <1>3 DEF RequestsOK, RequestInv, RequestInvOf, Honest
<1>5. barred' \in [Ids -> Int]
  BY <1>1, <1>2
<1>6. CooldownInv'
  <2>1. ASSUME NEW i \in enabled PROVE barred'[i] <= cooldowns[i] \/ barred'[i] <= now'
    <3>1. barred[i] \in Int /\ cooldowns[i] \in Int /\ (barred[i] <= cooldowns[i] \/ barred[i] <= now)
      BY <1>2 DEF CooldownInv
    <3>2. barred'[i] = IF barred[i] <= now' THEN 0 ELSE barred[i]
      BY <1>1, <1>2
    <3> QED
      BY <1>1, <1>2, <3>1, <3>2
  <2> QED
    BY <1>1, <2>1 DEF CooldownInv
<1>7. TurnInv'
  BY <1>1, Parts DEF TurnInv, Between
<1> QED
  BY <1>1, <1>2, <1>4, <1>5, <1>6, <1>7, Parts DEF IInv, TypeOK, RequestsOK

\* Every step preserves the invariant.
LEMMA InvStep == IInv /\ [Next]_vars => IInv'
<1> SUFFICES ASSUME IInv, [Next]_vars PROVE IInv'
  OBVIOUS
<1>1. CASE UNCHANGED vars
  <2>1. RequestsOK'
    BY <1>1, Parts DEF vars, RequestsOK, RequestInv, RequestInvOf, Honest
  <2> QED
    BY <1>1, <2>1, RequestOnly DEF vars
<1>2. ASSUME NEW r \in Requests,
             \/ \E model \in Models : Open(r, model)
             \/ SelectAccount(r) \/ RegisterAccount(r)
             \/ Refused(r) \/ Limited(r) \/ Streams(r) \/ StreamEnds(r)
             \/ NoteChecks(r) \/ NoteWrites(r) \/ Cancel(r)
      PROVE  IInv'
  BY <1>2, OpenStep, SelectAccountStep, RegisterAccountStep, RefusedStep, LimitedStep,
     StreamsStep, StreamEndsStep, NoteChecksStep, NoteWritesStep, CancelStep
<1>3. ASSUME NEW i \in Managed, Disable(i) \/ Enable(i) PROVE IInv'
  BY <1>3, DisableStep, EnableStep, SelectionAssumption
<1> QED
  BY <1>1, <1>2, <1>3, TickStep DEF Next

\* The invariant holds for every finite set of accounts and every set of requests.
THEOREM Invariance == Spec => []IInv
  BY InvInit, InvStep, PTL DEF Spec

\* Every variable always has its type.
THEOREM Typing == Spec => []TypeOK
<1>1. IInv => TypeOK
  BY DEF IInv
<1> QED
  BY <1>1, Invariance, PTL

\* No account starves, however many there are and however the candidates change: while it
\* stays a candidate, fewer choices than there are accounts pass it by.
THEOREM NobodyStarves == Spec => []NoStarvation
<1>1. IInv => NoStarvation
  <2> SUFFICES ASSUME IInv, NEW m \in Models, NEW i \in Ids
               PROVE  passed[m][i] < Cardinality(Ids)
    BY DEF NoStarvation
  <2>1. Ids \subseteq Nat /\ IsFiniteSet(Ids)
    BY RoundRobinAssumption
  <2>2. IsFiniteSet(Ids \ {i}) /\ Cardinality(Ids \ {i}) = Cardinality(Ids) - 1
        /\ Cardinality(Ids) \in Nat
    BY <2>1, FS_RemoveElement, FS_CardinalityType
  <2>3. Between(i, positions[m]) \subseteq Ids \ {i}
    <3>1. i \in Nat /\ positions[m] \in Nat \cup {None}
      BY <2>1, Parts
    <3> QED
      BY <2>1, <3>1 DEF Between
  <2>4. IsFiniteSet(Between(i, positions[m]))
        /\ Cardinality(Between(i, positions[m])) <= Cardinality(Ids \ {i})
    BY <2>2, <2>3, FS_Subset
  <2>5. passed[m][i] \in Nat /\ passed[m][i] <= Cardinality(Between(i, positions[m]))
    BY Parts DEF TurnInv
  <2>6. Cardinality(Between(i, positions[m])) \in Nat
    BY <2>4, FS_CardinalityType
  <2> QED
    BY <2>2, <2>4, <2>5, <2>6
<1> QED
  BY <1>1, Invariance, PTL

\* No request chooses an enabled account before the time that its provider named, for
\* every width of a duration and every number of seconds the provider may name.
THEOREM CooldownsHold == Spec => CooldownRespected
<1> DEFINE Respects(r) ==
      LET i == requests'[r].account
      IN requests[r].phase = "ready" /\ requests'[r].phase = "selected" /\ i \in enabled
           => barred[i] <= now
<1>1. IInv /\ [Next]_vars => [\A r \in Requests : Respects(r)]_vars
  <2> SUFFICES ASSUME IInv, [Next]_vars, NEW r \in Requests, requests[r].phase = "ready",
                      requests'[r].phase = "selected", requests'[r].account \in enabled
               PROVE  barred[requests'[r].account] <= now
    OBVIOUS
  <2>0. RequestsOK /\ requests \in [Requests -> Request] /\ requests[r] \in Request
        /\ enabled \subseteq Ids
    BY Parts DEF RequestsOK
  <2>1. SelectAccount(r)
    <3>1. ASSUME NEW q \in Requests,
                 \/ \E model \in Models : Open(q, model)
                 \/ RegisterAccount(q)
                 \/ Refused(q) \/ Limited(q) \/ Streams(q) \/ StreamEnds(q)
                 \/ NoteChecks(q) \/ NoteWrites(q) \/ Cancel(q)
          PROVE  FALSE
      <4>1. requests[q].phase # "ready" /\ (q # r => requests'[r] = requests[r])
        <5>1. CASE \E model \in Models : Open(q, model)
          BY <2>0, <5>1 DEF Open
        <5>2. CASE RegisterAccount(q)
          BY <2>0, <5>2 DEF RegisterAccount, Fail
        <5>3. CASE Refused(q) \/ StreamEnds(q)
          BY <2>0, <5>3 DEF Refused, StreamEnds, Fail, Return
        <5>4. CASE Limited(q)
          <6>1. requests[q].phase = "sent" /\ \E failure : Fail(q, failure)
            BY <5>4 DEF Limited
          <6> QED
            BY <2>0, <6>1 DEF Fail
        <5>5. CASE Streams(q)
          <6>1. /\ requests[q].phase = "sent"
                /\ \E f : requests' = [requests EXCEPT ![q].phase = "streaming", ![q].failure = f]
            BY <5>5 DEF Streams
          <6> QED
            BY <2>0, <6>1
        <5>6. CASE NoteChecks(q)
          BY <2>0, <5>6 DEF NoteChecks, Again, Return
        <5>7. CASE NoteWrites(q) \/ Cancel(q)
          BY <2>0, <5>7 DEF NoteWrites, Cancel, Again, Return
        <5> QED
          BY <3>1, <5>1, <5>2, <5>3, <5>4, <5>5, <5>6, <5>7
      <4> QED
        BY <4>1
    <3>2. ASSUME NEW q \in Requests, SelectAccount(q) PROVE q = r
      <4>1. CASE Return(q)
        BY <2>0, <4>1 DEF Return
      <4>2. ASSUME NEW ids, NEW id, Chooses(q, ids, id) PROVE q = r
        BY <2>0, <4>2 DEF Chooses
      <4> QED
        BY <3>2, <4>1, <4>2, SelectCases
    <3>3. ASSUME NEW i \in Managed, Disable(i) \/ Enable(i) PROVE FALSE
      <4>1. requests'[r] = requests[r] \/ requests'[r] = [requests[r] EXCEPT !.ctx = FALSE]
        BY <3>3 DEF Disable, Enable
      <4>2. [requests[r] EXCEPT !.ctx = FALSE].phase = requests[r].phase
        BY <2>0 DEF Request
      <4> QED
        BY <4>1, <4>2
    <3>4. ~Tick /\ ~UNCHANGED vars
      BY DEF Tick, vars
    <3> QED
      BY <3>1, <3>2, <3>3, <3>4 DEF Next
  <2> DEFINE ids == Ascending(Untried(r))
             id == Choice(positions[requests[r].model], ids)
  <2>2. Chooses(r, ids, id)
    <3>1. ~Return(r)
      BY <2>0 DEF Return, Idle
    <3> QED
      BY <2>1, <3>1, SelectCases
  <2>3. ids \in Seq(Ids) /\ ToSet(ids) = Untried(r)
    BY UntriedLists
  <2>4. requests[r].model \in Models
    BY <2>0 DEF RequestsOK, RequestInv, RequestInvOf
  <2> HIDE DEF ids
  <2>5. id \in Untried(r)
    BY <2>2, <2>3, <2>4, SelectStep DEF Chooses, IInv
  <2> HIDE DEF id
  <2>6. requests'[r].account = id
    <3>1. requests'[r] = [requests[r] EXCEPT !.phase = "selected", !.account = id, !.tried = @ \cup {id}]
      BY <2>0, <2>2 DEF Chooses
    <3> QED
      BY <2>0, <3>1 DEF Request
  <2>7. ~(now < cooldowns[id])
    BY <2>5 DEF Untried, Cooling
  <2>8. barred[id] <= cooldowns[id] \/ barred[id] <= now
    BY <2>6, Parts DEF CooldownInv
  <2>9. id \in Ids /\ barred[id] \in Int /\ cooldowns[id] \in Int /\ now \in Nat
    BY <2>0, <2>6, Parts
  <2> QED
    BY <2>6, <2>7, <2>8, <2>9
<1> QED
  BY <1>1, Invariance, PTL DEF Spec, CooldownRespected
=============================================================================
