---------------------------- MODULE UsageLogProofs ----------------------------
(***************************************************************************)
(* Proofs about UsageLog for every set of requests, every page and batch   *)
(* size, every retention time and every resolution of the stored time.     *)
(*                                                                         *)
(* Induction over a finite set of rows is a search for the smallest set of *)
(* rows at which a claim fails.                                            *)
(***************************************************************************)
EXTENDS UsageLog, FiniteSetTheorems, SequenceTheorems, WellFoundedInduction, TLAPS

(***************************************************************************)
(* Rows.                                                                   *)
(***************************************************************************)
Row == [id : Ids, at : Nat, key : Keys, result : {Profile[i].result : i \in Ids},
        account : {Profile[i].account : i \in Ids}, input : {Profile[i].input : i \in Ids},
        output : {Profile[i].output : i \in Ids}]

\* No two requests have the same ID.
Distinct(S) == \A r, s \in S : r.id = s.id => r = s

\* A table: finitely many records of different requests.
Table(S) == IsFiniteSet(S) /\ S \subseteq Row /\ Distinct(S)

\* The order of a list of rows.
Descending(list) == \A j, k \in DOMAIN list : j < k => Below(list[k], list[j])

InOrder(list, S) == list \in SetToSeqs(S) /\ Descending(list)

\* The sort key of a row is a pair of naturals.
LEMMA RowKey == \A r \in Row : r.at \in Nat /\ r.id \in Nat
  BY UsageAssumption DEF Row

\* Below is a total order of the rows of a table.
LEMMA Order ==
  ASSUME NEW S, Table(S)
  PROVE  /\ \A r, s \in S : r # s => Below(r, s) \/ Below(s, r)
         /\ \A r \in S : ~ Below(r, r)
         /\ \A r, s, t \in S : Below(r, s) /\ Below(s, t) => Below(r, t)
<1>1. \A r \in S : r.at \in Nat /\ r.id \in Nat
  BY RowKey DEF Table
<1>2. \A r, s \in S : r # s => r.id # s.id
  BY DEF Table, Distinct
<1>3. \A r, s \in S : r # s => Below(r, s) \/ Below(s, r)
  BY <1>1, <1>2 DEF Below
<1>4. \A r \in S : ~ Below(r, r)
  BY <1>1 DEF Below
<1>5. \A r, s, t \in S : Below(r, s) /\ Below(s, t) => Below(r, t)
  BY <1>1 DEF Below
<1> QED
  BY <1>3, <1>4, <1>5

\* Every part of a table is a table.
LEMMA PartOfTable ==
  ASSUME NEW S, Table(S), NEW T \in SUBSET S
  PROVE  Table(T)
  BY FS_Subset DEF Table, Distinct

\* Among sets of rows of a table there is one with no smaller one inside it.
LEMMA SmallestSet ==
  ASSUME NEW S, IsFiniteSet(S), NEW Bad \in SUBSET (SUBSET S), Bad # {}
  PROVE  \E T \in Bad : \A U \in Bad : ~ (U \subseteq T /\ U # T)
<1> DEFINE R == StrictSubsetOrdering(S)
<1>1. IsWellFoundedOn(R, SUBSET S)
  BY FS_StrictSubsetOrderingWellFounded, FS_FiniteSubsetsOfFinite
<1>2. \A T, U \in SUBSET S : U \subseteq T /\ U # T => <<U, T>> \in R
  BY DEF StrictSubsetOrdering
<1> HIDE DEF R
<1>3. PICK T \in Bad : \A U \in Bad : ~ (<<U, T>> \in R)
  BY <1>1, WFMin
<1> QED
  BY <1>2, <1>3

\* A table that is not empty has a newest row.
LEMMA NewestRow ==
  ASSUME NEW S, Table(S), S # {}
  PROVE  \E m \in S : \A q \in S \ {m} : Below(q, m)
<1> DEFINE Higher(r) == {q \in S : Below(r, q)}
           All == {Higher(r) : r \in S}
<1>1. All \in SUBSET (SUBSET S) /\ All # {} /\ IsFiniteSet(S)
  BY DEF Table
<1> HIDE DEF All
<1>2. PICK T \in All : \A U \in All : ~ (U \subseteq T /\ U # T)
  BY <1>1, SmallestSet
<1>3. PICK m \in S : T = Higher(m)
  BY <1>2 DEF All
<1>4. ASSUME NEW q \in S, Below(m, q) PROVE FALSE
  <2>1. Higher(q) \subseteq T /\ q \in T /\ q \notin Higher(q)
    BY <1>3, <1>4, Order
  <2>2. Higher(q) \in All
    BY DEF All
  <2> QED
    BY <1>2, <2>1, <2>2
<1> QED
  BY <1>4, Order

\* The newest row goes in front of the others.
LEMMA Prepend ==
  ASSUME NEW S, Table(S), NEW m \in S, \A q \in S \ {m} : Below(q, m),
         NEW f, InOrder(f, S \ {m})
  PROVE  \E g : InOrder(g, S)
<1> DEFINE n == Cardinality(S)
           g == [j \in 1..n |-> IF j = 1 THEN m ELSE f[j - 1]]
<1>1. n \in Nat /\ IsFiniteSet(S \ {m}) /\ Cardinality(S \ {m}) = n - 1
  BY FS_CardinalityType, FS_RemoveElement DEF Table
<1> HIDE DEF n
<1>2. f \in [1..(n - 1) -> S \ {m}]
  BY <1>1 DEF InOrder, SetToSeqs
<1>3. \A j, k \in 1..(n - 1) : j < k => Below(f[k], f[j])
  BY <1>2 DEF InOrder, Descending
<1>4. \A j \in 1..n : j # 1 => j - 1 \in 1..(n - 1)
  BY <1>1
<1>5. \A j \in 1..n : g[j] \in S
  BY <1>2, <1>4
<1>6. \A j \in 1..n : j # 1 => Below(g[j], m)
  BY <1>2, <1>4
<1>7. \A j, k \in 1..n : j < k => Below(g[k], g[j])
  <2> SUFFICES ASSUME NEW j \in 1..n, NEW k \in 1..n, j < k PROVE Below(g[k], g[j])
    OBVIOUS
  <2>1. k # 1 /\ g[k] = f[k - 1] /\ k - 1 \in 1..(n - 1)
    BY <1>1, <1>4
  <2>2. CASE j = 1
    BY <1>6, <2>1, <2>2
  <2>3. CASE j # 1
    <3>1. j - 1 \in 1..(n - 1) /\ j - 1 < k - 1 /\ g[j] = f[j - 1]
      BY <1>1, <1>4, <2>3
    <3> QED
      BY <1>3, <2>1, <3>1
  <2> QED
    BY <2>2, <2>3
<1>8. g \in [1..n -> S]
  BY <1>5
<1>9. \A j, k \in 1..n : j # k => g[j] # g[k]
  <2>1. \A j, k \in 1..n : j # k => j < k \/ k < j
    BY <1>1
  <2>2. \A j \in 1..n : ~ Below(g[j], g[j])
    BY <1>5, Order
  <2> QED
    BY <1>7, <2>1, <2>2
<1> HIDE DEF g
<1>10. g \in SetToSeqs(S)
  BY <1>8, <1>9 DEF SetToSeqs, n
<1>11. DOMAIN g = 1..n
  BY <1>8
<1> QED
  BY <1>7, <1>10, <1>11 DEF InOrder, Descending

\* Every table can be listed in order.
LEMMA OrderExists ==
  ASSUME NEW S, Table(S)
  PROVE  \E list : InOrder(list, S)
<1> DEFINE Bad == {T \in SUBSET S : ~ \E list : InOrder(list, T)}
<1> SUFFICES ASSUME Bad # {} PROVE FALSE
  OBVIOUS
<1>1. PICK T \in Bad : \A U \in Bad : ~ (U \subseteq T /\ U # T)
  <2>1. Bad \in SUBSET (SUBSET S) /\ IsFiniteSet(S) /\ Bad # {}
    BY DEF Table
  <2> HIDE DEF Bad
  <2> QED
    BY <2>1, SmallestSet
<1>2. Table(T)
  BY PartOfTable
<1>3. CASE T = {}
  <2> DEFINE e == [j \in 1..0 |-> 0]
  <2>1. Cardinality(T) = 0 /\ 1..0 = {}
    BY <1>3, FS_EmptySet
  <2>2. e \in [1..0 -> T] /\ DOMAIN e = {}
    BY <2>1
  <2> HIDE DEF e
  <2>3. InOrder(e, T)
    BY <2>1, <2>2 DEF InOrder, SetToSeqs, Descending
  <2> QED
    BY <2>3
<1>4. CASE T # {}
  <2>1. PICK m \in T : \A q \in T \ {m} : Below(q, m)
    BY <1>2, <1>4, NewestRow
  <2>2. T \ {m} \notin Bad
    BY <1>1
  <2>3. PICK f : InOrder(f, T \ {m})
    BY <2>2
  <2> QED
    BY <1>2, <2>1, <2>3, Prepend
<1> QED
  BY <1>3, <1>4

(***************************************************************************)
(* Pages.                                                                  *)
(***************************************************************************)
\* Min of two numbers.
LEMMA MinOfTwo ==
  ASSUME NEW x \in Nat, NEW y \in Nat
  PROVE  Min({x, y}) = IF x <= y THEN x ELSE y
<1>1. \E m \in {x, y} : \A k \in {x, y} : m <= k
  OBVIOUS
<1>2. Min({x, y}) \in {x, y} /\ \A k \in {x, y} : Min({x, y}) <= k
  BY <1>1 DEF Min
<1> QED
  BY <1>2

\* The first n elements of a sequence.
LEMMA Prefix ==
  ASSUME NEW S, NEW s \in Seq(S), NEW n \in 0..Len(s)
  PROVE  /\ SubSeq(s, 1, n) \in Seq(S) /\ Len(SubSeq(s, 1, n)) = n
         /\ \A j \in 1..n : SubSeq(s, 1, n)[j] = s[j]
         /\ n = Len(s) => SubSeq(s, 1, n) = s
<1>1. Len(s) \in Nat /\ n \in Int /\ \A j \in 1..n : s[j] \in S
  BY LenProperties
<1>2. SubSeq(s, 1, n) \in Seq(S) /\ Len(SubSeq(s, 1, n)) = (IF 1 <= n THEN n - 1 + 1 ELSE 0)
      /\ \A j \in 1..(n - 1 + 1) : SubSeq(s, 1, n)[j] = s[1 + j - 1]
  BY <1>1, SubSeqProperties
<1>3. Len(SubSeq(s, 1, n)) = n /\ \A j \in 1..n : SubSeq(s, 1, n)[j] = s[j]
  BY <1>1, <1>2
<1> QED
  BY <1>2, <1>3, SubSeqFull

\* ORDER BY finished_at DESC, id DESC lists every row that was found once, newest first.
LEMMA NewestLists ==
  ASSUME NEW S, Table(S)
  PROVE  /\ Newest(S) \in Seq(S)
         /\ Descending(Newest(S))
         /\ \A r \in S : \E j \in 1..Len(Newest(S)) : Newest(S)[j] = r
<1> DEFINE list == Newest(S)
           n == Cardinality(S)
           Sorted(l) == \A j, k \in DOMAIN l :
             j < k => l[j].at > l[k].at \/ (l[j].at = l[k].at /\ l[j].id > l[k].id)
<1>1. n \in Nat /\ \A r \in S : r.at \in Nat /\ r.id \in Nat
  BY FS_CardinalityType, RowKey DEF Table
<1>2. \A l \in SetToSeqs(S) : l \in [1..n -> S] /\ \A j, k \in 1..n : j # k => l[j] # l[k]
  BY DEF SetToSeqs
<1>3. \A l \in SetToSeqs(S) : Sorted(l) <=> Descending(l)
  <2> SUFFICES ASSUME NEW l \in SetToSeqs(S) PROVE Sorted(l) <=> Descending(l)
    OBVIOUS
  <2>1. DOMAIN l = 1..n /\ \A j \in 1..n : l[j].at \in Nat /\ l[j].id \in Nat
    BY <1>1, <1>2
  <2> QED
    BY <2>1 DEF Descending, Below
<1>4. list = CHOOSE l \in SetToSeqs(S) : Sorted(l)
  BY DEF Newest
<1> HIDE DEF list, Sorted
<1>5. list \in SetToSeqs(S) /\ Descending(list)
  <2>1. \E l \in SetToSeqs(S) : Sorted(l)
    BY <1>3, OrderExists DEF InOrder
  <2> QED
    BY <1>3, <1>4, <2>1
<1>6. list \in [1..n -> S] /\ \A j, k \in 1..n : j # k => list[j] # list[k]
  BY <1>2, <1>5
<1>7. \A r \in S : \E j \in 1..n : list[j] = r
  <2>1. IsFiniteSet(S) /\ Cardinality(1..n) = Cardinality(S)
    BY <1>1, FS_Interval DEF Table
  <2>2. list \in Injection(1..n, S)
    BY <1>6 DEF Injection, IsInjective
  <2> HIDE DEF n
  <2>3. list \in Surjection(1..n, S)
    BY <2>1, <2>2, FS_Injection
  <2> QED
    BY <2>3 DEF Surjection
<1>8. list \in Seq(S) /\ Len(list) = n
  BY <1>1, <1>6
<1> QED
  BY <1>5, <1>7, <1>8 DEF list

\* What a page adds to the walk w: rows that the page may show, in order, and then
\* either all of them or a cursor below which the others are.
Page(w, v, f, found, page) ==
  /\ page \in Seq(found) /\ Descending(page)
  /\ v.seen = w.seen \o page /\ v.filter = w.filter
  /\ \/ /\ v.state = "ended" /\ v.cursor = <<>>
        /\ \A r \in found : \E j \in 1..Len(page) : page[j] = r
     \/ /\ v.state = "open" /\ Len(page) > 0
        /\ v.cursor = <<[at |-> page[Len(page)].at, id |-> page[Len(page)].id, filter |-> f]>>
        /\ \A r \in found : (\E j \in 1..Len(page) : page[j] = r) \/ Below(r, v.cursor[1])

Walk == [state : {"none", "open", "ended"}, filter : ValidFilters \cup {NoWalk.filter},
         cursor : Seq([at : Nat, id : Ids, filter : ValidFilters]), seen : Seq(Row)]

\* A handler of GET /requests answers with a page.
LEMMA ShownPage ==
  ASSUME NEW w \in Walk, NEW f, NEW cursor, Table(Found(f, cursor))
  PROVE  \E page : Page(w, Shown(w, f, cursor), f, Found(f, cursor), page)
<1> DEFINE S == Found(f, cursor)
           all == Newest(S)
           list == ListRequests(f, cursor, Limit + 1)
           page == SubSeq(list, 1, Min({Limit, Len(list)}))
           v == Shown(w, f, cursor)
<1>1. /\ all \in Seq(S) /\ Descending(all)
      /\ \A r \in S : \E j \in 1..Len(all) : all[j] = r
  BY NewestLists
<1>2. Limit \in Nat /\ Limit > 0 /\ Len(all) \in Nat
  BY <1>1, UsageAssumption
<1>3. list = SubSeq(all, 1, IF Limit + 1 <= Len(all) THEN Limit + 1 ELSE Len(all))
  BY <1>2, MinOfTwo DEF ListRequests
<1>4. /\ v.seen = w.seen \o page /\ v.filter = w.filter /\ v.cursor = NextCursor(list, f)
      /\ v.state = IF NextCursor(list, f) = <<>> THEN "ended" ELSE "open"
  BY DEF Shown, Walk
<1> HIDE DEF S, all, v
<1>5. CASE Len(all) <= Limit
  <2>1. list = all
    <3>1. list = SubSeq(all, 1, Len(all)) /\ Len(all) \in 0..Len(all)
      BY <1>2, <1>3, <1>5
    <3> QED
      BY <1>1, <3>1, Prefix
  <2> HIDE DEF list
  <2>2. page = all
    <3>1. page = SubSeq(all, 1, Len(all)) /\ Len(all) \in 0..Len(all)
      BY <1>2, <1>5, <2>1, MinOfTwo
    <3> QED
      BY <1>1, <3>1, Prefix
  <2>3. v.state = "ended" /\ v.cursor = <<>>
    BY <1>2, <1>4, <1>5, <2>1 DEF NextCursor
  <2> HIDE DEF page
  <2>4. Page(w, v, f, S, page)
    BY <1>1, <1>4, <2>2, <2>3 DEF Page
  <2> QED
    BY <2>4 DEF S, v
<1>6. CASE Len(all) > Limit
  <2>1. list \in Seq(S) /\ Len(list) = Limit + 1 /\ \A j \in 1..(Limit + 1) : list[j] = all[j]
    <3>1. list = SubSeq(all, 1, Limit + 1) /\ Limit + 1 \in 0..Len(all)
      BY <1>2, <1>3, <1>6
    <3> HIDE DEF list
    <3> QED
      BY <1>1, <3>1, Prefix
  <2> HIDE DEF list
  <2>2. Min({Limit, Len(list)}) = Limit
    BY <1>2, <2>1, MinOfTwo
  <2>3. page \in Seq(S) /\ Len(page) = Limit /\ \A j \in 1..Limit : page[j] = list[j]
    <3>1. page = SubSeq(list, 1, Limit)
      BY <2>2
    <3> HIDE DEF page
    <3>2. Limit \in 0..Len(list)
      BY <1>2, <2>1
    <3> QED
      BY <2>1, <3>1, <3>2, Prefix
  <2> HIDE DEF page
  <2>4. \A j \in 1..Limit : page[j] = all[j]
    <3>1. \A j \in 1..Limit : j \in 1..(Limit + 1)
      BY <1>2
    <3> QED
      BY <2>1, <2>3, <3>1
  <2>5. DOMAIN page = 1..Limit /\ DOMAIN all = 1..Len(all)
    BY <1>1, <2>3
  <2>6. Descending(page)
    BY <1>1, <1>2, <1>6, <2>4, <2>5 DEF Descending
  <2>7. NextCursor(list, f) = <<[at |-> page[Limit].at, id |-> page[Limit].id, filter |-> f]>>
    BY <1>2, <2>1, <2>3 DEF NextCursor
  <2>8. v.state = "open" /\ v.cursor = <<[at |-> page[Limit].at, id |-> page[Limit].id, filter |-> f]>>
    BY <1>4, <2>7
  <2>9. ASSUME NEW r \in S PROVE (\E j \in 1..Len(page) : page[j] = r) \/ Below(r, v.cursor[1])
    <3>1. PICK j \in 1..Len(all) : all[j] = r
      BY <1>1
    <3>2. CASE j <= Limit
      BY <1>2, <2>3, <2>4, <3>1, <3>2
    <3>3. CASE j > Limit
      <4>1. Below(all[j], all[Limit])
        BY <1>1, <1>2, <1>6, <2>5, <3>3 DEF Descending
      <4>2. Below(r, page[Limit])
        BY <1>2, <2>4, <3>1, <4>1
      <4> QED
        BY <2>8, <4>2 DEF Below
    <3> QED
      BY <1>2, <3>2, <3>3
  <2>10. Page(w, v, f, S, page)
    BY <1>2, <1>4, <2>3, <2>6, <2>8, <2>9 DEF Page
  <2> QED
    BY <2>10 DEF S, v
<1> QED
  BY <1>2, <1>5, <1>6

(***************************************************************************)
(* The inductive invariant.                                                *)
(***************************************************************************)
TypeOK ==
  /\ now \in Nat /\ unused \in SUBSET Ids /\ finished \in SUBSET Row /\ rows \in SUBSET Row
  /\ prune \in Nat \cup {Unbounded} /\ walk \in Walk /\ must \in SUBSET rows

\* A request has one record, in one place.
RowsInv ==
  /\ IsFiniteSet(rows) /\ Distinct(rows \cup finished) /\ rows \cap finished = {}
  /\ \A r \in rows \cup finished : r.id \notin unused

PruneInv == prune # Unbounded => prune <= now - Retention

Has(w, r) == \E j \in 1..Len(w.seen) : w.seen[j] = r

\* The rows a walk has shown match its filter and descend.
SeenInv(w) ==
  \A i \in 1..Len(w.seen) : /\ Matches(w.seen[i], w.filter)
                            /\ i > 1 => Below(w.seen[i], w.seen[i - 1])

\* The cursor of a walk is the last row that it has shown.
CursorInv(w) ==
  w.state = "open" =>
    /\ Len(w.seen) > 0
    /\ w.cursor = <<[at |-> w.seen[Len(w.seen)].at, id |-> w.seen[Len(w.seen)].id, filter |-> w.filter]>>

\* A row of m has been shown, or it is still to come.
MustInv(w, m) ==
  /\ \A r \in m : Matches(r, w.filter)
  /\ w.state = "none" => w = NoWalk
  /\ w.state = "open" => \A r \in m : Has(w, r) \/ Below(r, w.cursor[1])
  /\ w.state = "ended" => \A r \in m : Has(w, r)

IInv == TypeOK /\ RowsInv /\ PruneInv /\ SeenInv(walk) /\ CursorInv(walk) /\ MustInv(walk, must)

\* The rows are a table at all times.
LEMMA RowsAreTable == IInv => Table(rows)
  BY DEF IInv, TypeOK, RowsInv, Table, Distinct

\* A page continues the walk below everything that it has shown.
LEMMA Extend ==
  ASSUME NEW w \in Walk, NEW v \in Walk, NEW found \in SUBSET Row, NEW page, NEW m,
         Page(w, v, w.filter, found, page), SeenInv(w),
         \A r \in found : Matches(r, w.filter),
         Len(w.seen) > 0 => \A r \in found : Below(r, w.seen[Len(w.seen)]),
         \A r \in m : Matches(r, w.filter),
         \A r \in m : r \in found \/ Has(w, r)
  PROVE  SeenInv(v) /\ CursorInv(v) /\ MustInv(v, m)
<1> DEFINE k == Len(w.seen)
           p == Len(page)
<1>1. /\ w.seen \in Seq(Row) /\ page \in Seq(found) /\ page \in Seq(Row)
      /\ k \in Nat /\ p \in Nat /\ DOMAIN page = 1..p /\ \A j \in 1..p : page[j] \in found
  <2>1. w.seen \in Seq(Row) /\ page \in Seq(found)
    BY DEF Walk, Page
  <2>2. page \in Seq(Row)
    BY <2>1
  <2> QED
    BY <2>1, <2>2, LenProperties
<1>2. /\ v.seen = w.seen \o page /\ v.filter = w.filter
      /\ Len(v.seen) = k + p
      /\ \A i \in 1..(k + p) : v.seen[i] = IF i <= k THEN w.seen[i] ELSE page[i - k]
  <2>1. v.seen = w.seen \o page /\ v.filter = w.filter
    BY DEF Page
  <2>2. w.seen \in Seq(Row) /\ page \in Seq(Row)
    BY <1>1
  <2> QED
    BY <2>1, <2>2, ConcatProperties
<1>3. \A i, j \in 1..p : i < j => Below(page[j], page[i])
  <2>1. Descending(page)
    BY DEF Page
  <2> QED
    BY <1>1, <2>1 DEF Descending
<1>4. /\ \A r : Has(w, r) => Has(v, r)
      /\ \A r : (\E j \in 1..p : page[j] = r) => Has(v, r)
  <2>1. ASSUME NEW r, Has(w, r) PROVE Has(v, r)
    <3>1. PICK j \in 1..k : w.seen[j] = r
      BY <2>1 DEF Has
    <3>2. j \in 1..(k + p) /\ v.seen[j] = r
      BY <1>1, <1>2, <3>1
    <3> QED
      BY <1>2, <3>2 DEF Has
  <2>2. ASSUME NEW r, NEW j \in 1..p, page[j] = r PROVE Has(v, r)
    <3>1. k + j \in 1..(k + p) /\ v.seen[k + j] = r
      BY <1>1, <1>2, <2>2
    <3> QED
      BY <1>2, <3>1 DEF Has
  <2> QED
    BY <2>1, <2>2
<1> HIDE DEF k, p
<1>5. SeenInv(v)
  <2> SUFFICES ASSUME NEW i \in 1..(k + p)
               PROVE  Matches(v.seen[i], v.filter) /\ (i > 1 => Below(v.seen[i], v.seen[i - 1]))
    BY <1>2 DEF SeenInv
  <2>1. CASE i <= k
    <3>1. i \in 1..k /\ (i > 1 => i - 1 \in 1..(k + p) /\ i - 1 <= k)
      BY <1>1, <2>1
    <3>2. v.seen[i] = w.seen[i] /\ (i > 1 => v.seen[i - 1] = w.seen[i - 1])
      BY <1>2, <2>1, <3>1
    <3> QED
      BY <1>2, <3>1, <3>2 DEF SeenInv, k
  <2>2. CASE i > k
    <3>1. i - k \in 1..p /\ v.seen[i] = page[i - k]
      <4>1. i - k \in 1..p /\ ~ (i <= k)
        BY <1>1, <2>2
      <4> QED
        BY <1>2, <4>1
    <3>2. Matches(v.seen[i], v.filter)
      BY <1>1, <1>2, <3>1
    <3>3. CASE i = k + 1
      <4>1. i > 1 => k > 0 /\ v.seen[i - 1] = w.seen[k]
        <5>1. i > 1 => k > 0 /\ k \in 1..(k + p) /\ i - 1 = k
          BY <1>1, <3>3
        <5>2. k \in 1..(k + p) => v.seen[k] = w.seen[k]
          BY <1>1, <1>2
        <5> QED
          BY <5>1, <5>2
      <4> QED
        BY <1>1, <3>1, <3>2, <4>1 DEF k
    <3>4. CASE i > k + 1
      <4>1. i - 1 - k \in 1..p /\ i - 1 - k < i - k /\ v.seen[i - 1] = page[i - 1 - k]
        <5>1. i - 1 - k \in 1..p /\ i - 1 - k < i - k /\ i - 1 \in 1..(k + p) /\ ~ (i - 1 <= k)
          BY <1>1, <3>4
        <5> QED
          BY <1>2, <5>1
      <4> QED
        BY <1>3, <3>1, <3>2, <4>1
    <3> QED
      BY <1>1, <2>2, <3>3, <3>4
  <2> QED
    BY <1>1, <2>1, <2>2
<1>6. CASE v.state = "ended" /\ v.cursor = <<>> /\ \A r \in found : \E j \in 1..Len(page) : page[j] = r
  <2>1. \A r \in m : Has(v, r)
    BY <1>4, <1>6 DEF p
  <2> QED
    BY <1>2, <1>5, <1>6, <2>1 DEF CursorInv, MustInv
<1>7. CASE /\ v.state = "open" /\ Len(page) > 0
           /\ v.cursor = <<[at |-> page[Len(page)].at, id |-> page[Len(page)].id, filter |-> w.filter]>>
           /\ \A r \in found : (\E j \in 1..Len(page) : page[j] = r) \/ Below(r, v.cursor[1])
  <2>1. \A r \in m : Has(v, r) \/ Below(r, v.cursor[1])
    BY <1>4, <1>7 DEF p
  <2>2. p > 0 /\ v.seen[k + p] = page[p]
    <3>1. p > 0 /\ p \in 1..p
      BY <1>1, <1>7 DEF p
    <3>2. ASSUME NEW j \in 1..p PROVE v.seen[k + j] = page[j]
      <4>1. k \in Int /\ p \in Int /\ j \in Int /\ 1 <= j /\ j <= p /\ 0 <= k
        BY <1>1
      <4>2. PICK i \in Int : i = k + j
        BY <4>1
      <4>3. i \in 1..(k + p) /\ ~ (i <= k) /\ i - k = j
        BY <4>1, <4>2
      <4>4. v.seen[i] = page[i - k]
        BY <1>2, <4>3
      <4> QED
        BY <4>2, <4>3, <4>4
    <3> QED
      BY <3>1, <3>2
  <2>3. CursorInv(v)
    BY <1>1, <1>2, <1>7, <2>2 DEF CursorInv, p
  <2> QED
    BY <1>2, <1>5, <1>7, <2>1, <2>3 DEF MustInv
<1> QED
  BY <1>6, <1>7 DEF Page

\* What a handler answers is a walk again.
LEMMA ShownTyped ==
  ASSUME NEW w \in Walk, NEW f \in ValidFilters, NEW cursor, NEW found \in SUBSET Row, NEW page,
         Page(w, Shown(w, f, cursor), f, found, page)
  PROVE  Shown(w, f, cursor) \in Walk
<1> DEFINE v == Shown(w, f, cursor)
           Cursor == [at : Nat, id : Ids, filter : ValidFilters]
<1>1. page \in Seq(found) /\ w.seen \in Seq(Row) /\ v.seen = w.seen \o page
  BY DEF Page, Walk
<1>2. page \in Seq(Row)
  BY <1>1
<1>3. v.seen \in Seq(Row)
  BY <1>1, <1>2, ConcatProperties
<1>4. v.state \in {"ended", "open"} /\ v.cursor \in Seq(Cursor)
  <2>1. CASE v.state = "ended" /\ v.cursor = <<>>
    BY <2>1
  <2>2. CASE /\ v.state = "open" /\ Len(page) > 0
             /\ v.cursor = <<[at |-> page[Len(page)].at, id |-> page[Len(page)].id, filter |-> f]>>
    <3>1. page[Len(page)] \in Row
      BY <1>2, <2>2
    <3>2. [at |-> page[Len(page)].at, id |-> page[Len(page)].id, filter |-> f] \in Cursor
      BY <3>1 DEF Row
    <3> QED
      BY <2>2, <3>2
  <2> QED
    BY <2>1, <2>2 DEF Page
<1>5. \E s, c, st : v = [w EXCEPT !.seen = s, !.cursor = c, !.state = st]
  BY DEF Shown
<1> HIDE DEF v, Cursor
<1>6. PICK s, c, st : v = [w EXCEPT !.seen = s, !.cursor = c, !.state = st]
  BY <1>5
<1>7. v.seen = s /\ v.cursor = c /\ v.state = st
  BY <1>6 DEF Walk
<1>8. v \in Walk
  BY <1>3, <1>4, <1>6, <1>7 DEF Walk, Cursor
<1> QED
  BY <1>8 DEF v

(***************************************************************************)
(* The initial state and the steps.                                        *)
(***************************************************************************)
\* No rows, no walk.
LEMMA InitIInv == Init => IInv
<1> SUFFICES ASSUME Init PROVE IInv
  OBVIOUS
<1>1. NoWalk \in Walk
  BY DEF NoWalk, Walk
<1>2. TypeOK
  BY <1>1 DEF Init, TypeOK
<1>3. RowsInv
  BY FS_EmptySet DEF Init, RowsInv, Distinct
<1>4. SeenInv(walk) /\ CursorInv(walk) /\ MustInv(walk, must)
  BY DEF Init, NoWalk, SeenInv, CursorInv, MustInv
<1> QED
  BY <1>2, <1>3, <1>4 DEF Init, PruneInv, IInv

\* A step that leaves the walk alone, and no other rows to it.
LEMMA WalkFrame ==
  ASSUME IInv, walk' = walk, must' \in SUBSET must
  PROVE  SeenInv(walk)' /\ CursorInv(walk)' /\ MustInv(walk, must)'
<1>1. SeenInv(walk) /\ CursorInv(walk) /\ MustInv(walk, must)
  BY DEF IInv
<1>2. SeenInv(walk)' /\ CursorInv(walk)'
  BY <1>1 DEF SeenInv, CursorInv, Matches, CeilMillis, UnixMilli, Below
<1>3. MustInv(walk, must)'
  BY <1>1 DEF MustInv, Has, Matches, CeilMillis, UnixMilli, Below
<1> QED
  BY <1>2, <1>3

\* A finished request becomes a record, stamped with the millisecond.
LEMMA FinishStep ==
  ASSUME IInv, NEW id \in Ids, Finish(id)
  PROVE  IInv'
<1> DEFINE r == [id |-> id, at |-> UnixMilli(now), key |-> Profile[id].key, result |-> Profile[id].result,
                 account |-> Profile[id].account, input |-> Profile[id].input, output |-> Profile[id].output]
<1>1. /\ id \in unused /\ unused' = unused \ {id} /\ finished' = finished \cup {r}
      /\ UNCHANGED <<now, rows, prune, walk, must>>
  BY DEF Finish
<1>2. TypeOK /\ RowsInv /\ PruneInv
  BY DEF IInv
<1>3. UnixMilli(now) \in Nat
  BY <1>2, UsageAssumption DEF TypeOK, UnixMilli
<1>4. r \in Row /\ r.id = id
  BY <1>3 DEF Row, Keys
<1> HIDE DEF r
<1>5. TypeOK'
  BY <1>1, <1>2, <1>4 DEF TypeOK
<1>6. RowsInv'
  BY <1>1, <1>2, <1>4 DEF RowsInv, Distinct
<1>7. SeenInv(walk)' /\ CursorInv(walk)' /\ MustInv(walk, must)'
  BY <1>1, WalkFrame
<1> QED
  BY <1>1, <1>2, <1>5, <1>6, <1>7 DEF IInv, PruneInv

\* The record is inserted.
LEMMA InsertStep ==
  ASSUME IInv, NEW r \in finished, InsertRequest(r)
  PROVE  IInv'
<1>1. /\ finished' = finished \ {r} /\ rows' = rows \cup {r}
      /\ UNCHANGED <<now, unused, prune, walk, must>>
  BY DEF InsertRequest
<1>2. TypeOK /\ RowsInv /\ PruneInv
  BY DEF IInv
<1>3. TypeOK'
  BY <1>1, <1>2 DEF TypeOK
<1>4. IsFiniteSet(rows)'
  BY <1>1, <1>2, FS_AddElement DEF RowsInv
<1>5. RowsInv'
  BY <1>1, <1>2, <1>4 DEF RowsInv, Distinct
<1>6. SeenInv(walk)' /\ CursorInv(walk)' /\ MustInv(walk, must)'
  BY <1>1, WalkFrame
<1> QED
  BY <1>1, <1>2, <1>3, <1>5, <1>6 DEF IInv, PruneInv

\* The record is lost.
LEMMA LossStep ==
  ASSUME IInv, NEW r \in finished, InsertFails(r)
  PROVE  IInv'
<1>1. finished' = finished \ {r} /\ UNCHANGED <<now, unused, rows, prune, walk, must>>
  BY DEF InsertFails
<1>2. TypeOK /\ RowsInv /\ PruneInv
  BY DEF IInv
<1>3. SeenInv(walk)' /\ CursorInv(walk)' /\ MustInv(walk, must)'
  BY <1>1, WalkFrame
<1> QED
  BY <1>1, <1>2, <1>3 DEF IInv, TypeOK, RowsInv, Distinct, PruneInv

\* Time passes, retention starts or stops: the cutoff stays in the past.
LEMMA PruneSteps ==
  ASSUME IInv, Tick \/ StartPrune \/ PruneStops
  PROVE  IInv'
<1>1. UNCHANGED <<unused, finished, rows, walk, must>>
  BY DEF Tick, StartPrune, PruneStops
<1>2. TypeOK /\ RowsInv /\ PruneInv
  BY DEF IInv
<1>3. now \in Nat /\ Retention \in Nat
  BY <1>2, UsageAssumption DEF TypeOK
<1>4. now' \in Nat /\ prune' \in Nat \cup {Unbounded} /\ PruneInv'
  <2>1. CASE Tick
    BY <1>2, <1>3, <2>1 DEF Tick, TypeOK, PruneInv, Unbounded
  <2>2. CASE StartPrune
    BY <1>3, <2>2 DEF StartPrune, PruneInv, Unbounded
  <2>3. CASE PruneStops
    BY <1>3, <2>3 DEF PruneStops, PruneInv, Unbounded
  <2> QED
    BY <2>1, <2>2, <2>3
<1>5. SeenInv(walk)' /\ CursorInv(walk)' /\ MustInv(walk, must)'
  BY <1>1, WalkFrame
<1> QED
  BY <1>1, <1>2, <1>4, <1>5 DEF IInv, TypeOK, RowsInv, Distinct

\* A batch takes only old rows away.
LEMMA BatchTakes ==
  ASSUME DeleteBatch
  PROVE  /\ \E deleted \in SUBSET {r \in rows : Old(r)} : rows' = rows \ deleted
         /\ prune' \in {prune, Unbounded} /\ must' = must \cap rows'
         /\ prune # Unbounded /\ UNCHANGED <<now, unused, finished, walk>>
<1>1. \A n, S : \A d \in kSubset(n, S) : d \in SUBSET S
  BY DEF kSubset
<1>2. \E n : \E deleted \in kSubset(n, {r \in rows : Old(r)}) : rows' = rows \ deleted
  BY DEF DeleteBatch
<1>3. \E deleted \in SUBSET {r \in rows : Old(r)} : rows' = rows \ deleted
  BY <1>1, <1>2
<1>4. prune' \in {prune, Unbounded} /\ must' = must \cap rows'
      /\ prune # Unbounded /\ UNCHANGED <<now, unused, finished, walk>>
  BY DEF DeleteBatch
<1> QED
  BY <1>3, <1>4

\* What is deleted need not be shown any more.
LEMMA BatchStep ==
  ASSUME IInv, DeleteBatch
  PROVE  IInv'
<1>1. PICK deleted \in SUBSET {r \in rows : Old(r)} : rows' = rows \ deleted
  BY BatchTakes
<1>2. /\ rows' \subseteq rows /\ must' = must \cap rows' /\ prune' \in {prune, Unbounded}
      /\ UNCHANGED <<now, unused, finished, walk>>
  BY <1>1, BatchTakes
<1>3. TypeOK /\ RowsInv /\ PruneInv
  BY DEF IInv
<1>4. TypeOK'
  BY <1>2, <1>3 DEF TypeOK
<1>5. IsFiniteSet(rows)'
  BY <1>2, <1>3, FS_Subset DEF RowsInv
<1>6. RowsInv'
  BY <1>2, <1>3, <1>5 DEF RowsInv, Distinct
<1>7. SeenInv(walk)' /\ CursorInv(walk)' /\ MustInv(walk, must)'
  BY <1>2, WalkFrame
<1>8. PruneInv'
  BY <1>2, <1>3 DEF PruneInv
<1> QED
  BY <1>4, <1>6, <1>7, <1>8 DEF IInv

\* Where a client's pages start: every row of the filter is still to come.
LEMMA FirstPageStep ==
  ASSUME IInv, NEW f \in ValidFilters, FirstPage(f)
  PROVE  IInv'
<1> DEFINE w == [NoWalk EXCEPT !.filter = f]
           S == Found(f, <<>>)
<1>1. /\ walk' = Shown(w, f, <<>>) /\ must' = {r \in rows : Matches(r, f)}
      /\ UNCHANGED <<now, unused, finished, rows, prune>>
  BY DEF FirstPage
<1>2. TypeOK /\ RowsInv /\ PruneInv
  BY DEF IInv
<1>3. w \in Walk /\ w.filter = f /\ w.seen = <<>>
  <2>1. NoWalk \in Walk /\ NoWalk.seen = <<>>
    BY DEF Walk, NoWalk
  <2> QED
    BY <2>1 DEF Walk
<1>4. S = {r \in rows : Matches(r, f)}
  BY DEF Found
<1> HIDE DEF w
<1>5. S \in SUBSET rows /\ S \in SUBSET Row /\ Table(S)
  BY <1>2, <1>4, RowsAreTable, PartOfTable DEF TypeOK
<1>6. PICK page : Page(w, walk', f, S, page)
  BY <1>1, <1>3, <1>5, ShownPage
<1>7. walk' \in Walk
  BY <1>1, <1>3, <1>5, <1>6, ShownTyped
<1>8. SeenInv(w) /\ Len(w.seen) = 0
  BY <1>3 DEF SeenInv
<1>9. (\A r \in S : Matches(r, f)) /\ (\A r \in must' : Matches(r, f)) /\ must' = S
  BY <1>1, <1>4
<1> HIDE DEF S
<1>10. SeenInv(walk') /\ CursorInv(walk') /\ MustInv(walk', must')
  <2>1. /\ Page(w, walk', w.filter, S, page)
        /\ \A r \in S : Matches(r, w.filter)
        /\ \A r \in must' : Matches(r, w.filter)
    BY <1>3, <1>6, <1>9
  <2>2. Len(w.seen) > 0 => \A r \in S : Below(r, w.seen[Len(w.seen)])
    BY <1>8
  <2>3. \A r \in must' : r \in S \/ Has(w, r)
    BY <1>9
  <2> QED
    BY <1>3, <1>5, <1>7, <1>8, <2>1, <2>2, <2>3, Extend
<1>11. SeenInv(walk)' /\ CursorInv(walk)' /\ MustInv(walk, must)'
  BY <1>10 DEF SeenInv, CursorInv, MustInv, Has, Matches, CeilMillis, UnixMilli, Below
<1>12. TypeOK'
  BY <1>1, <1>2, <1>5, <1>7, <1>9 DEF TypeOK
<1> QED
  BY <1>1, <1>2, <1>11, <1>12 DEF IInv, RowsInv, Distinct, PruneInv

\* The next page starts below the cursor, which is the last row shown.
LEMMA NextPageStep ==
  ASSUME IInv, NEW f \in ValidFilters, NextPage(f)
  PROVE  IInv'
<1> DEFINE S == Found(f, walk.cursor)
           last == walk.seen[Len(walk.seen)]
<1>1. /\ walk.state = "open" /\ CursorFits(walk.cursor, f) /\ walk' = Shown(walk, f, walk.cursor)
      /\ UNCHANGED <<now, unused, finished, rows, prune, must>>
  BY DEF NextPage
<1>2. TypeOK /\ RowsInv /\ PruneInv /\ SeenInv(walk) /\ CursorInv(walk) /\ MustInv(walk, must)
  BY DEF IInv
<1>3. walk \in Walk /\ must \in SUBSET rows
  BY <1>2 DEF TypeOK
<1>4. /\ Len(walk.seen) > 0 /\ walk.cursor # <<>> /\ walk.filter = f
      /\ walk.cursor[1].at = last.at /\ walk.cursor[1].id = last.id
  BY <1>1, <1>2 DEF CursorInv, CursorFits
<1>5. S = {r \in rows : Matches(r, f) /\ Below(r, walk.cursor[1])}
  BY <1>4 DEF Found
<1>6. S \in SUBSET rows /\ S \in SUBSET Row /\ Table(S)
  BY <1>2, <1>5, RowsAreTable, PartOfTable DEF TypeOK
<1>7. PICK page : Page(walk, walk', f, S, page)
  BY <1>1, <1>3, <1>6, ShownPage
<1>8. walk' \in Walk
  BY <1>1, <1>3, <1>6, <1>7, ShownTyped
<1>9. \A r \in S : Matches(r, walk.filter) /\ Below(r, last)
  BY <1>4, <1>5 DEF Below
<1>10. \A r \in must : Matches(r, walk.filter)
  BY <1>2 DEF MustInv
<1>11. \A r \in must : r \in S \/ Has(walk, r)
  BY <1>1, <1>2, <1>3, <1>4, <1>5, <1>10 DEF MustInv
<1> HIDE DEF S
<1>12. SeenInv(walk') /\ CursorInv(walk') /\ MustInv(walk', must)
  BY <1>2, <1>3, <1>4, <1>6, <1>7, <1>8, <1>9, <1>10, <1>11, Extend
<1>13. SeenInv(walk)' /\ CursorInv(walk)' /\ MustInv(walk, must)'
  BY <1>1, <1>12 DEF SeenInv, CursorInv, MustInv, Has, Matches, CeilMillis, UnixMilli, Below
<1>14. TypeOK'
  BY <1>1, <1>2, <1>8 DEF TypeOK
<1> QED
  BY <1>1, <1>2, <1>13, <1>14 DEF IInv, RowsInv, Distinct, PruneInv

\* Every step, and stuttering.
LEMMA Inductive == IInv /\ [Next]_vars => IInv'
<1> SUFFICES ASSUME IInv, [Next]_vars PROVE IInv'
  OBVIOUS
<1>1. CASE \E id \in Ids : Finish(id)
  BY <1>1, FinishStep
<1>2. CASE \E r \in finished : InsertRequest(r) \/ InsertFails(r)
  BY <1>2, InsertStep, LossStep
<1>3. CASE Tick \/ StartPrune \/ PruneStops
  BY <1>3, PruneSteps
<1>4. CASE DeleteBatch
  BY <1>4, BatchStep
<1>5. CASE \E f \in ValidFilters : FirstPage(f) \/ NextPage(f)
  BY <1>5, FirstPageStep, NextPageStep
<1>6. CASE UNCHANGED vars
  <2>1. UNCHANGED <<now, unused, finished, rows, prune, walk, must>>
    BY <1>6 DEF vars
  <2>2. SeenInv(walk)' /\ CursorInv(walk)' /\ MustInv(walk, must)'
    BY <2>1, WalkFrame
  <2> QED
    BY <2>1, <2>2 DEF IInv, TypeOK, RowsInv, Distinct, PruneInv
<1> QED
  BY <1>1, <1>2, <1>3, <1>4, <1>5, <1>6 DEF Next

(***************************************************************************)
(* The theorems.                                                           *)
(***************************************************************************)
\* The inductive invariant holds in every state.
THEOREM Invariance == Spec => []IInv
  BY InitIInv, Inductive, PTL DEF Spec

\* A client that follows next_cursor (management/usage.go:222) sees every row that
\* stays, once and in order, however many rows come late or go meanwhile, and
\* whatever the size of the pages.
THEOREM WalksAreComplete == Spec => []WalkIsComplete
<1>1. IInv => WalkIsComplete
  <2> SUFFICES ASSUME IInv PROVE WalkIsComplete
    OBVIOUS
  <2>1. walk \in Walk /\ SeenInv(walk) /\ MustInv(walk, must)
    BY DEF IInv, TypeOK
  <2>2. DOMAIN walk.seen = 1..Len(walk.seen)
    BY <2>1, LenProperties DEF Walk
  <2>3. walk.state = "ended" => must \subseteq Range(walk.seen)
    BY <2>1, <2>2 DEF MustInv, Has, Range
  <2> QED
    BY <2>1, <2>3 DEF WalkIsComplete, SeenInv
<1> QED
  BY <1>1, Invariance, PTL

\* Rounding a bound up to a millisecond separates the stored times exactly.
LEMMA CeilSeparates ==
  ASSUME NEW t \in Int, NEW a \in Int
  PROVE  a < CeilMillis(t) <=> Milli * a < t
<1>1. PICK q \in Int, r \in 0..(Milli - 1) : t = Milli * q + r /\ q = t \div Milli /\ r = t % Milli
  BY UsageAssumption, Z3
<1>2. Milli \in Nat /\ Milli > 0
  BY UsageAssumption
<1>3. CeilMillis(t) = IF r = 0 THEN q ELSE q + 1
  BY <1>1 DEF CeilMillis, UnixMilli
<1>4. a < q => Milli * a + Milli <= Milli * q
  BY <1>1, <1>2, Z3
<1>5. a = q => Milli * a = Milli * q
  OBVIOUS
<1>6. a > q => Milli * a >= Milli * q + Milli
  BY <1>1, <1>2, Z3
<1>7. Milli * a \in Int /\ Milli * q \in Int
  BY <1>1, <1>2
<1> QED
  BY <1>1, <1>2, <1>3, <1>4, <1>5, <1>6, <1>7

\* The rows that requestWhere selects (storage/requests.go:151) are those whose stored
\* time lies in [from, to), although it compares whole milliseconds with bounds that
\* are finer: adjacent windows share no row and leave none out.
THEOREM WindowIsExact ==
  \A f \in Filters, r \in Row :
    Matches(r, f) <=> /\ f.from # Unbounded => f.from <= Milli * r.at
                      /\ f.to # Unbounded => Milli * r.at < f.to
                      /\ f.key \in {AnyKey, r.key}
<1> SUFFICES ASSUME NEW f \in Filters, NEW r \in Row
             PROVE  Matches(r, f) <=> /\ f.from # Unbounded => f.from <= Milli * r.at
                                      /\ f.to # Unbounded => Milli * r.at < f.to
                                      /\ f.key \in {AnyKey, r.key}
  OBVIOUS
<1>1. f.from \in Int /\ f.to \in Int /\ r.at \in Int
  <2>1. f.from \in Bounds \cup {Unbounded} /\ f.to \in Bounds \cup {Unbounded}
    BY DEF Filters
  <2>2. Unbounded \in Int /\ Bounds \subseteq Int
    BY UsageAssumption DEF Unbounded
  <2>3. r.at \in Int
    BY RowKey
  <2> QED
    BY <2>1, <2>2, <2>3
<1>2. Milli * r.at \in Int /\ CeilMillis(f.from) \in Int
  BY <1>1, UsageAssumption DEF CeilMillis, UnixMilli
<1>3. r.at >= CeilMillis(f.from) <=> f.from <= Milli * r.at
  <2>1. r.at < CeilMillis(f.from) <=> Milli * r.at < f.from
    BY <1>1, CeilSeparates
  <2> QED
    BY <1>1, <1>2, <2>1
<1>4. r.at < CeilMillis(f.to) <=> Milli * r.at < f.to
  BY <1>1, CeilSeparates
<1> QED
  BY <1>3, <1>4 DEF Matches

(***************************************************************************)
(* Sums. A sum of naturals is the size of a set of units, so that sums are *)
(* compared by mapping units to units.                                     *)
(***************************************************************************)
\* The units that the numbers v[x] count.
Units(v) == UNION {{x} \X (1..v[x]) : x \in DOMAIN v}

LEMMA UnitsOf ==
  ASSUME NEW v, NEW p
  PROVE  p \in Units(v) <=> \E x \in DOMAIN v : \E k \in 1..v[x] : p = <<x, k>>
  BY DEF Units

\* A bijection maps different elements to different ones, and reaches every one.
LEMMA BijectionMaps ==
  ASSUME NEW S, NEW T, NEW h \in Bijection(S, T)
  PROVE  /\ \A k \in S : h[k] \in T
         /\ \A k, l \in S : h[k] = h[l] => k = l
         /\ \A e \in T : \E k \in S : h[k] = e
<1>1. h \in [S -> T] /\ \A k, l \in DOMAIN h : h[k] = h[l] => k = l
  BY DEF Bijection, Injection, IsInjective
<1>2. \A e \in T : \E k \in S : h[k] = e
  BY DEF Bijection, Surjection
<1> QED
  BY <1>1, <1>2

\* The sizes of sets that have nothing in common add up to the size of their union.
LEMMA SizesAddUp ==
  ASSUME NEW X, NEW A, DOMAIN A = X, IsFiniteSet(UNION {A[x] : x \in X}),
         \A x, y \in X : x # y => A[x] \cap A[y] = {}
  PROVE  SumOf([x \in X |-> Cardinality(A[x])]) = Cardinality(UNION {A[x] : x \in X})
<1> DEFINE U == UNION {A[x] : x \in X}
           v == [x \in X |-> Cardinality(A[x])]
           b == [x \in X |-> CHOOSE h : h \in Bijection(1..v[x], A[x])]
           m == [p \in Units(v) |-> b[p[1]][p[2]]]
<1>1. \A x \in X : /\ A[x] \subseteq U /\ v[x] = Cardinality(A[x])
                   /\ b[x] = CHOOSE h : h \in Bijection(1..v[x], A[x])
  OBVIOUS
<1>2. \A x \in X : b[x] \in Bijection(1..v[x], A[x])
  <2> SUFFICES ASSUME NEW x \in X PROVE b[x] \in Bijection(1..v[x], A[x])
    OBVIOUS
  <2>1. IsFiniteSet(A[x])
    BY <1>1, FS_Subset
  <2>2. \E h : h \in Bijection(1..v[x], A[x])
    BY <1>1, <2>1, FS_CardinalityType DEF ExistsBijection
  <2> QED
    BY <1>1, <2>2
<1>3. DOMAIN v = X
  OBVIOUS
<1>4. \A p : p \in Units(v) <=> \E x \in X : \E k \in 1..v[x] : p = <<x, k>>
  BY <1>3, UnitsOf
<1>5. \A x \in X : \A k \in 1..v[x] : <<x, k>> \in Units(v) /\ m[<<x, k>>] = b[x][k]
  BY <1>4
<1>6. \A e : e \in U <=> \E x \in X : e \in A[x]
  OBVIOUS
<1> HIDE DEF U, v, b, m
<1>7. \A x \in X : /\ \A k \in 1..v[x] : b[x][k] \in A[x]
                   /\ \A k, l \in 1..v[x] : b[x][k] = b[x][l] => k = l
                   /\ \A e \in A[x] : \E k \in 1..v[x] : b[x][k] = e
  <2> SUFFICES ASSUME NEW x \in X
               PROVE  /\ \A k \in 1..v[x] : b[x][k] \in A[x]
                      /\ \A k, l \in 1..v[x] : b[x][k] = b[x][l] => k = l
                      /\ \A e \in A[x] : \E k \in 1..v[x] : b[x][k] = e
    OBVIOUS
  <2> DEFINE S == 1..v[x]
             h == b[x]
  <2>1. h \in Bijection(S, A[x])
    BY <1>2
  <2> HIDE DEF S, h
  <2>2. /\ \A k \in S : h[k] \in A[x]
        /\ \A k, l \in S : h[k] = h[l] => k = l
        /\ \A e \in A[x] : \E k \in S : h[k] = e
    BY <2>1, BijectionMaps
  <2> QED
    BY <2>2 DEF S, h
<1>8. m \in [Units(v) -> U]
  <2>1. \A p \in Units(v) : m[p] \in U
    BY <1>4, <1>5, <1>6, <1>7
  <2> QED
    BY <2>1 DEF m
<1>9. \A p, q \in Units(v) : m[p] = m[q] => p = q
  <2> SUFFICES ASSUME NEW p \in Units(v), NEW q \in Units(v), m[p] = m[q] PROVE p = q
    OBVIOUS
  <2>1. PICK x \in X : \E k \in 1..v[x] : p = <<x, k>>
    BY <1>4
  <2>2. PICK k \in 1..v[x] : p = <<x, k>>
    BY <2>1
  <2>3. PICK y \in X : \E l \in 1..v[y] : q = <<y, l>>
    BY <1>4
  <2>4. PICK l \in 1..v[y] : q = <<y, l>>
    BY <2>3
  <2>5. m[p] = b[x][k] /\ m[q] = b[y][l]
    BY <1>5, <2>2, <2>4
  <2>6. m[p] \in A[x] /\ m[q] \in A[y]
    BY <1>7, <2>5
  <2>7. x = y
    BY <2>6
  <2> QED
    BY <1>7, <2>2, <2>4, <2>5, <2>7
<1>10. \A e \in U : \E p \in Units(v) : m[p] = e
  <2> SUFFICES ASSUME NEW e \in U PROVE \E p \in Units(v) : m[p] = e
    OBVIOUS
  <2>1. PICK x \in X : e \in A[x]
    BY <1>6
  <2>2. PICK k \in 1..v[x] : b[x][k] = e
    BY <1>7, <2>1
  <2> QED
    BY <1>5, <2>2
<1>11. m \in Bijection(Units(v), U)
  BY <1>8, <1>9, <1>10 DEF Bijection, Injection, Surjection, IsInjective
<1>12. IsFiniteSet(Units(v)) /\ Cardinality(Units(v)) = Cardinality(U)
  <2>1. IsFiniteSet(Units(v)) /\ Cardinality(Units(v)) <= Cardinality(U)
    BY <1>11, FS_Injection DEF Bijection, U
  <2>2. ExistsBijection(Units(v), U)
    BY <1>11 DEF ExistsBijection
  <2> QED
    BY <2>1, <2>2, FS_Bijection
<1> QED
  BY <1>12 DEF SumOf, Units, U, v

\* Finitely many numbers count finitely many units.
LEMMA UnitsFinite ==
  ASSUME NEW v, IsFiniteSet(DOMAIN v), \A x \in DOMAIN v : v[x] \in Nat
  PROVE  IsFiniteSet(Units(v))
<1> DEFINE D == DOMAIN v
           part == [x \in D |-> {x} \X (1..v[x])]
           all == {part[x] : x \in D}
<1>1. part \in Surjection(D, all)
  BY DEF Surjection
<1>2. \A T \in all : IsFiniteSet(T)
  <2> SUFFICES ASSUME NEW x \in D PROVE IsFiniteSet({x} \X (1..v[x]))
    OBVIOUS
  <2>1. IsFiniteSet({x})
    BY FS_Singleton
  <2>2. v[x] \in Nat
    OBVIOUS
  <2>3. IsFiniteSet(1..v[x])
    BY <2>2, FS_Interval
  <2> QED
    BY <2>1, <2>3, FS_Product
<1>3. UNION all = Units(v)
  BY DEF Units
<1> HIDE DEF part, all
<1>4. IsFiniteSet(all)
  BY <1>1, FS_Surjection
<1> QED
  BY <1>2, <1>3, <1>4, FS_UNION

\* What SUM says of a column w, and which rows it counts.
Counts(w) == [r \in {s \in DOMAIN w : w[s] # Unknown} |-> w[r]]

LEMMA SumCounts ==
  ASSUME NEW w, IsFiniteSet(DOMAIN w), \A r \in DOMAIN w : w[r] \in Nat \cup {Unknown}
  PROVE  /\ IsFiniteSet(Units(Counts(w))) /\ Cardinality(Units(Counts(w))) \in Nat
         /\ NullableSum(w) = IF \A r \in DOMAIN w : w[r] = Unknown
                             THEN Unknown ELSE Cardinality(Units(Counts(w)))
         /\ NullableSum(w) = Unknown <=> \A r \in DOMAIN w : w[r] = Unknown
         /\ \A p : p \in Units(Counts(w)) <=>
              \E r \in DOMAIN w : w[r] # Unknown /\ \E k \in 1..w[r] : p = <<r, k>>
<1> DEFINE known == {s \in DOMAIN w : w[s] # Unknown}
           c == Counts(w)
<1>1. DOMAIN c = known /\ \A r \in known : c[r] = w[r] /\ c[r] \in Nat
  BY DEF Counts
<1>2. IsFiniteSet(DOMAIN c)
  <2>1. known \subseteq DOMAIN w
    OBVIOUS
  <2> HIDE DEF known
  <2> QED
    BY <1>1, <2>1, FS_Subset
<1>3. c = [x \in known |-> w[x]]
  BY DEF Counts
<1>4. NullableSum(w) = IF known = {} THEN Unknown ELSE SumOf(c)
  BY <1>3 DEF NullableSum
<1> HIDE DEF c
<1>5. IsFiniteSet(Units(c))
  BY <1>1, <1>2, UnitsFinite
<1>6. Cardinality(Units(c)) \in Nat /\ SumOf(c) = Cardinality(Units(c))
  BY <1>5, FS_CardinalityType DEF SumOf, Units
<1>7. known = {} <=> \A r \in DOMAIN w : w[r] = Unknown
  OBVIOUS
<1>8. Cardinality(Units(c)) # Unknown
  BY <1>6 DEF Unknown
<1>9. \A p : p \in Units(c) <=> \E r \in DOMAIN w : w[r] # Unknown /\ \E k \in 1..w[r] : p = <<r, k>>
  <2>1. \A p : p \in Units(c) <=> \E r \in known : \E k \in 1..c[r] : p = <<r, k>>
    BY <1>1, UnitsOf
  <2>2. \A p : (\E r \in known : \E k \in 1..c[r] : p = <<r, k>>)
               <=> \E r \in known : \E k \in 1..w[r] : p = <<r, k>>
    BY <1>1
  <2> QED
    BY <2>1, <2>2
<1> QED
  BY <1>4, <1>5, <1>6, <1>7, <1>8, <1>9 DEF c

\* SUM of the sums of groups that have nothing in common is the SUM of all their rows.
LEMMA SumsAddUp ==
  ASSUME NEW w, IsFiniteSet(DOMAIN w), \A r \in DOMAIN w : w[r] \in Nat \cup {Unknown},
         NEW A, UNION {A[x] : x \in DOMAIN A} = DOMAIN w,
         \A x, y \in DOMAIN A : x # y => A[x] \cap A[y] = {}
  PROVE  NullableSum([x \in DOMAIN A |-> NullableSum([r \in A[x] |-> w[r]])]) = NullableSum(w)
<1> DEFINE X == DOMAIN A
           part == [x \in X |-> [r \in A[x] |-> w[r]]]
           t == [x \in X |-> NullableSum(part[x])]
           known == {x \in X : t[x] # Unknown}
           B == [x \in known |-> Units(Counts(part[x]))]
           U == UNION {B[x] : x \in known}
<1>1. \A x \in X : /\ A[x] \subseteq DOMAIN w /\ DOMAIN part[x] = A[x]
                   /\ \A r \in A[x] : part[x][r] = w[r]
                   /\ t[x] = NullableSum(part[x])
  OBVIOUS
<1>2. \A e : e \in DOMAIN w <=> \E x \in X : e \in A[x]
  OBVIOUS
<1>3. t = [x \in DOMAIN A |-> NullableSum([r \in A[x] |-> w[r]])] /\ DOMAIN t = X
  OBVIOUS
<1>4. DOMAIN B = known /\ known \subseteq X /\ \A x \in known : B[x] = Units(Counts(part[x]))
  OBVIOUS
<1>5. \A e : e \in U <=> \E x \in known : e \in B[x]
  OBVIOUS
<1>6. \A x \in X : x \in known <=> t[x] # Unknown
  OBVIOUS
<1>7. NullableSum(t) = IF known = {} THEN Unknown ELSE SumOf([x \in known |-> t[x]])
  BY <1>3 DEF NullableSum
<1> HIDE DEF X, part, t, known, B, U
<1>8. \A x \in X : /\ t[x] = IF \A r \in A[x] : w[r] = Unknown
                             THEN Unknown ELSE Cardinality(Units(Counts(part[x])))
                   /\ t[x] = Unknown <=> \A r \in A[x] : w[r] = Unknown
                   /\ \A p : p \in Units(Counts(part[x])) <=>
                        \E r \in A[x] : w[r] # Unknown /\ \E k \in 1..w[r] : p = <<r, k>>
  <2> SUFFICES ASSUME NEW x \in X
               PROVE  /\ t[x] = IF \A r \in A[x] : w[r] = Unknown
                             THEN Unknown ELSE Cardinality(Units(Counts(part[x])))
                      /\ t[x] = Unknown <=> \A r \in A[x] : w[r] = Unknown
                      /\ \A p : p \in Units(Counts(part[x])) <=>
                           \E r \in A[x] : w[r] # Unknown /\ \E k \in 1..w[r] : p = <<r, k>>
    OBVIOUS
  <2> DEFINE q == part[x]
  <2>1. IsFiniteSet(A[x])
    BY <1>1, FS_Subset
  <2>2. DOMAIN q = A[x] /\ (\A r \in A[x] : q[r] = w[r] /\ q[r] \in Nat \cup {Unknown}) /\ t[x] = NullableSum(q)
    BY <1>1
  <2> HIDE DEF q
  <2>3. /\ NullableSum(q) = IF \A r \in DOMAIN q : q[r] = Unknown
                             THEN Unknown ELSE Cardinality(Units(Counts(q)))
        /\ NullableSum(q) = Unknown <=> \A r \in DOMAIN q : q[r] = Unknown
        /\ \A p : p \in Units(Counts(q)) <=>
              \E r \in DOMAIN q : q[r] # Unknown /\ \E k \in 1..q[r] : p = <<r, k>>
    BY <2>1, <2>2, SumCounts
  <2>4. (\A r \in DOMAIN q : q[r] = Unknown) <=> \A r \in A[x] : w[r] = Unknown
    BY <2>2
  <2>5. \A p : (\E r \in DOMAIN q : q[r] # Unknown /\ \E k \in 1..q[r] : p = <<r, k>>)
               <=> \E r \in A[x] : w[r] # Unknown /\ \E k \in 1..w[r] : p = <<r, k>>
    BY <2>2
  <2>6. NullableSum(q) = IF \A r \in A[x] : w[r] = Unknown THEN Unknown ELSE Cardinality(Units(Counts(q)))
    BY <2>3, <2>4
  <2>7. \A p : p \in Units(Counts(q)) <=>
              \E r \in A[x] : w[r] # Unknown /\ \E k \in 1..w[r] : p = <<r, k>>
    BY <2>3, <2>5
  <2> QED
    BY <2>2, <2>3, <2>4, <2>6, <2>7 DEF q
<1>9. /\ IsFiniteSet(Units(Counts(w)))
      /\ NullableSum(w) = IF \A r \in DOMAIN w : w[r] = Unknown
                          THEN Unknown ELSE Cardinality(Units(Counts(w)))
      /\ \A p : p \in Units(Counts(w)) <=>
           \E r \in DOMAIN w : w[r] # Unknown /\ \E k \in 1..w[r] : p = <<r, k>>
  BY SumCounts
<1>10. (\A r \in DOMAIN w : w[r] = Unknown) <=> known = {}
  BY <1>2, <1>4, <1>6, <1>8
<1>11. \A x \in known : t[x] = Cardinality(B[x])
  BY <1>4, <1>6, <1>8
<1>12. U = Units(Counts(w))
  <2>1. ASSUME NEW p \in U PROVE p \in Units(Counts(w))
    BY <1>1, <1>4, <1>5, <1>8, <1>9
  <2>2. ASSUME NEW p \in Units(Counts(w)) PROVE p \in U
    <3>1. PICK r \in DOMAIN w : w[r] # Unknown /\ \E k \in 1..w[r] : p = <<r, k>>
      BY <1>9
    <3>2. PICK x \in X : r \in A[x]
      BY <1>2
    <3>3. x \in known
      BY <1>6, <1>8, <3>1, <3>2
    <3>4. p \in B[x]
      BY <1>4, <1>8, <3>1, <3>2, <3>3
    <3> QED
      BY <1>5, <3>3, <3>4
  <2> QED
    BY <2>1, <2>2
<1>13. \A x, y \in known : x # y => B[x] \cap B[y] = {}
  <2> SUFFICES ASSUME NEW x \in known, NEW y \in known, x # y, NEW p, p \in B[x], p \in B[y]
               PROVE  FALSE
    OBVIOUS
  <2>1. PICK r \in A[x] : \E k \in 1..w[r] : p = <<r, k>>
    BY <1>4, <1>8
  <2>2. PICK s \in A[y] : \E k \in 1..w[s] : p = <<s, k>>
    BY <1>4, <1>8
  <2>3. r = s
    BY <2>1, <2>2
  <2> QED
    BY <1>4, <2>3 DEF X
<1>14. SumOf([x \in known |-> t[x]]) = Cardinality(Units(Counts(w)))
  <2>1. [x \in known |-> t[x]] = [x \in known |-> Cardinality(B[x])]
    BY <1>11
  <2>2. IsFiniteSet(UNION {B[x] : x \in known}) /\ UNION {B[x] : x \in known} = Units(Counts(w))
    BY <1>9, <1>12 DEF U
  <2>3. SumOf([x \in known |-> Cardinality(B[x])]) = Cardinality(UNION {B[x] : x \in known})
    BY <1>4, <1>13, <2>2, SizesAddUp
  <2> QED
    BY <2>1, <2>2, <2>3
<1>15. NullableSum(t) = NullableSum(w)
  BY <1>7, <1>9, <1>10, <1>14
<1> QED
  BY <1>3, <1>15

(***************************************************************************)
(* The report.                                                             *)
(***************************************************************************)
\* Token counts are naturals or not known.
LEMMA RowTokens == \A r \in Row : {r.input, r.output} \subseteq Nat \cup {Unknown}
<1> SUFFICES ASSUME NEW r \in Row PROVE {r.input, r.output} \subseteq Nat \cup {Unknown}
  OBVIOUS
<1>1. PICK i \in Ids : r.input = Profile[i].input
  BY DEF Row
<1>2. PICK j \in Ids : r.output = Profile[j].output
  BY DEF Row
<1> QED
  BY <1>1, <1>2, UsageAssumption

\* The rows with the dimensions d, and how the lines of the inner query for d split them.
Part(S, groups, d) == {r \in S : Dims(r, groups) = d}
LinesOf(S, groups, d) == {x \in PerResult(S, groups) : x.dims = d}
SplitOf(S, groups, d) ==
  [x \in LinesOf(S, groups, d) |-> {r \in Part(S, groups, d) : r.result = x.result}]

\* A line of the inner query comes from a row.
LEMMA LineOfRow ==
  ASSUME NEW S, NEW groups, NEW d, NEW x \in LinesOf(S, groups, d)
  PROVE  \E q \in Part(S, groups, d) : x.result = q.result /\ x = Line(S, groups, q)
<1>1. PICK q \in S : x = Line(S, groups, q)
  BY DEF LinesOf, PerResult
<1>2. x.dims = Dims(q, groups) /\ x.result = q.result
  BY <1>1 DEF Line
<1>3. q \in Part(S, groups, d)
  BY <1>2 DEF LinesOf, Part
<1> QED
  BY <1>1, <1>2, <1>3

\* It is about the rows of one result.
LEMMA LineOfResult ==
  ASSUME NEW S, NEW groups, NEW d, NEW x \in LinesOf(S, groups, d)
  PROVE  LET A == SplitOf(S, groups, d)[x]
         IN /\ x.n = Cardinality(A)
            /\ x.i = NullableSum([r \in A |-> r.input])
            /\ x.o = NullableSum([r \in A |-> r.output])
            /\ x.u = Cardinality({r \in A : Unknown \in {r.input, r.output}})
<1> DEFINE A == SplitOf(S, groups, d)[x]
<1>1. PICK q \in Part(S, groups, d) : x = Line(S, groups, q)
  BY LineOfRow
<1> DEFINE g == Alike(S, groups, q)
<1>2. /\ x.dims = Dims(q, groups) /\ x.result = q.result /\ x.n = Cardinality(g)
      /\ x.i = NullableSum([r \in g |-> r.input]) /\ x.o = NullableSum([r \in g |-> r.output])
      /\ x.u = Cardinality({r \in g : Unknown \in {r.input, r.output}})
  BY <1>1 DEF Line
<1>3. x.dims = d
  BY DEF LinesOf
<1>5. A = {r \in Part(S, groups, d) : r.result = x.result}
  BY DEF SplitOf
<1>6. A = g
  BY <1>2, <1>3, <1>5 DEF Alike, Part
<1> QED
  BY <1>2, <1>6

\* There is one line per result, so the lines split the rows.
LEMMA LinesSplit ==
  ASSUME NEW S, NEW groups, NEW d
  PROVE  LET A == SplitOf(S, groups, d)
         IN /\ DOMAIN A = LinesOf(S, groups, d)
            /\ \A x \in DOMAIN A : A[x] = {r \in Part(S, groups, d) : r.result = x.result}
            /\ \A x, y \in DOMAIN A : x.result = y.result => x = y
            /\ \A x, y \in DOMAIN A : x # y => A[x] \cap A[y] = {}
            /\ \A r \in Part(S, groups, d) : \E x \in DOMAIN A : x.result = r.result
            /\ UNION {A[x] : x \in DOMAIN A} = Part(S, groups, d)
<1> DEFINE A == SplitOf(S, groups, d)
           P == Part(S, groups, d)
<1>1. DOMAIN A = LinesOf(S, groups, d) /\ \A x \in DOMAIN A : A[x] = {r \in P : r.result = x.result}
  BY DEF SplitOf
<1>2. ASSUME NEW x \in DOMAIN A, NEW y \in DOMAIN A, x.result = y.result PROVE x = y
  <2>1. PICK q \in P : x.result = q.result /\ x = Line(S, groups, q)
    BY <1>1, LineOfRow
  <2>2. PICK p \in P : y.result = p.result /\ y = Line(S, groups, p)
    BY <1>1, LineOfRow
  <2>3. Dims(q, groups) = Dims(p, groups) /\ q.result = p.result
    BY <1>2, <2>1, <2>2 DEF Part
  <2>4. Alike(S, groups, q) = Alike(S, groups, p)
    BY <2>3 DEF Alike
  <2> QED
    BY <2>1, <2>2, <2>3, <2>4 DEF Line
<1>3. ASSUME NEW r \in P PROVE \E x \in DOMAIN A : x.result = r.result
  <2>1. r \in S /\ Dims(r, groups) = d
    BY DEF Part
  <2>2. Line(S, groups, r) \in PerResult(S, groups)
    BY <2>1 DEF PerResult
  <2>3. Line(S, groups, r).dims = d /\ Line(S, groups, r).result = r.result
    BY <2>1 DEF Line
  <2> QED
    BY <1>1, <2>2, <2>3 DEF LinesOf
<1> HIDE DEF A, P
<1>4. \A x, y \in DOMAIN A : x # y => A[x] \cap A[y] = {}
  BY <1>1, <1>2
<1>5. UNION {A[x] : x \in DOMAIN A} = P
  BY <1>1, <1>3
<1> QED
  BY <1>1, <1>2, <1>3, <1>4, <1>5 DEF A, P

\* Counting per result and then adding up is counting.
LEMMA NumbersAddUp ==
  ASSUME NEW S, IsFiniteSet(S), NEW groups, NEW d, NEW marked
  PROVE  LET A == SplitOf(S, groups, d)
         IN SumOf([x \in DOMAIN A |-> Cardinality(A[x] \cap marked)]) = Cardinality(Part(S, groups, d) \cap marked)
<1> DEFINE A == SplitOf(S, groups, d)
           B == [x \in DOMAIN A |-> A[x] \cap marked]
           P == Part(S, groups, d)
<1>1. /\ \A x, y \in DOMAIN A : x # y => A[x] \cap A[y] = {}
      /\ UNION {A[x] : x \in DOMAIN A} = P
  BY LinesSplit
<1>2. P \subseteq S
  BY DEF Part
<1> HIDE DEF A, P
<1>3. DOMAIN B = DOMAIN A /\ \A x \in DOMAIN A : B[x] = A[x] \cap marked
  OBVIOUS
<1>4. UNION {B[x] : x \in DOMAIN A} = P \cap marked
  BY <1>1, <1>3
<1>5. IsFiniteSet(P \cap marked)
  BY <1>2, FS_Subset, FS_Intersection
<1>6. \A x, y \in DOMAIN A : x # y => B[x] \cap B[y] = {}
  BY <1>1, <1>3
<1>7. [x \in DOMAIN A |-> Cardinality(B[x])] = [x \in DOMAIN A |-> Cardinality(A[x] \cap marked)]
  BY <1>3
<1> HIDE DEF B
<1>8. SumOf([x \in DOMAIN A |-> Cardinality(B[x])]) = Cardinality(UNION {B[x] : x \in DOMAIN A})
  <2>1. IsFiniteSet(UNION {B[x] : x \in DOMAIN A})
    BY <1>4, <1>5
  <2> DEFINE X == DOMAIN A
  <2>2. DOMAIN B = X /\ \A x, y \in X : x # y => B[x] \cap B[y] = {}
    BY <1>3, <1>6
  <2> HIDE DEF X
  <2>3. IsFiniteSet(UNION {B[x] : x \in X})
    BY <2>1 DEF X
  <2>4. SumOf([x \in X |-> Cardinality(B[x])]) = Cardinality(UNION {B[x] : x \in X})
    BY <2>2, <2>3, SizesAddUp
  <2> QED
    BY <2>4 DEF X
<1> QED
  BY <1>4, <1>7, <1>8 DEF A, P

\* Adding up tokens per result and then the sums is adding up tokens, for either column.
LEMMA TokensAddUp ==
  ASSUME NEW S, IsFiniteSet(S), NEW groups, NEW d, NEW col,
         DOMAIN col = S, \A r \in S : col[r] \in Nat \cup {Unknown}
  PROVE  LET A == SplitOf(S, groups, d)
             P == Part(S, groups, d)
         IN NullableSum([x \in DOMAIN A |-> NullableSum([r \in A[x] |-> col[r]])]) = NullableSum([r \in P |-> col[r]])
<1> DEFINE A == SplitOf(S, groups, d)
           P == Part(S, groups, d)
           w == [r \in P |-> col[r]]
<1>1. /\ \A x, y \in DOMAIN A : x # y => A[x] \cap A[y] = {}
      /\ UNION {A[x] : x \in DOMAIN A} = P
  BY LinesSplit
<1>2. P \subseteq S
  BY DEF Part
<1> HIDE DEF A, P
<1>3. DOMAIN w = P /\ \A r \in P : w[r] = col[r] /\ w[r] \in Nat \cup {Unknown}
  BY <1>2
<1>4. IsFiniteSet(P)
  BY <1>2, FS_Subset
<1>5. [x \in DOMAIN A |-> NullableSum([r \in A[x] |-> w[r]])] = [x \in DOMAIN A |-> NullableSum([r \in A[x] |-> col[r]])]
  <2>1. \A x \in DOMAIN A : [r \in A[x] |-> w[r]] = [r \in A[x] |-> col[r]]
    BY <1>1, <1>3
  <2> QED
    BY <2>1
<1> HIDE DEF w
<1>6. NullableSum([x \in DOMAIN A |-> NullableSum([r \in A[x] |-> w[r]])]) = NullableSum(w)
  BY <1>1, <1>3, <1>4, SumsAddUp
<1> QED
  BY <1>5, <1>6 DEF A, P, w

\* What the outer query says of the dimensions d is what the rows say, each counted once.
LEMMA CombinedIsCounted ==
  ASSUME NEW S \in SUBSET Row, IsFiniteSet(S), NEW groups, NEW d
  PROVE  Combined(PerResult(S, groups), d) = Counted(S, groups, d)
<1> DEFINE A == SplitOf(S, groups, d)
           P == Part(S, groups, d)
           L == LinesOf(S, groups, d)
           Blank(r) == Unknown \in {r.input, r.output}
<1>1. /\ DOMAIN A = L
      /\ \A x \in L : A[x] = {r \in P : r.result = x.result}
      /\ \A x, y \in L : x.result = y.result => x = y
      /\ \A r \in P : \E x \in L : x.result = r.result
  BY LinesSplit
<1>2. \A x \in L : /\ x.n = Cardinality(A[x])
                   /\ x.i = NullableSum([r \in A[x] |-> r.input])
                   /\ x.o = NullableSum([r \in A[x] |-> r.output])
                   /\ x.u = Cardinality({r \in A[x] : Blank(r)})
  BY LineOfResult
<1>3. \A x \in L : x.n = Cardinality(A[x])
  BY ONLY <1>2
<1>4. \A x \in L : x.i = NullableSum([r \in A[x] |-> r.input])
  BY ONLY <1>2
<1>5. \A x \in L : x.o = NullableSum([r \in A[x] |-> r.output])
  BY ONLY <1>2
<1>6. \A x \in L : x.u = Cardinality({r \in A[x] : Blank(r)})
  BY ONLY <1>2
<1>7. DOMAIN A = L
  BY <1>1
<1>8. \A x \in L : \E q \in P : x.result = q.result
  BY LineOfRow
<1>9. P \subseteq S
  BY DEF Part
<1>10. SumOf([x \in L |-> x.n]) = Cardinality(P)
  <2>1. SumOf([x \in DOMAIN A |-> Cardinality(A[x] \cap P)]) = Cardinality(P \cap P)
    BY NumbersAddUp
  <2> HIDE DEF A, P, L
  <2>2. \A x \in L : A[x] \cap P = A[x]
    BY <1>1
  <2>3. [x \in DOMAIN A |-> Cardinality(A[x] \cap P)] = [x \in L |-> x.n]
    <3>1. \A x \in L : Cardinality(A[x] \cap P) = x.n
      BY <1>3, <2>2
    <3> QED
      BY <1>7, <3>1
  <2>4. P \cap P = P
    OBVIOUS
  <2> QED
    BY <2>1, <2>3, <2>4
<1>11. SumOf([x \in L |-> x.u]) = Cardinality({r \in P : Blank(r)})
  <2> DEFINE M == {r \in P : Blank(r)}
  <2> HIDE DEF M
  <2>1. SumOf([x \in DOMAIN A |-> Cardinality(A[x] \cap M)]) = Cardinality(P \cap M)
    BY NumbersAddUp
  <2> HIDE DEF A, P, L, Blank
  <2> USE DEF M
  <2>2. \A x \in L : A[x] \cap M = {r \in A[x] : Blank(r)}
    BY <1>1
  <2>3. [x \in DOMAIN A |-> Cardinality(A[x] \cap M)] = [x \in L |-> x.u]
    <3>1. \A x \in L : Cardinality(A[x] \cap M) = x.u
      BY <1>6, <2>2
    <3> HIDE DEF M
    <3> QED
      BY <1>7, <3>1
  <2>4. P \cap M = M
    OBVIOUS
  <2> QED
    BY <2>1, <2>3, <2>4
<1>12. NullableSum([x \in L |-> x.i]) = NullableSum([r \in P |-> r.input])
  <2> DEFINE col == [r \in S |-> r.input]
  <2>1. DOMAIN col = S /\ \A r \in S : col[r] = r.input /\ col[r] \in Nat \cup {Unknown}
    BY RowTokens
  <2> HIDE DEF col
  <2>2. NullableSum([x \in DOMAIN A |-> NullableSum([r \in A[x] |-> col[r]])]) = NullableSum([r \in P |-> col[r]])
    BY <2>1, TokensAddUp
  <2> HIDE DEF A, P, L
  <2>3. \A x \in L : [r \in A[x] |-> col[r]] = [r \in A[x] |-> r.input]
    BY <1>1, <1>9, <2>1
  <2>4. [x \in DOMAIN A |-> NullableSum([r \in A[x] |-> col[r]])] = [x \in L |-> x.i]
    <3>1. \A x \in L : NullableSum([r \in A[x] |-> col[r]]) = x.i
      BY <1>4, <2>3
    <3> QED
      BY <1>7, <3>1
  <2>5. [r \in P |-> col[r]] = [r \in P |-> r.input]
    BY <1>9, <2>1
  <2> QED
    BY <2>2, <2>4, <2>5
<1>13. NullableSum([x \in L |-> x.o]) = NullableSum([r \in P |-> r.output])
  <2> DEFINE col == [r \in S |-> r.output]
  <2>1. DOMAIN col = S /\ \A r \in S : col[r] = r.output /\ col[r] \in Nat \cup {Unknown}
    BY RowTokens
  <2> HIDE DEF col
  <2>2. NullableSum([x \in DOMAIN A |-> NullableSum([r \in A[x] |-> col[r]])]) = NullableSum([r \in P |-> col[r]])
    BY <2>1, TokensAddUp
  <2> HIDE DEF A, P, L
  <2>3. \A x \in L : [r \in A[x] |-> col[r]] = [r \in A[x] |-> r.output]
    BY <1>1, <1>9, <2>1
  <2>4. [x \in DOMAIN A |-> NullableSum([r \in A[x] |-> col[r]])] = [x \in L |-> x.o]
    <3>1. \A x \in L : NullableSum([r \in A[x] |-> col[r]]) = x.o
      BY <1>5, <2>3
    <3> QED
      BY <1>7, <3>1
  <2>5. [r \in P |-> col[r]] = [r \in P |-> r.output]
    BY <1>9, <2>1
  <2> QED
    BY <2>2, <2>4, <2>5
<1> HIDE DEF A
<1>14. [res \in {x.result : x \in L} |-> (CHOOSE x \in L : x.result = res).n]
        = [res \in {r.result : r \in P} |-> Cardinality({r \in P : r.result = res})]
  <2> HIDE DEF P, L
  <2>1. {x.result : x \in L} = {r.result : r \in P}
    BY <1>1, <1>8
  <2>2. ASSUME NEW x \in L PROVE (CHOOSE y \in L : y.result = x.result).n = Cardinality({r \in P : r.result = x.result})
    <3>1. (CHOOSE y \in L : y.result = x.result) = x
      BY <1>1
    <3>2. x.n = Cardinality(A[x]) /\ A[x] = {r \in P : r.result = x.result}
      BY <1>1, <1>3
    <3> QED
      BY <3>1, <3>2
  <2>3. \A res \in {x.result : x \in L} : (CHOOSE y \in L : y.result = res).n = Cardinality({r \in P : r.result = res})
    BY <2>2
  <2> DEFINE D == {x.result : x \in L}
             count(res) == Cardinality({r \in P : r.result = res})
             say(res) == (CHOOSE y \in L : y.result = res).n
  <2>4. \A res \in D : say(res) = count(res)
    BY <2>3
  <2>5. D = {r.result : r \in P}
    BY <2>1
  <2> HIDE DEF D, count, say
  <2>6. [res \in D |-> say(res)] = [res \in {r.result : r \in P} |-> count(res)]
    BY <2>4, <2>5
  <2> QED
    BY <2>6 DEF D, count, say
<1>15. L = {x \in PerResult(S, groups) : x.dims = d} /\ P = {r \in S : Dims(r, groups) = d}
  BY DEF LinesOf, Part
<1>16. Combined(PerResult(S, groups), d) =
         [dims |-> d, requests |-> SumOf([x \in L |-> x.n]),
          results |-> [res \in {x.result : x \in L} |-> (CHOOSE x \in L : x.result = res).n],
          input |-> NullableSum([x \in L |-> x.i]), output |-> NullableSum([x \in L |-> x.o]),
          unknown |-> SumOf([x \in L |-> x.u])]
  BY <1>15 DEF Combined
<1>17. Counted(S, groups, d) =
         [dims |-> d, requests |-> Cardinality(P),
          results |-> [res \in {r.result : r \in P} |-> Cardinality({r \in P : r.result = res})],
          input |-> NullableSum([r \in P |-> r.input]), output |-> NullableSum([r \in P |-> r.output]),
          unknown |-> Cardinality({r \in P : Blank(r)})]
  BY <1>15 DEF Counted
<1> HIDE DEF L, P, Blank
<1> QED
  BY <1>10, <1>11, <1>12, <1>13, <1>14, <1>16, <1>17

\* The usage report (storage/requests.go:182) counts every stored row of its window once,
\* in the group of its dimensions, and its known tokens once, however many rows, keys,
\* accounts and results there are: the two levels of grouping and the rounding of the
\* bounds lose nothing and count nothing twice.
THEOREM ReportsAreExact == Spec => []SummaryIsExact
<1>1. IInv => SummaryIsExact
  <2> SUFFICES ASSUME IInv, NEW f \in ValidFilters, NEW groups
               PROVE  SummarizeUsage(f, groups) =
                        {Counted(Window(f), groups, d) : d \in {Dims(r, groups) : r \in Window(f)}}
    BY DEF SummaryIsExact
  <2> DEFINE S == Window(f)
             inner == PerResult(S, groups)
  <2>1. IsFiniteSet(rows) /\ rows \subseteq Row
    BY DEF IInv, TypeOK, RowsInv, Table
  <2>2. f \in Filters
    BY DEF ValidFilters
  <2>3. {r \in rows : Matches(r, f)} = S
    BY <2>1, <2>2, WindowIsExact DEF Window
  <2>4. S \in SUBSET Row /\ IsFiniteSet(S)
    BY <2>1, FS_Subset DEF Window
  <2> HIDE DEF S
  <2>5. SummarizeUsage(f, groups) = {Combined(inner, x.dims) : x \in inner}
    BY <2>3 DEF SummarizeUsage
  <2>6. {x.dims : x \in inner} = {Dims(r, groups) : r \in S}
    <3>1. \A q \in S : Line(S, groups, q).dims = Dims(q, groups)
      BY DEF Line
    <3>2. {x.dims : x \in inner} = {Line(S, groups, q).dims : q \in S}
      BY DEF PerResult
    <3> QED
      BY <3>1, <3>2
  <2>7. \A d : Combined(inner, d) = Counted(S, groups, d)
    BY <2>4, CombinedIsCounted
  <2> HIDE DEF inner
  <2>8. {Combined(inner, x.dims) : x \in inner} = {Counted(S, groups, d) : d \in {x.dims : x \in inner}}
    BY <2>7
  <2> QED
    BY <2>5, <2>6, <2>8 DEF S
<1> QED
  BY <1>1, Invariance, PTL

\* No batch deletes a row that is younger than the retention time (app/retention.go:20),
\* whatever the size of the batches and however long they run.
THEOREM RetentionIsKept == Spec => RetentionKeepsRecent
<1>1. ASSUME IInv, [Next]_vars
      PROVE  [\A r \in rows \ rows' : Milli * r.at < now - Retention]_vars
  <2> SUFFICES ASSUME Next, NEW r \in rows, r \notin rows' PROVE Milli * r.at < now - Retention
    BY <1>1 DEF vars
  <2>1. DeleteBatch
    BY DEF Next, Finish, InsertRequest, InsertFails, Tick, StartPrune, PruneStops, FirstPage, NextPage
  <2>2. Old(r) /\ prune # Unbounded
    BY <2>1, BatchTakes
  <2>3. /\ r.at \in Int /\ prune \in Nat /\ prune <= now - Retention
        /\ now \in Nat /\ Retention \in Nat /\ Milli * r.at \in Int
    <3>1. r \in Row /\ prune \in Nat /\ prune <= now - Retention /\ now \in Nat
      BY <1>1, <2>2 DEF IInv, TypeOK, PruneInv
    <3>2. r.at \in Nat
      BY <3>1, RowKey
    <3> QED
      BY <3>1, <3>2, UsageAssumption
  <2>4. Milli * r.at < prune
    BY <2>2, <2>3, CeilSeparates DEF Old
  <2> QED
    BY <2>3, <2>4
<1> QED
  BY <1>1, Invariance, PTL DEF Spec, RetentionKeepsRecent
=============================================================================
