---------------------------- MODULE AgendaProofs ----------------------------
(***************************************************************************)
(* Agendas are numbered lists of their own appearances, what was skipped   *)
(* stays off the schedule and what people have settled stays, for any      *)
(* number of browsers, Meetings, Topics and sections and any interleaving  *)
(* of their requests.                                                      *)
(***************************************************************************)
EXTENDS Agenda, FiniteSetTheorems, FunctionTheorems, SequenceTheorems, TLAPS
-----------------------------------------------------------------------------
(* Ranks in a strict total order, given as the set of its pairs *)

TotalOrder(S, R) ==
    /\ \A x \in S : <<x, x>> \notin R
    /\ \A x, y \in S : x = y \/ <<x, y>> \in R \/ <<y, x>> \in R
    /\ \A x, y, z \in S : <<x, y>> \in R /\ <<y, z>> \in R => <<x, z>> \in R

Below(S, R, x) == {y \in S : <<y, x>> \in R}

\* What comes earlier has fewer before it.
LEMMA EarlierRanksLower ==
    ASSUME NEW S, IsFiniteSet(S), NEW R, TotalOrder(S, R),
           NEW x \in S, NEW y \in S, <<x, y>> \in R
    PROVE  Cardinality(Below(S, R, x)) < Cardinality(Below(S, R, y))
<1>1. Below(S, R, x) \subseteq Below(S, R, y)
  BY DEF TotalOrder, Below
<1>2. x \in Below(S, R, y) /\ x \notin Below(S, R, x)
  BY DEF TotalOrder, Below
<1>3. IsFiniteSet(Below(S, R, y))
  BY FS_Subset DEF Below
<1>4. IsFiniteSet(Below(S, R, x)) /\ Cardinality(Below(S, R, x)) <= Cardinality(Below(S, R, y))
  BY <1>1, <1>3, FS_Subset
<1>5. Cardinality(Below(S, R, x)) # Cardinality(Below(S, R, y))
  BY <1>1, <1>2, <1>3, FS_Subset
<1> QED
  BY <1>3, <1>4, <1>5, FS_CardinalityType

\* Each of n elements has one of the ranks 0 to n - 1, and each rank is taken.
LEMMA RanksAreAll ==
    ASSUME NEW S, IsFiniteSet(S), NEW R, TotalOrder(S, R)
    PROVE  /\ Cardinality(S) \in Nat
           /\ \A x \in S : Cardinality(Below(S, R, x)) \in 0..Cardinality(S) - 1
           /\ \A k \in 0..Cardinality(S) - 1 : \E x \in S : Cardinality(Below(S, R, x)) = k
<1> DEFINE n == Cardinality(S)
           T == 0..n - 1
           rank == [x \in S |-> Cardinality(Below(S, R, x))]
<1>1. n \in Nat
  BY FS_CardinalityType
<1>2. ASSUME NEW x \in S PROVE rank[x] \in T
  <2>1. Below(S, R, x) \subseteq S \ {x}
    BY DEF TotalOrder, Below
  <2>2. IsFiniteSet(S \ {x}) /\ Cardinality(S \ {x}) = n - 1
    BY FS_RemoveElement
  <2>3. Cardinality(Below(S, R, x)) <= n - 1 /\ IsFiniteSet(Below(S, R, x))
    BY <2>1, <2>2, FS_Subset
  <2> QED
    BY <1>1, <2>3, FS_CardinalityType
<1>3. rank \in Injection(S, T)
  <2>1. ASSUME NEW x \in S, NEW y \in S, x # y PROVE rank[x] # rank[y]
    <3>1. <<x, y>> \in R \/ <<y, x>> \in R
      BY <2>1 DEF TotalOrder
    <3>2. rank[x] < rank[y] \/ rank[y] < rank[x]
      BY <3>1, EarlierRanksLower
    <3> QED
      BY <1>1, <1>2, <3>2
  <2> QED
    BY <1>2, <2>1 DEF Injection, IsInjective
<1>4. IsFiniteSet(T) /\ Cardinality(T) = n
  BY <1>1, FS_Interval
<1>5. rank \in Surjection(S, T)
  BY <1>3, <1>4, FS_Injection
<1> QED
  BY <1>1, <1>2, <1>5 DEF Surjection
-----------------------------------------------------------------------------
(* The rows of one Meeting *)

Table(rows, n) == DOMAIN rows \subseteq Topics /\ rows \in [DOMAIN rows -> Row(n)]
Distinct(rows) == \A p, q \in DOMAIN rows : rows[p].id = rows[q].id => p = q
NumberedIn(rows, s) ==
    Consecutive({rows[p].position : p \in InSection(rows, s)}, Cardinality(InSection(rows, s)))

\* The same appearance, wherever it is now.
Same(x, y) == /\ x.id = y.id /\ x.source = y.source /\ x.edited = y.edited
              /\ x.decision = y.decision

LEMMA SectionsAreFinite ==
    ASSUME NEW rows, DOMAIN rows \subseteq Topics, NEW s
    PROVE  IsFiniteSet(InSection(rows, s)) /\ Cardinality(InSection(rows, s)) \in Nat
<1>1. IsFiniteSet(InSection(rows, s))
  BY AgendaConstants, FS_Subset DEF InSection
<1> QED
  BY <1>1, FS_CardinalityType

\* normalizeSectionPositions numbers its section and leaves the others alone.
LEMMA NormalizedIs ==
    ASSUME NEW n \in Nat, NEW rows, Table(rows, n), Distinct(rows), NEW s
    PROVE  LET r == Normalized(rows, s)
           IN /\ Table(r, n) /\ DOMAIN r = DOMAIN rows
              /\ \A p \in DOMAIN rows : Same(r[p], rows[p]) /\ r[p].section = rows[p].section
              /\ \A p \in DOMAIN rows : rows[p].section # s => r[p] = rows[p]
              /\ NumberedIn(r, s)
<1> DEFINE r == Normalized(rows, s)
           D == InSection(rows, s)
           before(q, p) == \/ rows[q].position < rows[p].position
                           \/ rows[q].position = rows[p].position /\ rows[q].id < rows[p].id
           R == {pair \in D \X D : before(pair[1], pair[2])}
<1>1. /\ D \subseteq DOMAIN rows
      /\ \A p \in DOMAIN rows : rows[p] \in Row(n)
      /\ \A p \in DOMAIN rows : rows[p].position \in Nat \ {0} /\ rows[p].id \in Nat
  BY DEF InSection, Table, Row
<1>2. \A q, p \in D : <<q, p>> \in R <=> before(q, p)
  OBVIOUS
<1>3. TotalOrder(D, R)
  <2> HIDE DEF R, D
  <2>1. \A q, p \in D : q = p \/ before(q, p) \/ before(p, q)
    BY <1>1 DEF Distinct
  <2>2. \A q \in D : ~before(q, q)
    BY <1>1
  <2>3. \A x, y, z \in D : before(x, y) /\ before(y, z) => before(x, z)
    BY <1>1
  <2> HIDE DEF before
  <2> QED
    BY <1>2, <2>1, <2>2, <2>3 DEF TotalOrder
<1>4. IsFiniteSet(D) /\ Cardinality(D) \in Nat
  BY SectionsAreFinite DEF Table
<1> DEFINE rank(p) == Cardinality(Below(D, R, p))
<1>5. /\ \A p \in D : rank(p) \in 0..Cardinality(D) - 1
      /\ \A k \in 0..Cardinality(D) - 1 : \E p \in D : rank(p) = k
  BY <1>3, <1>4, RanksAreAll
<1>6. ASSUME NEW p \in D PROVE Rank(D, p, before) = rank(p)
  <2>1. {q \in D : before(q, p)} = Below(D, R, p)
    BY <1>2 DEF Below
  <2> QED
    BY <2>1 DEF Rank
<1>7. r = [p \in DOMAIN rows |-> IF rows[p].section # s THEN rows[p]
                                 ELSE [rows[p] EXCEPT !.position = Rank(D, p, before) + 1]]
  BY DEF Normalized
<1>8. ASSUME NEW p \in DOMAIN rows, rows[p].section = s
      PROVE  p \in D /\ r[p] = [rows[p] EXCEPT !.position = rank(p) + 1]
  <2>1. p \in D
    BY <1>8 DEF InSection
  <2> QED
    BY <1>6, <1>7, <1>8, <2>1
<1>9. \A p \in DOMAIN rows : rows[p].section # s => r[p] = rows[p]
  BY <1>7
<1>10. DOMAIN r = DOMAIN rows
  BY <1>7
<1> HIDE DEF r, rank, R
<1>11. ASSUME NEW p \in DOMAIN rows
       PROVE  r[p] \in Row(n) /\ Same(r[p], rows[p]) /\ r[p].section = rows[p].section
  <2>1. CASE rows[p].section = s
    <3>1. rank(p) + 1 \in Nat \ {0}
      <4>1. rank(p) \in 0..Cardinality(D) - 1
        BY <1>5, <1>8, <2>1
      <4> QED
        BY <1>4, <4>1
    <3>2. r[p] = [rows[p] EXCEPT !.position = rank(p) + 1]
      BY <1>8, <2>1
    <3> QED
      BY <1>1, <3>1, <3>2 DEF Row, Same
  <2>2. CASE rows[p].section # s
    BY <1>1, <1>9, <2>2 DEF Same
  <2> QED
    BY <2>1, <2>2
<1>12. r = [p \in DOMAIN r |-> r[p]]
  BY DEF r, Normalized
<1>13. InSection(r, s) = D
  BY <1>10, <1>11 DEF InSection
<1>14. \A p \in D : r[p].position = rank(p) + 1
  BY <1>1, <1>8 DEF InSection, Row
<1>15. {r[p].position : p \in D} = 1..Cardinality(D)
  <2>1. ASSUME NEW p \in D PROVE r[p].position \in 1..Cardinality(D)
    BY <1>4, <1>5, <1>14
  <2>2. ASSUME NEW k \in 1..Cardinality(D) PROVE \E p \in D : r[p].position = k
    <3>1. k - 1 \in 0..Cardinality(D) - 1
      BY <1>4
    <3>2. PICK p \in D : rank(p) = k - 1
      BY <1>5, <3>1
    <3> QED
      BY <1>14, <3>2
  <2> HIDE DEF D
  <2> QED
    BY <2>1, <2>2
<1>16. NumberedIn(r, s)
  BY <1>13, <1>15 DEF NumberedIn, Consecutive
<1>17. Table(r, n)
  BY <1>10, <1>11, <1>12 DEF Table
<1> QED
  BY <1>9, <1>10, <1>11, <1>16, <1>17 DEF r

\* A Meeting's table without one appearance.
LEMMA RemovedIs ==
    ASSUME NEW n \in Nat, NEW rows, Table(rows, n), Distinct(rows), Numbered(rows),
           NEW p \in DOMAIN rows
    PROVE  LET r == Removed(rows, p)
           IN /\ Table(r, n) /\ DOMAIN r = DOMAIN rows \ {p} /\ Numbered(r)
              /\ \A q \in DOMAIN r : Same(r[q], rows[q])
<1> DEFINE w == Without(rows, p)
           s == rows[p].section
           r == Removed(rows, p)
<1>1. /\ DOMAIN w = DOMAIN rows \ {p} /\ \A q \in DOMAIN w : w[q] = rows[q]
      /\ w = [q \in DOMAIN w |-> w[q]]
  BY DEF Without
<1>2. Table(w, n) /\ Distinct(w)
  BY <1>1 DEF Table, Distinct
<1>3. r = Normalized(w, s)
  BY DEF Removed
<1> HIDE DEF w, r
<1>4. /\ Table(r, n) /\ DOMAIN r = DOMAIN w
      /\ \A q \in DOMAIN w : Same(r[q], w[q]) /\ r[q].section = w[q].section
      /\ \A q \in DOMAIN w : w[q].section # s => r[q] = w[q]
      /\ NumberedIn(r, s)
  BY <1>2, <1>3, NormalizedIs
<1>5. ASSUME NEW z \in Sections, z # s PROVE NumberedIn(r, z)
  <2>1. InSection(r, z) = InSection(rows, z)
    BY <1>1, <1>4, <1>5 DEF InSection
  <2>2. \A q \in InSection(rows, z) : r[q].position = rows[q].position
    BY <1>1, <1>4, <1>5 DEF InSection
  <2>3. NumberedIn(rows, z)
    BY DEF Numbered, NumberedIn
  <2> QED
    BY <2>1, <2>2, <2>3 DEF NumberedIn
<1>6. Numbered(r)
  BY <1>4, <1>5 DEF Numbered, NumberedIn
<1> QED
  BY <1>1, <1>4, <1>6 DEF r

\* A Meeting's table with one more appearance, in the place asked for.
LEMMA InsertedIs ==
    ASSUME NEW n \in Nat, NEW rows, Table(rows, n), Numbered(rows),
           NEW p \in Topics, p \notin DOMAIN rows, NEW row \in Row(n),
           row.position \in 1..Cardinality(InSection(rows, row.section)) + 1
    PROVE  LET r == Inserted(rows, p, row)
           IN /\ Table(r, n) /\ DOMAIN r = DOMAIN rows \cup {p} /\ Numbered(r) /\ r[p] = row
              /\ \A q \in DOMAIN rows : Same(r[q], rows[q])
<1> DEFINE r == Inserted(rows, p, row)
           s == row.section
           D == InSection(rows, s)
           shifted(q) == rows[q].section = s /\ rows[q].position >= row.position
<1>1. /\ DOMAIN r = DOMAIN rows \cup {p} /\ r[p] = row
      /\ r = [q \in DOMAIN r |-> r[q]]
      /\ \A q \in DOMAIN rows : r[q] = IF shifted(q) THEN [rows[q] EXCEPT !.position = @ + 1]
                                       ELSE rows[q]
  BY DEF Inserted
<1>2. \A q \in DOMAIN rows : rows[q] \in Row(n)
  BY DEF Table
<1> HIDE DEF r
<1>3. ASSUME NEW q \in DOMAIN rows
      PROVE  /\ r[q] \in Row(n) /\ Same(r[q], rows[q]) /\ r[q].section = rows[q].section
             /\ r[q].position = IF shifted(q) THEN rows[q].position + 1 ELSE rows[q].position
  <2>1. rows[q] \in Row(n)
    BY <1>2
  <2>2. CASE shifted(q)
    <3>1. r[q] = [rows[q] EXCEPT !.position = @ + 1]
      BY <1>1, <2>2
    <3> QED
      BY <2>1, <2>2, <3>1 DEF Row, Same
  <2>3. CASE ~shifted(q)
    <3>1. r[q] = rows[q]
      BY <1>1, <2>3
    <3> QED
      BY <2>1, <2>3, <3>1 DEF Row, Same
  <2> QED
    BY <2>2, <2>3
<1>4. Table(r, n)
  BY <1>1, <1>3 DEF Table
<1>5. IsFiniteSet(D) /\ Cardinality(D) \in Nat
  BY SectionsAreFinite DEF Table
<1>6. s \in Sections /\ row.position \in Nat \ {0}
  BY DEF Row
<1>7. ASSUME NEW z \in Sections, z # s PROVE NumberedIn(r, z)
  <2>1. InSection(r, z) = InSection(rows, z)
    BY <1>1, <1>3, <1>7 DEF InSection
  <2>2. \A q \in InSection(rows, z) : r[q].position = rows[q].position
    BY <1>3, <1>7 DEF InSection
  <2>3. NumberedIn(rows, z)
    BY DEF Numbered, NumberedIn
  <2> QED
    BY <2>1, <2>2, <2>3 DEF NumberedIn
<1>8. NumberedIn(r, s)
  <2>1. InSection(r, s) = D \cup {p}
    BY <1>1, <1>3 DEF InSection
  <2>2. p \notin D
    BY DEF InSection
  <2>3. Cardinality(D \cup {p}) = Cardinality(D) + 1
    BY <1>5, <2>2, FS_AddElement
  <2>4. {rows[q].position : q \in D} = 1..Cardinality(D)
    BY <1>6 DEF Numbered, Consecutive
  <2>5. /\ r[p].position = row.position
        /\ \A q \in D : /\ rows[q].position \in Nat
                        /\ r[q].position = IF rows[q].position >= row.position
                                           THEN rows[q].position + 1 ELSE rows[q].position
    BY <1>1, <1>2, <1>3 DEF InSection, Row
  <2> DEFINE c == Cardinality(D)
             k == row.position
  <2>6. c \in Nat /\ k \in 1..c + 1
    BY <1>5
  <2> HIDE DEF D, c, k
  <2>7. ASSUME NEW q \in D \cup {p} PROVE r[q].position \in 1..c + 1
    <3>1. CASE q = p
      BY <2>5, <2>6, <3>1 DEF k
    <3>2. CASE q \in D
      <4>1. rows[q].position \in 1..c
        BY <2>4, <3>2 DEF c
      <4> QED
        BY <2>5, <2>6, <3>2, <4>1
    <3> QED
      BY <3>1, <3>2
  <2>8. ASSUME NEW i \in 1..c + 1 PROVE \E q \in D \cup {p} : r[q].position = i
    <3>1. CASE i = k
      BY <2>5, <3>1 DEF k
    <3>2. CASE i < k
      <4>1. i \in 1..c
        BY <2>6, <3>2
      <4>2. PICK q \in D : rows[q].position = i
        BY <2>4, <4>1 DEF c
      <4> QED
        BY <2>5, <2>6, <3>2, <4>2 DEF k
    <3>3. CASE i > k
      <4>1. i - 1 \in 1..c
        BY <2>6, <3>3
      <4>2. PICK q \in D : rows[q].position = i - 1
        BY <2>4, <4>1 DEF c
      <4> QED
        BY <2>5, <2>6, <3>3, <4>2 DEF k
    <3> QED
      BY <2>6, <3>1, <3>2, <3>3
  <2>9. {r[q].position : q \in D \cup {p}} = 1..c + 1
    BY <2>7, <2>8
  <2> QED
    BY <2>1, <2>3, <2>9 DEF NumberedIn, Consecutive, c
<1>9. Numbered(r)
  BY <1>7, <1>8 DEF Numbered, NumberedIn
<1> QED
  BY <1>1, <1>3, <1>4, <1>9 DEF r

\* A Meeting's table as somebody has ordered it.
LEMMA ReorderedIs ==
    ASSUME NEW n \in Nat, NEW rows, Table(rows, n), Distinct(rows), NEW L \in SUBSET Sections,
           NEW order \in [Ids(rows) -> [section : L, position : Nat]],
           \A s \in L : LET ordered == {id \in DOMAIN order : order[id].section = s}
                        IN Consecutive({order[id].position : id \in ordered}, Cardinality(ordered))
    PROVE  LET r == [p \in DOMAIN rows |-> Over(order[rows[p].id], rows[p])]
           IN /\ Table(r, n) /\ Numbered(r)
              /\ \A p \in DOMAIN rows : Same(r[p], rows[p])
<1> DEFINE r == [p \in DOMAIN rows |-> Over(order[rows[p].id], rows[p])]
           ordered(s) == {id \in DOMAIN order : order[id].section = s}
<1>1. ASSUME NEW p \in DOMAIN rows
      PROVE  /\ rows[p] \in Row(n) /\ rows[p].id \in Ids(rows)
             /\ order[rows[p].id] \in [section : L, position : Nat]
  BY DEF Table, Ids
<1>A. \A id \in DOMAIN order : \E p \in DOMAIN rows : rows[p].id = id
  BY DEF Ids
<1>2. \A p \in DOMAIN rows : order[rows[p].id].position \in Nat \ {0}
  <2> SUFFICES ASSUME NEW p \in DOMAIN rows PROVE order[rows[p].id].position \in Nat \ {0}
    OBVIOUS
  <2> DEFINE s == order[rows[p].id].section
  <2>1. s \in L /\ rows[p].id \in ordered(s)
    BY <1>1
  <2>2. {order[id].position : id \in ordered(s)} = 1..Cardinality(ordered(s))
    BY <2>1 DEF Consecutive
  <2>3. order[rows[p].id].position \in 1..Cardinality(ordered(s))
    BY <2>1, <2>2
  <2> QED
    BY <1>1, <2>3
<1>3. ASSUME NEW p \in DOMAIN rows
      PROVE  /\ r[p] \in Row(n) /\ Same(r[p], rows[p])
             /\ r[p].section = order[rows[p].id].section
             /\ r[p].position = order[rows[p].id].position
  <2> DEFINE x == order[rows[p].id]
             y == rows[p]
  <2>1. x \in [section : L, position : Nat] /\ x.position \in Nat \ {0} /\ y \in Row(n)
    BY <1>1, <1>2
  <2> HIDE DEF x, y
  <2>2. Over(x, y) = [y EXCEPT !.section = x.section, !.position = x.position]
    BY <2>1 DEF Over, Row
  <2>3. r[p] = Over(x, y)
    BY DEF x, y
  <2>4. r[p] \in Row(n) /\ Same(r[p], y) /\ r[p].section = x.section /\ r[p].position = x.position
    BY <2>1, <2>2, <2>3 DEF Row, Same
  <2> QED
    BY <2>4 DEF x, y
<1>4. Table(r, n)
  BY <1>3 DEF Table
<1> DEFINE M(z) == InSection(r, z)
<1>5. ASSUME NEW z \in Sections
      PROVE  /\ M(z) = {p \in DOMAIN rows : order[rows[p].id].section = z}
             /\ {r[p].position : p \in M(z)} = {order[id].position : id \in ordered(z)}
  <2>1. M(z) = {p \in DOMAIN rows : order[rows[p].id].section = z}
    BY <1>3 DEF InSection
  <2>2. \A p \in M(z) : rows[p].id \in ordered(z) /\ r[p].position = order[rows[p].id].position
    BY <1>1, <1>3, <2>1
  <2>3. \A id \in ordered(z) : \E p \in M(z) : rows[p].id = id
    BY <1>A, <2>1
  <2> HIDE DEF M, ordered, r
  <2> QED
    BY <2>1, <2>2, <2>3
<1>6. ASSUME NEW z \in L PROVE NumberedIn(r, z)
  <2> DEFINE f == [p \in M(z) |-> rows[p].id]
  <2>1. f \in Bijection(M(z), ordered(z))
    <3>1. \A p \in M(z) : rows[p].id \in ordered(z)
      BY <1>1, <1>5
    <3>2. \A p, q \in M(z) : f[p] = f[q] => p = q
      BY <1>5 DEF Distinct
    <3>3. \A id \in ordered(z) : \E p \in M(z) : f[p] = id
      BY <1>A, <1>5
    <3> HIDE DEF M, ordered
    <3> QED
      BY <3>1, <3>2, <3>3 DEF Bijection, Injection, Surjection, IsInjective
  <2>2. IsFiniteSet(M(z))
    BY <1>4, SectionsAreFinite DEF Table
  <2>3. ExistsBijection(M(z), ordered(z))
    BY <2>1 DEF ExistsBijection
  <2>4. Cardinality(M(z)) = Cardinality(ordered(z))
    BY <2>2, <2>3, FS_Bijection
  <2>5. Consecutive({order[id].position : id \in ordered(z)}, Cardinality(ordered(z)))
    OBVIOUS
  <2> QED
    BY <1>5, <2>4, <2>5 DEF NumberedIn
<1>7. ASSUME NEW z \in Sections \ L PROVE NumberedIn(r, z)
  <2>1. M(z) = {}
    BY <1>1, <1>5
  <2>2. Cardinality(M(z)) = 0
    BY <2>1, FS_EmptySet
  <2>3. {r[p].position : p \in M(z)} = {} /\ 1..0 = {}
    <3> HIDE DEF M, r
    <3> QED
      BY <2>1
  <2> QED
    BY <2>2, <2>3 DEF NumberedIn, Consecutive
<1>8. Numbered(r)
  BY <1>6, <1>7 DEF Numbered, NumberedIn
<1> QED
  BY <1>3, <1>4, <1>8
-----------------------------------------------------------------------------
(* The positions of the sections *)

ListedIn(positions) == {s \in Sections : positions[s] # 0}

LEMMA ListedIsFinite ==
    ASSUME NEW positions
    PROVE  IsFiniteSet(ListedIn(positions)) /\ Cardinality(ListedIn(positions)) \in Nat
<1>1. IsFiniteSet(ListedIn(positions))
  BY AgendaConstants, FS_Subset DEF ListedIn
<1> QED
  BY <1>1, FS_CardinalityType

\* A new section goes to the end.
LEMMA SectionAdded ==
    ASSUME NEW positions \in [Sections -> Nat], NumberedSections(positions),
           NEW new \in Sections \ ListedIn(positions)
    PROVE  LET after == [positions EXCEPT ![new] = Cardinality(ListedIn(positions)) + 1]
           IN after \in [Sections -> Nat] /\ NumberedSections(after)
<1> DEFINE all == ListedIn(positions)
           c == Cardinality(all)
           after == [positions EXCEPT ![new] = c + 1]
<1>1. IsFiniteSet(all) /\ c \in Nat
  BY ListedIsFinite
<1>2. {positions[s] : s \in all} = 1..c
  BY DEF NumberedSections, Consecutive, ListedIn
<1>3. after \in [Sections -> Nat] /\ after[new] = c + 1 /\ \A s \in all : after[s] = positions[s]
  BY <1>1
<1>4. ListedIn(after) = all \cup {new}
  BY <1>1 DEF ListedIn
<1>5. Cardinality(all \cup {new}) = c + 1
  BY <1>1, FS_AddElement
<1> HIDE DEF after
<1>6. {after[s] : s \in all \cup {new}} = 1..c + 1
  <2> HIDE DEF all, c
  <2>1. ASSUME NEW s \in all \cup {new} PROVE after[s] \in 1..c + 1
    <3>1. CASE s = new
      BY <1>1, <1>3, <3>1
    <3>2. CASE s \in all
      <4>1. positions[s] \in 1..c
        BY <1>2, <3>2
      <4> QED
        BY <1>1, <1>3, <3>2, <4>1
    <3> QED
      BY <3>1, <3>2
  <2>2. ASSUME NEW i \in 1..c + 1 PROVE \E s \in all \cup {new} : after[s] = i
    <3>1. CASE i = c + 1
      BY <1>3, <3>1
    <3>2. CASE i # c + 1
      <4>1. i \in 1..c
        BY <1>1, <3>2
      <4> QED
        BY <1>2, <1>3, <4>1
    <3> QED
      BY <3>1, <3>2
  <2> QED
    BY <2>1, <2>2
<1> QED
  BY <1>3, <1>4, <1>5, <1>6 DEF NumberedSections, Consecutive, ListedIn, after

\* The others close the gap of a section that is deleted.
LEMMA SectionDeleted ==
    ASSUME NEW positions \in [Sections -> Nat], NumberedSections(positions), NEW s
    PROVE  LET kept == ListedIn(positions) \ {s}
               before(x, y) == positions[x] < positions[y]
               after == [x \in Sections |-> IF x \in kept THEN Rank(kept, x, before) + 1 ELSE 0]
           IN after \in [Sections -> Nat] /\ NumberedSections(after)
<1> DEFINE all == ListedIn(positions)
           kept == all \ {s}
           before(x, y) == positions[x] < positions[y]
           after == [x \in Sections |-> IF x \in kept THEN Rank(kept, x, before) + 1 ELSE 0]
           R == {pair \in kept \X kept : before(pair[1], pair[2])}
           c == Cardinality(all)
           rank(x) == Cardinality(Below(kept, R, x))
<1>1. IsFiniteSet(all) /\ c \in Nat
  BY ListedIsFinite
<1>2. {positions[x] : x \in all} = 1..c
  BY DEF NumberedSections, Consecutive, ListedIn
<1>3. \A x, y \in all : positions[x] = positions[y] => x = y
  <2> DEFINE f == [x \in all |-> positions[x]]
  <2>1. f \in Surjection(all, 1..c)
    <3> HIDE DEF all, c
    <3> QED
      BY <1>2 DEF Surjection
  <2>2. IsFiniteSet(1..c) /\ Cardinality(1..c) = c
    BY <1>1, FS_Interval
  <2>3. f \in Injection(all, 1..c)
    BY <1>1, <2>1, <2>2, FS_SurjSameCardinalityImpliesInj
  <2> QED
    BY <2>3 DEF Injection, IsInjective
<1>4. IsFiniteSet(kept) /\ kept \subseteq Sections /\ kept \subseteq all
  BY <1>1, FS_RemoveElement DEF ListedIn
<1>5. \A x \in kept : positions[x] \in Nat
  BY <1>4
<1>6. \A x, y \in kept : <<x, y>> \in R <=> before(x, y)
  OBVIOUS
<1>7. TotalOrder(kept, R)
  <2> HIDE DEF R, kept
  <2> QED
    BY <1>3, <1>4, <1>5, <1>6 DEF TotalOrder
<1>8. /\ Cardinality(kept) \in Nat
      /\ \A x \in kept : rank(x) \in 0..Cardinality(kept) - 1
      /\ \A k \in 0..Cardinality(kept) - 1 : \E x \in kept : rank(x) = k
  BY <1>4, <1>7, RanksAreAll
<1>9. ASSUME NEW x \in kept PROVE Rank(kept, x, before) = rank(x)
  <2>1. {y \in kept : before(y, x)} = Below(kept, R, x)
    BY <1>6 DEF Below
  <2> QED
    BY <2>1 DEF Rank
<1>10. \A x \in kept : after[x] = rank(x) + 1
  BY <1>4, <1>9
<1>11. \A x \in Sections \ kept : after[x] = 0
  OBVIOUS
<1>12. DOMAIN after = Sections /\ after = [x \in Sections |-> after[x]]
  OBVIOUS
<1> HIDE DEF after, rank, kept, R
<1>13. \A x \in kept : after[x] \in 1..Cardinality(kept)
  <2> SUFFICES ASSUME NEW x \in kept PROVE after[x] \in 1..Cardinality(kept)
    OBVIOUS
  <2>1. rank(x) \in 0..Cardinality(kept) - 1
    BY <1>8
  <2> QED
    BY <1>8, <1>10, <2>1
<1>14. ListedIn(after) = kept
  BY <1>4, <1>8, <1>11, <1>13 DEF ListedIn
<1>15. {after[x] : x \in kept} = 1..Cardinality(kept)
  <2>1. ASSUME NEW k \in 1..Cardinality(kept) PROVE \E x \in kept : after[x] = k
    <3>1. k - 1 \in 0..Cardinality(kept) - 1
      BY <1>8
    <3>2. PICK x \in kept : rank(x) = k - 1
      BY <1>8, <3>1
    <3> QED
      BY <1>10, <3>2
  <2> QED
    BY <1>13, <2>1
<1>16. after \in [Sections -> Nat]
  <2>1. \A x \in Sections : after[x] \in Nat
    BY <1>8, <1>11, <1>13
  <2> QED
    BY <1>12, <2>1
<1> QED
  BY <1>14, <1>15, <1>16 DEF NumberedSections, Consecutive, ListedIn, after, kept

\* An order of all sections, each in another place, numbers them.
LEMMA SectionsOrdered ==
    ASSUME NEW all \in SUBSET Sections, NEW order \in SectionOrders(all)
    PROVE  LET after == [x \in Sections |-> IF x \in all THEN order[x] ELSE 0]
           IN after \in [Sections -> Nat] /\ NumberedSections(after)
<1> DEFINE after == [x \in Sections |-> IF x \in all THEN order[x] ELSE 0]
           c == Cardinality(all)
<1>1. IsFiniteSet(all) /\ c \in Nat
  BY AgendaConstants, FS_Subset, FS_CardinalityType
<1>2. order \in [all -> 1..c] /\ \A x, y \in all : x # y => order[x] # order[y]
  BY DEF SectionOrders
<1>3. order \in Injection(all, 1..c)
  BY <1>2 DEF Injection, IsInjective
<1>4. IsFiniteSet(1..c) /\ Cardinality(1..c) = c
  BY <1>1, FS_Interval
<1>5. order \in Surjection(all, 1..c)
  BY <1>3, <1>4, FS_Injection
<1>6. \A i \in 1..c : \E x \in all : order[x] = i
  BY <1>5 DEF Surjection
<1>7. after \in [Sections -> Nat] /\ (\A x \in all : after[x] = order[x])
      /\ \A x \in Sections \ all : after[x] = 0
  BY <1>1, <1>2
<1> HIDE DEF after, c
<1>8. ListedIn(after) = all
  BY <1>1, <1>2, <1>7 DEF ListedIn
<1>9. {after[x] : x \in all} = 1..c
  BY <1>2, <1>6, <1>7
<1> QED
  BY <1>7, <1>8, <1>9 DEF NumberedSections, Consecutive, ListedIn, after, c
-----------------------------------------------------------------------------
(* Lists in an order *)

\* Meetings by date, and by their identifiers on the same date.
LEMMA InDateOrder ==
    ASSUME meeting \in [Meetings -> MeetingRow], NEW S \in SUBSET Meetings
    PROVE  /\ IsFiniteSet(S) /\ Cardinality(S) \in Nat
           /\ \A i \in 1..Cardinality(S) : InOrder(S, Before)[i] \in S
<1> DEFINE R == {pair \in S \X S : Before(pair[1], pair[2])}
<1>1. IsFiniteSet(S) /\ Cardinality(S) \in Nat
  BY AgendaConstants, FS_Subset, FS_CardinalityType
<1>2. \A x, y \in S : <<x, y>> \in R <=> Before(x, y)
  OBVIOUS
<1>3. \A x \in S : x \in Nat /\ meeting[x].date \in Nat
  BY AgendaConstants DEF MeetingRow
<1>4. TotalOrder(S, R)
  <2> HIDE DEF R
  <2> QED
    BY <1>2, <1>3 DEF TotalOrder, Before
<1>5. ASSUME NEW x \in S PROVE Rank(S, x, Before) = Cardinality(Below(S, R, x))
  <2>1. {y \in S : Before(y, x)} = Below(S, R, x)
    BY <1>2 DEF Below
  <2> QED
    BY <2>1 DEF Rank
<1>6. ASSUME NEW i \in 1..Cardinality(S) PROVE InOrder(S, Before)[i] \in S
  <2>1. InOrder(S, Before)[i] = CHOOSE x \in S : Rank(S, x, Before) = i - 1
    BY <1>6 DEF InOrder
  <2>2. \E x \in S : Cardinality(Below(S, R, x)) = i - 1
    <3>1. i - 1 \in 0..Cardinality(S) - 1
      BY <1>1
    <3> QED
      BY <1>1, <1>4, <3>1, RanksAreAll
  <2>3. \E x \in S : Rank(S, x, Before) = i - 1
    BY <1>5, <2>2
  <2> QED
    BY <2>1, <2>3
<1> QED
  BY <1>1, <1>6

\* Topics by their identifiers.
LEMMA InTopicOrder ==
    ASSUME NEW S \in SUBSET Topics
    PROVE  /\ IsFiniteSet(S) /\ Cardinality(S) \in Nat
           /\ InOrder(S, <) \in [1..Cardinality(S) -> S]
<1> DEFINE R == {pair \in S \X S : pair[1] < pair[2]}
<1>1. IsFiniteSet(S) /\ Cardinality(S) \in Nat
  BY AgendaConstants, FS_Subset, FS_CardinalityType
<1>2. \A x, y \in S : <<x, y>> \in R <=> x < y
  OBVIOUS
<1>3. \A x \in S : x \in Nat
  BY AgendaConstants
<1>4. TotalOrder(S, R)
  <2> HIDE DEF R
  <2> QED
    BY <1>2, <1>3 DEF TotalOrder
<1>5. ASSUME NEW x \in S PROVE Rank(S, x, <) = Cardinality(Below(S, R, x))
  <2>1. {y \in S : y < x} = Below(S, R, x)
    BY <1>2 DEF Below
  <2> QED
    BY <2>1 DEF Rank
<1>6. ASSUME NEW i \in 1..Cardinality(S)
      PROVE  (CHOOSE x \in S : Rank(S, x, <) = i - 1) \in S
  <2>1. \E x \in S : Cardinality(Below(S, R, x)) = i - 1
    <3>1. i - 1 \in 0..Cardinality(S) - 1
      BY <1>1
    <3> QED
      BY <1>1, <1>4, <3>1, RanksAreAll
  <2>2. \E x \in S : Rank(S, x, <) = i - 1
    BY <1>5, <2>1
  <2> QED
    BY <2>2
<1> QED
  BY <1>1, <1>6 DEF InOrder
-----------------------------------------------------------------------------
(* Plans *)

Move == [meeting : Meetings, section : Sections \cup {NoSection}, position : Nat, source : Nat]
Removal == [meeting : Meetings, id : Nat]

LEMMA TargetIsPosition ==
    ASSUME NEW n \in Nat, NEW ag, AreAgendas(ag, n), NEW p, NEW t \in TopicRow, NEW m \in Meetings
    PROVE  Target(ag, p, t, m) \in Nat
<1> DEFINE others == InSection(ag[m], t.section) \ {p}
<1>1. IsFiniteSet(InSection(ag[m], t.section))
  BY SectionsAreFinite DEF AreAgendas
<1>2. Cardinality(others) \in Nat
  BY <1>1, FS_RemoveElement, FS_CardinalityType
<1>3. t.place \in Nat
  BY DEF TopicRow
<1> QED
  BY <1>2, <1>3 DEF Target

\* What is removed was movable.
LEMMA RemovalsAre ==
    ASSUME meeting \in [Meetings -> MeetingRow], NEW n \in Nat, NEW ag, AreAgendas(ag, n),
           NEW p \in Topics, NEW S \in SUBSET {m \in Existing : Movable(ag, m, p)}
    PROVE  /\ Removals(ag, p, S) \in Seq(Removal)
           /\ \A x \in ToSet(Removals(ag, p, S)) : x.meeting \in S
<1> DEFINE order == InOrder(S, Before)
           list == Removals(ag, p, S)
<1>1. S \subseteq Meetings /\ \A m \in S : p \in DOMAIN ag[m]
  BY DEF Existing, Movable
<1>2. Cardinality(S) \in Nat /\ \A i \in 1..Cardinality(S) : order[i] \in S
  BY <1>1, InDateOrder
<1>3. \A m \in S : ag[m][p].id \in Nat
  BY <1>1 DEF AreAgendas, Row
<1>4. list = [i \in 1..Cardinality(S) |-> [meeting |-> order[i], id |-> ag[order[i]][p].id]]
  BY DEF Removals
<1> HIDE DEF order, list
<1>5. \A i \in 1..Cardinality(S) : list[i] \in Removal /\ list[i].meeting \in S
  BY <1>1, <1>2, <1>3, <1>4 DEF Removal
<1>6. list \in Seq(Removal) /\ DOMAIN list = 1..Cardinality(S)
  <2> DEFINE c == Cardinality(S)
  <2>1. c \in Nat /\ list \in [1..c -> Removal]
    BY <1>2, <1>4, <1>5
  <2> HIDE DEF c
  <2>2. list \in Seq(Removal)
    BY <2>1
  <2> QED
    BY <2>1, <2>2 DEF c
<1> QED
  BY <1>5, <1>6 DEF ToSet, list

\* A Meeting that gets an appearance wanted one.
LEMMA AssignedIs ==
    ASSUME meeting \in [Meetings -> MeetingRow], NEW n \in Nat, NEW ag, AreAgendas(ag, n),
           NEW p \in Topics, NEW t \in TopicRow, NEW wanted \in SUBSET Meetings,
           NEW spare \in SUBSET {m \in Existing : Movable(ag, m, p)}
    PROVE  /\ Assigned(ag, p, t, wanted, spare) \in Seq(Move)
           /\ \A x \in ToSet(Assigned(ag, p, t, wanted, spare)) : x.meeting \in wanted
<1> DEFINE order == InOrder(wanted, Before)
           list == Assigned(ag, p, t, wanted, spare)
           c == Cardinality(wanted)
<1>1. c \in Nat /\ \A i \in 1..c : order[i] \in wanted
  BY InDateOrder
<1>2. PICK from : list = [i \in 1..c |->
          [meeting |-> order[i], section |-> t.section, position |-> Target(ag, p, t, order[i]),
           source |-> IF from[i] \in spare THEN ag[from[i]][p].id ELSE 0]]
  BY DEF Assigned
<1>3. \A m \in spare : ag[m][p].id \in Nat
  BY DEF AreAgendas, Row, Existing, Movable
<1>4. t.section \in Sections \cup {NoSection}
  BY DEF TopicRow
<1>5. \A m \in wanted : Target(ag, p, t, m) \in Nat
  BY TargetIsPosition
<1> HIDE DEF order, list, c
<1>6. \A i \in 1..c : list[i] \in Move /\ list[i].meeting \in wanted
  <2> SUFFICES ASSUME NEW i \in 1..c PROVE list[i] \in Move /\ list[i].meeting \in wanted
    OBVIOUS
  <2>1. order[i] \in wanted /\ Target(ag, p, t, order[i]) \in Nat
    BY <1>1, <1>5
  <2>2. (IF from[i] \in spare THEN ag[from[i]][p].id ELSE 0) \in Nat
    BY <1>3
  <2> QED
    BY <1>2, <1>4, <2>1, <2>2 DEF Move
<1>7. list \in Seq(Move) /\ DOMAIN list = 1..c
  BY <1>1, <1>2, <1>6
<1> QED
  BY <1>6, <1>7 DEF ToSet, list

\* No plan puts a Topic where it is skipped, and every plan removes only appearances
\* that may be moved.
LEMMA PlanIs ==
    ASSUME meeting \in [Meetings -> MeetingRow], NEW n \in Nat, NEW ag, AreAgendas(ag, n),
           NEW p \in Topics, NEW t \in TopicRow
    PROVE  LET plan == PlanOf(ag, p, t)
           IN /\ plan.moves \in Seq(Move) /\ plan.removals \in Seq(Removal)
              /\ \A x \in ToSet(plan.moves) : <<p, x.meeting>> \notin skips
              /\ \A x \in ToSet(plan.removals) : Movable(ag, x.meeting, p)
<1> DEFINE movable == {m \in Existing : Movable(ag, m, p)}
           due == Due(ag, p, t)
           desired == {m \in Existing : Desires(ag, m, p, due[m])}
           stable == {m \in desired : Stable(ag, p, t, m)}
           wanted == desired \ stable
           spare == movable \ stable
           moves == Assigned(ag, p, t, wanted, spare)
           taken == {moves[i].source : i \in DOMAIN moves}
           rest == {m \in spare : ag[m][p].id \notin taken}
           plan == PlanOf(ag, p, t)
<1>1. wanted \in SUBSET Meetings /\ \A m \in wanted : <<p, m>> \notin skips
  BY DEF Existing, Desires
<1>2. spare \in SUBSET movable /\ rest \in SUBSET movable
  OBVIOUS
<1>3. moves \in Seq(Move) /\ \A x \in ToSet(moves) : x.meeting \in wanted
  BY <1>1, <1>2, AssignedIs
<1>4. \A S \in SUBSET movable : /\ Removals(ag, p, S) \in Seq(Removal)
                                /\ \A x \in ToSet(Removals(ag, p, S)) : x.meeting \in S
  BY RemovalsAre
<1>5. <<>> \in Seq(Move) /\ <<>> \in Seq(Removal) /\ ToSet(<<>>) = {}
  BY DEF ToSet
<1>6. \/ plan.moves = <<>> /\ plan.removals = Removals(ag, p, movable)
      \/ plan.moves = <<>> /\ plan.removals = <<>>
      \/ plan.moves = moves /\ plan.removals = Removals(ag, p, rest)
  <2> HIDE DEF moves, movable, due, desired
  <2> QED
    BY DEF PlanOf, EmptyPlan, moves, movable, due, desired
<1>7. \A m \in movable : Movable(ag, m, p)
  OBVIOUS
<1> HIDE DEF plan, moves, movable, wanted, rest
<1> QED
  <2>1. CASE plan.moves = <<>> /\ plan.removals = Removals(ag, p, movable)
    BY <1>4, <1>5, <1>7, <2>1 DEF plan
  <2>2. CASE plan.moves = <<>> /\ plan.removals = <<>>
    BY <1>5, <2>2 DEF plan
  <2>3. CASE plan.moves = moves /\ plan.removals = Removals(ag, p, rest)
    BY <1>1, <1>2, <1>3, <1>4, <1>7, <2>3 DEF plan
  <2> QED
    BY <1>6, <2>1, <2>2, <2>3
-----------------------------------------------------------------------------
(* The inductive invariant: what a request t may hold while the tables are ag,  *)
(* mt and sk, the mutations are mu and n identifiers were drawn                 *)

RequestOps == {"none", "create", "update", "complete", "add", "remove", "reconcile", "reorder",
               "decide", "note", "restore", "topic", "section"}
OnMeetings == RequestOps \ {"none", "create", "topic", "section"}

Locks == {"meeting", "topic", "row", "sections"} \X Nat

ItemRow == [id : Nat, topic : Topics, section : Sections \cup {NoSection}, position : Nat,
            kind : {"manual", "recurrence"}, source : Nat]

MeetingChanges == [status : {"in_progress"}]
                  \cup [status : {"planned", "in_progress"}, date : Nat]
TopicChanges == [type : {"generic", "recurring"}] \cup [status : {"open", "done"}]
                \cup [place : {0, 1}]

JobRow == [step : {"idle", "asked", "list", "plan", "next", "carrying"},
           after : {"none", "all", "topic"}, topic : Nat, todo : SUBSET Topics,
           moves : Seq(Move), removals : Seq(Removal)]

Shape(t) ==
    /\ DOMAIN t = {"op", "meeting", "arg", "want", "held", "ready", "seen", "out"}
    /\ t.op \in RequestOps /\ t.want \in Seq(Locks) /\ t.ready \in BOOLEAN
    /\ t.op \notin {"none", "topic", "section"} => t.meeting \in Meetings
    /\ t.op # "add" /\ ~t.ready => t.out = NoOutput

GoodArg(t) ==
    /\ t.op \in {"create", "update"} => t.arg.values \in MeetingChanges
    /\ t.op = "decide" => t.arg.decision \in {"none", "done", "deferred"}
    /\ t.op = "topic" => t.arg.topic \in Topics /\ t.arg.values \in TopicChanges
    /\ t.op = "reorder" =>
          t.arg.order \in [DOMAIN t.arg.order -> [section : Sections, position : Nat]]
    /\ t.op = "section" /\ t.arg.change = "reorder" =>
          t.arg.order \in SectionOrders(DOMAIN t.arg.order)

\* The lock that a request needs first is held, or is the next.
Guards(t, lock) == lock \in t.held \/ (t.want # <<>> /\ Head(t.want) = lock)

GoodLocks(t) == t.op \in OnMeetings => Guards(t, Lock("meeting", t.meeting))

Own(t) == IF t.op = "add" THEN {t.arg.all[i].id : i \in DOMAIN t.arg.all} ELSE {}

\* A batch adds new appearances; one that moves an appearance is alone.
GoodList(items) ==
    /\ items \in Seq(ItemRow) /\ items # <<>>
    /\ \A i, j \in DOMAIN items : items[i].id = items[j].id => i = j
    /\ \A i \in DOMAIN items : items[i].source # 0 => Len(items) = 1

GoodItems(t) == t.op = "add" =>
    /\ DOMAIN t.arg = {"items", "all"} /\ GoodList(t.arg.all) /\ GoodList(t.arg.items)
    /\ \A i \in DOMAIN t.arg.items :
          /\ t.arg.items[i].id \in Own(t)
          /\ ~t.ready => t.arg.items[i].id \notin t.out.added
          /\ ~t.ready /\ t.arg.items[i].source # 0 => t.out = NoOutput

\* The source of a move is as it was read: its row is locked.
GoodSource(t, ag, mu, n) == t.op = "add" /\ ~t.ready =>
    LET source == Head(t.arg.items).source
    IN /\ t.seen = Nothing /\ t.want # <<>> /\ source # 0 =>
             t.want[Len(t.want)] = Lock("row", source)
       /\ t.seen # Nothing =>
             /\ source # 0 /\ t.seen \in [meeting : Meetings, topic : Topics, row : Row(n)]
             /\ t.seen.topic \in DOMAIN ag[t.seen.meeting]
             /\ t.seen.row = ag[t.seen.meeting][t.seen.topic] /\ t.seen.row.id = source
             /\ Lock("row", source) \in t.held
             /\ \/ Lock("meeting", t.seen.meeting) \in t.held
                \/ t.want = <<Lock("meeting", t.seen.meeting)>>
                \/ Head(t.arg.items).id \in mu

Open(status) == status \in {"planned", "in_progress"}
Loose(row, status) == row.source = "recurrence" /\ ~row.edited /\ status = "planned"

\* The agendas that are written: of Meetings that are locked, whole, with the
\* appearances these Meetings had or new ones; none is left out that had to stay.
GoodAgendas(t, ag, mt, sk, n) ==
    LET written == t.out.agenda
    IN /\ \A m \in DOMAIN written :
             /\ m \in Meetings /\ Open(mt[m].status) /\ Lock("meeting", m) \in t.held
             /\ Table(written[m], n) /\ Numbered(written[m])
       /\ \A m, k \in DOMAIN written : \A p \in DOMAIN written[m], q \in DOMAIN written[k] :
             written[m][p].id = written[k][q].id => m = k /\ p = q
       /\ \A m \in DOMAIN written : \A p \in DOMAIN written[m] :
             /\ \/ written[m][p].id \in t.out.added
                \/ \E k \in DOMAIN written : \E q \in DOMAIN ag[k] : ag[k][q].id = written[m][p].id
             /\ <<p, m>> \in sk \cup t.out.skip => written[m][p].source = "manual"
       /\ \A m \in DOMAIN written : \A p \in DOMAIN ag[m] :
             \/ ag[m][p].id \in Ids(written[m])
             \/ t.op = "remove" /\ t.arg.id = ag[m][p].id
             \/ Loose(ag[m][p], mt[m].status)
       /\ t.out.skip \subseteq Topics \X DOMAIN written
       /\ t.op = "add" => t.out.skip = {}

\* The other rows that are written.  A completion takes over all decisions.
GoodRows(t, ag, mt) ==
    /\ \A p \in DOMAIN t.out.topic : p \in Topics /\ t.out.topic[p] \in TopicRow
    /\ t.out.section # Nothing => t.out.section \in [Sections -> Nat] /\ NumberedSections(t.out.section)
    /\ t.op = "add" => t.out.meeting = Nothing
    /\ \A m \in DOMAIN t.out.meeting :
          /\ m \in Meetings /\ t.out.meeting[m] \in MeetingRow /\ t.out.meeting[m].status # "none"
          /\ \/ t.op = "create" /\ m = t.meeting /\ t.out.meeting[m].status # "completed"
             \/ Open(mt[m].status) /\ Lock("meeting", m) \in t.held
          /\ t.out.meeting[m].status = "completed" => \A p \in DOMAIN ag[m] :
                IF ag[m][p].decision = "none" THEN p \notin DOMAIN t.out.topic
                ELSE p \in DOMAIN t.out.topic /\ t.out.topic[p].status = ag[m][p].decision

GoodOut(t, ag, mt, sk, mu, n) ==
    /\ DOMAIN t.out = {"meeting", "topic", "agenda", "section", "skip", "unskip", "added"}
    /\ t.out.added \subseteq Own(t) \ mu
    /\ GoodAgendas(t, ag, mt, sk, n) /\ GoodRows(t, ag, mt)

Good(t, ag, mt, sk, mu, n) ==
    /\ Shape(t) /\ GoodArg(t) /\ GoodLocks(t) /\ GoodItems(t)
    /\ GoodSource(t, ag, mu, n) /\ GoodOut(t, ag, mt, sk, mu, n)

Pages ==
    /\ loaded \in [Browsers -> SUBSET Meetings] /\ job \in [Browsers -> JobRow]
    /\ \A b \in Browsers : job[b].step \in {"next", "carrying"} => job[b].topic \in Topics

TypeInv ==
    /\ meeting \in [Meetings -> MeetingRow] /\ topic \in [Topics -> TopicRow]
    /\ skips \subseteq Topics \X Meetings /\ section \in [Sections -> Nat]
    /\ ids \in Nat /\ DOMAIN tx = Browsers /\ Pages

\* Locks and identifiers belong to one request each.  What is on an agenda already
\* is known as an addition that was made.
Apart ==
    /\ \A b, d \in Browsers : b # d =>
          tx[b].held \cap tx[d].held = {} /\ Own(tx[b]) \cap Own(tx[d]) = {}
    /\ \A b \in Browsers : Own(tx[b]) \subseteq 1..ids
    /\ \A b \in Browsers, m \in Meetings : Own(tx[b]) \cap Ids(agenda[m]) \subseteq mutations

Inv ==
    /\ TypeInv /\ Apart /\ AgendasAreWhole /\ SkippedStaysSkipped
    /\ \A b \in Browsers : Good(tx[b], agenda, meeting, skips, mutations, ids)
-----------------------------------------------------------------------------
(* Requests that have written nothing yet, and those that others leave alone *)

LEMMA NothingIsEmpty == DOMAIN Nothing = {}
BY DEF Nothing

LEMMA GoodRequest ==
    ASSUME NEW ag, NEW mt, NEW sk, NEW mu, NEW n,
           NEW op \in RequestOps, NEW m, NEW arg, NEW locks \in Seq(Locks),
           op \notin {"none", "topic", "section"} => m \in Meetings,
           GoodArg(Request(op, m, arg, locks)),
           op \in OnMeetings => locks # <<>> /\ Head(locks) = Lock("meeting", m),
           op = "add" => /\ DOMAIN arg = {"items", "all"}
                         /\ GoodList(arg.all) /\ arg.items = arg.all
                         /\ Head(arg.items).source # 0 =>
                               locks[Len(locks)] = Lock("row", Head(arg.items).source)
    PROVE  Good(Request(op, m, arg, locks), ag, mt, sk, mu, n)
<1> DEFINE t == Request(op, m, arg, locks)
<1>1. /\ DOMAIN t = {"op", "meeting", "arg", "want", "held", "ready", "seen", "out"}
      /\ t.op = op /\ t.meeting = m /\ t.arg = arg /\ t.want = locks /\ t.held = {}
      /\ t.ready = FALSE /\ t.seen = Nothing /\ t.out = NoOutput
  BY DEF Request
<1> HIDE DEF t
<1>2. /\ DOMAIN t.out = {"meeting", "topic", "agenda", "section", "skip", "unskip", "added"}
      /\ t.out.added = {} /\ t.out.skip = {} /\ t.out.section = Nothing
      /\ t.out.meeting = Nothing /\ t.out.topic = Nothing /\ t.out.agenda = Nothing
  BY <1>1 DEF NoOutput
<1>3. Shape(t)
  BY <1>1 DEF Shape
<1>4. GoodLocks(t)
  BY <1>1 DEF GoodLocks, Guards
<1>5. GoodItems(t)
  BY <1>1, <1>2 DEF GoodItems, Own
<1>6. GoodSource(t, ag, mu, n)
  BY <1>1 DEF GoodSource
<1>7. GoodAgendas(t, ag, mt, sk, n)
  BY <1>2, NothingIsEmpty DEF GoodAgendas
<1>8. GoodRows(t, ag, mt)
  BY <1>2, NothingIsEmpty DEF GoodRows
<1> QED
  BY <1>2, <1>3, <1>4, <1>5, <1>6, <1>7, <1>8 DEF Good, GoodOut, t

\* A browser that asks for nothing.
LEMMA GoodNoTx ==
    ASSUME NEW ag, NEW mt, NEW sk, NEW mu, NEW n
    PROVE  Good(NoTx, ag, mt, sk, mu, n) /\ Own(NoTx) = {} /\ NoTx.held = {}
<1>1. NoTx.op = "none" /\ NoTx.held = {}
  BY DEF NoTx, Request
<1>2. GoodArg(NoTx)
  BY <1>1 DEF GoodArg
<1>3. <<>> \in Seq(Locks) /\ "none" \in RequestOps /\ "none" \notin OnMeetings
  BY DEF RequestOps, OnMeetings
<1> QED
  BY <1>1, <1>2, <1>3, GoodRequest DEF NoTx, Own

\* What others change leaves a request as it was: the Meetings it has locked and the
\* rows it has locked are theirs to read only.
LEMMA GoodStays ==
    ASSUME NEW t, NEW ag, NEW mt, NEW sk, NEW mu, NEW n \in Nat, Good(t, ag, mt, sk, mu, n),
           NEW ag2, NEW mt2, NEW sk2, NEW mu2, NEW n2 \in Nat, n <= n2,
           mu \subseteq mu2, Own(t) \cap mu2 \subseteq mu,
           \A m \in Meetings : Lock("meeting", m) \in t.held /\ Open(mt[m].status) =>
              /\ ag2[m] = ag[m] /\ mt2[m] = mt[m]
              /\ \A p \in Topics : <<p, m>> \in sk2 => <<p, m>> \in sk,
           \A m \in Meetings : \A p \in DOMAIN ag[m] : Lock("row", ag[m][p].id) \in t.held =>
              p \in DOMAIN ag2[m] /\ ag2[m][p] = ag[m][p]
    PROVE  Good(t, ag2, mt2, sk2, mu2, n2)
<1>1. Row(n) \subseteq Row(n2)
  BY DEF Row
<1>2. GoodSource(t, ag2, mu2, n2)
  <2>1. GoodSource(t, ag, mu, n)
    BY DEF Good
  <2> SUFFICES ASSUME t.op = "add", ~t.ready, t.seen # Nothing
               PROVE  LET source == Head(t.arg.items).source
                      IN /\ source # 0
                         /\ t.seen \in [meeting : Meetings, topic : Topics, row : Row(n2)]
                         /\ t.seen.topic \in DOMAIN ag2[t.seen.meeting]
                         /\ t.seen.row = ag2[t.seen.meeting][t.seen.topic]
                         /\ t.seen.row.id = source /\ Lock("row", source) \in t.held
                         /\ \/ Lock("meeting", t.seen.meeting) \in t.held
                            \/ t.want = <<Lock("meeting", t.seen.meeting)>>
                            \/ Head(t.arg.items).id \in mu2
    BY <2>1 DEF GoodSource
  <2> DEFINE source == Head(t.arg.items).source
  <2>2. /\ source # 0
        /\ t.seen \in [meeting : Meetings, topic : Topics, row : Row(n)]
        /\ t.seen.topic \in DOMAIN ag[t.seen.meeting]
        /\ t.seen.row = ag[t.seen.meeting][t.seen.topic]
        /\ t.seen.row.id = source /\ Lock("row", source) \in t.held
        /\ \/ Lock("meeting", t.seen.meeting) \in t.held
           \/ t.want = <<Lock("meeting", t.seen.meeting)>>
           \/ Head(t.arg.items).id \in mu
    BY <2>1 DEF GoodSource
  <2>3. /\ t.seen.topic \in DOMAIN ag2[t.seen.meeting]
        /\ t.seen.row = ag2[t.seen.meeting][t.seen.topic]
    BY <2>2
  <2>4. t.seen \in [meeting : Meetings, topic : Topics, row : Row(n2)]
    BY <1>1, <2>2
  <2> QED
    BY <2>2, <2>3, <2>4
<1>3. GoodAgendas(t, ag2, mt2, sk2, n2)
  <2> DEFINE written == t.out.agenda
  <2>1. GoodAgendas(t, ag, mt, sk, n)
    BY DEF Good, GoodOut
  <2>2. ASSUME NEW m \in DOMAIN written
        PROVE  /\ m \in Meetings /\ ag2[m] = ag[m] /\ mt2[m] = mt[m]
               /\ \A p \in Topics : <<p, m>> \in sk2 => <<p, m>> \in sk
               /\ Table(written[m], n2) /\ DOMAIN written[m] \subseteq Topics
    <3>1. /\ m \in Meetings /\ Open(mt[m].status) /\ Lock("meeting", m) \in t.held
          /\ Table(written[m], n)
      BY <2>1 DEF GoodAgendas
    <3> QED
      BY <1>1, <3>1 DEF Table
  <2> QED
    BY <2>1, <2>2 DEF GoodAgendas
<1>4. GoodRows(t, ag2, mt2)
  <2>1. GoodRows(t, ag, mt)
    BY DEF Good, GoodOut
  <2>2. ASSUME NEW m \in DOMAIN t.out.meeting
        PROVE  \/ t.op = "create" /\ m = t.meeting /\ t.out.meeting[m].status # "completed"
               \/ mt2[m] = mt[m] /\ ag2[m] = ag[m]
    BY <2>1 DEF GoodRows
  <2> QED
    BY <2>1, <2>2 DEF GoodRows
<1> QED
  BY <1>2, <1>3, <1>4 DEF Good, GoodOut

-----------------------------------------------------------------------------
(* Steps that leave the database as it is *)

LEMMA QuietStep ==
    ASSUME Inv, UNCHANGED <<database, tx, ids>>, Pages'
    PROVE  Inv'
<1>1. TypeInv'
  BY DEF Inv, TypeInv, database
<1>2. Apart'
  BY DEF Inv, Apart, database
<1>3. AgendasAreWhole' /\ SkippedStaysSkipped'
  BY DEF Inv, AgendasAreWhole, AgendaTypeOK, PositionsAreConsecutive, SkippedStaysSkipped, Existing,
         database
<1>4. \A b \in Browsers : Good(tx[b], agenda, meeting, skips, mutations, ids)'
  BY DEF Inv, database
<1> QED
  BY <1>1, <1>2, <1>3, <1>4 DEF Inv

\* A browser's request becomes x; identifiers may have been drawn for it.
LEMMA RequestStep ==
    ASSUME Inv, NEW b \in Browsers, NEW x, tx' = [tx EXCEPT ![b] = x], UNCHANGED database,
           ids' \in Nat, ids <= ids', Pages',
           Good(x, agenda, meeting, skips, mutations, ids'),
           \A d \in Browsers \ {b} : x.held \cap tx[d].held = {},
           Own(x) \subseteq Own(tx[b]) \cup (ids + 1)..ids'
    PROVE  Inv'
<1> USE DEF database
<1>1. TypeInv'
  BY DEF Inv, TypeInv
<1>2. tx'[b] = x /\ \A d \in Browsers \ {b} : tx'[d] = tx[d]
  BY DEF Inv, TypeInv
<1>3. ids \in Nat /\ \A d \in Browsers : Own(tx[d]) \subseteq 1..ids
  BY DEF Inv, TypeInv, Apart
<1>4. \A m \in Meetings : Ids(agenda[m]) \subseteq 1..ids
  BY DEF Inv, AgendasAreWhole, AgendaTypeOK, AreAgendas, Ids, Row
<1>5. Apart'
  <2>1. ASSUME NEW d \in Browsers \ {b} PROVE Own(x) \cap Own(tx[d]) = {}
    BY <1>3, <2>1 DEF Inv, Apart
  <2>2. ASSUME NEW d \in Browsers, NEW e \in Browsers, d # e
        PROVE  tx'[d].held \cap tx'[e].held = {} /\ Own(tx'[d]) \cap Own(tx'[e]) = {}
    <3>1. CASE d = b
      BY <1>2, <2>1, <2>2, <3>1
    <3>2. CASE e = b
      BY <1>2, <2>1, <2>2, <3>2
    <3>3. CASE d # b /\ e # b
      BY <1>2, <2>2, <3>3 DEF Inv, Apart
    <3> QED
      BY <3>1, <3>2, <3>3
  <2>3. ASSUME NEW d \in Browsers PROVE Own(tx'[d]) \subseteq 1..ids'
    BY <1>2, <1>3
  <2>4. ASSUME NEW d \in Browsers, NEW m \in Meetings
        PROVE  Own(tx'[d]) \cap Ids(agenda[m]) \subseteq mutations
    <3>1. CASE d = b
      BY <1>2, <1>3, <1>4, <3>1 DEF Inv, Apart
    <3>2. CASE d # b
      BY <1>2, <3>2 DEF Inv, Apart
    <3> QED
      BY <3>1, <3>2
  <2> QED
    BY <2>2, <2>3, <2>4 DEF Apart, Ids
<1>6. AgendasAreWhole'
  <2>1. Row(ids) \subseteq Row(ids')
    BY <1>3 DEF Row
  <2>2. AreAgendas(agenda, ids')
    BY <2>1 DEF Inv, AgendasAreWhole, AgendaTypeOK, AreAgendas
  <2>3. mutations \subseteq 1..ids'
    BY <1>3 DEF Inv, AgendasAreWhole, AgendaTypeOK
  <2> QED
    BY <2>2, <2>3 DEF Inv, AgendasAreWhole, AgendaTypeOK, PositionsAreConsecutive, Existing
<1>7. SkippedStaysSkipped'
  BY DEF Inv, SkippedStaysSkipped
<1>8. ASSUME NEW d \in Browsers PROVE Good(tx'[d], agenda, meeting, skips, mutations, ids')
  <2>1. CASE d = b
    BY <1>2, <2>1
  <2>2. CASE d # b
    BY <1>2, <1>3, <2>2, GoodStays DEF Inv
  <2> QED
    BY <2>1, <2>2
<1> QED
  BY <1>1, <1>5, <1>6, <1>7, <1>8 DEF Inv

\* A request that fails, or is refused.
LEMMA FailedStep ==
    ASSUME Inv, NEW b \in Browsers, Failed(b), UNCHANGED <<database, loaded, ids>>
    PROVE  Inv'
<1>1. tx' = [tx EXCEPT ![b] = NoTx] /\ job' = [job EXCEPT ![b] = Idle]
  BY DEF Failed
<1>2. Idle \in JobRow /\ Idle.step = "idle"
  BY DEF Idle, JobRow, AgendaConstants
<1>3. Pages'
  BY <1>1, <1>2 DEF Inv, TypeInv, Pages
<1>4. Good(NoTx, agenda, meeting, skips, mutations, ids') /\ Own(NoTx) = {} /\ NoTx.held = {}
  BY GoodNoTx
<1>5. ids' \in Nat /\ ids <= ids'
  BY DEF Inv, TypeInv
<1> QED
  BY <1>1, <1>3, <1>4, <1>5, RequestStep

-----------------------------------------------------------------------------
(* What users ask for *)

LEMMA AskStep ==
    ASSUME Inv, NEW b \in Browsers, NEW operation, NEW x, NEW after \in JobRow,
           after.step \notin {"next", "carrying"}, AsksAnew(b, operation, x, after),
           loaded' \in [Browsers -> SUBSET Meetings], ids' \in Nat, ids <= ids',
           Good(x, agenda, meeting, skips, mutations, ids'), x.held = {},
           Own(x) \subseteq (ids + 1)..ids'
    PROVE  Inv'
<1>1. tx' = [tx EXCEPT ![b] = x] /\ job' = [job EXCEPT ![b] = after] /\ UNCHANGED database
  BY DEF AsksAnew
<1>2. Pages'
  BY <1>1 DEF Inv, TypeInv, Pages
<1>3. /\ \A d \in Browsers \ {b} : x.held \cap tx[d].held = {}
      /\ Own(x) \subseteq Own(tx[b]) \cup (ids + 1)..ids'
  OBVIOUS
<1> HIDE DEF Inv
<1> QED
  BY <1>1, <1>2, <1>3, RequestStep

LEMMA JobsAre ==
    /\ \A after \in {"none", "all", "topic"} : Then(after) \in JobRow /\ Then(after).step = "asked"
    /\ \A p \in Topics : ThenReconcile(p) \in JobRow /\ ThenReconcile(p).step = "asked"
<1>1. <<>> \in Seq(Move) /\ <<>> \in Seq(Removal) /\ Topics \subseteq Nat
  BY AgendaConstants
<1>2. \A after \in {"none", "all", "topic"} : Then(after) \in JobRow /\ Then(after).step = "asked"
  BY <1>1 DEF Then, Idle, JobRow
<1>3. \A p \in Topics : ThenReconcile(p) \in JobRow /\ ThenReconcile(p).step = "asked"
  BY <1>1 DEF ThenReconcile, Then, Idle, JobRow
<1> QED
  BY <1>2, <1>3

LEMMA LocksAre ==
    /\ \A m \in Meetings : Lock("meeting", m) \in Locks
    /\ \A p \in Topics : Lock("topic", p) \in Locks
    /\ \A id \in Nat : Lock("row", id) \in Locks
    /\ Lock("sections", 0) \in Locks
BY AgendaConstants DEF Lock, Locks

\* Most requests lock their Meeting and nothing else.
LEMMA OnMeetingIs ==
    ASSUME NEW ag, NEW mt, NEW sk, NEW mu, NEW n,
           NEW op \in OnMeetings \ {"add"}, NEW m \in Meetings, NEW arg,
           GoodArg(OnMeeting(op, m, arg))
    PROVE  /\ Good(OnMeeting(op, m, arg), ag, mt, sk, mu, n)
           /\ Own(OnMeeting(op, m, arg)) = {} /\ OnMeeting(op, m, arg).held = {}
<1>1. /\ <<Lock("meeting", m)>> \in Seq(Locks) /\ <<Lock("meeting", m)>> # <<>>
      /\ Head(<<Lock("meeting", m)>>) = Lock("meeting", m)
  BY LocksAre
<1>2. op \in RequestOps /\ op # "add"
  BY DEF OnMeetings
<1> QED
  BY <1>1, <1>2, GoodRequest DEF OnMeeting, Own, Request

LEMMA AskOnMeeting ==
    ASSUME Inv, NEW b \in Browsers, NEW operation, NEW op \in OnMeetings \ {"add"},
           NEW m \in Meetings, NEW arg, GoodArg(OnMeeting(op, m, arg)),
           NEW after \in JobRow, after.step = "asked",
           Asks(b, operation, OnMeeting(op, m, arg), after)
    PROVE  Inv'
<1>1. /\ AsksAnew(b, operation, OnMeeting(op, m, arg), after)
      /\ loaded' = loaded /\ ids' = ids
  BY DEF Asks
<1>2. loaded' \in [Browsers -> SUBSET Meetings] /\ ids' \in Nat /\ ids <= ids'
  BY <1>1 DEF Inv, TypeInv, Pages
<1> QED
  BY <1>1, <1>2, OnMeetingIs, AskStep

LEMMA LocksOfAre ==
    ASSUME NEW item \in ItemRow, NEW m \in Meetings
    PROVE  /\ LocksOf(item, m) \in Seq(Locks) /\ LocksOf(item, m) # <<>>
           /\ Head(LocksOf(item, m)) = Lock("meeting", m)
           /\ item.source # 0 =>
                 LocksOf(item, m)[Len(LocksOf(item, m))] = Lock("row", item.source)
<1>1. /\ Lock("meeting", m) \in Locks /\ Lock("topic", item.topic) \in Locks
      /\ Lock("row", item.source) \in Locks
  BY LocksAre DEF ItemRow
<1>2. CASE item.source = 0
  <2>1. LocksOf(item, m) = <<Lock("meeting", m), Lock("topic", item.topic)>>
    BY <1>2 DEF LocksOf
  <2> QED
    BY <1>1, <1>2, <2>1
<1>3. CASE item.source # 0
  <2>1. LocksOf(item, m)
          = <<Lock("meeting", m), Lock("topic", item.topic), Lock("row", item.source)>>
    BY <1>3 DEF LocksOf
  <2> QED
    BY <1>1, <1>3, <2>1
<1> QED
  BY <1>2, <1>3

LEMMA AdditionIs ==
    ASSUME NEW ag, NEW mt, NEW sk, NEW mu, NEW n, NEW m \in Meetings, NEW items, GoodList(items)
    PROVE  /\ Good(Addition(m, items), ag, mt, sk, mu, n) /\ Addition(m, items).held = {}
           /\ Own(Addition(m, items)) = {items[i].id : i \in DOMAIN items}
<1> DEFINE arg == [items |-> items, all |-> items]
           locks == LocksOf(Head(items), m)
<1>1. Head(items) \in ItemRow
  BY DEF GoodList
<1>2. /\ DOMAIN arg = {"items", "all"} /\ arg.items = items /\ arg.all = items
      /\ arg.items = arg.all
  OBVIOUS
<1>3. Addition(m, items) = Request("add", m, arg, locks)
  BY DEF Addition
<1> HIDE DEF arg, locks
<1>4. /\ Request("add", m, arg, locks).op = "add" /\ Request("add", m, arg, locks).held = {}
      /\ Request("add", m, arg, locks).arg = arg
  BY DEF Request
<1>5. GoodArg(Request("add", m, arg, locks))
  BY <1>4 DEF GoodArg
<1>6. "add" \in RequestOps
  BY DEF RequestOps
<1>7. /\ locks \in Seq(Locks) /\ locks # <<>> /\ Head(locks) = Lock("meeting", m)
      /\ Head(items).source # 0 => locks[Len(locks)] = Lock("row", Head(items).source)
  BY <1>1, LocksOfAre DEF locks
<1>8. Good(Request("add", m, arg, locks), ag, mt, sk, mu, n)
  BY <1>2, <1>5, <1>6, <1>7, GoodRequest
<1> QED
  BY <1>2, <1>3, <1>4, <1>8 DEF Own

LEMMA UpdatesMeeting ==
    ASSUME Inv, NEW b \in Browsers, CreateMeeting(b) \/ UpdateMeeting(b) PROVE Inv'
<1> USE JobsAre
<1>1. CASE CreateMeeting(b)
  <2> DEFINE x(m, date) == Request("create", m,
                             [values |-> [status |-> "planned", date |-> date]], <<>>)
  <2>1. PICK m \in Meetings, date \in Dates :
           /\ AsksAnew(b, "create", x(m, date), Then("all"))
           /\ loaded' = [loaded EXCEPT ![b] = @ \cup {m}] /\ ids' = ids
    BY <1>1 DEF CreateMeeting
  <2>2. [status |-> "planned", date |-> date] \in MeetingChanges
    BY AgendaConstants DEF MeetingChanges
  <2>3. GoodArg(x(m, date))
    BY <2>2 DEF GoodArg, Request
  <2>4. <<>> \in Seq(Locks) /\ "create" \in RequestOps /\ "create" \notin OnMeetings
    BY DEF RequestOps, OnMeetings
  <2>5. Good(x(m, date), agenda, meeting, skips, mutations, ids')
    BY <2>3, <2>4, GoodRequest
  <2>6. Own(x(m, date)) = {} /\ x(m, date).held = {}
    BY DEF Own, Request
  <2>7. loaded' \in [Browsers -> SUBSET Meetings] /\ ids' \in Nat /\ ids <= ids'
    BY <2>1 DEF Inv, TypeInv, Pages
  <2> HIDE DEF x, Inv
  <2> QED
    BY <2>1, <2>5, <2>6, <2>7, AskStep
<1>2. CASE UpdateMeeting(b)
  <2>1. PICK m \in loaded[b], values \in [status : {"in_progress"}]
                                  \cup [status : {"planned", "in_progress"}, date : Dates] :
           Asks(b, "update", OnMeeting("update", m, [values |-> values]), Then("all"))
    BY <1>2 DEF UpdateMeeting
  <2>2. values \in MeetingChanges
    BY AgendaConstants DEF MeetingChanges
  <2>3. GoodArg(OnMeeting("update", m, [values |-> values]))
    BY <2>2 DEF GoodArg, OnMeeting, Request
  <2>4. m \in Meetings /\ "update" \in OnMeetings \ {"add"}
    BY DEF Inv, TypeInv, Pages, OnMeetings, RequestOps
  <2> QED
    BY <2>1, <2>3, <2>4, AskOnMeeting
<1> QED
  BY <1>1, <1>2

LEMMA ChangesAppearance ==
    ASSUME Inv, NEW b \in Browsers,
           \/ RemoveTopic(b) \/ DecideTopic(b) \/ AnnotateTopic(b) \/ RestoreRecurrence(b)
    PROVE  Inv'
<1> USE JobsAre
<1>1. loaded[b] \subseteq Meetings /\ skips \subseteq Topics \X Meetings
  BY DEF Inv, TypeInv, Pages
<1>2. {"remove", "decide", "note", "restore"} \subseteq OnMeetings \ {"add"}
  BY DEF OnMeetings, RequestOps
<1>3. \A m \in Meetings : \A id :
         /\ GoodArg(OnMeeting("remove", m, [id |-> id])) /\ GoodArg(OnMeeting("note", m, [id |-> id]))
         /\ GoodArg(OnMeeting("restore", m, [topic |-> id]))
         /\ \A decision \in {"none", "done", "deferred"} :
               GoodArg(OnMeeting("decide", m, [id |-> id, decision |-> decision]))
  BY DEF GoodArg, OnMeeting, Request
<1>4. CASE RemoveTopic(b)
  <2>1. PICK m \in loaded[b] : \E id \in Ids(agenda[m]) :
           Asks(b, "remove", OnMeeting("remove", m, [id |-> id]), Then("all"))
    BY <1>4 DEF RemoveTopic
  <2> QED
    BY <1>1, <1>2, <1>3, <2>1, AskOnMeeting
<1>5. CASE DecideTopic(b)
  <2>1. PICK m \in loaded[b], decision \in {"none", "done", "deferred"} : \E id \in Ids(agenda[m]) :
           Asks(b, "decide", OnMeeting("decide", m, [id |-> id, decision |-> decision]),
                Then("none"))
    BY <1>5 DEF DecideTopic
  <2> QED
    BY <1>1, <1>2, <1>3, <2>1, AskOnMeeting
<1>6. CASE AnnotateTopic(b)
  <2>1. PICK m \in Meetings : \E id \in Ids(agenda[m]) :
           Asks(b, "note", OnMeeting("note", m, [id |-> id]), Then("none"))
    BY <1>6 DEF AnnotateTopic
  <2> QED
    BY <1>1, <1>2, <1>3, <2>1, AskOnMeeting
<1>7. CASE RestoreRecurrence(b)
  <2>1. PICK skip \in skips :
           Asks(b, "restore", OnMeeting("restore", skip[2], [topic |-> skip[1]]),
                ThenReconcile(skip[1]))
    BY <1>7 DEF RestoreRecurrence
  <2>2. skip[1] \in Topics /\ skip[2] \in Meetings
    BY <1>1
  <2> QED
    BY <1>2, <1>3, <2>1, <2>2, AskOnMeeting
<1> QED
  BY <1>4, <1>5, <1>6, <1>7

\* An appearance is found on the agenda it is on.
LEMMA PlaceIs ==
    ASSUME Inv, NEW m \in Meetings, NEW id \in Ids(agenda[m])
    PROVE  LET p == Place(agenda, id)[2]
           IN p \in DOMAIN agenda[m] /\ p \in Topics /\ agenda[m][p].id = id
<1> DEFINE ok(place) == place[2] \in DOMAIN agenda[place[1]]
                        /\ agenda[place[1]][place[2]].id = id
           k == Place(agenda, id)[1]
           r == Place(agenda, id)[2]
<1>1. PICK q \in DOMAIN agenda[m] : agenda[m][q].id = id
  BY DEF Ids
<1>2. q \in Topics
  BY DEF Inv, AgendasAreWhole, AgendaTypeOK, AreAgendas
<1>3. <<m, q>> \in Meetings \X Topics /\ ok(<<m, q>>)
  BY <1>1, <1>2
<1>4. Place(agenda, id) \in Meetings \X Topics /\ ok(Place(agenda, id))
  BY <1>3 DEF Place
<1>5. k \in Meetings /\ r \in Topics /\ r \in DOMAIN agenda[k] /\ agenda[k][r].id = id
  BY <1>4
<1> HIDE DEF k, r
<1>6. k = m
  BY <1>1, <1>5 DEF Inv, AgendasAreWhole, AgendaTypeOK, Unique
<1> QED
  BY <1>5, <1>6 DEF r

\* An agenda is dragged into an order of rows with a section and a position.
LEMMA Reorders == ASSUME Inv, NEW b \in Browsers, ReorderTopics(b) PROVE Inv'
<1> DEFINE asked(m, p, s, position) ==
             Asks(b, "reorder", OnMeeting("reorder", m, [order |-> Dragged(m, p, s, position)]),
                  Then("none"))
           end(m, p, s) == Cardinality(InSection(agenda[m], s) \ {p}) + 1
<1>1. PICK m \in loaded[b] : \E p \in DOMAIN agenda[m], s \in Listed :
         \E position \in 1..end(m, p, s) : asked(m, p, s, position)
  BY DEF ReorderTopics
<1>2. PICK p \in DOMAIN agenda[m], s \in Listed :
         \E position \in 1..end(m, p, s) : asked(m, p, s, position)
  BY <1>1
<1>12. PICK position \in 1..end(m, p, s) : asked(m, p, s, position)
  BY <1>2
<1> DEFINE rows == agenda[m]
           bare == Removed(rows, p)
           row == [rows[p] EXCEPT !.section = s, !.position = position]
           moved == Inserted(bare, p, row)
           order == Dragged(m, p, s, position)
<1>3. /\ m \in Meetings /\ ids \in Nat /\ Table(rows, ids) /\ Distinct(rows) /\ Numbered(rows)
      /\ s \in Sections
  BY DEF Inv, TypeInv, Pages, AgendasAreWhole, AgendaTypeOK, AreAgendas, Unique, Table, Distinct,
         PositionsAreConsecutive, Listed
<1>4. /\ Table(bare, ids) /\ DOMAIN bare = DOMAIN rows \ {p}
      /\ \A q \in DOMAIN bare : bare[q] \in Row(ids)
  <2>1. p \in DOMAIN rows
    OBVIOUS
  <2> HIDE DEF rows
  <2>2. Table(bare, ids) /\ DOMAIN bare = DOMAIN rows \ {p}
    BY <1>3, <2>1, RemovedIs
  <2> QED
    BY <2>2 DEF Table
<1>5. rows[p] \in Row(ids) /\ position \in Nat \ {0}
  <2>1. IsFiniteSet(InSection(rows, s))
    BY <1>3, SectionsAreFinite DEF Table
  <2>2. Cardinality(InSection(rows, s) \ {p}) \in Nat
    BY <2>1, FS_RemoveElement, FS_CardinalityType
  <2> QED
    BY <1>3, <2>2 DEF Table
<1>6. row \in Row(ids)
  BY <1>3, <1>5 DEF Row
<1>7. /\ DOMAIN moved = DOMAIN rows
      /\ \A q \in DOMAIN rows : moved[q].section \in Sections /\ moved[q].position \in Nat
  <2> HIDE DEF row, bare, rows
  <2>1. DOMAIN moved = DOMAIN bare \cup {p}
    BY DEF Inserted
  <2>2. ASSUME NEW q \in DOMAIN bare \cup {p}
        PROVE  moved[q].section \in Sections /\ moved[q].position \in Nat
    <3>1. CASE q = p
      <4>1. moved[q] = row
        BY <3>1 DEF Inserted
      <4> QED
        BY <1>6, <4>1 DEF Row
    <3>2. CASE q # p
      <4>1. bare[q] \in Row(ids)
        BY <1>4, <2>2, <3>2
      <4>2. \/ moved[q] = bare[q]
            \/ moved[q] = [bare[q] EXCEPT !.position = @ + 1]
        BY <2>2, <3>2 DEF Inserted
      <4> QED
        BY <4>1, <4>2 DEF Row
    <3> QED
      BY <3>1, <3>2
  <2> QED
    BY <1>4, <2>1, <2>2 DEF rows
<1>8. \A id \in Ids(rows) : Place(agenda, id)[2] \in DOMAIN rows
  BY <1>3, PlaceIs
<1>9. order \in [DOMAIN order -> [section : Sections, position : Nat]]
  <2>1. order = [id \in Ids(rows) |->
                   [section |-> moved[Place(agenda, id)[2]].section,
                    position |-> moved[Place(agenda, id)[2]].position]]
    BY DEF Dragged
  <2> HIDE DEF order, moved, rows
  <2> QED
    BY <1>7, <1>8, <2>1
<1>10. GoodArg(OnMeeting("reorder", m, [order |-> order]))
  BY <1>9 DEF GoodArg, OnMeeting, Request
<1>11. "reorder" \in OnMeetings \ {"add"}
  BY DEF OnMeetings, RequestOps
<1> HIDE DEF order
<1> QED
  BY <1>12, <1>3, <1>10, <1>11, JobsAre, AskOnMeeting DEF order

LEMMA AskOther ==
    ASSUME Inv, NEW b \in Browsers, NEW operation, NEW op \in {"complete", "topic", "section"},
           NEW m, op = "complete" => m \in Meetings, NEW arg, NEW locks \in Seq(Locks),
           op = "complete" => locks # <<>> /\ Head(locks) = Lock("meeting", m),
           GoodArg(Request(op, m, arg, locks)), NEW after \in JobRow, after.step = "asked",
           Asks(b, operation, Request(op, m, arg, locks), after)
    PROVE  Inv'
<1> DEFINE x == Request(op, m, arg, locks)
<1>1. AsksAnew(b, operation, x, after) /\ loaded' = loaded /\ ids' = ids
  BY DEF Asks
<1>2. loaded' \in [Browsers -> SUBSET Meetings] /\ ids' \in Nat /\ ids <= ids'
  BY <1>1 DEF Inv, TypeInv, Pages
<1>3. Own(x) = {} /\ x.held = {}
  BY DEF Own, Request
<1>4. op \in RequestOps /\ (op \in OnMeetings <=> op = "complete") /\ op # "add"
  BY DEF RequestOps, OnMeetings
<1>5. Good(x, agenda, meeting, skips, mutations, ids')
  BY <1>4, GoodRequest
<1> HIDE DEF x, Inv
<1> QED
  BY <1>1, <1>2, <1>3, <1>5, AskStep

LEMMA UpdatesTopic == ASSUME Inv, NEW b \in Browsers, UpdateTopic(b) PROVE Inv'
<1>1. PICK p \in Topics, values \in TopicChanges :
         Asks(b, "topic", Request("topic", 0, [topic |-> p, values |-> values],
                                  <<Lock("topic", p)>>), ThenReconcile(p))
  BY DEF UpdateTopic, TopicChanges
<1>2. GoodArg(Request("topic", 0, [topic |-> p, values |-> values], <<Lock("topic", p)>>))
  BY DEF GoodArg, Request
<1>3. <<Lock("topic", p)>> \in Seq(Locks)
  BY LocksAre
<1> QED
  BY <1>1, <1>2, <1>3, JobsAre, AskOther

\* A completion locks its Meeting and then the Topics of the agenda.
LEMMA Completes == ASSUME Inv, NEW b \in Browsers, CompleteMeeting(b) PROVE Inv'
<1> DEFINE topics(m) == LET order == InOrder(DOMAIN agenda[m], <)
                        IN [i \in DOMAIN order |-> Lock("topic", order[i])]
           locks(m) == <<Lock("meeting", m)>> \o topics(m)
<1>1. PICK m \in loaded[b] :
         Asks(b, "complete", Request("complete", m, [shown |-> Ids(agenda[m])], locks(m)),
              Then("all"))
  BY DEF CompleteMeeting
<1>2. m \in Meetings /\ DOMAIN agenda[m] \subseteq Topics
  BY DEF Inv, TypeInv, Pages, AgendasAreWhole, AgendaTypeOK, AreAgendas
<1>3. topics(m) \in Seq(Locks)
  <2> DEFINE S == DOMAIN agenda[m]
             c == Cardinality(S)
             order == InOrder(S, <)
  <2>1. c \in Nat /\ order \in [1..c -> S]
    BY <1>2, InTopicOrder
  <2>2. \A i \in 1..c : Lock("topic", order[i]) \in Locks
    BY <1>2, <2>1, LocksAre
  <2>3. topics(m) = [i \in 1..c |-> Lock("topic", order[i])]
    BY <2>1
  <2> HIDE DEF topics, order, c, S
  <2> QED
    BY <2>1, <2>2, <2>3
<1>4. locks(m) \in Seq(Locks) /\ locks(m) # <<>> /\ Head(locks(m)) = Lock("meeting", m)
  <2>1. Lock("meeting", m) \in Locks
    BY <1>2, LocksAre
  <2> HIDE DEF topics
  <2> QED
    BY <1>3, <2>1
<1>5. GoodArg(Request("complete", m, [shown |-> Ids(agenda[m])], locks(m)))
  BY DEF GoodArg, Request
<1> HIDE DEF locks
<1> QED
  BY <1>1, <1>2, <1>4, <1>5, JobsAre, AskOther

LEMMA Sectioning == ASSUME Inv, NEW b \in Browsers, ChangeSections(b) PROVE Inv'
<1> DEFINE x(change, s, order) ==
             Request("section", 0, [change |-> change, section |-> s, order |-> order],
                     <<Lock("sections", 0)>>)
<1>1. PICK change, s, order :
         /\ Asks(b, "section", x(change, s, order), Then("none"))
         /\ change = "reorder" => order \in SectionOrders(Listed)
  <2>1. CASE \E s \in Listed : Asks(b, "section", x("delete", s, Nothing), Then("none"))
    <3>1. PICK s \in Listed : Asks(b, "section", x("delete", s, Nothing), Then("none"))
      BY <2>1
    <3>2. "delete" # "reorder"
      OBVIOUS
    <3> HIDE DEF x
    <3> QED
      BY <3>1, <3>2, Zenon
  <2>2. CASE Asks(b, "section", x("create", NoSection, Nothing), Then("none"))
    <3>1. "create" # "reorder"
      OBVIOUS
    <3> HIDE DEF x
    <3> QED
      BY <2>2, <3>1, Zenon
  <2>3. CASE \E order \in SectionOrders(Listed) :
               Asks(b, "section", x("reorder", NoSection, order), Then("none"))
    BY <2>3
  <2> HIDE DEF x
  <2> QED
    BY <2>1, <2>2, <2>3 DEF ChangeSections, x
<1>2. change = "reorder" => order \in SectionOrders(DOMAIN order)
  <2>1. \A f \in SectionOrders(Listed) : DOMAIN f = Listed
    BY DEF SectionOrders
  <2> QED
    BY <1>1, <2>1
<1>3. GoodArg(x(change, s, order))
  BY <1>2 DEF GoodArg, Request
<1>4. <<Lock("sections", 0)>> \in Seq(Locks)
  BY LocksAre
<1> QED
  BY <1>1, <1>3, <1>4, JobsAre, AskOther

\* One Topic or two, as new appearances.
LEMMA Adds == ASSUME Inv, NEW b \in Browsers, AddTopic(b) \/ AddTopics(b) PROVE Inv'
<1> DEFINE one(p, s, position) == Item(ids + 1, p, s, position, "manual", 0)
           two(p, s, position) == Item(ids + 2, p, s, position, "manual", 0)
<1>1. /\ loaded[b] \subseteq Meetings /\ loaded \in [Browsers -> SUBSET Meetings] /\ ids \in Nat
      /\ \A m : Suggested(m) \subseteq Topics
  BY DEF Inv, TypeInv, Pages, Suggested
<1>2. \A p \in Topics, s \in Sections, position \in {0, 1, 2} :
         /\ one(p, s, position) \in ItemRow /\ two(p, s, position) \in ItemRow
         /\ one(p, s, position).id = ids + 1 /\ two(p, s, position).id = ids + 2
         /\ one(p, s, position).source = 0 /\ two(p, s, position).source = 0
  BY <1>1 DEF Item, ItemRow
<1> USE JobsAre
<1>3. CASE AddTopic(b)
  <2>1. PICK m \in loaded[b] : \E p \in Suggested(m), s \in Sections, position \in {0, 1} :
           /\ ids' = ids + 1 /\ loaded' = loaded
           /\ AsksAnew(b, "add", Addition(m, <<one(p, s, position)>>), Then("none"))
    BY <1>3 DEF AddTopic
  <2>2. PICK p \in Topics, s \in Sections, position \in {0, 1} :
           /\ ids' = ids + 1 /\ loaded' = loaded
           /\ AsksAnew(b, "add", Addition(m, <<one(p, s, position)>>), Then("none"))
    BY <1>1, <2>1
  <2> DEFINE x == one(p, s, position)
  <2>3. x \in ItemRow /\ x.id = ids + 1 /\ x.source = 0
    BY <1>2
  <2> HIDE DEF x
  <2>4. GoodList(<<x>>) /\ {<<x>>[i].id : i \in DOMAIN <<x>>} = {ids + 1}
    BY <2>3 DEF GoodList
  <2>5. /\ Good(Addition(m, <<x>>), agenda, meeting, skips, mutations, ids')
        /\ Addition(m, <<x>>).held = {} /\ Own(Addition(m, <<x>>)) = {ids + 1}
    BY <1>1, <2>4, AdditionIs
  <2>6. ids' \in Nat /\ ids <= ids' /\ {ids + 1} \subseteq (ids + 1)..ids'
    BY <1>1, <2>2
  <2>7. AsksAnew(b, "add", Addition(m, <<x>>), Then("none"))
    BY <2>2 DEF x
  <2> HIDE DEF Inv
  <2> QED
    BY <1>1, <2>2, <2>5, <2>6, <2>7, AskStep
<1>4. CASE AddTopics(b)
  <2>1. PICK m \in loaded[b] : \E p, q \in Suggested(m), s \in Sections, first \in BOOLEAN :
           /\ ids' = ids + 2 /\ loaded' = loaded
           /\ AsksAnew(b, "batch", Addition(m, <<one(p, s, IF first THEN 1 ELSE 0),
                                                 two(q, s, IF first THEN 2 ELSE 0)>>), Then("none"))
    BY <1>4 DEF AddTopics
  <2>2. PICK p \in Topics, q \in Topics, s \in Sections, first \in BOOLEAN :
           /\ ids' = ids + 2 /\ loaded' = loaded
           /\ AsksAnew(b, "batch", Addition(m, <<one(p, s, IF first THEN 1 ELSE 0),
                                                 two(q, s, IF first THEN 2 ELSE 0)>>), Then("none"))
    BY <1>1, <2>1
  <2> DEFINE x == one(p, s, IF first THEN 1 ELSE 0)
             y == two(q, s, IF first THEN 2 ELSE 0)
  <2>3. /\ x \in ItemRow /\ x.id = ids + 1 /\ x.source = 0
        /\ y \in ItemRow /\ y.id = ids + 2 /\ y.source = 0
    BY <1>2
  <2> HIDE DEF x, y
  <2>4. GoodList(<<x, y>>) /\ {<<x, y>>[i].id : i \in DOMAIN <<x, y>>} = {ids + 1, ids + 2}
    BY <1>1, <2>3 DEF GoodList
  <2>5. /\ Good(Addition(m, <<x, y>>), agenda, meeting, skips, mutations, ids')
        /\ Addition(m, <<x, y>>).held = {} /\ Own(Addition(m, <<x, y>>)) = {ids + 1, ids + 2}
    BY <1>1, <2>4, AdditionIs
  <2>6. ids' \in Nat /\ ids <= ids' /\ {ids + 1, ids + 2} \subseteq (ids + 1)..ids'
    BY <1>1, <2>2
  <2>7. AsksAnew(b, "batch", Addition(m, <<x, y>>), Then("none"))
    BY <2>2 DEF x, y
  <2> HIDE DEF Inv
  <2> QED
    BY <1>1, <2>2, <2>5, <2>6, <2>7, AskStep
<1> QED
  BY <1>3, <1>4

LEMMA Asked == ASSUME Inv, NEW b \in Browsers, Ask(b) PROVE Inv'
BY UpdatesMeeting, ChangesAppearance, Reorders, UpdatesTopic, Completes, Sectioning, Adds DEF Ask

-----------------------------------------------------------------------------
(* What a browser does by itself *)

LEMMA JobKept ==
    ASSUME Inv, NEW b \in Browsers, NEW j, job' = [job EXCEPT ![b] = j], j \in JobRow,
           j.step \in {"next", "carrying"} => j.topic \in Topics,
           loaded' \in [Browsers -> SUBSET Meetings]
    PROVE  Pages'
BY DEF Inv, TypeInv, Pages

LEMMA ReadsAndWrites ==
    ASSUME Inv, NEW b \in Browsers, WriteText(b) \/ OpenMeeting(b) \/ ListTopics(b) \/ NextTopic(b)
    PROVE  Inv'
<1>1. job[b] \in JobRow /\ loaded \in [Browsers -> SUBSET Meetings]
  BY DEF Inv, TypeInv, Pages
<1>2. Idle \in JobRow /\ Idle.step = "idle"
  BY DEF Idle, JobRow, AgendaConstants
<1>3. UNCHANGED <<database, tx, ids>>
  BY DEF WriteText, OpenMeeting, ListTopics, NextTopic
<1>4. CASE WriteText(b)
  <2>1. Pages'
    BY <1>4 DEF WriteText, Inv, TypeInv, Pages
  <2> QED
    BY <1>3, <2>1, QuietStep
<1>5. CASE OpenMeeting(b)
  <2>1. PICK m \in Meetings :
           /\ loaded' = [loaded EXCEPT ![b] = IF m \in @ THEN @ \ {m} ELSE @ \cup {m}]
           /\ job' = job
    BY <1>5 DEF OpenMeeting, Existing
  <2>2. loaded' \in [Browsers -> SUBSET Meetings]
    BY <1>1, <2>1
  <2>3. Pages'
    BY <2>1, <2>2 DEF Inv, TypeInv, Pages
  <2> QED
    BY <1>3, <2>3, QuietStep
<1>6. CASE ListTopics(b)
  <2> DEFINE recurring == {p \in Topics : topic[p].type = "recurring"}
             j == IF recurring = {} THEN Idle
                  ELSE [job[b] EXCEPT !.todo = recurring, !.step = "plan"]
  <2>1. job' = [job EXCEPT ![b] = j] /\ loaded' = loaded
    BY <1>6 DEF ListTopics, Goes
  <2>2. j \in JobRow /\ j.step \notin {"next", "carrying"}
    <3>1. recurring \in SUBSET Topics
      OBVIOUS
    <3> HIDE DEF recurring
    <3> QED
      BY <1>1, <1>2, <3>1 DEF JobRow
  <2>3. Pages'
    BY <1>1, <2>1, <2>2, JobKept
  <2> QED
    BY <1>3, <2>3, QuietStep
<1>7. CASE NextTopic(b)
  <2> DEFINE j == IF job[b].todo = {} THEN Idle ELSE [job[b] EXCEPT !.step = "plan"]
  <2>1. job' = [job EXCEPT ![b] = j] /\ loaded' = loaded
    BY <1>7 DEF NextTopic, Goes
  <2>2. j \in JobRow /\ j.step \notin {"next", "carrying"}
    BY <1>1, <1>2 DEF JobRow
  <2>3. Pages'
    BY <1>1, <2>1, <2>2, JobKept
  <2> QED
    BY <1>3, <2>3, QuietStep
<1> QED
  BY <1>4, <1>5, <1>6, <1>7

LEMMA FetchesPlan == ASSUME Inv, NEW b \in Browsers, FetchPlan(b) PROVE Inv'
<1>1. PICK p \in job[b].todo :
         job' = [job EXCEPT ![b] =
                   IF topic[p].type # "recurring" \/ ~Plan(p).valid THEN Idle
                   ELSE [job[b] EXCEPT !.step = "next", !.topic = p, !.todo = @ \ {p},
                                       !.moves = Plan(p).moves, !.removals = Plan(p).removals]]
  BY DEF FetchPlan, Goes
<1>2. /\ job[b] \in JobRow /\ loaded \in [Browsers -> SUBSET Meetings] /\ p \in Topics
      /\ meeting \in [Meetings -> MeetingRow] /\ topic[p] \in TopicRow
      /\ ids \in Nat /\ AreAgendas(agenda, ids)
  BY DEF Inv, TypeInv, Pages, JobRow, AgendasAreWhole, AgendaTypeOK
<1>3. Plan(p).moves \in Seq(Move) /\ Plan(p).removals \in Seq(Removal)
  BY <1>2, PlanIs DEF Plan
<1>4. Idle \in JobRow /\ Idle.step = "idle"
  BY DEF Idle, JobRow, AgendaConstants
<1> DEFINE going == [job[b] EXCEPT !.step = "next", !.topic = p, !.todo = @ \ {p},
                                   !.moves = Plan(p).moves, !.removals = Plan(p).removals]
           j == IF topic[p].type # "recurring" \/ ~Plan(p).valid THEN Idle ELSE going
<1>5. going \in JobRow /\ going.topic = p
  BY <1>2, <1>3, AgendaConstants DEF JobRow
<1>6. j \in JobRow /\ (j.step \in {"next", "carrying"} => j.topic \in Topics)
  <2> HIDE DEF going
  <2> QED
    BY <1>2, <1>4, <1>5
<1>7. job' = [job EXCEPT ![b] = j] /\ UNCHANGED <<database, tx, loaded, ids>>
  BY <1>1 DEF FetchPlan
<1> HIDE DEF j
<1>8. Pages'
  BY <1>2, <1>6, <1>7, JobKept
<1> QED
  BY <1>7, <1>8, QuietStep

\* The plan's next appearance is asked for under an identifier of its own.
LEMMA Moves == ASSUME Inv, NEW b \in Browsers, NextMove(b) PROVE Inv'
<1> DEFINE j == job[b]
           move == Head(j.moves)
           item == Item(ids + 1, j.topic, move.section, move.position, "recurrence", move.source)
           on == [j EXCEPT !.step = "carrying", !.moves = Tail(@)]
<1>1. /\ j \in JobRow /\ loaded \in [Browsers -> SUBSET Meetings] /\ ids \in Nat
      /\ j.step = "next" /\ j.moves # <<>> /\ j.topic \in Topics
  BY DEF NextMove, Inv, TypeInv, Pages
<1>2. move \in Move /\ Tail(j.moves) \in Seq(Move)
  BY <1>1 DEF JobRow
<1>3. UNCHANGED database /\ loaded' = loaded
  BY DEF NextMove
<1>4. CASE move.meeting \notin loaded[b]
  <2>1. Idle \in JobRow /\ Idle.step = "idle"
    BY DEF Idle, JobRow, AgendaConstants
  <2>2. job' = [job EXCEPT ![b] = Idle] /\ UNCHANGED <<tx, ids>>
    BY <1>4 DEF NextMove, Goes
  <2>3. Pages'
    BY <1>1, <1>3, <2>1, <2>2, JobKept
  <2> QED
    BY <1>3, <2>2, <2>3, QuietStep
<1>5. CASE move.meeting \in loaded[b]
  <2>1. /\ ids' = ids + 1 /\ job' = [job EXCEPT ![b] = on]
        /\ tx' = [tx EXCEPT ![b] = Addition(move.meeting, <<item>>)]
    BY <1>5 DEF NextMove, Goes
  <2>2. on \in JobRow /\ on.topic \in Topics
    BY <1>1, <1>2 DEF JobRow
  <2>3. item \in ItemRow /\ item.id = ids + 1 /\ move.meeting \in Meetings
    BY <1>1, <1>2 DEF Item, ItemRow, Move
  <2>4. Pages'
    BY <1>1, <1>3, <2>1, <2>2, JobKept
  <2> HIDE DEF item, move
  <2>5. GoodList(<<item>>) /\ {<<item>>[i].id : i \in DOMAIN <<item>>} = {ids + 1}
    BY <2>3 DEF GoodList
  <2>6. /\ Good(Addition(move.meeting, <<item>>), agenda, meeting, skips, mutations, ids')
        /\ Addition(move.meeting, <<item>>).held = {}
        /\ Own(Addition(move.meeting, <<item>>)) = {ids + 1}
    BY <2>3, <2>5, AdditionIs
  <2>7. ids' \in Nat /\ ids <= ids' /\ {ids + 1} \subseteq (ids + 1)..ids'
    BY <1>1, <2>1
  <2>8. /\ \A d \in Browsers \ {b} : Addition(move.meeting, <<item>>).held \cap tx[d].held = {}
        /\ Own(Addition(move.meeting, <<item>>)) \subseteq Own(tx[b]) \cup (ids + 1)..ids'
    BY <2>6, <2>7
  <2> HIDE DEF Inv
  <2> QED
    BY <1>3, <2>1, <2>4, <2>6, <2>7, <2>8, RequestStep
<1> QED
  BY <1>4, <1>5

LEMMA Reconciled == ASSUME Inv, NEW b \in Browsers, NextRemoval(b) PROVE Inv'
<1> DEFINE j == job[b]
           removal == Head(j.removals)
           x == OnMeeting("reconcile", removal.meeting, [id |-> removal.id])
           on == [j EXCEPT !.step = "carrying", !.removals = Tail(@)]
<1>1. /\ j \in JobRow /\ loaded \in [Browsers -> SUBSET Meetings] /\ ids \in Nat
      /\ j.step = "next" /\ j.removals # <<>> /\ j.topic \in Topics
  BY DEF NextRemoval, Inv, TypeInv, Pages
<1>2. removal \in Removal /\ Tail(j.removals) \in Seq(Removal)
  BY <1>1 DEF JobRow
<1>3. /\ UNCHANGED database /\ loaded' = loaded /\ ids' = ids
      /\ job' = [job EXCEPT ![b] = on] /\ tx' = [tx EXCEPT ![b] = x]
  BY DEF NextRemoval, Goes
<1>4. on \in JobRow /\ on.topic \in Topics
  BY <1>1, <1>2 DEF JobRow
<1>5. Pages'
  BY <1>1, <1>3, <1>4, JobKept
<1>6. GoodArg(x)
  BY DEF GoodArg, OnMeeting, Request
<1>7. removal.meeting \in Meetings /\ "reconcile" \in OnMeetings \ {"add"}
  BY <1>2 DEF Removal, OnMeetings, RequestOps
<1>8. Good(x, agenda, meeting, skips, mutations, ids') /\ Own(x) = {} /\ x.held = {}
  <2> HIDE DEF removal
  <2> QED
    BY <1>6, <1>7, OnMeetingIs
<1>9. ids' \in Nat /\ ids <= ids'
  BY <1>1, <1>3
<1> HIDE DEF x, on, Inv
<1> QED
  BY <1>3, <1>5, <1>8, <1>9, RequestStep

-----------------------------------------------------------------------------
(* Locks *)

\* A request that holds more, and is otherwise as it was.
LEMMA HoldingMore ==
    ASSUME NEW t, NEW x, NEW ag, NEW mt, NEW sk, NEW mu, NEW n,
           GoodOut(t, ag, mt, sk, mu, n), x.op = t.op, x.arg = t.arg, x.meeting = t.meeting,
           x.out = t.out, t.held \subseteq x.held
    PROVE  GoodOut(x, ag, mt, sk, mu, n) /\ Own(x) = Own(t)
<1>1. Own(x) = Own(t)
  BY DEF Own
<1>2. GoodAgendas(x, ag, mt, sk, n)
  BY DEF GoodOut, GoodAgendas
<1>3. GoodRows(x, ag, mt)
  BY DEF GoodOut, GoodRows
<1> QED
  BY <1>1, <1>2, <1>3 DEF GoodOut

\* The source that is read is an appearance of the agenda it is on.
LEMMA SourceIs ==
    ASSUME Inv, NEW b \in Browsers, SourceOf(b) # Nothing
    PROVE  LET id == Head(tx[b].arg.items).source
               source == SourceOf(b)
           IN /\ id # 0 /\ source \in [meeting : Meetings, topic : Topics, row : Row(ids)]
              /\ source.topic \in DOMAIN agenda[source.meeting]
              /\ source.row = agenda[source.meeting][source.topic] /\ source.row.id = id
              /\ SourceLocks(source) = <<Lock("meeting", source.meeting)>>
<1> DEFINE id == Head(tx[b].arg.items).source
           place == Place(agenda, id)
           ok(x) == x[2] \in DOMAIN agenda[x[1]] /\ agenda[x[1]][x[2]].id = id
<1>1. /\ id # 0 /\ Present(agenda, id)
      /\ SourceOf(b) = [meeting |-> place[1], topic |-> place[2], row |-> agenda[place[1]][place[2]]]
  BY DEF SourceOf
<1>2. PICK m \in Meetings, p \in Topics : p \in DOMAIN agenda[m] /\ agenda[m][p].id = id
  BY <1>1 DEF Present
<1>3. <<m, p>> \in Meetings \X Topics /\ ok(<<m, p>>)
  BY <1>2
<1>4. place \in Meetings \X Topics /\ ok(place)
  BY <1>3 DEF Place
<1>5. agenda[place[1]][place[2]] \in Row(ids)
  BY <1>4 DEF Inv, AgendasAreWhole, AgendaTypeOK, AreAgendas
<1> HIDE DEF place, id
<1> QED
  BY <1>1, <1>4, <1>5 DEF SourceLocks, id

LEMMA LastLeft ==
    ASSUME NEW S, NEW s \in Seq(S), s # <<>>
    PROVE  /\ Tail(s) = <<>> => Head(s) = s[Len(s)]
           /\ Tail(s) # <<>> => Tail(s)[Len(Tail(s))] = s[Len(s)]
<1> DEFINE n == Len(s)
           rest == Tail(s)
<1>1. /\ n \in Nat \ {0} /\ Head(s) = s[1] /\ rest \in Seq(S) /\ Len(rest) = n - 1
      /\ \A i \in 1..n - 1 : rest[i] = s[i + 1]
  BY HeadTailProperties
<1>2. CASE rest = <<>>
  <2>1. Len(rest) = 0
    BY <1>2, EmptySeq
  <2> HIDE DEF rest, n
  <2>2. n = 1
    BY <1>1, <2>1
  <2> QED
    BY <1>1, <1>2, <2>2 DEF n, rest
<1>3. CASE rest # <<>>
  <2>1. n - 1 \in 1..n - 1 /\ (n - 1) + 1 = n
    BY <1>1, <1>3, EmptySeq
  <2> QED
    BY <1>1, <1>3, <2>1
<1> QED
  BY <1>2, <1>3

LEMMA Acquires == ASSUME Inv, NEW b \in Browsers, Acquire(b) PROVE Inv'
<1> DEFINE t == tx[b]
           lock == Head(t.want)
           rest == Tail(t.want)
           source == SourceOf(b)
           last == Adding(b) /\ rest = <<>> /\ t.seen = Nothing
           want == IF Replayed(b) THEN <<>> ELSE IF last THEN SourceLocks(source) ELSE rest
           seen == IF last /\ ~Replayed(b) THEN source ELSE t.seen
           x == [t EXCEPT !.held = @ \cup {lock}, !.want = want, !.seen = seen]
<1>1. tx' = [tx EXCEPT ![b] = x] /\ UNCHANGED <<database, job, loaded, ids>>
  BY DEF Acquire
<1>2. Good(t, agenda, meeting, skips, mutations, ids)
  BY DEF Inv
<1>3. t.want # <<>> /\ t.want \in Seq(Locks) /\ DOMAIN t = DOMAIN x
  BY <1>2 DEF Acquire, Good, Shape
<1>4. /\ x.op = t.op /\ x.meeting = t.meeting /\ x.arg = t.arg /\ x.ready = t.ready
      /\ x.out = t.out /\ x.held = t.held \cup {lock} /\ x.want = want /\ x.seen = seen
  BY <1>2 DEF Good, Shape
<1>5. \A d \in Browsers \ {b} : lock \notin tx[d].held
  BY <1>3 DEF Acquire, Waiting, WaitsFor
<1> HIDE DEF x
<1>6. GoodOut(x, agenda, meeting, skips, mutations, ids) /\ Own(x) = Own(t)
  BY <1>2, <1>4, HoldingMore DEF Good
<1>7. want \in Seq(Locks)
  <2>1. SourceLocks(source) \in Seq(Locks)
    <3>1. CASE source = Nothing
      BY <3>1 DEF SourceLocks
    <3>2. CASE source # Nothing
      <4>1. /\ SourceLocks(source) = <<Lock("meeting", source.meeting)>>
            /\ source \in [meeting : Meetings, topic : Topics, row : Row(ids)]
        BY <3>2, SourceIs
      <4> HIDE DEF source
      <4>2. Lock("meeting", source.meeting) \in Locks
        BY <4>1, LocksAre
      <4> QED
        BY <4>1, <4>2
    <3> QED
      BY <3>1, <3>2
  <2>2. rest \in Seq(Locks) /\ <<>> \in Seq(Locks)
    BY <1>3
  <2> QED
    BY <2>1, <2>2
<1>8. Shape(x)
  <2> HIDE DEF want, seen
  <2> QED
    BY <1>2, <1>3, <1>4, <1>7 DEF Good, Shape
<1>9. GoodArg(x)
  BY <1>2, <1>4 DEF Good, GoodArg
<1>10. GoodLocks(x)
  BY <1>2, <1>4 DEF Good, GoodLocks, Guards
<1>11. GoodItems(x)
  BY <1>2, <1>4, <1>6 DEF Good, GoodItems
<1>12. GoodSource(x, agenda, mutations, ids)
  <2> SUFFICES ASSUME t.op = "add", ~t.ready
               PROVE  GoodSource(x, agenda, mutations, ids)
    BY <1>4 DEF GoodSource
  <2> DEFINE item == Head(t.arg.items)
             row == Lock("row", item.source)
  <2>1. /\ t.seen = Nothing /\ t.want # <<>> /\ item.source # 0 => t.want[Len(t.want)] = row
        /\ t.seen # Nothing =>
              /\ item.source # 0
              /\ t.seen \in [meeting : Meetings, topic : Topics, row : Row(ids)]
              /\ t.seen.topic \in DOMAIN agenda[t.seen.meeting]
              /\ t.seen.row = agenda[t.seen.meeting][t.seen.topic] /\ t.seen.row.id = item.source
              /\ row \in t.held
              /\ \/ Lock("meeting", t.seen.meeting) \in t.held
                 \/ t.want = <<Lock("meeting", t.seen.meeting)>>
                 \/ item.id \in mutations
    BY <1>2 DEF Good, GoodSource
  <2> DEFINE goal(z) ==
         /\ z.seen = Nothing /\ z.want # <<>> /\ item.source # 0 => z.want[Len(z.want)] = row
         /\ z.seen # Nothing =>
               /\ item.source # 0
               /\ z.seen \in [meeting : Meetings, topic : Topics, row : Row(ids)]
               /\ z.seen.topic \in DOMAIN agenda[z.seen.meeting]
               /\ z.seen.row = agenda[z.seen.meeting][z.seen.topic] /\ z.seen.row.id = item.source
               /\ row \in z.held
               /\ \/ Lock("meeting", z.seen.meeting) \in z.held
                  \/ z.want = <<Lock("meeting", z.seen.meeting)>>
                  \/ item.id \in mutations
  <2>2. CASE Replayed(b)
    <3>1. want = <<>> /\ seen = t.seen /\ item.id \in mutations
      BY <2>2 DEF Replayed
    <3>2. goal(x)
      BY <1>4, <2>1, <3>1
    <3> QED
      BY <1>4, <3>2 DEF GoodSource
  <2>3. CASE ~Replayed(b) /\ last
    <3>1. want = SourceLocks(source) /\ seen = source
      BY <2>3
    <3>2. CASE source = Nothing
      <4>1. want = <<>>
        BY <3>1, <3>2 DEF SourceLocks
      <4>2. goal(x)
        BY <1>4, <3>1, <3>2, <4>1
      <4> QED
        BY <1>4, <4>2 DEF GoodSource
    <3>3. CASE source # Nothing
      <4>1. /\ item.source # 0 /\ source \in [meeting : Meetings, topic : Topics, row : Row(ids)]
            /\ source.topic \in DOMAIN agenda[source.meeting]
            /\ source.row = agenda[source.meeting][source.topic] /\ source.row.id = item.source
            /\ SourceLocks(source) = <<Lock("meeting", source.meeting)>>
        BY <3>3, SourceIs
      <4>2. t.want[Len(t.want)] = row /\ rest = <<>>
        BY <1>3, <2>1, <2>3, <4>1
      <4>3. lock = row
        <5> HIDE DEF row, t
        <5> QED
          BY <1>3, <4>2, LastLeft
      <4> HIDE DEF source, want, seen, item
      <4>4. goal(x)
        BY <1>4, <3>1, <3>3, <4>1, <4>3
      <4> QED
        BY <1>4, <4>4 DEF GoodSource, item
    <3> QED
      BY <3>2, <3>3
  <2>4. CASE ~Replayed(b) /\ ~last
    <3>1. want = rest /\ seen = t.seen /\ (rest # <<>> \/ t.seen # Nothing)
      BY <2>4 DEF Adding
    <3>2. rest # <<>> => rest[Len(rest)] = t.want[Len(t.want)]
      <4> HIDE DEF t
      <4> QED
        BY <1>3, LastLeft
    <3> DEFINE whose == Lock("meeting", t.seen.meeting)
    <3>3. t.want = <<whose>> => whose \in x.held
      BY <1>4
    <3>4. CASE t.seen = Nothing
      <4>1. rest # <<>> /\ (item.source # 0 => rest[Len(rest)] = row)
        BY <1>3, <2>1, <3>1, <3>2, <3>4
      <4>2. goal(x)
        <5> HIDE DEF rest, lock, want, seen
        <5> QED
          BY <1>4, <3>1, <3>4, <4>1
      <4> QED
        BY <1>4, <4>2 DEF GoodSource
    <3>5. CASE t.seen # Nothing
      <4>1. goal(x)
        <5> HIDE DEF rest, lock, want, seen
        <5> QED
          BY <1>4, <2>1, <3>1, <3>3, <3>5
      <4> QED
        BY <1>4, <4>1 DEF GoodSource
    <3> QED
      BY <3>4, <3>5
  <2> QED
    BY <2>2, <2>3, <2>4
<1>13. Good(x, agenda, meeting, skips, mutations, ids')
  BY <1>1, <1>6, <1>8, <1>9, <1>10, <1>11, <1>12 DEF Good
<1>14. \A d \in Browsers \ {b} : x.held \cap tx[d].held = {}
  <2>1. \A d \in Browsers \ {b} : t.held \cap tx[d].held = {}
    BY DEF Inv, Apart
  <2> QED
    BY <1>4, <1>5, <2>1
<1>15. ids' \in Nat /\ ids <= ids' /\ Pages'
  BY <1>1 DEF Inv, TypeInv, Pages
<1> HIDE DEF Inv
<1> QED
  BY <1>1, <1>6, <1>13, <1>14, <1>15, RequestStep

-----------------------------------------------------------------------------
(* The agendas as a request leaves them *)

Whole(ag, n) ==
    /\ AreAgendas(ag, n) /\ Unique(ag)
    /\ \A m \in Meetings : Numbered(ag[m]) /\ (DOMAIN ag[m] # {} => m \in Existing)

LEMMA AgendaOfIs ==
    ASSUME Inv, NEW b \in Browsers
    PROVE  LET ag == AgendaOf(b)
               written == tx[b].out.agenda
           IN /\ Whole(ag, ids) /\ ByHandWhere(skips \cup tx[b].out.skip, ag)
              /\ DOMAIN written \subseteq Meetings
              /\ \A m \in DOMAIN written : ag[m] = written[m]
              /\ \A m \in Meetings \ DOMAIN written : ag[m] = agenda[m]
<1> DEFINE t == tx[b]
           ag == AgendaOf(b)
           written == t.out.agenda
<1>1. GoodAgendas(t, agenda, meeting, skips, ids) /\ t.out.added \subseteq Own(t) \ mutations
  BY DEF Inv, Good, GoodOut
<1>2. Whole(agenda, ids)
  BY DEF Inv, AgendasAreWhole, AgendaTypeOK, PositionsAreConsecutive, Whole
<1>3. DOMAIN written \subseteq Meetings
  BY <1>1 DEF GoodAgendas
<1>4. /\ DOMAIN ag = Meetings
      /\ \A m \in DOMAIN written : ag[m] = written[m]
      /\ \A m \in Meetings \ DOMAIN written : ag[m] = agenda[m]
  BY <1>2, <1>3 DEF AgendaOf, Over, Whole, AreAgendas
<1>5. \A m \in DOMAIN written : Table(written[m], ids) /\ Numbered(written[m]) /\ m \in Existing
  BY <1>1 DEF GoodAgendas, Existing, Open
<1> HIDE DEF ag, written
<1>6. ASSUME NEW m \in Meetings
      PROVE  Table(ag[m], ids) /\ Numbered(ag[m]) /\ (DOMAIN ag[m] # {} => m \in Existing)
  BY <1>2, <1>4, <1>5 DEF Whole, AreAgendas, Table
<1>7. AreAgendas(ag, ids)
  BY <1>4, <1>6 DEF AreAgendas, Table
<1>8. ASSUME NEW m \in DOMAIN written, NEW k \in Meetings \ DOMAIN written,
             NEW p \in DOMAIN ag[m], NEW q \in DOMAIN ag[k]
      PROVE  ag[m][p].id # ag[k][q].id
  <2>1. ag[k][q].id \in Ids(agenda[k]) /\ q \in DOMAIN agenda[k] /\ ag[k] = agenda[k]
    BY <1>4 DEF Ids
  <2>2. CASE ag[m][p].id \in t.out.added
    <3>1. ag[m][p].id \in Own(t) \ mutations
      BY <1>1, <2>2
    <3>2. Own(t) \cap Ids(agenda[k]) \subseteq mutations
      BY DEF Inv, Apart
    <3> QED
      BY <2>1, <3>1, <3>2
  <2>3. CASE \E l \in DOMAIN written : \E r \in DOMAIN agenda[l] : agenda[l][r].id = ag[m][p].id
    <3>1. PICK l \in DOMAIN written : \E r \in DOMAIN agenda[l] : agenda[l][r].id = ag[m][p].id
      BY <2>3
    <3>2. PICK r \in DOMAIN agenda[l] : agenda[l][r].id = ag[m][p].id
      BY <3>1
    <3>3. l \in Meetings /\ l # k
      BY <1>3
    <3>4. agenda[l][r].id # agenda[k][q].id
      BY <1>2, <2>1, <3>3 DEF Whole, Unique
    <3> QED
      BY <2>1, <3>2, <3>4
  <2>4. \/ ag[m][p].id \in t.out.added
        \/ \E l \in DOMAIN written : \E r \in DOMAIN agenda[l] : agenda[l][r].id = ag[m][p].id
    <3>1. \A i \in DOMAIN written : \A j \in DOMAIN written[i] :
             \/ written[i][j].id \in t.out.added
             \/ \E l \in DOMAIN written : \E r \in DOMAIN agenda[l] : agenda[l][r].id = written[i][j].id
      BY <1>1 DEF GoodAgendas, written
    <3>2. ag[m] = written[m]
      BY <1>4
    <3> QED
      BY <3>1, <3>2
  <2> QED
    BY <2>2, <2>3, <2>4
<1>9. ASSUME NEW m \in DOMAIN written, NEW k \in DOMAIN written,
             NEW p \in DOMAIN ag[m], NEW q \in DOMAIN ag[k], ag[m][p].id = ag[k][q].id
      PROVE  m = k /\ p = q
  BY <1>1, <1>4, <1>9 DEF GoodAgendas, written
<1>10. ASSUME NEW m \in Meetings, NEW k \in Meetings,
              NEW p \in DOMAIN ag[m], NEW q \in DOMAIN ag[k], ag[m][p].id = ag[k][q].id
       PROVE  m = k /\ p = q
  <2>1. CASE m \in DOMAIN written /\ k \in DOMAIN written
    BY <1>9, <1>10, <2>1
  <2>2. CASE m \in DOMAIN written /\ k \notin DOMAIN written
    BY <1>8, <1>10, <2>2
  <2>3. CASE m \notin DOMAIN written /\ k \in DOMAIN written
    BY <1>8, <1>10, <2>3
  <2>4. CASE m \notin DOMAIN written /\ k \notin DOMAIN written
    <3>1. ag[m] = agenda[m] /\ ag[k] = agenda[k]
      BY <1>4, <2>4
    <3> QED
      BY <1>2, <1>10, <3>1 DEF Whole, Unique
  <2> QED
    BY <2>1, <2>2, <2>3, <2>4
<1>11. Unique(ag)
  BY <1>10 DEF Unique
<1>12. ByHandWhere(skips \cup t.out.skip, ag)
  <2> SUFFICES ASSUME NEW skip \in skips \cup t.out.skip, skip[1] \in DOMAIN ag[skip[2]]
               PROVE  ag[skip[2]][skip[1]].source = "manual"
    BY DEF ByHandWhere
  <2>1. t.out.skip \subseteq Topics \X DOMAIN written /\ skips \subseteq Topics \X Meetings
    BY <1>1 DEF Inv, TypeInv, GoodAgendas, written
  <2>2. skip[2] \in Meetings /\ skip = <<skip[1], skip[2]>>
    BY <1>3, <2>1
  <2>3. CASE skip[2] \in DOMAIN written
    BY <1>1, <1>4, <2>2, <2>3 DEF GoodAgendas, written
  <2>4. CASE skip[2] \notin DOMAIN written
    <3>1. skip \in skips /\ ag[skip[2]] = agenda[skip[2]]
      BY <1>4, <2>1, <2>2, <2>4
    <3> QED
      BY <3>1 DEF Inv, SkippedStaysSkipped, ByHandWhere
  <2> QED
    BY <2>3, <2>4
<1> QED
  BY <1>3, <1>4, <1>6, <1>7, <1>11, <1>12 DEF Whole, ag, written

-----------------------------------------------------------------------------
(* The work of a request that has its locks *)

LEMMA WritesStep ==
    ASSUME Inv, NEW b \in Browsers, NEW out, Writes(b, out), UNCHANGED <<database, loaded, ids>>,
           GoodOut([tx[b] EXCEPT !.ready = TRUE, !.out = out], agenda, meeting, skips, mutations, ids)
    PROVE  Inv'
<1> DEFINE t == tx[b]
           x == [t EXCEPT !.ready = TRUE, !.out = out]
<1>1. tx' = [tx EXCEPT ![b] = x] /\ job' = job
  BY DEF Writes
<1>2. Good(t, agenda, meeting, skips, mutations, ids)
  BY DEF Inv
<1>3. DOMAIN t = {"op", "meeting", "arg", "want", "held", "ready", "seen", "out"}
  BY <1>2 DEF Good, Shape
<1>4. /\ x.op = t.op /\ x.meeting = t.meeting /\ x.arg = t.arg /\ x.ready = TRUE
      /\ x.out = out /\ x.held = t.held /\ x.want = t.want /\ x.seen = t.seen
      /\ DOMAIN x = DOMAIN t
  BY <1>3
<1>5. GoodOut(x, agenda, meeting, skips, mutations, ids)
  OBVIOUS
<1> HIDE DEF x
<1>6. Own(x) = Own(t)
  BY <1>4 DEF Own
<1>7. Shape(x) /\ GoodArg(x) /\ GoodLocks(x)
  BY <1>2, <1>4 DEF Good, Shape, GoodArg, GoodLocks, Guards
<1>8. GoodItems(x) /\ GoodSource(x, agenda, mutations, ids)
  BY <1>2, <1>4, <1>6 DEF Good, GoodItems, GoodSource
<1>9. Good(x, agenda, meeting, skips, mutations, ids')
  BY <1>5, <1>7, <1>8 DEF Good
<1>10. \A d \in Browsers \ {b} : x.held \cap tx[d].held = {}
  BY <1>4 DEF Inv, Apart
<1>11. ids' \in Nat /\ ids <= ids' /\ Pages'
  BY <1>1 DEF Inv, TypeInv, Pages
<1> HIDE DEF Inv
<1> QED
  BY <1>1, <1>6, <1>9, <1>10, <1>11, RequestStep

\* A request that has its locks and has written nothing yet.
Working(b) ==
    /\ tx[b].op # "none" /\ tx[b].want = <<>> /\ ~tx[b].ready
    /\ UNCHANGED <<database, loaded, ids>>

LEMMA LockedMeeting ==
    ASSUME Inv, NEW b \in Browsers, Working(b), tx[b].op \in OnMeetings
    PROVE  /\ tx[b].meeting \in Meetings /\ Lock("meeting", tx[b].meeting) \in tx[b].held
           /\ Mutable(tx[b].meeting) => Open(meeting[tx[b].meeting].status)
<1>1. Shape(tx[b]) /\ GoodLocks(tx[b])
  BY DEF Inv, Good
<1>2. tx[b].meeting \in Meetings
  BY <1>1 DEF Shape, OnMeetings, RequestOps
<1>3. meeting[tx[b].meeting] \in MeetingRow
  BY <1>2 DEF Inv, TypeInv
<1> QED
  BY <1>1, <1>2, <1>3
     DEF GoodLocks, Guards, Working, Mutable, Existing, Open, MeetingRow

\* The rows that are written for the Meeting of a request: rows of its agenda stay,
\* and what is left out may be.
Becomes(b, rows) ==
    LET m == tx[b].meeting
    IN /\ Mutable(m) /\ Table(rows, ids) /\ Numbered(rows) /\ DOMAIN rows \subseteq DOMAIN agenda[m]
       /\ \A p \in DOMAIN rows : rows[p].id = agenda[m][p].id /\ rows[p].source = agenda[m][p].source
       /\ \A p \in DOMAIN agenda[m] \ DOMAIN rows :
             \/ tx[b].op = "remove" /\ tx[b].arg.id = agenda[m][p].id
             \/ Loose(agenda[m][p], meeting[m].status)

LEMMA AgendaWritten ==
    ASSUME Inv, NEW b \in Browsers, Working(b), tx[b].op \in OnMeetings \ {"add"},
           NEW rows, Becomes(b, rows),
           NEW skip \in SUBSET ((DOMAIN agenda[tx[b].meeting] \ DOMAIN rows) \X {tx[b].meeting}),
           Writes(b, [NoOutput EXCEPT !.agenda = [k \in {tx[b].meeting} |-> rows], !.skip = skip])
    PROVE  Inv'
<1> DEFINE t == tx[b]
           m == t.meeting
           out == [NoOutput EXCEPT !.agenda = [k \in {m} |-> rows], !.skip = skip]
           x == [t EXCEPT !.ready = TRUE, !.out = out]
<1>1. m \in Meetings /\ Lock("meeting", m) \in t.held /\ Open(meeting[m].status)
  BY LockedMeeting DEF Becomes
<1>B. /\ Table(rows, ids) /\ Numbered(rows) /\ DOMAIN rows \subseteq DOMAIN agenda[m]
      /\ \A p \in DOMAIN rows : rows[p].id = agenda[m][p].id /\ rows[p].source = agenda[m][p].source
      /\ \A p \in DOMAIN agenda[m] \ DOMAIN rows :
            \/ t.op = "remove" /\ t.arg.id = agenda[m][p].id
            \/ Loose(agenda[m][p], meeting[m].status)
  BY DEF Becomes
<1>2. x.out = out /\ x.held = t.held /\ x.op = t.op /\ x.arg = t.arg
  BY DEF Inv, Good, Shape
<1>3. /\ DOMAIN out = {"meeting", "topic", "agenda", "section", "skip", "unskip", "added"}
      /\ out.added = {} /\ out.skip = skip /\ out.section = Nothing
      /\ out.meeting = Nothing /\ out.topic = Nothing /\ DOMAIN out.agenda = {m}
      /\ out.agenda[m] = rows
  BY DEF NoOutput
<1> HIDE DEF x, out
<1>4. Whole(agenda, ids) /\ \A p \in DOMAIN agenda[m] : p \in Topics
  BY <1>1 DEF Inv, AgendasAreWhole, AgendaTypeOK, PositionsAreConsecutive, Whole, AreAgendas
<1>5. \A p, q \in DOMAIN rows : rows[p].id = rows[q].id => p = q
  BY <1>1, <1>4, <1>B DEF Whole, Unique
<1>6. ASSUME NEW p \in DOMAIN rows, <<p, m>> \in skips \cup skip PROVE rows[p].source = "manual"
  <2>1. <<p, m>> \in skips
    BY <1>6
  <2> QED
    BY <1>B, <2>1 DEF Inv, SkippedStaysSkipped, ByHandWhere
<1>7. \A p \in DOMAIN agenda[m] :
         \/ agenda[m][p].id \in Ids(rows)
         \/ t.op = "remove" /\ t.arg.id = agenda[m][p].id
         \/ Loose(agenda[m][p], meeting[m].status)
  BY <1>B DEF Ids
<1>8. skip \subseteq Topics \X {m}
  BY <1>4
<1>9. GoodAgendas(x, agenda, meeting, skips, ids)
  <2> DEFINE written == x.out.agenda
  <2>1. DOMAIN written = {m} /\ written[m] = rows
    BY <1>2, <1>3
  <2> HIDE DEF written
  <2>2. \A k \in DOMAIN written :
           /\ k \in Meetings /\ Open(meeting[k].status) /\ Lock("meeting", k) \in x.held
           /\ Table(written[k], ids) /\ Numbered(written[k])
    BY <1>1, <1>2, <1>B, <2>1
  <2>3. \A k, j \in DOMAIN written : \A p \in DOMAIN written[k], q \in DOMAIN written[j] :
           written[k][p].id = written[j][q].id => k = j /\ p = q
    BY <1>5, <2>1
  <2>4. ASSUME NEW k \in DOMAIN written, NEW p \in DOMAIN written[k]
        PROVE  /\ \E j \in DOMAIN written : \E q \in DOMAIN agenda[j] :
                      agenda[j][q].id = written[k][p].id
               /\ <<p, k>> \in skips \cup x.out.skip => written[k][p].source = "manual"
    <3>1. k = m /\ p \in DOMAIN rows /\ p \in DOMAIN agenda[m] /\ rows[p].id = agenda[m][p].id
      BY <1>B, <2>1
    <3>2. <<p, m>> \in skips \cup skip => rows[p].source = "manual"
      BY <1>6, <3>1
    <3> QED
      BY <1>2, <1>3, <2>1, <3>1, <3>2
  <2>5. \A k \in DOMAIN written : \A p \in DOMAIN agenda[k] :
           \/ agenda[k][p].id \in Ids(written[k])
           \/ x.op = "remove" /\ x.arg.id = agenda[k][p].id
           \/ Loose(agenda[k][p], meeting[k].status)
    BY <1>2, <1>7, <2>1
  <2>6. x.out.skip \subseteq Topics \X DOMAIN written
    BY <1>2, <1>3, <1>8, <2>1
  <2>7. x.op # "add"
    BY <1>2
  <2> QED
    BY <2>2, <2>3, <2>4, <2>5, <2>6, <2>7 DEF GoodAgendas, written
<1>10. GoodRows(x, agenda, meeting)
  BY <1>2, <1>3, NothingIsEmpty DEF GoodRows
<1>11. GoodOut(x, agenda, meeting, skips, mutations, ids)
  BY <1>2, <1>3, <1>9, <1>10 DEF GoodOut
<1> QED
  BY <1>11, WritesStep DEF x, out, Working

\* Other rows are written.
LEMMA RowsWritten ==
    ASSUME Inv, NEW b \in Browsers, Working(b), NEW out, Writes(b, out),
           DOMAIN out = {"meeting", "topic", "agenda", "section", "skip", "unskip", "added"},
           out.agenda = Nothing, out.added = {}, out.skip = {},
           GoodRows([tx[b] EXCEPT !.ready = TRUE, !.out = out], agenda, meeting)
    PROVE  Inv'
<1> DEFINE x == [tx[b] EXCEPT !.ready = TRUE, !.out = out]
<1>1. x.out = out
  BY DEF Inv, Good, Shape
<1>2. GoodAgendas(x, agenda, meeting, skips, ids)
  <2> HIDE DEF x
  <2> QED
    BY <1>1, NothingIsEmpty DEF GoodAgendas
<1>3. GoodOut(x, agenda, meeting, skips, mutations, ids)
  BY <1>1, <1>2 DEF GoodOut
<1> QED
  BY <1>3, WritesStep DEF Working

LEMMA OverNothing ==
    ASSUME NEW f PROVE DOMAIN Over(f, Nothing) = DOMAIN f /\ \A k \in DOMAIN f : Over(f, Nothing)[k] = f[k]
BY NothingIsEmpty DEF Over

\* What is written to one agenda is all that is written.
LEMMA OneAgenda ==
    ASSUME NEW m, NEW rows
    PROVE  Over([k \in {m} |-> rows], Nothing) = [k \in {m} |-> rows]
BY NothingIsEmpty DEF Over

LEMMA NoSkip ==
    ASSUME NEW o PROVE [NoOutput EXCEPT !.agenda = o] = [NoOutput EXCEPT !.agenda = o, !.skip = {}]
<1> DEFINE M == [NoOutput EXCEPT !.agenda = o]
<1>1. M = [k \in DOMAIN M |-> M[k]] /\ M.skip = {} /\ "skip" \in DOMAIN M
  BY DEF NoOutput
<1>2. [NoOutput EXCEPT !.agenda = o, !.skip = {}] = [M EXCEPT !.skip = {}]
  OBVIOUS
<1> HIDE DEF M
<1>3. [M EXCEPT !.skip = {}] = M
  BY <1>1
<1> QED
  BY <1>2, <1>3 DEF M

LEMMA NoOutputYet ==
    ASSUME Inv, NEW b \in Browsers, Working(b), tx[b].op # "add" PROVE tx[b].out = NoOutput
BY DEF Inv, Good, Shape, Working

LEMMA WorksReorder == ASSUME Inv, NEW b \in Browsers, Working(b), WorkReorder(b) PROVE Inv'
<1> DEFINE m == tx[b].meeting
           rows == agenda[m]
           order == tx[b].arg.order
           ordered(s) == {id \in DOMAIN order : order[id].section = s}
           placed == [p \in DOMAIN rows |-> Over(order[rows[p].id], rows[p])]
           right == /\ Mutable(m)
                    /\ DOMAIN order = Ids(rows)
                    /\ \A id \in DOMAIN order : order[id].section \in Listed
                    /\ \A s \in Listed : Consecutive({order[id].position : id \in ordered(s)},
                                                     Cardinality(ordered(s)))
<1>1. tx[b].op = "reorder"
  BY DEF WorkReorder
<1>2. tx[b].op \in OnMeetings \ {"add"} /\ tx[b].out = NoOutput
  BY <1>1, NoOutputYet DEF OnMeetings, RequestOps
<1>3. m \in Meetings
  BY <1>2, LockedMeeting
<1>4. CASE ~right
  BY <1>4, FailedStep DEF WorkReorder, Refused, Working
<1>5. CASE right
  <2> DEFINE one == [n \in {m} |-> placed]
  <2>1. Writes(b, [NoOutput EXCEPT !.agenda = one, !.skip = {}])
    <3>1. Writes(b, [NoOutput EXCEPT !.agenda = Over(one, @)])
      BY <1>2, <1>5 DEF WorkReorder, WritesAgenda
    <3>2. [NoOutput EXCEPT !.agenda = Over(one, @)] = [NoOutput EXCEPT !.agenda = one, !.skip = {}]
      <4>1. Over(one, Nothing) = one
        <5> HIDE DEF placed
        <5> QED
          BY OneAgenda
      <4>2. NoOutput.agenda = Nothing
        BY DEF NoOutput
      <4> HIDE DEF one
      <4> QED
        BY <4>1, <4>2, NoSkip
    <3> QED
      BY <3>1, <3>2
  <2>2. ids \in Nat /\ Table(rows, ids) /\ Distinct(rows)
    BY <1>3 DEF Inv, TypeInv, AgendasAreWhole, AgendaTypeOK, AreAgendas, Unique, Table, Distinct
  <2>3. order \in [DOMAIN order -> [section : Sections, position : Nat]]
    BY <1>1 DEF Inv, Good, GoodArg
  <2>4. order \in [Ids(rows) -> [section : Listed, position : Nat]] /\ Listed \in SUBSET Sections
    <3> HIDE DEF order, rows
    <3> QED
      BY <1>5, <2>3 DEF Listed
  <2>5. \A s \in Listed : LET some == {id \in DOMAIN order : order[id].section = s}
                          IN Consecutive({order[id].position : id \in some}, Cardinality(some))
    BY <1>5
  <2>6. Table(placed, ids) /\ Numbered(placed) /\ \A p \in DOMAIN rows : Same(placed[p], rows[p])
    <3> HIDE DEF order, rows
    <3> QED
      BY <2>2, <2>4, <2>5, ReorderedIs
  <2>7. DOMAIN placed = DOMAIN rows
    OBVIOUS
  <2> HIDE DEF placed
  <2>8. {} \in SUBSET ((DOMAIN rows \ DOMAIN placed) \X {m})
    OBVIOUS
  <2>9. Becomes(b, placed)
    BY <1>5, <2>6, <2>7 DEF Becomes, Same
  <2> QED
    BY <1>2, <2>1, <2>8, <2>9, AgendaWritten
<1> QED
  BY <1>4, <1>5

\* A row is taken out of the agenda of the Meeting that is locked.
LEMMA RemovalWritten ==
    ASSUME Inv, NEW b \in Browsers, Working(b), tx[b].op \in OnMeetings \ {"add"},
           Mutable(tx[b].meeting), NEW p \in DOMAIN agenda[tx[b].meeting],
           \/ tx[b].op = "remove" /\ tx[b].arg.id = agenda[tx[b].meeting][p].id
           \/ Loose(agenda[tx[b].meeting][p], meeting[tx[b].meeting].status),
           NEW skip \in SUBSET {<<p, tx[b].meeting>>},
           Writes(b, [NoOutput EXCEPT !.agenda = [k \in {tx[b].meeting} |->
                                                     Removed(agenda[tx[b].meeting], p)],
                                      !.skip = skip])
    PROVE  Inv'
<1> DEFINE m == tx[b].meeting
           rows == agenda[m]
           rest == Removed(rows, p)
<1>1. m \in Meetings
  BY LockedMeeting
<1>2. ids \in Nat /\ Table(rows, ids) /\ Distinct(rows) /\ Numbered(rows)
  BY <1>1 DEF Inv, TypeInv, AgendasAreWhole, AgendaTypeOK, AreAgendas, Unique, Table, Distinct,
              PositionsAreConsecutive
<1>3. p \in DOMAIN rows
  OBVIOUS
<1>4. /\ Table(rest, ids) /\ Numbered(rest) /\ DOMAIN rest = DOMAIN rows \ {p}
      /\ \A q \in DOMAIN rest : rest[q].id = rows[q].id /\ rest[q].source = rows[q].source
  <2> HIDE DEF rows
  <2>1. /\ Table(rest, ids) /\ DOMAIN rest = DOMAIN rows \ {p} /\ Numbered(rest)
        /\ \A q \in DOMAIN rest : Same(rest[q], rows[q])
    BY <1>2, <1>3, RemovedIs
  <2> HIDE DEF rest
  <2> QED
    BY <2>1 DEF Same
<1>5. /\ DOMAIN rest \subseteq DOMAIN rows /\ DOMAIN rows \ DOMAIN rest = {p}
      /\ skip \in SUBSET ((DOMAIN rows \ DOMAIN rest) \X {m})
  BY <1>3, <1>4
<1>6. Becomes(b, rest)
  <2> HIDE DEF rest
  <2> QED
    BY <1>4, <1>5 DEF Becomes
<1> QED
  BY <1>5, <1>6, AgendaWritten

LEMMA WorksRemove ==
    ASSUME Inv, NEW b \in Browsers, Working(b), WorkRemove(b) \/ WorkRemoveReconciled(b)
    PROVE  Inv'
<1> DEFINE m == tx[b].meeting
           p == FoundTopic(b)
           rows == Removed(agenda[m], p)
<1>1. tx[b].op \in {"remove", "reconcile"}
  BY DEF WorkRemove, WorkRemoveReconciled
<1>2. tx[b].op \in OnMeetings \ {"add"} /\ tx[b].out = NoOutput
  BY <1>1, NoOutputYet DEF OnMeetings, RequestOps
<1>3. m \in Meetings
  BY <1>2, LockedMeeting
<1>4. Found(b) => p \in DOMAIN agenda[m] /\ p \in Topics /\ agenda[m][p].id = tx[b].arg.id
  BY <1>3, PlaceIs DEF Found, FoundTopic
<1>5. CASE WorkRemove(b)
  <2>1. CASE ~(Mutable(m) /\ Found(b))
    BY <1>5, <2>1, FailedStep DEF WorkRemove, Refused, Working
  <2>2. CASE Mutable(m) /\ Found(b)
    <3> DEFINE skip == IF agenda[m][p].source = "recurrence" THEN {<<p, m>>} ELSE {}
               one == [n \in {m} |-> rows]
    <3>1. /\ tx[b].op = "remove"
          /\ Writes(b, [NoOutput EXCEPT !.agenda = Over(one, @), !.skip = skip])
      BY <1>2, <1>5, <2>2 DEF WorkRemove
    <3>2. [NoOutput EXCEPT !.agenda = Over(one, @), !.skip = skip]
            = [NoOutput EXCEPT !.agenda = one, !.skip = skip]
      <4>1. Over(one, Nothing) = one
        <5> HIDE DEF rows
        <5> QED
          BY OneAgenda
      <4> HIDE DEF one, skip
      <4> QED
        BY <4>1 DEF NoOutput
    <3>3. skip \in SUBSET {<<p, m>>}
      OBVIOUS
    <3> HIDE DEF skip, p
    <3> QED
      BY <1>2, <1>4, <2>2, <3>1, <3>2, <3>3, RemovalWritten
  <2> QED
    BY <2>1, <2>2
<1>6. CASE WorkRemoveReconciled(b)
  <2> DEFINE right == /\ Mutable(m) /\ Found(b)
                      /\ agenda[m][p].source = "recurrence" /\ ~agenda[m][p].edited
                      /\ topic[p].type = "recurring"
                      /\ Plan(p).valid
                      /\ [meeting |-> m, id |-> agenda[m][p].id] \in ToSet(Plan(p).removals)
  <2>1. CASE ~right
    BY <1>6, <2>1, FailedStep DEF WorkRemoveReconciled, Refused, Working
  <2>2. CASE right
    <3> DEFINE one == [n \in {m} |-> rows]
    <3>1. Writes(b, [NoOutput EXCEPT !.agenda = Over(one, @)])
      BY <1>2, <1>6, <2>2 DEF WorkRemoveReconciled, WritesAgenda
    <3>2. [NoOutput EXCEPT !.agenda = Over(one, @)] = [NoOutput EXCEPT !.agenda = one, !.skip = {}]
      <4>1. Over(one, Nothing) = one
        <5> HIDE DEF rows
        <5> QED
          BY OneAgenda
      <4>2. NoOutput.agenda = Nothing
        BY DEF NoOutput
      <4> HIDE DEF one
      <4> QED
        BY <4>1, <4>2, NoSkip
    <3>3. p \in Topics /\ p \in DOMAIN agenda[m]
      BY <1>4, <2>2
    <3> HIDE DEF p
    <3>4. /\ ids \in Nat /\ AreAgendas(agenda, ids) /\ meeting \in [Meetings -> MeetingRow]
          /\ topic[p] \in TopicRow
      BY <3>3 DEF Inv, TypeInv, AgendasAreWhole, AgendaTypeOK
    <3>5. \A x \in ToSet(Plan(p).removals) : Movable(agenda, x.meeting, p)
      BY <3>3, <3>4, PlanIs DEF Plan
    <3>6. Movable(agenda, m, p)
      BY <2>2, <3>5
    <3>7. Loose(agenda[m][p], meeting[m].status)
      BY <3>6 DEF Movable, Loose
    <3>8. {} \in SUBSET {<<p, m>>}
      OBVIOUS
    <3> QED
      BY <1>2, <2>2, <3>1, <3>2, <3>3, <3>7, <3>8, RemovalWritten
  <2> QED
    BY <2>1, <2>2
<1> QED
  BY <1>5, <1>6

LEMMA WorksAppearance == ASSUME Inv, NEW b \in Browsers, Working(b), WorkAppearance(b) PROVE Inv'
<1> DEFINE m == tx[b].meeting
           p == FoundTopic(b)
           old == agenda[m]
           rows == IF tx[b].op = "note" THEN [old EXCEPT ![p].edited = TRUE]
                   ELSE [old EXCEPT ![p].decision = tx[b].arg.decision]
<1>1. tx[b].op \in {"decide", "note"}
  BY DEF WorkAppearance
<1>2. tx[b].op \in OnMeetings \ {"add"} /\ tx[b].out = NoOutput
  BY <1>1, NoOutputYet DEF OnMeetings, RequestOps
<1>3. m \in Meetings
  BY <1>2, LockedMeeting
<1>4. CASE ~(Mutable(m) /\ Found(b))
  BY <1>4, FailedStep DEF WorkAppearance, Refused, Working
<1>5. CASE Mutable(m) /\ Found(b)
  <2> DEFINE one == [n \in {m} |-> rows]
  <2>1. Writes(b, [NoOutput EXCEPT !.agenda = Over(one, @)])
    BY <1>2, <1>5 DEF WorkAppearance, WritesAgenda
  <2>2. [NoOutput EXCEPT !.agenda = Over(one, @)] = [NoOutput EXCEPT !.agenda = one, !.skip = {}]
    <3>1. Over(one, Nothing) = one
      <4> HIDE DEF rows
      <4> QED
        BY OneAgenda
    <3>2. NoOutput.agenda = Nothing
      BY DEF NoOutput
    <3> HIDE DEF one
    <3> QED
      BY <3>1, <3>2, NoSkip
  <2>14. Writes(b, [NoOutput EXCEPT !.agenda = one, !.skip = {}])
    <3> HIDE DEF one
    <3> QED
      BY <2>1, <2>2
  <2>3. p \in DOMAIN old
    BY <1>3, <1>5, PlaceIs DEF Found, FoundTopic
  <2>4. ids \in Nat /\ Table(old, ids) /\ Numbered(old)
    BY <1>3 DEF Inv, TypeInv, AgendasAreWhole, AgendaTypeOK, AreAgendas, Table,
                PositionsAreConsecutive
  <2>5. tx[b].op = "decide" => tx[b].arg.decision \in {"none", "done", "deferred"}
    BY DEF Inv, Good, GoodArg
  <2> HIDE DEF p, old
  <2>6. \A q \in DOMAIN old : old[q] \in Row(ids)
    BY <2>4 DEF Table
  <2>7. DOMAIN rows = DOMAIN old /\ \A q \in DOMAIN old :
           \/ rows[q] = old[q]
           \/ rows[q] = [old[q] EXCEPT !.edited = TRUE]
           \/ tx[b].op = "decide" /\ rows[q] = [old[q] EXCEPT !.decision = tx[b].arg.decision]
    BY <1>1
  <2>8. \A q \in DOMAIN old :
           /\ rows[q] \in Row(ids) /\ rows[q].id = old[q].id /\ rows[q].source = old[q].source
           /\ rows[q].section = old[q].section /\ rows[q].position = old[q].position
    <3> SUFFICES ASSUME NEW q \in DOMAIN old
                 PROVE  /\ rows[q] \in Row(ids)
                        /\ rows[q].id = old[q].id /\ rows[q].source = old[q].source
                        /\ rows[q].section = old[q].section /\ rows[q].position = old[q].position
      OBVIOUS
    <3> HIDE DEF rows
    <3>1. old[q] \in Row(ids)
      BY <2>6
    <3>2. CASE rows[q] = old[q]
      BY <3>1, <3>2
    <3>3. CASE rows[q] = [old[q] EXCEPT !.edited = TRUE]
      BY <3>1, <3>3 DEF Row
    <3>4. CASE tx[b].op = "decide" /\ rows[q] = [old[q] EXCEPT !.decision = tx[b].arg.decision]
      BY <2>5, <3>1, <3>4 DEF Row
    <3> QED
      BY <2>7, <3>2, <3>3, <3>4
  <2>9. rows = [q \in DOMAIN rows |-> rows[q]]
    BY <2>4 DEF Table
  <2> HIDE DEF rows
  <2>10. Table(rows, ids)
    BY <2>4, <2>7, <2>8, <2>9 DEF Table
  <2>11. Numbered(rows)
    <3>1. \A s \in Sections : InSection(rows, s) = InSection(old, s)
      BY <2>7, <2>8 DEF InSection
    <3>2. \A s \in Sections : {rows[q].position : q \in InSection(old, s)}
                                = {old[q].position : q \in InSection(old, s)}
      BY <2>8 DEF InSection
    <3> QED
      BY <2>4, <3>1, <3>2 DEF Numbered
  <2>12. {} \in SUBSET ((DOMAIN old \ DOMAIN rows) \X {m})
    OBVIOUS
  <2>13. Becomes(b, rows)
    BY <1>5, <2>7, <2>8, <2>10, <2>11 DEF Becomes, old
  <2> QED
    BY <1>2, <2>12, <2>13, <2>14, AgendaWritten DEF old
<1> QED
  BY <1>4, <1>5

\* What a request sends of a row replaces that of the table.
LEMMA OverMeeting ==
    ASSUME NEW row \in MeetingRow, NEW values \in MeetingChanges
    PROVE  Over(values, row) \in MeetingRow /\ Over(values, row).status \in {"planned", "in_progress"}
<1>1. CASE values \in [status : {"in_progress"}]
  <2>1. Over(values, row) = [row EXCEPT !.status = values.status]
    BY <1>1 DEF Over, MeetingRow
  <2> QED
    BY <1>1, <2>1 DEF MeetingRow
<1>2. CASE values \in [status : {"planned", "in_progress"}, date : Nat]
  <2>1. Over(values, row) = values
    BY <1>2 DEF Over, MeetingRow
  <2> QED
    BY <1>2, <2>1 DEF MeetingRow
<1> QED
  BY <1>1, <1>2 DEF MeetingChanges

LEMMA OverTopic ==
    ASSUME NEW row \in TopicRow, NEW values \in TopicChanges
    PROVE  Over(values, row) \in TopicRow
<1>1. CASE values \in [type : {"generic", "recurring"}]
  <2>1. Over(values, row) = [row EXCEPT !.type = values.type]
    BY <1>1 DEF Over, TopicRow
  <2> QED
    BY <1>1, <2>1 DEF TopicRow
<1>2. CASE values \in [status : {"open", "done"}]
  <2>1. Over(values, row) = [row EXCEPT !.status = values.status]
    BY <1>2 DEF Over, TopicRow
  <2> QED
    BY <1>2, <2>1 DEF TopicRow
<1>3. CASE values \in [place : {0, 1}]
  <2>1. Over(values, row) = [row EXCEPT !.place = values.place]
    BY <1>3 DEF Over, TopicRow
  <2> QED
    BY <1>3, <2>1 DEF TopicRow
<1> QED
  BY <1>1, <1>2, <1>3 DEF TopicChanges

LEMMA WorksMeeting == ASSUME Inv, NEW b \in Browsers, Working(b), WorkMeeting(b) PROVE Inv'
<1> DEFINE m == tx[b].meeting
           row == Over(tx[b].arg.values, meeting[m])
           meetings == [n \in {m} |-> row]
           out == [NoOutput EXCEPT !.meeting = meetings]
           x == [tx[b] EXCEPT !.ready = TRUE, !.out = out]
<1>1. tx[b].op \in {"create", "update"} /\ tx[b].out = NoOutput
  BY NoOutputYet DEF WorkMeeting
<1>2. CASE tx[b].op = "update" /\ ~Mutable(m)
  BY <1>2, FailedStep DEF WorkMeeting, Refused, Working
<1>3. CASE ~(tx[b].op = "update" /\ ~Mutable(m))
  <2>1. Writes(b, out)
    BY <1>1, <1>3 DEF WorkMeeting
  <2>2. Shape(tx[b]) /\ GoodArg(tx[b])
    BY DEF Inv, Good
  <2>3. m \in Meetings /\ meeting[m] \in MeetingRow
    BY <1>1, <2>2 DEF Shape, Inv, TypeInv
  <2>4. row \in MeetingRow /\ row.status \in {"planned", "in_progress"}
    BY <1>1, <2>2, <2>3, OverMeeting DEF GoodArg
  <2>5. tx[b].op = "update" => Lock("meeting", m) \in tx[b].held /\ Open(meeting[m].status)
    BY <1>3, LockedMeeting DEF OnMeetings, RequestOps
  <2>6. x.out = out /\ x.op = tx[b].op /\ x.meeting = m /\ x.held = tx[b].held
    BY <2>2 DEF Shape
  <2> HIDE DEF row, x
  <2>7. /\ DOMAIN out = {"meeting", "topic", "agenda", "section", "skip", "unskip", "added"}
        /\ out.agenda = Nothing /\ out.added = {} /\ out.skip = {} /\ out.section = Nothing
        /\ out.topic = Nothing /\ DOMAIN out.meeting = {m} /\ out.meeting[m] = row
    BY DEF NoOutput
  <2> HIDE DEF out
  <2>8. GoodRows(x, agenda, meeting)
    BY <1>1, <2>3, <2>4, <2>5, <2>6, <2>7, NothingIsEmpty DEF GoodRows
  <2> QED
    BY <2>1, <2>7, <2>8, RowsWritten DEF x
<1> QED
  BY <1>2, <1>3

LEMMA WorksRestore == ASSUME Inv, NEW b \in Browsers, Working(b), WorkRestore(b) PROVE Inv'
<1> DEFINE skip == <<tx[b].arg.topic, tx[b].meeting>>
           out == [NoOutput EXCEPT !.unskip = {skip}]
           x == [tx[b] EXCEPT !.ready = TRUE, !.out = out]
<1>1. tx[b].op # "add" /\ tx[b].out = NoOutput
  BY NoOutputYet DEF WorkRestore
<1>2. \/ Failed(b)
      \/ Writes(b, out)
  BY <1>1 DEF WorkRestore, Refused
<1>3. CASE Failed(b)
  BY <1>3, FailedStep DEF Working
<1>4. CASE Writes(b, out)
  <2>1. /\ DOMAIN out = {"meeting", "topic", "agenda", "section", "skip", "unskip", "added"}
        /\ out.agenda = Nothing /\ out.added = {} /\ out.skip = {} /\ out.section = Nothing
        /\ out.topic = Nothing /\ out.meeting = Nothing
    BY DEF NoOutput
  <2>2. x.out = out
    BY DEF Inv, Good, Shape
  <2> HIDE DEF out, x
  <2>3. GoodRows(x, agenda, meeting)
    BY <2>1, <2>2, NothingIsEmpty DEF GoodRows
  <2> QED
    BY <1>4, <2>1, <2>3, RowsWritten DEF x
<1> QED
  BY <1>2, <1>3, <1>4

LEMMA WorksTopic == ASSUME Inv, NEW b \in Browsers, Working(b), WorkTopic(b) PROVE Inv'
<1> DEFINE p == tx[b].arg.topic
           record == Over(tx[b].arg.values, topic[p])
           out == [NoOutput EXCEPT !.topic = [q \in {p} |-> record]]
           x == [tx[b] EXCEPT !.ready = TRUE, !.out = out]
<1>1. tx[b].op = "topic"
  BY DEF WorkTopic
<1>2. tx[b].out = NoOutput
  BY <1>1, NoOutputYet
<1>3. \/ Failed(b)
      \/ Writes(b, out)
  BY <1>2 DEF WorkTopic, Refused
<1>4. CASE Failed(b)
  BY <1>4, FailedStep DEF Working
<1>5. CASE Writes(b, out)
  <2>1. p \in Topics /\ tx[b].arg.values \in TopicChanges /\ topic[p] \in TopicRow
    BY <1>1 DEF Inv, TypeInv, Good, GoodArg
  <2>2. record \in TopicRow
    BY <2>1, OverTopic
  <2> HIDE DEF record
  <2>3. /\ DOMAIN out = {"meeting", "topic", "agenda", "section", "skip", "unskip", "added"}
        /\ out.agenda = Nothing /\ out.added = {} /\ out.skip = {} /\ out.section = Nothing
        /\ out.meeting = Nothing /\ DOMAIN out.topic = {p} /\ out.topic[p] = record
    BY DEF NoOutput
  <2>4. x.out = out
    BY DEF Inv, Good, Shape
  <2> HIDE DEF out, x
  <2>5. GoodRows(x, agenda, meeting)
    BY <2>1, <2>2, <2>3, <2>4, NothingIsEmpty DEF GoodRows
  <2> QED
    BY <1>5, <2>3, <2>5, RowsWritten DEF x
<1> QED
  BY <1>3, <1>4, <1>5

LEMMA WorksComplete == ASSUME Inv, NEW b \in Browsers, Working(b), WorkComplete(b) PROVE Inv'
<1> DEFINE m == tx[b].meeting
           rows == agenda[m]
           decided == {p \in DOMAIN rows : rows[p].decision # "none"}
           row == [meeting[m] EXCEPT !.status = "completed"]
           topics == [p \in decided |-> [topic[p] EXCEPT !.status = rows[p].decision]]
           out == [NoOutput EXCEPT !.meeting = [n \in {m} |-> row], !.topic = topics]
           x == [tx[b] EXCEPT !.ready = TRUE, !.out = out]
           right == meeting[m].status = "in_progress" /\ Ids(rows) = tx[b].arg.shown
<1>1. tx[b].op = "complete"
  BY DEF WorkComplete
<1>2. tx[b].out = NoOutput
  BY <1>1, NoOutputYet
<1>3. CASE ~right
  BY <1>3, FailedStep DEF WorkComplete, Refused, Working
<1>4. CASE right
  <2>1. Writes(b, out)
    BY <1>2, <1>4 DEF WorkComplete
  <2>2. m \in Meetings /\ Lock("meeting", m) \in tx[b].held /\ Open(meeting[m].status)
    BY <1>1, <1>4, LockedMeeting DEF OnMeetings, RequestOps, Open
  <2>3. row \in MeetingRow /\ row.status = "completed"
    <3>1. meeting[m] \in MeetingRow
      BY <2>2 DEF Inv, TypeInv
    <3> QED
      BY <3>1 DEF MeetingRow
  <2>4. \A p \in DOMAIN rows : rows[p] \in Row(ids) /\ p \in Topics /\ topic[p] \in TopicRow
    BY <2>2 DEF Inv, TypeInv, AgendasAreWhole, AgendaTypeOK, AreAgendas
  <2>5. /\ DOMAIN topics = decided /\ decided \subseteq DOMAIN rows
        /\ \A p \in decided : topics[p] \in TopicRow /\ topics[p].status = rows[p].decision
    <3> SUFFICES ASSUME NEW p \in decided
                 PROVE  topics[p] \in TopicRow /\ topics[p].status = rows[p].decision
      OBVIOUS
    <3>1. rows[p].decision \in {"done", "deferred"}
      BY <2>4 DEF Row
    <3>2. topic[p] \in TopicRow /\ topics[p] = [topic[p] EXCEPT !.status = rows[p].decision]
      BY <2>4
    <3> HIDE DEF topics, rows
    <3> QED
      BY <3>1, <3>2 DEF TopicRow
  <2>6. x.out = out /\ x.op = tx[b].op /\ x.meeting = m /\ x.held = tx[b].held
    BY DEF Inv, Good, Shape
  <2>7. \A p \in DOMAIN rows : p \in decided <=> rows[p].decision # "none"
    OBVIOUS
  <2> HIDE DEF row, topics, x, decided
  <2>8. /\ DOMAIN out = {"meeting", "topic", "agenda", "section", "skip", "unskip", "added"}
        /\ out.agenda = Nothing /\ out.added = {} /\ out.skip = {} /\ out.section = Nothing
        /\ out.topic = topics /\ DOMAIN out.meeting = {m} /\ out.meeting[m] = row
    BY DEF NoOutput
  <2> HIDE DEF out
  <2>9. GoodRows(x, agenda, meeting)
    <3>1. \A p \in DOMAIN x.out.topic : p \in Topics /\ x.out.topic[p] \in TopicRow
      BY <2>4, <2>5, <2>6, <2>8
    <3>2. \A p \in DOMAIN rows :
             IF rows[p].decision = "none" THEN p \notin DOMAIN x.out.topic
             ELSE p \in DOMAIN x.out.topic /\ x.out.topic[p].status = rows[p].decision
      BY <2>5, <2>6, <2>7, <2>8
    <3> QED
      BY <1>1, <2>2, <2>3, <2>6, <2>8, <3>1, <3>2 DEF GoodRows
  <2> QED
    BY <2>1, <2>8, <2>9, RowsWritten DEF x
<1> QED
  BY <1>3, <1>4

LEMMA WorksSection == ASSUME Inv, NEW b \in Browsers, Working(b), WorkSection(b) PROVE Inv'
<1> DEFINE s == tx[b].arg.section
           change == tx[b].arg.change
           order == tx[b].arg.order
           kept == Listed \ {s}
           before(y, z) == section[y] < section[z]
           good(positions) == positions \in [Sections -> Nat] /\ NumberedSections(positions)
           out(positions) == [NoOutput EXCEPT !.section = positions]
<1>1. tx[b].op = "section"
  BY DEF WorkSection
<1>2. tx[b].out = NoOutput
  BY <1>1, NoOutputYet
<1>3. Listed = ListedIn(section) /\ good(section)
  BY DEF Inv, TypeInv, AgendasAreWhole, PositionsAreConsecutive, Listed, ListedIn
<1>4. ASSUME NEW positions, good(positions), Writes(b, out(positions)) PROVE Inv'
  <2> DEFINE x == [tx[b] EXCEPT !.ready = TRUE, !.out = out(positions)]
             o == out(positions)
  <2>1. /\ DOMAIN o = {"meeting", "topic", "agenda", "section", "skip", "unskip", "added"}
        /\ o.agenda = Nothing /\ o.added = {} /\ o.skip = {} /\ o.section = positions
        /\ o.meeting = Nothing /\ o.topic = Nothing
    BY DEF NoOutput
  <2>2. x.out = o
    BY DEF Inv, Good, Shape
  <2>3. Writes(b, o)
    BY <1>4
  <2> HIDE DEF o, x
  <2>4. GoodRows(x, agenda, meeting)
    BY <1>4, <2>1, <2>2, NothingIsEmpty DEF GoodRows
  <2> QED
    BY <2>1, <2>3, <2>4, RowsWritten DEF x, o
<1>5. CASE \E new \in Sections \ Listed :
              Writes(b, out([section EXCEPT ![new] = Cardinality(Listed) + 1]))
  <2>1. PICK new \in Sections \ Listed :
              Writes(b, out([section EXCEPT ![new] = Cardinality(Listed) + 1]))
    BY <1>5
  <2> DEFINE positions == [section EXCEPT ![new] = Cardinality(Listed) + 1]
  <2>2. good(positions)
    BY <1>3, SectionAdded
  <2> HIDE DEF positions
  <2>3. Writes(b, out(positions))
    BY <2>1 DEF positions
  <2> HIDE DEF out
  <2> QED
    BY <1>4, <2>2, <2>3
<1>6. CASE Writes(b, out([y \in Sections |-> IF y \in kept THEN Rank(kept, y, before) + 1 ELSE 0]))
  <2> DEFINE positions == [y \in Sections |-> IF y \in kept THEN Rank(kept, y, before) + 1 ELSE 0]
  <2>1. good(positions)
    BY <1>3, SectionDeleted DEF Rank
  <2> HIDE DEF positions
  <2>2. Writes(b, out(positions))
    BY <1>6 DEF positions
  <2> HIDE DEF out
  <2> QED
    BY <1>4, <2>1, <2>2
<1>7. CASE /\ change = "reorder" /\ DOMAIN order = Listed
           /\ Writes(b, out([y \in Sections |-> IF y \in Listed THEN order[y] ELSE 0]))
  <2> DEFINE positions == [y \in Sections |-> IF y \in Listed THEN order[y] ELSE 0]
  <2>1. order \in SectionOrders(Listed)
    BY <1>1, <1>7 DEF Inv, Good, GoodArg
  <2>2. Listed \in SUBSET Sections
    BY DEF Listed
  <2>3. good(positions)
    <3> HIDE DEF order
    <3> QED
      BY <2>1, <2>2, SectionsOrdered
  <2> HIDE DEF positions
  <2>4. Writes(b, out(positions))
    BY <1>7 DEF positions
  <2> HIDE DEF out
  <2> QED
    BY <1>4, <2>3, <2>4
<1>8. CASE Failed(b)
  BY <1>8, FailedStep DEF Working
<1> QED
  BY <1>2, <1>5, <1>6, <1>7, <1>8 DEF WorkSection, Refused

-----------------------------------------------------------------------------
(* The work of an addition *)

Orderly(ag, n) == AreAgendas(ag, n) /\ Unique(ag) /\ \A m \in Meetings : Numbered(ag[m])

\* The agendas without the source of a move.
LEMMA BareIs ==
    ASSUME NEW n \in Nat, NEW ag, Orderly(ag, n), NEW s \in Meetings, NEW p \in DOMAIN ag[s]
    PROVE  LET bare == [ag EXCEPT ![s] = Removed(@, p)]
           IN /\ Orderly(bare, n) /\ DOMAIN bare[s] = DOMAIN ag[s] \ {p}
              /\ \A m \in Meetings \ {s} : bare[m] = ag[m]
              /\ \A m \in Meetings : \A q \in DOMAIN bare[m] :
                    q \in DOMAIN ag[m] /\ Same(bare[m][q], ag[m][q])
<1> DEFINE rows == ag[s]
           less == Removed(rows, p)
           bare == [ag EXCEPT ![s] = less]
<1>1. Table(rows, n) /\ Distinct(rows) /\ Numbered(rows) /\ p \in DOMAIN rows
  BY DEF Orderly, AreAgendas, Table, Unique, Distinct
<1>2. /\ Table(less, n) /\ DOMAIN less = DOMAIN rows \ {p} /\ Numbered(less)
      /\ \A q \in DOMAIN less : Same(less[q], rows[q])
  <2> HIDE DEF rows
  <2> QED
    BY <1>1, RemovedIs
<1>3. DOMAIN bare = Meetings /\ bare[s] = less /\ \A m \in Meetings \ {s} : bare[m] = ag[m]
  BY DEF Orderly, AreAgendas
<1> HIDE DEF less, bare
<1>4. \A m \in Meetings : \A q \in DOMAIN bare[m] :
         q \in DOMAIN ag[m] /\ bare[m][q].id = ag[m][q].id /\ Same(bare[m][q], ag[m][q])
  <2> SUFFICES ASSUME NEW m \in Meetings, NEW q \in DOMAIN bare[m]
               PROVE  q \in DOMAIN ag[m] /\ Same(bare[m][q], ag[m][q])
    BY DEF Same
  <2>1. CASE m = s
    BY <1>2, <1>3, <2>1
  <2>2. CASE m # s
    BY <1>3, <2>2 DEF Same
  <2> QED
    BY <2>1, <2>2
<1>5. Unique(bare)
  BY <1>4 DEF Orderly, Unique
<1>6. \A m \in Meetings : Numbered(bare[m])
  BY <1>2, <1>3 DEF Orderly
<1>7. AreAgendas(bare, n)
  <2> SUFFICES ASSUME NEW m \in Meetings
               PROVE  DOMAIN bare[m] \subseteq Topics /\ bare[m] \in [DOMAIN bare[m] -> Row(n)]
    BY <1>3 DEF AreAgendas
  <2>1. CASE m = s
    BY <1>2, <1>3, <2>1 DEF Table
  <2>2. CASE m # s
    BY <1>3, <2>2 DEF Orderly, AreAgendas
  <2> QED
    BY <2>1, <2>2
<1> QED
  BY <1>2, <1>3, <1>4, <1>5, <1>6, <1>7 DEF Orderly, bare, less

\* The agendas with one more appearance.
LEMMA AfterIs ==
    ASSUME NEW n \in Nat, NEW bare, Orderly(bare, n), NEW m \in Meetings, NEW p \in Topics,
           p \notin DOMAIN bare[m], NEW row \in Row(n),
           row.position \in 1..Cardinality(InSection(bare[m], row.section)) + 1,
           \A k \in Meetings : row.id \notin Ids(bare[k])
    PROVE  LET after == [bare EXCEPT ![m] = Inserted(@, p, row)]
           IN /\ Orderly(after, n) /\ DOMAIN after[m] = DOMAIN bare[m] \cup {p} /\ after[m][p] = row
              /\ \A k \in Meetings \ {m} : after[k] = bare[k]
              /\ \A k \in Meetings : \A q \in DOMAIN bare[k] :
                    q \in DOMAIN after[k] /\ Same(after[k][q], bare[k][q])
<1> DEFINE rows == bare[m]
           more == Inserted(rows, p, row)
           after == [bare EXCEPT ![m] = more]
<1>1. Table(rows, n) /\ Numbered(rows)
  BY DEF Orderly, AreAgendas, Table
<1>2. /\ Table(more, n) /\ DOMAIN more = DOMAIN rows \cup {p} /\ Numbered(more) /\ more[p] = row
      /\ \A q \in DOMAIN rows : Same(more[q], rows[q])
  <2> HIDE DEF rows
  <2> QED
    BY <1>1, InsertedIs DEF rows
<1>3. DOMAIN after = Meetings /\ after[m] = more /\ \A k \in Meetings \ {m} : after[k] = bare[k]
  BY DEF Orderly, AreAgendas
<1> HIDE DEF more, after
<1>4. \A k \in Meetings : \A q \in DOMAIN bare[k] :
         q \in DOMAIN after[k] /\ Same(after[k][q], bare[k][q])
  <2> SUFFICES ASSUME NEW k \in Meetings, NEW q \in DOMAIN bare[k]
               PROVE  q \in DOMAIN after[k] /\ Same(after[k][q], bare[k][q])
    OBVIOUS
  <2>1. CASE k = m
    BY <1>2, <1>3, <2>1
  <2>2. CASE k # m
    BY <1>3, <2>2 DEF Same
  <2> QED
    BY <2>1, <2>2
<1>5. \A k \in Meetings : \A q \in DOMAIN after[k] :
         \/ k = m /\ q = p /\ after[k][q].id = row.id
         \/ q \in DOMAIN bare[k] /\ after[k][q].id = bare[k][q].id /\ after[k][q].id # row.id
  <2> SUFFICES ASSUME NEW k \in Meetings, NEW q \in DOMAIN after[k], ~(k = m /\ q = p)
               PROVE  /\ q \in DOMAIN bare[k] /\ after[k][q].id = bare[k][q].id
                      /\ after[k][q].id # row.id
    BY <1>2, <1>3
  <2>1. q \in DOMAIN bare[k]
    BY <1>2, <1>3
  <2> QED
    BY <1>4, <2>1 DEF Same, Ids
<1>6. Unique(after)
  BY <1>5 DEF Orderly, Unique
<1>7. \A k \in Meetings : Numbered(after[k])
  BY <1>2, <1>3 DEF Orderly
<1>8. AreAgendas(after, n)
  <2> SUFFICES ASSUME NEW k \in Meetings
               PROVE  DOMAIN after[k] \subseteq Topics /\ after[k] \in [DOMAIN after[k] -> Row(n)]
    BY <1>3 DEF AreAgendas
  <2>1. CASE k = m
    BY <1>2, <1>3, <2>1 DEF Table
  <2>2. CASE k # m
    BY <1>3, <2>2 DEF Orderly, AreAgendas
  <2> QED
    BY <2>1, <2>2
<1> QED
  BY <1>2, <1>3, <1>4, <1>6, <1>7, <1>8 DEF Orderly, after, more

\* What WorkAdd works with, for its first item.
ItemOf(b) == Head(tx[b].arg.items)
RecordOf(b) == [TopicOf(b, ItemOf(b).topic) EXCEPT !.status = IF @ = "deferred" THEN "open" ELSE @]
BareOf(b) ==
    IF tx[b].seen = Nothing THEN AgendaOf(b)
    ELSE [AgendaOf(b) EXCEPT ![tx[b].seen.meeting] = Removed(@, ItemOf(b).topic)]
SizeOf(b) == Cardinality(InSection(BareOf(b)[tx[b].meeting], ItemOf(b).section))
PositionOf(b) == IF ItemOf(b).position = 0 THEN SizeOf(b) + 1 ELSE ItemOf(b).position
RowOf(b) ==
    [id |-> ItemOf(b).id, section |-> ItemOf(b).section, position |-> PositionOf(b),
     source |-> ItemOf(b).kind, edited |-> FALSE, decision |-> "none"]
ChangedBy(b) ==
    {tx[b].meeting} \cup (IF tx[b].seen = Nothing THEN {} ELSE {tx[b].seen.meeting})
AfterOf(b) == [BareOf(b) EXCEPT ![tx[b].meeting] = Inserted(@, ItemOf(b).topic, RowOf(b))]
AllowedFor(b) ==
    LET m == tx[b].meeting
        item == ItemOf(b)
        p == item.topic
        ag == AgendaOf(b)
    IN /\ Mutable(m)
       /\ item.section \in Listed
       /\ p \in DOMAIN ag[m] => tx[b].seen # Nothing /\ ag[m][p].id = tx[b].seen.row.id
       /\ item.source # 0 => SourceAllowed(tx[b].seen, p)
       /\ item.kind = "recurrence" => Planned(ag, p, RecordOf(b), m, item)
       /\ PositionOf(b) \in 1..SizeOf(b) + 1
OutOf(b) ==
    [tx[b].out EXCEPT !.agenda = Over([n \in ChangedBy(b) |-> AfterOf(b)[n]], @),
                      !.topic = Over([q \in {ItemOf(b).topic} |-> RecordOf(b)], @),
                      !.added = @ \cup {ItemOf(b).id}]

\* The request goes on to its next item.
Onwards(b, out) ==
    /\ Tail(tx[b].arg.items) # <<>>
    /\ tx' = [tx EXCEPT ![b].out = out, ![b].arg.items = Tail(tx[b].arg.items),
                        ![b].seen = Nothing,
                        ![b].want = LocksOf(Head(Tail(tx[b].arg.items)), tx[b].meeting)]
    /\ UNCHANGED job

LEMMA AddUnfolds ==
    ASSUME NEW b, WorkAdd(b)
    PROVE  /\ tx[b].op = "add"
           /\ \/ Failed(b)
              \/ Replayed(b) /\ Writes(b, tx[b].out)
              \/ ~Replayed(b) /\ AllowedFor(b) /\ Writes(b, OutOf(b))
              \/ Replayed(b) /\ Onwards(b, tx[b].out)
              \/ ~Replayed(b) /\ AllowedFor(b) /\ Onwards(b, OutOf(b))
BY DEF Onwards, WorkAdd, Refused, ItemOf, RecordOf, BareOf, SizeOf, PositionOf, RowOf, ChangedBy, AfterOf,
       AllowedFor, OutOf

\* What a row of a table of agendas is known as, from what is in progress.
LEMMA KnownRows ==
    ASSUME Inv, NEW b \in Browsers, NEW k \in Meetings, NEW q \in DOMAIN AgendaOf(b)[k]
    PROVE  LET id == AgendaOf(b)[k][q].id
               written == tx[b].out.agenda
           IN \/ id \in tx[b].out.added
              \/ \E l \in Meetings : /\ l \in DOMAIN written \/ l = k
                                     /\ \E r \in DOMAIN agenda[l] : agenda[l][r].id = id
<1> DEFINE written == tx[b].out.agenda
           ag == AgendaOf(b)
<1>1. /\ DOMAIN written \subseteq Meetings
      /\ \A m \in DOMAIN written : ag[m] = written[m]
      /\ \A m \in Meetings \ DOMAIN written : ag[m] = agenda[m]
  BY AgendaOfIs
<1> HIDE DEF ag
<1>2. CASE k \in DOMAIN written
  <2>1. \A m \in DOMAIN written : \A p \in DOMAIN written[m] :
           \/ written[m][p].id \in tx[b].out.added
           \/ \E l \in DOMAIN written : \E r \in DOMAIN agenda[l] : agenda[l][r].id = written[m][p].id
    <3>1. GoodAgendas(tx[b], agenda, meeting, skips, ids)
      BY DEF Inv, Good, GoodOut
    <3> QED
      BY <3>1 DEF GoodAgendas
  <2>2. q \in DOMAIN written[k] /\ ag[k] = written[k]
    BY <1>1, <1>2 DEF ag
  <2> QED
    BY <1>1, <1>2, <2>1, <2>2 DEF ag
<1>3. CASE k \notin DOMAIN written
  <2>1. ag[k] = agenda[k] /\ q \in DOMAIN agenda[k]
    BY <1>1, <1>3 DEF ag
  <2> QED
    BY <2>1 DEF ag
<1> QED
  BY <1>2, <1>3

LEMMA ItemIs ==
    ASSUME Inv, NEW b \in Browsers, Working(b), tx[b].op = "add", ~Replayed(b)
    PROVE  /\ ItemOf(b) \in ItemRow /\ ItemOf(b).id \in Own(tx[b]) \ mutations
           /\ ItemOf(b).id \notin tx[b].out.added /\ ItemOf(b).id \in 1..ids
           /\ ItemOf(b).source # 0 => tx[b].out = NoOutput
<1> DEFINE items == tx[b].arg.items
<1>1. /\ items \in Seq(ItemRow) /\ items # <<>>
      /\ \A i \in DOMAIN items :
            /\ items[i].id \in Own(tx[b]) /\ items[i].id \notin tx[b].out.added
            /\ items[i].source # 0 => tx[b].out = NoOutput
  BY DEF Inv, Good, GoodItems, GoodList, Working
<1>2. 1 \in DOMAIN items /\ ItemOf(b) = items[1] /\ items[1] \in ItemRow
  <2>1. ItemOf(b) = Head(items)
    BY DEF ItemOf
  <2> HIDE DEF items
  <2> QED
    BY <1>1, <2>1
<1>3. ItemOf(b).id \notin mutations
  BY DEF Replayed, Adding, ItemOf
<1>4. Own(tx[b]) \subseteq 1..ids
  BY DEF Inv, Apart
<1> QED
  BY <1>1, <1>2, <1>3, <1>4

\* A source is an appearance that may be moved, of a Meeting that is locked.
LEMMA SourceStays ==
    ASSUME Inv, NEW b \in Browsers, Working(b), tx[b].op = "add", ~Replayed(b), AllowedFor(b),
           tx[b].seen # Nothing
    PROVE  LET s == tx[b].seen.meeting
               p == ItemOf(b).topic
           IN /\ s \in Meetings /\ p \in DOMAIN agenda[s] /\ agenda[s][p].id = tx[b].seen.row.id
              /\ Loose(agenda[s][p], meeting[s].status) /\ Lock("meeting", s) \in tx[b].held
              /\ tx[b].out = NoOutput /\ \A k \in Meetings : AgendaOf(b)[k] = agenda[k]
<1> DEFINE s == tx[b].seen.meeting
           t == tx[b]
           item == ItemOf(b)
<1>1. /\ item.source # 0 /\ t.seen \in [meeting : Meetings, topic : Topics, row : Row(ids)]
      /\ t.seen.topic \in DOMAIN agenda[s] /\ t.seen.row = agenda[s][t.seen.topic]
      /\ \/ Lock("meeting", s) \in t.held
         \/ t.want = <<Lock("meeting", s)>>
         \/ item.id \in mutations
  BY DEF Inv, Good, GoodSource, Working, ItemOf
<1>2. t.want = <<>> /\ item.id \notin mutations
  BY ItemIs DEF Working
<1>3. Lock("meeting", s) \in t.held
  BY <1>1, <1>2
<1>4. SourceAllowed(t.seen, item.topic)
  BY <1>1 DEF AllowedFor
<1>5. t.out = NoOutput
  BY <1>1, ItemIs
<1>6. \A k \in Meetings : AgendaOf(b)[k] = agenda[k]
  <2>1. DOMAIN t.out.agenda = {}
    BY <1>5, NothingIsEmpty DEF NoOutput
  <2> QED
    BY <2>1, AgendaOfIs
<1> QED
  BY <1>1, <1>3, <1>4, <1>5, <1>6 DEF SourceAllowed, Loose

\* The agendas without the source, if there is one.
LEMMA BareOfIs ==
    ASSUME Inv, NEW b \in Browsers, Working(b), tx[b].op = "add", ~Replayed(b), AllowedFor(b)
    PROVE  LET ag == AgendaOf(b)
               bare == BareOf(b)
               p == ItemOf(b).topic
           IN /\ Orderly(bare, ids) /\ p \notin DOMAIN bare[tx[b].meeting]
              /\ \A k \in Meetings : \A q \in DOMAIN bare[k] :
                    q \in DOMAIN ag[k] /\ Same(bare[k][q], ag[k][q])
              /\ \A k \in Meetings \ ChangedBy(b) : bare[k] = ag[k]
              /\ \A k \in Meetings : \A q \in DOMAIN ag[k] :
                    \/ q \in DOMAIN bare[k]
                    \/ tx[b].seen # Nothing /\ k = tx[b].seen.meeting /\ q = p
<1> DEFINE ag == AgendaOf(b)
           bare == BareOf(b)
           p == ItemOf(b).topic
           m == tx[b].meeting
           s == tx[b].seen.meeting
<1>1. Orderly(ag, ids) /\ ids \in Nat /\ m \in Meetings
  BY AgendaOfIs, LockedMeeting DEF Whole, Orderly, Inv, TypeInv, OnMeetings, RequestOps
<1>2. p \in DOMAIN ag[m] => tx[b].seen # Nothing /\ ag[m][p].id = tx[b].seen.row.id
  BY DEF AllowedFor
<1>3. CASE tx[b].seen = Nothing
  <2>1. bare = ag /\ p \notin DOMAIN ag[m]
    BY <1>2, <1>3 DEF BareOf
  <2> HIDE DEF bare, ag
  <2> QED
    BY <1>1, <2>1 DEF Same, bare, ag
<1>4. CASE tx[b].seen # Nothing
  <2>1. s \in Meetings /\ p \in DOMAIN agenda[s] /\ agenda[s][p].id = tx[b].seen.row.id
        /\ \A k \in Meetings : ag[k] = agenda[k]
    BY <1>4, SourceStays
  <2>2. bare = [ag EXCEPT ![s] = Removed(@, p)] /\ s \in ChangedBy(b)
    BY <1>4 DEF BareOf, ChangedBy
  <2> HIDE DEF ag, bare, p, s
  <2>3. p \in DOMAIN ag[s]
    BY <2>1
  <2> DEFINE less == [ag EXCEPT ![s] = Removed(@, p)]
  <2>4. /\ Orderly(bare, ids) /\ DOMAIN bare[s] = DOMAIN ag[s] \ {p}
        /\ \A k \in Meetings \ {s} : bare[k] = ag[k]
        /\ \A k \in Meetings : \A q \in DOMAIN bare[k] :
              q \in DOMAIN ag[k] /\ Same(bare[k][q], ag[k][q])
    <3>1. /\ Orderly(less, ids) /\ DOMAIN less[s] = DOMAIN ag[s] \ {p}
          /\ \A k \in Meetings \ {s} : less[k] = ag[k]
          /\ \A k \in Meetings : \A q \in DOMAIN less[k] :
                q \in DOMAIN ag[k] /\ Same(less[k][q], ag[k][q])
      BY <1>1, <2>1, <2>3, BareIs
    <3>2. bare = less
      BY <2>2
    <3> HIDE DEF less
    <3> QED
      BY <3>1, <3>2
  <2>5. p \notin DOMAIN bare[m]
    <3>1. CASE m = s
      BY <2>4, <3>1
    <3>2. CASE m # s
      <4> SUFFICES ASSUME p \in DOMAIN ag[m] PROVE FALSE
        BY <1>1, <2>4, <3>2
      <4>1. ag[m][p].id = ag[s][p].id
        BY <1>2, <2>1
      <4> QED
        BY <1>1, <2>1, <2>3, <3>2, <4>1 DEF Orderly, Unique
    <3> QED
      BY <3>1, <3>2
  <2>6. \A k \in Meetings \ ChangedBy(b) : bare[k] = ag[k]
    BY <2>2, <2>4
  <2>7. \A k \in Meetings : \A q \in DOMAIN ag[k] :
           \/ q \in DOMAIN bare[k]
           \/ tx[b].seen # Nothing /\ k = s /\ q = p
    BY <1>4, <2>4
  <2> QED
    BY <2>4, <2>5, <2>6, <2>7 DEF ag, bare, p, s
<1> QED
  BY <1>3, <1>4

LEMMA AfterOfIs ==
    ASSUME Inv, NEW b \in Browsers, Working(b), tx[b].op = "add", ~Replayed(b), AllowedFor(b)
    PROVE  LET ag == AgendaOf(b)
               after == AfterOf(b)
               p == ItemOf(b).topic
               m == tx[b].meeting
           IN /\ Orderly(after, ids) /\ p \in DOMAIN after[m] /\ after[m][p] = RowOf(b)
              /\ \A k \in Meetings : \A q \in DOMAIN after[k] :
                    \/ k = m /\ q = p
                    \/ q \in DOMAIN ag[k] /\ Same(after[k][q], ag[k][q])
              /\ \A k \in Meetings \ ChangedBy(b) : after[k] = ag[k]
              /\ \A k \in Meetings : \A q \in DOMAIN ag[k] :
                    \/ ag[k][q].id \in Ids(after[k])
                    \/ tx[b].seen # Nothing /\ k = tx[b].seen.meeting /\ q = p
<1> DEFINE ag == AgendaOf(b)
           bare == BareOf(b)
           after == AfterOf(b)
           p == ItemOf(b).topic
           m == tx[b].meeting
           row == RowOf(b)
<1>1. ids \in Nat /\ m \in Meetings
  BY LockedMeeting DEF Inv, TypeInv, OnMeetings, RequestOps
<1>2. /\ Orderly(bare, ids) /\ p \notin DOMAIN bare[m]
      /\ \A k \in Meetings : \A q \in DOMAIN bare[k] :
            q \in DOMAIN ag[k] /\ Same(bare[k][q], ag[k][q])
      /\ \A k \in Meetings \ ChangedBy(b) : bare[k] = ag[k]
      /\ \A k \in Meetings : \A q \in DOMAIN ag[k] :
            \/ q \in DOMAIN bare[k]
            \/ tx[b].seen # Nothing /\ k = tx[b].seen.meeting /\ q = p
  BY BareOfIs
<1>3. /\ ItemOf(b) \in ItemRow /\ ItemOf(b).id \in Own(tx[b]) \ mutations
      /\ ItemOf(b).id \notin tx[b].out.added /\ ItemOf(b).id \in 1..ids
  BY ItemIs
<1>4. ASSUME NEW k \in Meetings PROVE ItemOf(b).id \notin Ids(bare[k])
  <2> SUFFICES ASSUME NEW q \in DOMAIN bare[k], bare[k][q].id = ItemOf(b).id PROVE FALSE
    BY DEF Ids
  <2>1. q \in DOMAIN ag[k] /\ ag[k][q].id = ItemOf(b).id
    BY <1>2 DEF Same
  <2>2. \A l \in Meetings : Own(tx[b]) \cap Ids(agenda[l]) \subseteq mutations
    BY DEF Inv, Apart
  <2>3. \A l \in Meetings : \A r \in DOMAIN agenda[l] : agenda[l][r].id # ItemOf(b).id
    BY <1>3, <2>2 DEF Ids
  <2> QED
    BY <1>3, <2>1, <2>3, KnownRows
<1>5. row \in Row(ids) /\ row.id = ItemOf(b).id /\ row.section = ItemOf(b).section
      /\ row.position \in 1..Cardinality(InSection(bare[m], row.section)) + 1
  <2>1. PositionOf(b) \in 1..SizeOf(b) + 1 /\ ItemOf(b).section \in Sections
    BY DEF AllowedFor, Listed
  <2>2. SizeOf(b) \in Nat
    <3>1. DOMAIN bare[m] \subseteq Topics
      BY <1>1, <1>2 DEF Orderly, AreAgendas
    <3> QED
      BY <3>1, SectionsAreFinite DEF SizeOf
  <2>3. PositionOf(b) \in Nat \ {0}
    BY <2>1, <2>2
  <2>4. row \in Row(ids) /\ row.section = ItemOf(b).section /\ row.position = PositionOf(b)
        /\ row.id = ItemOf(b).id
    BY <1>3, <2>1, <2>3 DEF RowOf, Row, ItemRow
  <2> QED
    BY <2>1, <2>4 DEF SizeOf
<1>6. p \in Topics
  BY <1>3 DEF ItemRow
<1>7. after = [bare EXCEPT ![m] = Inserted(@, p, row)]
  BY DEF AfterOf
<1>8. m \in ChangedBy(b)
  BY DEF ChangedBy
<1>9. \A k \in Meetings : row.id \notin Ids(bare[k])
  BY <1>4, <1>5
<1> HIDE DEF ag, bare, after, p, m, row
<1>10. /\ Orderly(after, ids) /\ DOMAIN after[m] = DOMAIN bare[m] \cup {p} /\ after[m][p] = row
       /\ \A k \in Meetings \ {m} : after[k] = bare[k]
       /\ \A k \in Meetings : \A q \in DOMAIN bare[k] :
             q \in DOMAIN after[k] /\ Same(after[k][q], bare[k][q])
  <2> DEFINE more == [bare EXCEPT ![m] = Inserted(@, p, row)]
  <2>1. p \notin DOMAIN bare[m] /\ Orderly(bare, ids)
    BY <1>2
  <2>2. row \in Row(ids) /\ row.position \in 1..Cardinality(InSection(bare[m], row.section)) + 1
    BY <1>5
  <2>3. /\ Orderly(more, ids) /\ DOMAIN more[m] = DOMAIN bare[m] \cup {p} /\ more[m][p] = row
        /\ \A k \in Meetings \ {m} : more[k] = bare[k]
        /\ \A k \in Meetings : \A q \in DOMAIN bare[k] :
              q \in DOMAIN more[k] /\ Same(more[k][q], bare[k][q])
    BY <1>1, <1>6, <1>9, <2>1, <2>2, AfterIs
  <2>4. after = more
    BY <1>7
  <2> HIDE DEF more
  <2> QED
    BY <2>3, <2>4
<1>11. ASSUME NEW k \in Meetings, NEW q \in DOMAIN after[k], ~(k = m /\ q = p)
       PROVE  q \in DOMAIN ag[k] /\ Same(after[k][q], ag[k][q])
  <2>1. q \in DOMAIN bare[k]
    BY <1>10, <1>11
  <2> QED
    BY <1>2, <1>10, <2>1 DEF Same
<1>12. \A k \in Meetings \ ChangedBy(b) : after[k] = ag[k]
  BY <1>2, <1>8, <1>10
<1>13. ASSUME NEW k \in Meetings, NEW q \in DOMAIN ag[k],
              ~(tx[b].seen # Nothing /\ k = tx[b].seen.meeting /\ q = p)
       PROVE  ag[k][q].id \in Ids(after[k])
  <2>1. q \in DOMAIN bare[k]
    BY <1>2, <1>13
  <2>2. q \in DOMAIN after[k] /\ after[k][q].id = ag[k][q].id
    BY <1>2, <1>10, <2>1 DEF Same
  <2> QED
    BY <2>2 DEF Ids
<1> QED
  BY <1>10, <1>11, <1>12, <1>13 DEF ag, after, p, m, row

LEMMA OutOfIs ==
    ASSUME Inv, NEW b \in Browsers, Working(b), tx[b].op = "add", ~Replayed(b), AllowedFor(b)
    PROVE  LET out == OutOf(b)
               old == tx[b].out
           IN /\ DOMAIN out = {"meeting", "topic", "agenda", "section", "skip", "unskip", "added"}
              /\ out.meeting = Nothing /\ out.section = old.section /\ out.skip = {}
              /\ out.added = old.added \cup {ItemOf(b).id}
              /\ DOMAIN out.agenda = ChangedBy(b) \cup DOMAIN old.agenda
              /\ DOMAIN out.agenda \subseteq Meetings
              /\ \A k \in DOMAIN out.agenda :
                    /\ out.agenda[k] = AfterOf(b)[k]
                    /\ Open(meeting[k].status) /\ Lock("meeting", k) \in tx[b].held
              /\ \A p \in DOMAIN out.topic : p \in Topics /\ out.topic[p] \in TopicRow
<1> DEFINE out == OutOf(b)
           old == tx[b].out
           p == ItemOf(b).topic
<1>1. /\ DOMAIN old = {"meeting", "topic", "agenda", "section", "skip", "unskip", "added"}
      /\ GoodAgendas(tx[b], agenda, meeting, skips, ids) /\ GoodRows(tx[b], agenda, meeting)
  BY DEF Inv, Good, GoodOut
<1>2. old.skip = {} /\ old.meeting = Nothing
  BY <1>1 DEF GoodAgendas, GoodRows
<1>3. /\ DOMAIN out = DOMAIN old /\ out.meeting = old.meeting /\ out.section = old.section
      /\ out.skip = old.skip /\ out.added = old.added \cup {ItemOf(b).id}
      /\ out.agenda = Over([n \in ChangedBy(b) |-> AfterOf(b)[n]], old.agenda)
      /\ out.topic = Over([q \in {p} |-> RecordOf(b)], old.topic)
  BY <1>1 DEF OutOf
<1> HIDE DEF out
<1>4. /\ DOMAIN out.agenda = ChangedBy(b) \cup DOMAIN old.agenda
      /\ \A k \in ChangedBy(b) : out.agenda[k] = AfterOf(b)[k]
      /\ \A k \in DOMAIN old.agenda \ ChangedBy(b) : out.agenda[k] = old.agenda[k]
  BY <1>3 DEF Over
<1>5. \A k \in DOMAIN old.agenda : /\ k \in Meetings /\ Open(meeting[k].status)
                                   /\ Lock("meeting", k) \in tx[b].held
  BY <1>1 DEF GoodAgendas
<1>6. \A k \in ChangedBy(b) : /\ k \in Meetings /\ Open(meeting[k].status)
                              /\ Lock("meeting", k) \in tx[b].held
  <2>1. Mutable(tx[b].meeting)
    BY DEF AllowedFor
  <2>2. "add" \in OnMeetings
    BY DEF OnMeetings, RequestOps
  <2>3. /\ tx[b].meeting \in Meetings /\ Open(meeting[tx[b].meeting].status)
        /\ Lock("meeting", tx[b].meeting) \in tx[b].held
    BY <2>1, <2>2, LockedMeeting
  <2>4. tx[b].seen # Nothing =>
           LET s == tx[b].seen.meeting
           IN s \in Meetings /\ Open(meeting[s].status) /\ Lock("meeting", s) \in tx[b].held
    BY SourceStays DEF Loose, Open
  <2> QED
    BY <2>3, <2>4 DEF ChangedBy
<1>7. ASSUME NEW k \in DOMAIN old.agenda \ ChangedBy(b) PROVE out.agenda[k] = AfterOf(b)[k]
  <2>1. AgendaOf(b)[k] = old.agenda[k]
    BY AgendaOfIs
  <2>2. AfterOf(b)[k] = AgendaOf(b)[k]
    BY <1>5, AfterOfIs
  <2> QED
    BY <1>4, <2>1, <2>2
<1>8. RecordOf(b) \in TopicRow /\ p \in Topics
  <2>1. p \in Topics
    BY ItemIs DEF ItemRow
  <2>2. TopicOf(b, p) \in TopicRow
    <3>1. CASE p \in DOMAIN old.topic
      BY <1>1, <3>1 DEF TopicOf, Over, GoodRows
    <3>2. CASE p \notin DOMAIN old.topic
      <4>1. TopicOf(b, p) = topic[p]
        BY <2>1, <3>2 DEF TopicOf, Over, Inv, TypeInv
      <4> QED
        BY <2>1, <4>1 DEF Inv, TypeInv
    <3> QED
      BY <3>1, <3>2
  <2> DEFINE x == TopicOf(b, p)
  <2>3. RecordOf(b) = [x EXCEPT !.status = IF @ = "deferred" THEN "open" ELSE @]
    BY DEF RecordOf
  <2> HIDE DEF x
  <2>4. x \in TopicRow
    BY <2>2 DEF x
  <2> QED
    BY <2>1, <2>3, <2>4 DEF TopicRow
<1>9. \A q \in DOMAIN out.topic : q \in Topics /\ out.topic[q] \in TopicRow
  <2>1. \A q \in DOMAIN old.topic : q \in Topics /\ old.topic[q] \in TopicRow
    BY <1>1 DEF GoodRows
  <2> HIDE DEF p
  <2> QED
    BY <1>3, <1>8, <2>1 DEF Over
<1> QED
  BY <1>1, <1>2, <1>3, <1>4, <1>5, <1>6, <1>7, <1>9 DEF out

LEMMA AdditionWrites ==
    ASSUME Inv, NEW b \in Browsers, Working(b), tx[b].op = "add", ~Replayed(b), AllowedFor(b),
           NEW z, z.out = OutOf(b), z.op = "add", z.held = tx[b].held, Own(z) = Own(tx[b])
    PROVE  GoodOut(z, agenda, meeting, skips, mutations, ids)
<1> DEFINE out == OutOf(b)
           old == tx[b].out
           ag == AgendaOf(b)
           after == AfterOf(b)
           item == ItemOf(b)
           p == item.topic
           m == tx[b].meeting
           W == DOMAIN out.agenda
<1>1. /\ DOMAIN out = {"meeting", "topic", "agenda", "section", "skip", "unskip", "added"}
      /\ out.meeting = Nothing /\ out.section = old.section /\ out.skip = {}
      /\ out.added = old.added \cup {item.id}
      /\ W = ChangedBy(b) \cup DOMAIN old.agenda /\ W \subseteq Meetings
      /\ \A k \in W : /\ out.agenda[k] = after[k]
                      /\ Open(meeting[k].status) /\ Lock("meeting", k) \in tx[b].held
      /\ \A q \in DOMAIN out.topic : q \in Topics /\ out.topic[q] \in TopicRow
  BY OutOfIs
<1>2. /\ Orderly(after, ids) /\ p \in DOMAIN after[m] /\ after[m][p] = RowOf(b)
      /\ \A k \in Meetings : \A q \in DOMAIN after[k] :
            \/ k = m /\ q = p
            \/ q \in DOMAIN ag[k] /\ Same(after[k][q], ag[k][q])
      /\ \A k \in Meetings : \A q \in DOMAIN ag[k] :
            \/ ag[k][q].id \in Ids(after[k])
            \/ tx[b].seen # Nothing /\ k = tx[b].seen.meeting /\ q = p
  BY AfterOfIs
<1>3. GoodAgendas(tx[b], agenda, meeting, skips, ids) /\ GoodRows(tx[b], agenda, meeting)
      /\ old.added \subseteq Own(tx[b]) \ mutations
  BY DEF Inv, Good, GoodOut
<1>4. item \in ItemRow /\ item.id \in Own(tx[b]) \ mutations
  BY ItemIs
<1>5. RowOf(b).id = item.id /\ RowOf(b).source = item.kind
  BY DEF RowOf
<1>6. ASSUME <<p, m>> \in skips PROVE RowOf(b).source = "manual"
  <2> SUFFICES ASSUME item.kind = "recurrence" PROVE FALSE
    BY <1>4, <1>5 DEF ItemRow
  <2>1. Planned(ag, p, RecordOf(b), m, item)
    BY DEF AllowedFor
  <2>2. PICK move \in ToSet(PlanOf(ag, p, RecordOf(b)).moves) : move.meeting = m
    BY <2>1 DEF Planned
  <2>3. AreAgendas(ag, ids) /\ ids \in Nat /\ meeting \in [Meetings -> MeetingRow] /\ p \in Topics
    BY <1>4, AgendaOfIs DEF Whole, Inv, TypeInv, ItemRow
  <2>4. RecordOf(b) \in TopicRow
    <3>1. p \in DOMAIN out.topic /\ out.topic[p] = RecordOf(b)
      <4>1. out.topic = Over([q \in {p} |-> RecordOf(b)], old.topic)
        BY DEF Inv, Good, GoodOut, OutOf
      <4> QED
        BY <4>1 DEF Over
    <3> QED
      BY <1>1, <3>1
  <2>5. \A x \in ToSet(PlanOf(ag, p, RecordOf(b)).moves) : <<p, x.meeting>> \notin skips
    <3> HIDE DEF ag, p
    <3> QED
      BY <2>3, <2>4, PlanIs
  <2> QED
    BY <1>6, <2>2, <2>5
<1>7. m \in W
  BY <1>1 DEF ChangedBy
<1> HIDE DEF out, W, ag, after, p, m, item
<1>8. ASSUME NEW k \in W, NEW q \in DOMAIN after[k]
      PROVE  /\ \/ after[k][q].id \in out.added
                \/ \E l \in W : \E r \in DOMAIN agenda[l] : agenda[l][r].id = after[k][q].id
             /\ <<q, k>> \in skips => after[k][q].source = "manual"
  <2>1. CASE k = m /\ q = p
    BY <1>1, <1>2, <1>5, <1>6, <2>1
  <2>2. CASE ~(k = m /\ q = p)
    <3>1. k \in Meetings /\ q \in DOMAIN ag[k] /\ Same(after[k][q], ag[k][q])
      BY <1>1, <1>2, <2>2
    <3>2. \/ ag[k][q].id \in old.added
          \/ \E l \in Meetings : /\ l \in DOMAIN old.agenda \/ l = k
                                 /\ \E r \in DOMAIN agenda[l] : agenda[l][r].id = ag[k][q].id
      BY <3>1, KnownRows DEF ag
    <3>3. <<q, k>> \in skips => ag[k][q].source = "manual"
      <4>1. ByHandWhere(skips \cup tx[b].out.skip, ag)
        BY AgendaOfIs DEF ag
      <4> QED
        BY <3>1, <4>1 DEF ByHandWhere
    <3> QED
      BY <1>1, <3>1, <3>2, <3>3 DEF Same
  <2> QED
    BY <2>1, <2>2
<1>9. ASSUME NEW k \in W, NEW q \in DOMAIN agenda[k]
      PROVE  \/ agenda[k][q].id \in Ids(after[k])
             \/ Loose(agenda[k][q], meeting[k].status)
  <2>1. /\ DOMAIN old.agenda \subseteq Meetings
        /\ \A l \in DOMAIN old.agenda : ag[l] = old.agenda[l]
        /\ \A l \in Meetings \ DOMAIN old.agenda : ag[l] = agenda[l]
    BY AgendaOfIs DEF ag
  <2>2. \/ agenda[k][q].id \in Ids(ag[k])
        \/ Loose(agenda[k][q], meeting[k].status)
    <3>1. CASE k \in DOMAIN old.agenda
      <4>1. \A l \in DOMAIN old.agenda : \A r \in DOMAIN agenda[l] :
               \/ agenda[l][r].id \in Ids(old.agenda[l])
               \/ Loose(agenda[l][r], meeting[l].status)
        BY <1>3 DEF GoodAgendas
      <4> QED
        BY <2>1, <3>1, <4>1
    <3>2. CASE k \notin DOMAIN old.agenda
      BY <1>1, <2>1, <3>2 DEF Ids
    <3> QED
      BY <3>1, <3>2
  <2> SUFFICES ASSUME NEW r \in DOMAIN ag[k], ag[k][r].id = agenda[k][q].id,
                      ag[k][r].id \notin Ids(after[k])
               PROVE  Loose(agenda[k][q], meeting[k].status)
    BY <2>2 DEF Ids
  <2>3. k \in Meetings /\ tx[b].seen # Nothing /\ k = tx[b].seen.meeting /\ r = p
    BY <1>1, <1>2
  <2>4. p \in DOMAIN agenda[k] /\ Loose(agenda[k][p], meeting[k].status) /\ ag[k] = agenda[k]
    BY <2>3, SourceStays DEF ag, p, item
  <2>5. r = q
    BY <2>3, <2>4 DEF Inv, AgendasAreWhole, AgendaTypeOK, Unique
  <2> QED
    BY <2>3, <2>4, <2>5
<1>10. ASSUME NEW k \in W
       PROVE  k \in Meetings /\ Table(after[k], ids) /\ Numbered(after[k])
  BY <1>1, <1>2 DEF Orderly, AreAgendas, Table
<1>11. \A k, l \in W : \A q \in DOMAIN after[k], r \in DOMAIN after[l] :
          after[k][q].id = after[l][r].id => k = l /\ q = r
  BY <1>1, <1>2 DEF Orderly, Unique
<1>12. GoodAgendas(z, agenda, meeting, skips, ids)
  <2>1. z.out = out /\ z.op = "add" /\ z.held = tx[b].held /\ z.out.skip = {} /\ DOMAIN z.out.agenda = W
    BY <1>1 DEF out, W
  <2>2. \A k \in W : z.out.agenda[k] = after[k]
    BY <1>1, <2>1
  <2>3. {} \subseteq Topics \X W
    OBVIOUS
  <2> QED
    BY <1>1, <1>8, <1>9, <1>10, <1>11, <2>1, <2>2, <2>3 DEF GoodAgendas
<1>13. GoodRows(z, agenda, meeting)
  <2>1. z.out = out /\ z.op = "add"
    BY DEF out
  <2> QED
    BY <1>1, <1>3, <2>1, NothingIsEmpty DEF GoodRows
<1>14. DOMAIN z.out = {"meeting", "topic", "agenda", "section", "skip", "unskip", "added"}
       /\ z.out.added \subseteq Own(z) \ mutations
  BY <1>1, <1>3, <1>4 DEF out
<1> QED
  BY <1>12, <1>13, <1>14 DEF GoodOut

\* An item is done: the request goes on to the rest, with what it has to write so far.
LEMMA OnwardsStep ==
    ASSUME Inv, NEW b \in Browsers, Working(b), tx[b].op = "add", NEW out, Onwards(b, out),
           out.added \subseteq tx[b].out.added \cup {ItemOf(b).id},
           \A z : z.op = "add" /\ z.out = out /\ z.held = tx[b].held /\ Own(z) = Own(tx[b])
                    => GoodOut(z, agenda, meeting, skips, mutations, ids)
    PROVE  Inv'
<1> DEFINE t == tx[b]
           items == t.arg.items
           rest == Tail(items)
           locks == LocksOf(Head(rest), t.meeting)
           x == [t EXCEPT !.out = out, !.arg.items = rest, !.seen = Nothing, !.want = locks]
<1>1. t.op = "add"
  OBVIOUS
<1>2. Good(t, agenda, meeting, skips, mutations, ids)
  BY DEF Inv
<1>3. DOMAIN t = {"op", "meeting", "arg", "want", "held", "ready", "seen", "out"}
  BY <1>2 DEF Good, Shape
<1>4. rest # <<>>
  BY DEF Onwards
<1>5. tx' = [tx EXCEPT ![b] = x] /\ job' = job
  BY DEF Onwards
<1>6. /\ DOMAIN t.arg = {"items", "all"} /\ GoodList(t.arg.all)
      /\ items \in Seq(ItemRow) /\ items # <<>>
      /\ \A i, j \in DOMAIN items : items[i].id = items[j].id => i = j
      /\ \A i \in DOMAIN items : /\ items[i].source # 0 => Len(items) = 1
                                 /\ items[i].id \in Own(t) /\ items[i].id \notin t.out.added
  BY <1>1, <1>2 DEF Good, GoodItems, GoodList, Working
<1>7. /\ x.op = "add" /\ x.meeting = t.meeting /\ x.out = out /\ x.held = t.held
      /\ x.seen = Nothing /\ x.want = locks /\ x.ready = t.ready /\ DOMAIN x = DOMAIN t
      /\ DOMAIN x.arg = {"items", "all"} /\ x.arg.items = rest /\ x.arg.all = t.arg.all
  BY <1>1, <1>3, <1>6
<1> HIDE DEF x
<1>8. Own(x) = Own(t)
  BY <1>1, <1>7 DEF Own
<1>9. /\ rest \in Seq(ItemRow) /\ Len(rest) = Len(items) - 1 /\ Len(items) \in Nat
      /\ Len(rest) \in Nat \ {0} /\ items[1] = Head(items)
      /\ \A i \in 1..Len(rest) : rest[i] = items[i + 1] /\ i + 1 \in DOMAIN items /\ i + 1 # 1
  <2>1. /\ rest \in Seq(ItemRow) /\ Len(rest) = Len(items) - 1
        /\ \A i \in 1..Len(rest) : rest[i] = items[i + 1]
    BY <1>6, HeadTailProperties
  <2>2. Len(rest) \in Nat \ {0}
    BY <1>4, <2>1, EmptySeq
  <2> HIDE DEF items, rest
  <2>3. Len(items) \in Nat /\ DOMAIN items = 1..Len(items) /\ items[1] = Head(items)
    BY <1>6
  <2> QED
    BY <2>1, <2>2, <2>3
<1>10. Head(rest) = rest[1] /\ 1 \in 1..Len(rest) /\ Head(rest) \in ItemRow /\ DOMAIN rest = 1..Len(rest)
  <2> HIDE DEF rest, items
  <2> QED
    BY <1>4, <1>9
<1> HIDE DEF rest
<1>11. ASSUME NEW i \in DOMAIN rest
      PROVE  /\ rest[i].source = 0 /\ rest[i].id \in Own(t)
             /\ rest[i].id \notin out.added
             /\ \A j \in DOMAIN rest : rest[i].id = rest[j].id => i = j
  <2>1. /\ i \in 1..Len(rest) /\ rest[i] = items[i + 1] /\ i + 1 \in DOMAIN items /\ i + 1 # 1
        /\ 1 \in DOMAIN items /\ items[1] = Head(items) /\ Len(items) # 1
    <3> HIDE DEF items
    <3> QED
      BY <1>6, <1>9, <1>10
  <2>2. rest[i].source = 0 /\ rest[i].id \in Own(t) /\ rest[i].id \notin t.out.added
    BY <1>6, <2>1
  <2>3. rest[i].id # Head(items).id
    BY <1>6, <2>1
  <2>4. out.added \subseteq t.out.added \cup {Head(items).id}
    BY DEF ItemOf
  <2>5. ASSUME NEW j \in DOMAIN rest, rest[i].id = rest[j].id PROVE i = j
    <3>1. rest[j] = items[j + 1] /\ j + 1 \in DOMAIN items /\ j \in 1..Len(rest)
      BY <1>9, <1>10
    <3>2. i + 1 = j + 1
      BY <1>6, <2>1, <2>5, <3>1
    <3> QED
      BY <1>9, <2>1, <3>1, <3>2
  <2> QED
    BY <2>2, <2>3, <2>4, <2>5
<1>12. t.meeting \in Meetings /\ Lock("meeting", t.meeting) \in t.held
  BY <1>1, LockedMeeting DEF OnMeetings, RequestOps
<1>13. Shape(x)
  <2>1. locks \in Seq(Locks)
    BY <1>10, <1>12, LocksOfAre
  <2> QED
    BY <1>2, <1>3, <1>7, <1>12, <2>1 DEF Good, Shape, RequestOps
<1>14. GoodArg(x) /\ GoodLocks(x)
  BY <1>7, <1>12 DEF GoodArg, GoodLocks, Guards
<1>15. GoodList(rest)
  <2>1. rest # <<>>
    BY <1>4 DEF rest
  <2> QED
    BY <1>9, <1>11, <2>1 DEF GoodList
<1>16. GoodItems(x)
  BY <1>6, <1>7, <1>8, <1>11, <1>15 DEF GoodItems
<1>17. GoodSource(x, agenda, mutations, ids)
  <2>1. Head(rest).source = 0
    BY <1>10, <1>11
  <2> QED
    BY <1>7, <2>1 DEF GoodSource
<1>18. GoodOut(x, agenda, meeting, skips, mutations, ids)
  BY <1>1, <1>7, <1>8
<1>19. Good(x, agenda, meeting, skips, mutations, ids')
  BY <1>13, <1>14, <1>16, <1>17, <1>18 DEF Good, Working
<1>20. /\ \A d \in Browsers \ {b} : x.held \cap tx[d].held = {}
       /\ ids' \in Nat /\ ids <= ids' /\ Pages' /\ UNCHANGED database
  BY <1>5, <1>7 DEF Inv, Apart, TypeInv, Pages, Working
<1>21. Own(x) \subseteq Own(tx[b]) \cup (ids + 1)..ids'
  BY <1>8
<1> HIDE DEF Inv
<1> QED
  BY <1>5, <1>19, <1>20, <1>21, RequestStep

LEMMA WorksAdd == ASSUME Inv, NEW b \in Browsers, Working(b), WorkAdd(b) PROVE Inv'
<1> DEFINE t == tx[b]
           items == t.arg.items
           rest == Tail(items)
<1>1. t.op = "add"
  BY AddUnfolds
<1>2. Good(t, agenda, meeting, skips, mutations, ids)
  BY DEF Inv
<1>3. DOMAIN t = {"op", "meeting", "arg", "want", "held", "ready", "seen", "out"}
  BY <1>2 DEF Good, Shape
<1>4. CASE Failed(b)
  BY <1>4, FailedStep DEF Working
<1>5. CASE Replayed(b) /\ Writes(b, t.out)
  <2> DEFINE x == [t EXCEPT !.ready = TRUE, !.out = t.out]
  <2>1. x.op = t.op /\ x.meeting = t.meeting /\ x.arg = t.arg /\ x.out = t.out /\ x.held = t.held
    BY <1>3
  <2>2. GoodOut(x, agenda, meeting, skips, mutations, ids)
    <3>1. GoodOut(t, agenda, meeting, skips, mutations, ids)
      BY <1>2 DEF Good
    <3> HIDE DEF x
    <3> QED
      BY <2>1, <3>1, HoldingMore
  <2> QED
    BY <1>5, <2>2, WritesStep DEF Working
<1>6. CASE ~Replayed(b) /\ AllowedFor(b) /\ Writes(b, OutOf(b))
  <2> DEFINE x == [t EXCEPT !.ready = TRUE, !.out = OutOf(b)]
  <2>1. x.op = "add" /\ x.arg = t.arg /\ x.out = OutOf(b) /\ x.held = t.held
    BY <1>1, <1>3
  <2>2. GoodOut(x, agenda, meeting, skips, mutations, ids)
    <3> HIDE DEF x
    <3>1. Own(x) = Own(t)
      BY <1>1, <2>1 DEF Own
    <3> QED
      BY <1>1, <1>6, <2>1, <3>1, AdditionWrites
  <2> QED
    BY <1>6, <2>2, WritesStep DEF Working
<1>7. CASE Replayed(b) /\ Onwards(b, t.out)
  <2>1. t.out.added \subseteq t.out.added \cup {ItemOf(b).id}
    OBVIOUS
  <2>2. GoodOut(t, agenda, meeting, skips, mutations, ids)
    BY <1>2 DEF Good
  <2>3. ASSUME NEW z, z.op = "add", z.out = t.out, z.held = t.held, Own(z) = Own(t)
        PROVE  GoodOut(z, agenda, meeting, skips, mutations, ids)
    BY <1>1, <2>2, <2>3 DEF GoodOut, GoodAgendas, GoodRows
  <2> QED
    BY <1>1, <1>7, <2>1, <2>3, OnwardsStep
<1>8. CASE ~Replayed(b) /\ AllowedFor(b) /\ Onwards(b, OutOf(b))
  <2>1. OutOf(b).added = t.out.added \cup {ItemOf(b).id}
    BY <1>1, <1>8, OutOfIs
  <2>2. ASSUME NEW z, z.op = "add", z.out = OutOf(b), z.held = t.held, Own(z) = Own(t)
        PROVE  GoodOut(z, agenda, meeting, skips, mutations, ids)
    BY <1>1, <1>8, <2>2, AdditionWrites
  <2> QED
    BY <1>1, <1>8, <2>1, <2>2, OnwardsStep
<1> QED
  BY <1>4, <1>5, <1>6, <1>7, <1>8, AddUnfolds

LEMMA Works == ASSUME Inv, NEW b \in Browsers, Work(b) PROVE Inv'
<1>1. Working(b)
  BY DEF Work, Working
<1> QED
  BY <1>1, WorksAdd, WorksReorder, WorksRemove, WorksAppearance, WorksMeeting, WorksRestore,
     WorksTopic, WorksComplete, WorksSection DEF Work

-----------------------------------------------------------------------------
(* A request commits *)

\* What the tables are afterwards.
Committed(b) ==
    LET out == tx[b].out
    IN /\ meeting' = Over(out.meeting, meeting)
       /\ topic' = [p \in Topics |-> Orphaned(TopicOf(b, p), out.section)]
       /\ agenda' = AgendaOf(b)
       /\ skips' = (skips \cup out.skip) \ out.unskip
       /\ section' = Over(out.section, section)
       /\ mutations' = mutations \cup out.added
       /\ ids' = ids /\ loaded' = loaded

LEMMA MeetingsAfter ==
    ASSUME Inv, NEW b \in Browsers, Committed(b)
    PROVE  LET written == tx[b].out.meeting
           IN /\ DOMAIN written \subseteq Meetings /\ meeting' \in [Meetings -> MeetingRow]
              /\ \A m \in DOMAIN written : meeting'[m] = written[m] /\ meeting'[m].status # "none"
              /\ \A m \in Meetings \ DOMAIN written : meeting'[m] = meeting[m]
<1> DEFINE written == tx[b].out.meeting
<1>1. \A m \in DOMAIN written :
         m \in Meetings /\ written[m] \in MeetingRow /\ written[m].status # "none"
  BY DEF Inv, Good, GoodOut, GoodRows
<1>2. meeting \in [Meetings -> MeetingRow] /\ meeting' = Over(written, meeting)
  BY DEF Inv, TypeInv, Committed
<1> HIDE DEF written
<1>3. DOMAIN written \cup DOMAIN meeting = Meetings
  BY <1>1, <1>2
<1>4. meeting' = [m \in Meetings |-> IF m \in DOMAIN written THEN written[m] ELSE meeting[m]]
  BY <1>2, <1>3 DEF Over
<1> QED
  BY <1>1, <1>2, <1>4 DEF written

LEMMA TopicsAfter ==
    ASSUME Inv, NEW b \in Browsers, Committed(b)
    PROVE  /\ topic' \in [Topics -> TopicRow]
           /\ \A p \in Topics : topic'[p].status = IF p \in DOMAIN tx[b].out.topic
                                                   THEN tx[b].out.topic[p].status
                                                   ELSE topic[p].status
<1> DEFINE written == tx[b].out.topic
<1>1. \A p \in DOMAIN written : p \in Topics /\ written[p] \in TopicRow
  BY DEF Inv, Good, GoodOut, GoodRows
<1>2. topic \in [Topics -> TopicRow]
  BY DEF Inv, TypeInv
<1>3. ASSUME NEW p \in Topics
      PROVE  /\ TopicOf(b, p) = (IF p \in DOMAIN written THEN written[p] ELSE topic[p])
             /\ TopicOf(b, p) \in TopicRow
  BY <1>1, <1>2 DEF TopicOf, Over
<1>4. ASSUME NEW t \in TopicRow, NEW sections
      PROVE  Orphaned(t, sections) \in TopicRow /\ Orphaned(t, sections).status = t.status
  BY DEF Orphaned, TopicRow
<1>5. topic' = [p \in Topics |-> Orphaned(TopicOf(b, p), tx[b].out.section)]
  BY DEF Committed
<1> HIDE DEF written
<1>6. ASSUME NEW p \in Topics
      PROVE  /\ topic'[p] \in TopicRow
             /\ topic'[p].status = IF p \in DOMAIN written THEN written[p].status ELSE topic[p].status
  BY <1>3, <1>4, <1>5
<1> QED
  BY <1>5, <1>6 DEF written

\* The agendas, the skipped dates and the sections.
LEMMA AgendasAfter ==
    ASSUME Inv, NEW b \in Browsers, Committed(b)
    PROVE  /\ AgendasAreWhole' /\ SkippedStaysSkipped'
           /\ skips' \subseteq Topics \X Meetings /\ section' \in [Sections -> Nat]
<1> DEFINE t == tx[b]
<1>1. /\ Whole(AgendaOf(b), ids) /\ ByHandWhere(skips \cup t.out.skip, AgendaOf(b))
      /\ DOMAIN t.out.agenda \subseteq Meetings
  BY AgendaOfIs
<1>2. /\ agenda' = AgendaOf(b) /\ skips' = (skips \cup t.out.skip) \ t.out.unskip
      /\ section' = Over(t.out.section, section) /\ mutations' = mutations \cup t.out.added
      /\ ids' = ids
  BY DEF Committed
<1>3. SkippedStaysSkipped'
  <2>1. ByHandWhere(skips', agenda')
    BY <1>1, <1>2 DEF ByHandWhere
  <2> QED
    BY <2>1 DEF SkippedStaysSkipped, ByHandWhere
<1>4. skips' \subseteq Topics \X Meetings
  <2>1. skips \subseteq Topics \X Meetings
    BY DEF Inv, TypeInv
  <2>2. t.out.skip \subseteq Topics \X DOMAIN t.out.agenda
    BY DEF Inv, Good, GoodOut, GoodAgendas
  <2> QED
    BY <1>1, <1>2, <2>1, <2>2
<1>5. section' \in [Sections -> Nat] /\ NumberedSections(section')
  <2>1. section \in [Sections -> Nat] /\ NumberedSections(section)
    BY DEF Inv, TypeInv, AgendasAreWhole, PositionsAreConsecutive
  <2>2. CASE t.out.section = Nothing
    <3>1. section' = section
      BY <1>2, <2>1, <2>2, NothingIsEmpty DEF Over
    <3> QED
      BY <2>1, <3>1
  <2>3. CASE t.out.section # Nothing
    <3>1. t.out.section \in [Sections -> Nat] /\ NumberedSections(t.out.section)
      BY <2>3 DEF Inv, Good, GoodOut, GoodRows
    <3>2. section' = t.out.section
      BY <1>2, <2>1, <3>1 DEF Over
    <3> QED
      BY <3>1, <3>2
  <2> QED
    BY <2>2, <2>3
<1>6. Existing \subseteq Existing'
  <2>1. \A m \in Meetings : meeting[m].status # "none" => meeting'[m].status # "none"
    BY MeetingsAfter
  <2> QED
    BY <2>1 DEF Existing
<1>7. mutations' \subseteq 1..ids
  <2>1. t.out.added \subseteq Own(t) /\ Own(t) \subseteq 1..ids
    BY DEF Inv, Good, GoodOut, Apart
  <2> QED
    BY <1>2, <2>1 DEF Inv, AgendasAreWhole, AgendaTypeOK
<1>8. AgendasAreWhole'
  <2>1. AreAgendas(agenda', ids') /\ Unique(agenda')
    BY <1>1, <1>2 DEF Whole
  <2>2. \A m \in Meetings : Numbered(agenda'[m]) /\ (DOMAIN agenda'[m] # {} => m \in Existing')
    BY <1>1, <1>2, <1>6 DEF Whole
  <2> QED
    BY <1>2, <1>5, <1>7, <2>1, <2>2 DEF AgendasAreWhole, AgendaTypeOK, PositionsAreConsecutive
<1> QED
  BY <1>3, <1>4, <1>5, <1>8

\* The locks keep what a request relies on from the others.
LEMMA OthersAfter ==
    ASSUME Inv, NEW b \in Browsers, Committed(b), ~Waiting(b), tx[b].want = <<>>, tx[b].ready,
           Consistent(b), NEW d \in Browsers, d # b
    PROVE  Good(tx[d], agenda', meeting', skips', mutations', ids')
<1> DEFINE t == tx[b]
           x == tx[d]
           written == t.out.agenda
<1>1. Good(x, agenda, meeting, skips, mutations, ids) /\ ids' = ids /\ ids \in Nat
  BY DEF Inv, TypeInv, Committed
<1>2. x.held \cap t.held = {} /\ Own(x) \cap Own(t) = {}
  BY DEF Inv, Apart
<1>3. mutations' = mutations \cup t.out.added /\ t.out.added \subseteq Own(t)
  BY DEF Committed, Inv, Good, GoodOut
<1>4. /\ DOMAIN written \subseteq Meetings
      /\ \A m \in DOMAIN written : agenda'[m] = written[m] /\ Lock("meeting", m) \in t.held
      /\ \A m \in Meetings \ DOMAIN written : agenda'[m] = agenda[m]
  <2>1. agenda' = AgendaOf(b)
    BY DEF Committed
  <2>2. \A m \in DOMAIN written : Lock("meeting", m) \in t.held
    BY DEF Inv, Good, GoodOut, GoodAgendas
  <2> QED
    BY <2>1, <2>2, AgendaOfIs
<1>5. ASSUME NEW m \in Meetings, Lock("meeting", m) \in x.held, Open(meeting[m].status)
      PROVE  /\ agenda'[m] = agenda[m] /\ meeting'[m] = meeting[m]
             /\ \A p \in Topics : <<p, m>> \in skips' => <<p, m>> \in skips
  <2>1. m \notin DOMAIN written
    BY <1>2, <1>4, <1>5
  <2>2. m \notin DOMAIN t.out.meeting
    <3>1. \A k \in DOMAIN t.out.meeting :
             \/ t.op = "create" /\ k = t.meeting
             \/ Lock("meeting", k) \in t.held
      BY DEF Inv, Good, GoodOut, GoodRows
    <3>2. t.op = "create" => meeting[t.meeting].status = "none"
      BY DEF Consistent
    <3> QED
      BY <1>2, <1>5, <3>1, <3>2 DEF Open
  <2>3. meeting'[m] = meeting[m]
    BY <2>2, MeetingsAfter
  <2>4. t.out.skip \subseteq Topics \X DOMAIN written
    BY DEF Inv, Good, GoodOut, GoodAgendas
  <2>5. skips' = (skips \cup t.out.skip) \ t.out.unskip
    BY DEF Committed
  <2> HIDE DEF written
  <2> QED
    BY <1>4, <2>1, <2>3, <2>4, <2>5
<1>6. ASSUME NEW m \in Meetings, NEW p \in DOMAIN agenda[m], Lock("row", agenda[m][p].id) \in x.held
      PROVE  p \in DOMAIN agenda'[m] /\ agenda'[m][p] = agenda[m][p]
  <2>1. CASE m \notin DOMAIN written
    BY <1>4, <2>1
  <2>2. CASE m \in DOMAIN written
    <3>1. ChangedRows(b) \cap x.held = {}
      BY DEF Waiting, WaitsFor
    <3> DEFINE differs(k, q) == ~(q \in DOMAIN written[k] /\ written[k][q] = agenda[k][q])
               rows(k) == {Lock("row", agenda[k][q].id) : q \in {q \in DOMAIN agenda[k] : differs(k, q)}}
    <3>2. UNION {rows(k) : k \in DOMAIN written} \subseteq ChangedRows(b)
      BY DEF ChangedRows
    <3>3. differs(m, p) => Lock("row", agenda[m][p].id) \in rows(m)
      OBVIOUS
    <3> HIDE DEF differs, rows
    <3>4. ~differs(m, p)
      BY <1>6, <2>2, <3>1, <3>2, <3>3
    <3> QED
      BY <1>4, <2>2, <3>4 DEF differs
  <2> QED
    BY <2>1, <2>2
<1>7. Own(x) \cap mutations' \subseteq mutations /\ mutations \subseteq mutations'
  BY <1>2, <1>3
<1> HIDE DEF x, t
<1>8. Good(x, agenda', meeting', skips', mutations', ids')
  BY <1>1, <1>5, <1>6, <1>7, GoodStays
<1> QED
  BY <1>8 DEF x

\* An identifier that has come to an agenda is known as an addition.
LEMMA KnownAfter ==
    ASSUME Inv, NEW b \in Browsers, Committed(b), NEW d \in Browsers, NEW m \in Meetings
    PROVE  Own(tx[d]) \cap Ids(agenda'[m]) \subseteq mutations'
<1> DEFINE t == tx[b]
           written == t.out.agenda
<1>1. mutations' = mutations \cup t.out.added /\ agenda' = AgendaOf(b)
  BY DEF Committed
<1>2. \A k \in Meetings : Own(tx[d]) \cap Ids(agenda[k]) \subseteq mutations
  BY DEF Inv, Apart
<1>3. /\ DOMAIN written \subseteq Meetings
      /\ \A k \in DOMAIN written : agenda'[k] = written[k]
      /\ \A k \in Meetings \ DOMAIN written : agenda'[k] = agenda[k]
  BY <1>1, AgendaOfIs
<1>4. CASE m \notin DOMAIN written
  BY <1>1, <1>2, <1>3, <1>4
<1>5. CASE m \in DOMAIN written
  <2> SUFFICES ASSUME NEW id \in Own(tx[d]), id \in Ids(agenda'[m]) PROVE id \in mutations'
    OBVIOUS
  <2>1. PICK p \in DOMAIN written[m] : written[m][p].id = id
    BY <1>3, <1>5 DEF Ids
  <2>2. \/ id \in t.out.added
        \/ \E k \in DOMAIN written : \E q \in DOMAIN agenda[k] : agenda[k][q].id = id
    <3>1. \A k \in DOMAIN written : \A q \in DOMAIN written[k] :
             \/ written[k][q].id \in t.out.added
             \/ \E l \in DOMAIN written : \E r \in DOMAIN agenda[l] : agenda[l][r].id = written[k][q].id
      <4>1. GoodAgendas(t, agenda, meeting, skips, ids)
        BY DEF Inv, Good, GoodOut
      <4> HIDE DEF t
      <4> QED
        BY <4>1 DEF GoodAgendas
    <3> QED
      BY <1>5, <2>1, <3>1
  <2>3. CASE id \in t.out.added
    BY <1>1, <2>3
  <2>4. CASE \E k \in DOMAIN written : \E q \in DOMAIN agenda[k] : agenda[k][q].id = id
    <3>1. PICK k \in DOMAIN written : id \in Ids(agenda[k])
      BY <2>4 DEF Ids
    <3> QED
      BY <1>1, <1>2, <1>3, <3>1
  <2> QED
    BY <2>2, <2>3, <2>4
<1> QED
  BY <1>4, <1>5

LEMMA CommitStep ==
    ASSUME Inv, NEW b \in Browsers, Committed(b), ~Waiting(b), tx[b].want = <<>>, tx[b].ready,
           Consistent(b), NEW x, tx' = [tx EXCEPT ![b] = x],
           Good(x, agenda', meeting', skips', mutations', ids'), x.held = {},
           Own(x) \subseteq Own(tx[b]), Pages'
    PROVE  Inv'
<1>1. tx'[b] = x /\ (\A d \in Browsers \ {b} : tx'[d] = tx[d]) /\ DOMAIN tx' = Browsers
  BY DEF Inv, TypeInv
<1>2. meeting' \in [Meetings -> MeetingRow]
  BY MeetingsAfter
<1>3. topic' \in [Topics -> TopicRow]
  BY TopicsAfter
<1>4. /\ AgendasAreWhole' /\ SkippedStaysSkipped'
      /\ skips' \subseteq Topics \X Meetings /\ section' \in [Sections -> Nat]
  BY AgendasAfter
<1>5. TypeInv'
  BY <1>1, <1>2, <1>3, <1>4 DEF Inv, TypeInv, Committed
<1>6. \A d \in Browsers : Own(tx'[d]) \subseteq Own(tx[d]) /\ tx'[d].held \subseteq tx[d].held
  BY <1>1
<1>7. Apart'
  <2>1. \A d \in Browsers, e \in Browsers : d # e =>
           tx'[d].held \cap tx'[e].held = {} /\ Own(tx'[d]) \cap Own(tx'[e]) = {}
    BY <1>6 DEF Inv, Apart
  <2>2. \A d \in Browsers : Own(tx'[d]) \subseteq 1..ids'
    BY <1>6 DEF Inv, Apart, Committed
  <2>3. \A d \in Browsers, m \in Meetings : Own(tx'[d]) \cap Ids(agenda'[m]) \subseteq mutations'
    BY <1>6, KnownAfter
  <2> QED
    BY <2>1, <2>2, <2>3 DEF Apart, Own, Ids
<1>8. ASSUME NEW d \in Browsers PROVE Good(tx'[d], agenda', meeting', skips', mutations', ids')
  <2>1. CASE d = b
    BY <1>1, <2>1
  <2>2. CASE d # b
    BY <1>1, <2>2, OthersAfter
  <2> QED
    BY <2>1, <2>2
<1> QED
  BY <1>4, <1>5, <1>7, <1>8 DEF Inv

LEMMA Commits == ASSUME Inv, NEW b \in Browsers, Commit(b) PROVE Inv'
<1> DEFINE t == tx[b]
<1>1. CASE ~Consistent(b)
  <2>1. Failed(b) /\ UNCHANGED <<database, loaded, ids>>
    BY <1>1 DEF Commit
  <2> QED
    BY <2>1, FailedStep
<1>2. CASE Consistent(b)
  <2>1. /\ Committed(b) /\ ~Waiting(b) /\ t.op # "none" /\ t.want = <<>> /\ t.ready
    BY <1>2 DEF Commit, Committed
  <2>2. job[b] \in JobRow /\ job \in [Browsers -> JobRow] /\ loaded' \in [Browsers -> SUBSET Meetings]
    BY <2>1 DEF Inv, TypeInv, Pages, Committed
  <2>3. Idle \in JobRow /\ Idle.step = "idle"
    BY DEF Idle, JobRow, AgendaConstants
  <2>4. CASE tx' = [tx EXCEPT ![b] = NoTx] /\ \E j \in {Idle, Continued(job[b])} : job' = [job EXCEPT ![b] = j]
    <3>1. PICK j \in {Idle, Continued(job[b])} : job' = [job EXCEPT ![b] = j]
      BY <2>4
    <3>2. Continued(job[b]) \in JobRow
          /\ (Continued(job[b]).step \in {"next", "carrying"} => Continued(job[b]).topic \in Topics)
      <4>1. job[b].step = "carrying" => job[b].topic \in Topics
        BY DEF Inv, TypeInv, Pages
      <4>2. \/ Continued(job[b]) = Idle
            \/ Continued(job[b]) = [job[b] EXCEPT !.step = "list"]
            \/ Continued(job[b]) = [job[b] EXCEPT !.step = "plan"]
            \/ job[b].step = "carrying" /\ Continued(job[b]) = [job[b] EXCEPT !.step = "next"]
        BY DEF Continued
      <4> QED
        BY <2>2, <2>3, <4>1, <4>2 DEF JobRow
    <3>3. Pages'
      BY <2>2, <2>3, <3>1, <3>2, JobKept
    <3>4. Good(NoTx, agenda', meeting', skips', mutations', ids') /\ Own(NoTx) = {} /\ NoTx.held = {}
      BY GoodNoTx
    <3> HIDE DEF Inv
    <3> QED
      BY <1>2, <2>1, <2>4, <3>3, <3>4, CommitStep
  <2>5. CASE /\ t.op = "add" /\ UNCHANGED job
             /\ tx' = [tx EXCEPT ![b] = Addition(t.meeting, t.arg.all)]
    <3>1. Shape(t) /\ GoodItems(t)
      BY DEF Inv, Good
    <3>2. t.meeting \in Meetings /\ GoodList(t.arg.all)
      BY <2>5, <3>1 DEF Shape, GoodItems
    <3> DEFINE x == Addition(t.meeting, t.arg.all)
    <3>3. /\ Good(x, agenda', meeting', skips', mutations', ids') /\ x.held = {}
          /\ Own(x) = {t.arg.all[i].id : i \in DOMAIN t.arg.all}
      BY <3>2, AdditionIs
    <3>4. Own(x) \subseteq Own(t)
      BY <2>5, <3>3 DEF Own
    <3>5. Pages'
      BY <2>1, <2>5 DEF Inv, TypeInv, Pages, Committed
    <3> HIDE DEF Inv, x
    <3> QED
      BY <1>2, <2>1, <2>5, <3>3, <3>4, <3>5, CommitStep DEF x
  <2> QED
    BY <1>2, <2>4, <2>5 DEF Commit, Failed
<1> QED
  BY <1>1, <1>2
-----------------------------------------------------------------------------
(* Every step *)

LEMMA Starting == ASSUME Init PROVE Inv
<1>1. PICK start \in Starts :
         /\ meeting = start.meeting /\ topic = start.topic /\ agenda = start.agenda
         /\ skips = start.skips /\ section = start.section /\ ids = start.ids
         /\ loaded = [b \in Browsers |-> start.loaded]
  BY DEF Init
<1>2. Legal(start)
  BY AgendaConstants
<1>3. /\ mutations = {} /\ tx = [b \in Browsers |-> NoTx] /\ job = [b \in Browsers |-> Idle]
  BY DEF Init
<1>4. Idle \in JobRow /\ Idle.step = "idle"
  BY DEF Idle, JobRow, AgendaConstants
<1>5. TypeInv
  BY <1>1, <1>2, <1>3, <1>4 DEF Legal, TypeInv, Pages
<1>6. SkippedStaysSkipped
  BY <1>1, <1>2 DEF Legal, SkippedStaysSkipped
<1>7. AgendasAreWhole
  BY <1>1, <1>2, <1>3 DEF Legal, AgendasAreWhole, AgendaTypeOK, PositionsAreConsecutive, Existing
<1>8. \A b \in Browsers : /\ Good(tx[b], agenda, meeting, skips, mutations, ids)
                          /\ Own(tx[b]) = {} /\ tx[b].held = {}
  BY <1>3, GoodNoTx
<1>9. Apart
  BY <1>8 DEF Apart
<1> QED
  BY <1>5, <1>6, <1>7, <1>8, <1>9 DEF Inv

LEMMA Steps == ASSUME Inv, [Next]_vars PROVE Inv'
<1>1. CASE UNCHANGED vars
  <2>1. UNCHANGED <<database, tx, ids>> /\ Pages'
    BY <1>1 DEF vars, Inv, TypeInv, Pages
  <2> QED
    BY <2>1, QuietStep
<1>2. ASSUME NEW b \in Browsers, Reconcile(b) PROVE Inv'
  BY <1>2, ReadsAndWrites, FetchesPlan, Moves, Reconciled DEF Reconcile
<1>3. ASSUME NEW b \in Browsers, Serve(b) PROVE Inv'
  <2>1. CASE Abandon(b)
    <3>1. Failed(b) /\ UNCHANGED <<database, loaded, ids>>
      BY <2>1 DEF Abandon
    <3> QED
      BY <3>1, FailedStep
  <2> QED
    BY <1>3, <2>1, Acquires, Works, Commits DEF Serve
<1> QED
  BY <1>1, <1>2, <1>3, Asked, ReadsAndWrites DEF Next

THEOREM AgendaInvariant == Spec => []Inv
BY Starting, Steps, PTL DEF Spec

\* Agendas are numbered lists of their own appearances: normalizeSectionPositions and
\* the moving up of addTopicWithinTransaction (meetings.service.ts) keep 1, 2, ... in
\* every section, and no appearance is ever on two agendas, whatever overlaps.
THEOREM AgendasStayWhole == Spec => []AgendasAreWhole
<1>1. Inv => AgendasAreWhole
  BY DEF Inv
<1> QED
  BY <1>1, AgendaInvariant, PTL

\* What was removed by hand from a planned Meeting is not scheduled there again before
\* it is restored (recurrence.service.ts), however old a plan is carried out.
THEOREM SkippedStaysOff == Spec => []SkippedStaysSkipped
<1>1. Inv => SkippedStaysSkipped
  BY DEF Inv
<1> QED
  BY <1>1, AgendaInvariant, PTL
-----------------------------------------------------------------------------
(* What a step may change *)

\* Only a commit changes the tables.
LEMMA OnlyCommitsWrite ==
    ASSUME [Next]_vars
    PROVE  \/ UNCHANGED database
           \/ \E b \in Browsers : Committed(b) /\ Consistent(b) /\ ~Waiting(b)
<1> USE DEF database
<1>1. CASE UNCHANGED vars
  BY <1>1 DEF vars
<1>2. ASSUME NEW b \in Browsers, Ask(b) PROVE UNCHANGED database
  BY <1>2 DEF Ask, CreateMeeting, UpdateMeeting, CompleteMeeting, AddTopic, AddTopics, RemoveTopic,
     ReorderTopics, DecideTopic, RestoreRecurrence, UpdateTopic, ChangeSections, AnnotateTopic,
     Asks, AsksAnew
<1>3. ASSUME NEW b \in Browsers, WriteText(b) \/ OpenMeeting(b) \/ Reconcile(b)
      PROVE  UNCHANGED database
  BY <1>3 DEF WriteText, OpenMeeting, Reconcile, ListTopics, FetchPlan, NextMove, NextRemoval, NextTopic
<1>4. ASSUME NEW b \in Browsers, Acquire(b) \/ Work(b) \/ Abandon(b) PROVE UNCHANGED database
  BY <1>4 DEF Acquire, Work, Abandon
<1>5. ASSUME NEW b \in Browsers, Commit(b)
      PROVE  UNCHANGED database \/ (Committed(b) /\ Consistent(b) /\ ~Waiting(b))
  BY <1>5 DEF Commit, Committed
<1> QED
  BY <1>1, <1>2, <1>3, <1>4, <1>5 DEF Next, Serve

\* What leaves an agenda was removed by hand, or the reconciliation may touch it.
LEMMA OnlyLooseLeave ==
    ASSUME Inv, [Next]_vars, NEW m \in Meetings, NEW p \in DOMAIN agenda[m],
           agenda[m][p].id \notin Ids(agenda'[m])
    PROVE  \/ \E b \in Browsers : tx[b].op = "remove" /\ tx[b].arg.id = agenda[m][p].id
           \/ Loose(agenda[m][p], meeting[m].status)
<1>1. agenda' # agenda
  BY DEF Ids
<1>2. PICK b \in Browsers : Committed(b)
  BY <1>1, OnlyCommitsWrite DEF database
<1> DEFINE written == tx[b].out.agenda
<1>3. agenda' = AgendaOf(b)
  BY <1>2 DEF Committed
<1>4. CASE m \notin DOMAIN written
  <2>1. agenda'[m] = agenda[m]
    BY <1>3, <1>4, AgendaOfIs
  <2> QED
    BY <2>1 DEF Ids
<1>5. CASE m \in DOMAIN written
  <2>1. agenda'[m] = written[m]
    BY <1>3, <1>5, AgendaOfIs
  <2>2. GoodAgendas(tx[b], agenda, meeting, skips, ids)
    BY DEF Inv, Good, GoodOut
  <2>3. \/ agenda[m][p].id \in Ids(written[m])
        \/ tx[b].op = "remove" /\ tx[b].arg.id = agenda[m][p].id
        \/ Loose(agenda[m][p], meeting[m].status)
    BY <1>5, <2>2 DEF GoodAgendas
  <2> QED
    BY <2>1, <2>3
<1> QED
  BY <1>4, <1>5

\* The reconciliation, whose plans are computed without a lock and carried out request
\* by request, takes away nothing that was added by hand, has been edited or belongs
\* to a Meeting that is not planned any more.
THEOREM PreservedStay == Spec => PreservedAppearancesStay
<1> DEFINE kept(m, p) == \/ agenda[m][p].source = "manual" \/ agenda[m][p].edited
                         \/ meeting[m].status # "planned"
<1>1. ASSUME Inv, [Next]_vars PROVE OnlyRemovedByHand(kept)
  BY <1>1, OnlyLooseLeave DEF OnlyRemovedByHand, Loose
<1>2. Inv /\ [Next]_vars => [OnlyRemovedByHand(kept)]_vars
  BY <1>1
<1> QED
  BY <1>2, AgendaInvariant, PTL DEF Spec, PreservedAppearancesStay

LEMMA CompletedOnce ==
    ASSUME Inv, [Next]_vars, NEW m \in Meetings PROVE Final(m) /\ Decided(m)
<1>1. CASE UNCHANGED database
  BY <1>1 DEF database, Final, Decided
<1>2. ASSUME NEW b \in Browsers, Committed(b), Consistent(b) PROVE Final(m) /\ Decided(m)
  <2> DEFINE t == tx[b]
  <2>1. GoodAgendas(t, agenda, meeting, skips, ids) /\ GoodRows(t, agenda, meeting)
    BY DEF Inv, Good, GoodOut
  <2>2. /\ m \in DOMAIN t.out.meeting => meeting'[m] = t.out.meeting[m]
        /\ m \notin DOMAIN t.out.meeting => meeting'[m] = meeting[m]
    BY <1>2, MeetingsAfter
  <2>3. Final(m)
    <3> SUFFICES ASSUME meeting[m].status = "completed"
                 PROVE  agenda'[m] = agenda[m] /\ meeting'[m] = meeting[m]
      BY DEF Final
    <3>1. m \notin DOMAIN t.out.agenda
      BY <2>1 DEF GoodAgendas, Open
    <3>2. agenda'[m] = agenda[m]
      BY <1>2, <3>1, AgendaOfIs DEF Committed
    <3>3. t.op = "create" => meeting[t.meeting].status = "none"
      BY <1>2 DEF Consistent
    <3>4. m \notin DOMAIN t.out.meeting
      BY <2>1, <3>3 DEF GoodRows, Open
    <3> QED
      BY <2>2, <3>2, <3>4
  <2>4. Decided(m)
    <3> SUFFICES ASSUME meeting'[m].status = "completed", meeting[m].status # "completed",
                        NEW p \in DOMAIN agenda[m]
                 PROVE  topic'[p].status = IF agenda[m][p].decision = "none" THEN topic[p].status
                                           ELSE agenda[m][p].decision
      BY DEF Decided
    <3>1. m \in DOMAIN t.out.meeting /\ t.out.meeting[m].status = "completed"
      BY <2>2
    <3>2. IF agenda[m][p].decision = "none" THEN p \notin DOMAIN t.out.topic
          ELSE p \in DOMAIN t.out.topic /\ t.out.topic[p].status = agenda[m][p].decision
      BY <2>1, <3>1 DEF GoodRows
    <3>3. p \in Topics
      BY DEF Inv, AgendasAreWhole, AgendaTypeOK, AreAgendas
    <3>4. topic'[p].status = IF p \in DOMAIN t.out.topic THEN t.out.topic[p].status ELSE topic[p].status
      BY <1>2, <3>3, TopicsAfter
    <3> QED
      BY <3>2, <3>4
  <2> QED
    BY <2>3, <2>4
<1> QED
  BY <1>1, <1>2, OnlyCommitsWrite

\* A completion (completeMeeting of meetings.service.ts) is final for what the Meeting
\* showed, against every request that was under way, and takes its decisions over to
\* the Topics in the same step.
THEOREM CompletedStays == Spec => CompletionIsFinal
<1>1. ASSUME Inv, [Next]_vars PROVE \A m \in Meetings : Final(m) /\ Decided(m)
  BY <1>1, CompletedOnce
<1>2. Inv /\ [Next]_vars => [\A m \in Meetings : Final(m) /\ Decided(m)]_vars
  BY <1>1
<1> QED
  BY <1>2, AgendaInvariant, PTL DEF Spec, CompletionIsFinal

\* What people have settled, by their hand or by completing, stays settled.
THEOREM SettledStay == Spec => SettledStays
BY PreservedStay, CompletedStays DEF SettledStays
=============================================================================
