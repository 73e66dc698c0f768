----------------------------- MODULE RowProofs -----------------------------
(***************************************************************************)
(* Proofs about RowCollector: no row of a table is passed by the cursor    *)
(* without being captured, for tables of any length and content, any       *)
(* number of changes of the application, any cut of a read into captures   *)
(* and any number of throws.                                               *)
(*                                                                         *)
(* A table whose rows may go and one that only grows need an invariant     *)
(* each.  In the first the cursor moves in every poll that reads and the   *)
(* captures of a generation stay in order (TableInv); in the second, the   *)
(* table of gemini, a row that is too large holds the cursor while what    *)
(* is before the row is captured again in every poll (TokenInv).           *)
(***************************************************************************)
EXTENDS RowCollector, FiniteSetTheorems, TLAPS

-----------------------------------------------------------------------------
(* RowCollector: least and greatest numbers, and the places between *)

\* A set of numbers has a least one: < on the numbers is well founded.
LEMMA LeastIn ==
  ASSUME NEW S, S \subseteq Nat, S # {}
  PROVE  \E x \in S : \A y \in S : x <= y
PROOF
  <1> DEFINE R == OpToRel(<, Nat)
  <1>1. IsWellFoundedOn(R, Nat)
    BY NatLessThanWellFounded
  <1>2. PICK x \in S : \A y \in S : <<y, x>> \notin R
    <2> HIDE DEF R
    <2> QED BY <1>1, WFMin
  <1>3. \A y \in S : ~ (y < x)
    BY <1>2 DEF OpToRel
  <1> QED BY <1>3

\* Min is that number.
LEMMA LeastIs ==
  ASSUME NEW S, S \subseteq Nat, S # {}
  PROVE  Min(S) \in S /\ \A y \in S : Min(S) <= y
BY LeastIn DEF Min

\* A finite set of numbers has a greatest one, and Max is it: the one with the fewest
\* numbers above it.
LEMMA GreatestIs ==
  ASSUME NEW S, S \subseteq Int, S # {}, IsFiniteSet(S)
  PROVE  Max(S) \in S /\ \A y \in S : y <= Max(S)
PROOF
  <1> DEFINE Above(x) == {y \in S : y > x}
             C == {Cardinality(Above(x)) : x \in S}
  <1>1. \A x \in S : IsFiniteSet(Above(x)) /\ Cardinality(Above(x)) \in Nat
    BY FS_Subset, FS_CardinalityType
  <1>2. PICK x \in S : \A y \in S : Cardinality(Above(x)) <= Cardinality(Above(y))
    <2>1. C \subseteq Nat /\ C # {}
      BY <1>1
    <2>2. PICK c \in C : \A d \in C : c <= d
      BY <2>1, LeastIn
    <2> QED BY <2>2
  <1>3. ASSUME NEW y \in S, y > x PROVE FALSE
    <2>0. y \in Above(x) /\ y \notin Above(y) /\ \A z \in Above(y) : z \in Above(x)
      BY <1>3
    <2>1. Above(y) \in SUBSET Above(x) /\ Above(y) # Above(x) /\ IsFiniteSet(Above(x))
      <3> HIDE DEF Above
      <3> QED BY <1>1, <2>0
    <2>2. Cardinality(Above(y)) <= Cardinality(Above(x)) /\ Cardinality(Above(y)) # Cardinality(Above(x))
      <3> HIDE DEF Above
      <3> QED BY <2>1, FS_Subset
    <2> QED BY <2>2, <1>1, <1>2
  <1>4. \A y \in S : x >= y
    BY <1>3
  <1> QED BY <1>4 DEF Max

\* The rank of a number of T tells it from the others, and every rank is taken.
LEMMA RanksGrow ==
  ASSUME NEW T, T \subseteq Nat, IsFiniteSet(T)
  PROVE  /\ Cardinality(T) \in Nat
         /\ \A i \in T : Rank(T, i) \in 1 .. Cardinality(T)
         /\ \A i, j \in T : i < j => Rank(T, i) < Rank(T, j)
PROOF
  <1> DEFINE Upto(i) == {j \in T : j <= i}
  <1>0. Cardinality(T) \in Nat
    BY FS_CardinalityType
  <1>1. \A i \in T : /\ IsFiniteSet(Upto(i)) /\ Cardinality(Upto(i)) \in Nat
                     /\ Cardinality(Upto(i)) <= Cardinality(T)
    BY FS_Subset, FS_CardinalityType
  <1>2. \A i \in T : Cardinality(Upto(i)) # 0
    BY <1>1, FS_EmptySet
  <1>3. ASSUME NEW i \in T, NEW j \in T, i < j
        PROVE  Cardinality(Upto(i)) < Cardinality(Upto(j))
    <2>0. j \in Upto(j) /\ j \notin Upto(i) /\ \A k \in Upto(i) : k \in Upto(j)
      BY <1>3
    <2>1. Upto(i) \in SUBSET Upto(j) /\ Upto(i) # Upto(j) /\ IsFiniteSet(Upto(j))
      <3> HIDE DEF Upto
      <3> QED BY <1>1, <2>0
    <2>2. Cardinality(Upto(i)) <= Cardinality(Upto(j)) /\ Cardinality(Upto(i)) # Cardinality(Upto(j))
      <3> HIDE DEF Upto
      <3> QED BY <2>1, FS_Subset
    <2> QED BY <2>2, <1>1
  <1>4. \A i \in T : Rank(T, i) = Cardinality(Upto(i))
    BY DEF Rank
  <1> HIDE DEF Upto
  <1> QED BY <1>0, <1>1, <1>2, <1>3, <1>4

\* The numbers of T, counted from the least.
LEMMA NthIs ==
  ASSUME NEW T, T \subseteq Nat, IsFiniteSet(T)
  PROVE  /\ \A n \in 1 .. Cardinality(T) : Nth(T, n) \in T /\ Rank(T, Nth(T, n)) = n
         /\ \A i \in T : Nth(T, Rank(T, i)) = i
         /\ \A m, n \in 1 .. Cardinality(T) : m < n => Nth(T, m) < Nth(T, n)
PROOF
  <1> DEFINE N == Cardinality(T)
             f == [i \in T |-> Rank(T, i)]
  <1>1. /\ N \in Nat /\ \A i \in T : Rank(T, i) \in 1 .. N
        /\ \A i, j \in T : i < j => Rank(T, i) < Rank(T, j)
    BY RanksGrow
  <1>2. f \in Injection(T, 1 .. N)
    <2>1. f \in [T -> 1 .. N]
      BY <1>1
    <2>2. ASSUME NEW i \in T, NEW j \in T, f[i] = f[j] PROVE i = j
      BY <1>1, <2>2
    <2> QED BY <2>1, <2>2 DEF Injection, IsInjective
  <1>3. IsFiniteSet(1 .. N) /\ Cardinality(1 .. N) = N
    BY <1>1, FS_Interval
  <1>4. f \in Surjection(T, 1 .. N)
    <2> HIDE DEF f
    <2> QED BY <1>2, <1>3, FS_Injection
  <1>5. \A n \in 1 .. N : \E i \in T : Rank(T, i) = n
    BY <1>4 DEF Surjection
  <1>6. \A n \in 1 .. N : Nth(T, n) \in T /\ Rank(T, Nth(T, n)) = n
    BY <1>5 DEF Nth
  <1>7. \A i \in T : Nth(T, Rank(T, i)) = i
    <2>1. \A i, j \in T : Rank(T, i) = Rank(T, j) => i = j
      BY <1>1
    <2> QED BY <1>1, <1>6, <2>1
  <1>8. ASSUME NEW m \in 1 .. N, NEW n \in 1 .. N, m < n PROVE Nth(T, m) < Nth(T, n)
    <2>1. Nth(T, m) \in T /\ Nth(T, n) \in T /\ Rank(T, Nth(T, m)) = m /\ Rank(T, Nth(T, n)) = n
          /\ Nth(T, m) \in Nat /\ Nth(T, n) \in Nat
      BY <1>6
    <2>2. Nth(T, m) # Nth(T, n)
      BY <1>8, <2>1
    <2>3. Nth(T, n) < Nth(T, m) => n < m
      <3> HIDE DEF N
      <3> QED BY <1>1, <2>1
    <2>4. m \in Nat /\ n \in Nat
      BY <1>1
    <2> QED BY <1>8, <2>1, <2>2, <2>3, <2>4
  <1> QED BY <1>6, <1>7, <1>8

\* Finitely many rows have finitely many places.
LEMMA IdsFinite ==
  ASSUME NEW S, IsFiniteSet(S)
  PROVE  IsFiniteSet(Ids(S))
PROOF
  <1> DEFINE f == [r \in S |-> r.id]
  <1>1. f \in Surjection(S, Ids(S))
    BY DEF Surjection, Ids
  <1> QED BY <1>1, FS_Surjection

-----------------------------------------------------------------------------
(* RowCollector: the slices of a read *)

SlotT == [gen : Nat, start : Nat, end : Nat, body : SUBSET Nat]

\* Rows as a read may keep them.
Readable(K) ==
    /\ IsFiniteSet(K) /\ \A r \in K : r.id \in Nat /\ r.n \in Nat
    /\ \A r, q \in K : r.id = q.id => r = q

\* What a read of the rows of K is cut into: captures one behind the other, from a
\* row to behind a row, each with every row of its range; a row that may be
\* uploaded, and is not behind gemini's obstacle, is in one of them.
CutOf(g, K, q) ==
    /\ q \in Seq(SlotT)
    /\ \A i \in 1 .. Len(q) :
          /\ q[i].gen = g /\ q[i].start < q[i].end
          /\ \E r \in K : r.id = q[i].start
          /\ \E r \in K : q[i].end = r.id + 1
          /\ \A r \in K : q[i].start <= r.id /\ r.id < q[i].end => r.n \in q[i].body
          /\ \A n \in q[i].body : \E r \in K : r.n = n
          /\ \A r \in K : IsTokens /\ r.kind = "big" => q[i].end <= r.id
    /\ \A i, k \in 1 .. Len(q) : i < k => q[i].end <= q[k].start
    /\ \A r \in K : /\ r.kind # "big"
                    /\ IsTokens => \A b \in K : b.kind = "big" => r.id < b.id
                    => \E i \in 1 .. Len(q) : /\ q[i].start <= r.id /\ r.id < q[i].end
                                              /\ r.n \in q[i].body

\* The slice that ends at a row has what is kept since the slice before it.
LEMMA SliceIs ==
  ASSUME NEW g \in Nat, NEW K, Readable(K), NEW ends, ends \subseteq Ids(K), NEW e \in ends
  PROVE  LET s == Slice(g, K, ends, e)
         IN  /\ s \in SlotT /\ s.gen = g /\ s.end = e + 1 /\ s.start <= e /\ e \in Nat
             /\ \E r \in K : r.id = s.start
             /\ \E r \in K : r.id = e
             /\ \A l \in ends : l < e => l < s.start
             /\ \A r \in K : s.start <= r.id /\ r.id <= e => r.n \in s.body
             /\ \A n \in s.body : \E r \in K : r.n = n
             /\ \A r \in K : r.id <= e /\ (\A l \in ends : l < e => l < r.id)
                   => r.n \in s.body /\ s.start <= r.id
PROOF
  <1> DEFINE Of == {r \in K : r.id <= e /\ \A l \in ends : l < e => l < r.id}
             s == Slice(g, K, ends, e)
             m == Min(Ids(Of))
  <1>0. ends \subseteq Nat /\ e \in Nat
    BY DEF Ids, Readable
  <1>1. s = [gen |-> g, start |-> m, end |-> e + 1, body |-> {r.n : r \in Of}]
    BY DEF Slice
  <1>2. PICK top \in K : top.id = e
    BY DEF Ids
  <1>3. top \in Of /\ Ids(Of) \subseteq Nat /\ e \in Ids(Of)
    BY <1>0, <1>2 DEF Ids, Readable
  <1>4. m \in Ids(Of) /\ \A i \in Ids(Of) : m <= i
    <2> HIDE DEF Of
    <2> QED BY <1>3, LeastIs
  <1>5. PICK low \in Of : low.id = m
    BY <1>4 DEF Ids
  <1>6. m \in Nat /\ m <= e /\ \A l \in ends : l < e => l < m
    BY <1>3, <1>4, <1>5
  <1>7. {r.n : r \in Of} \in SUBSET Nat
    BY DEF Readable
  <1>8. s \in SlotT /\ s.gen = g /\ s.end = e + 1 /\ s.start = m /\ s.body = {r.n : r \in Of}
    <2> HIDE DEF Of, m, s
    <2> QED BY <1>0, <1>1, <1>6, <1>7 DEF SlotT
  <1>9. ASSUME NEW r \in K, m <= r.id, r.id <= e PROVE r \in Of
    <2>1. \A l \in ends : l < e => l < r.id
      <3> HIDE DEF m, Of
      <3> QED BY <1>0, <1>6, <1>9 DEF Readable
    <2> QED BY <1>9, <2>1
  <1>10. (\A r \in Of : r.n \in s.body) /\ \A n \in s.body : \E r \in Of : r.n = n
    <2> HIDE DEF s, Of
    <2> QED BY <1>8
  <1>11. \A r \in K : r.id <= e /\ (\A l \in ends : l < e => l < r.id) => r \in Of
    OBVIOUS
  <1> HIDE DEF s, m, Of
  <1>12. low \in K /\ \A r \in Of : m <= r.id
    BY <1>4, <1>5 DEF Of, Ids
  <1>13. /\ \A n \in s.body : \E r \in K : r.n = n
         /\ \A r \in K : s.start <= r.id /\ r.id <= e => r.n \in s.body
    BY <1>8, <1>9, <1>10 DEF Of
  <1> QED BY <1>0, <1>2, <1>5, <1>6, <1>8, <1>9, <1>10, <1>11, <1>12, <1>13 DEF s

\* The slices of a read, in the order of their ends, are such captures.
LEMMA SlicesOf ==
  ASSUME NEW g \in Nat, NEW K, Readable(K), NEW ends \in Splits(K)
  PROVE  CutOf(g, K, Slices(g, K, ends))
PROOF
  <1> DEFINE T == {e \in ends : ~IsBig(K, e)}
             N == Cardinality(T)
             q == Slices(g, K, ends)
             S(e) == Slice(g, K, ends, e)
  <1>1. ends \subseteq Ids(K) /\ Ids(K) \subseteq Nat /\ IsFiniteSet(Ids(K)) /\ T \subseteq Nat
    BY IdsFinite DEF Splits, Ids, Readable
  <1>2. IsFiniteSet(T) /\ N \in Nat
    <2>1. T \in SUBSET Ids(K)
      BY <1>1
    <2> HIDE DEF T
    <2> QED BY <1>1, <2>1, FS_Subset, FS_CardinalityType
  <1>3. q = [i \in 1 .. N |-> S(Nth(T, i))]
    BY DEF Slices
  <1>4. /\ \A n \in 1 .. N : Nth(T, n) \in T
        /\ \A m, n \in 1 .. N : m < n => Nth(T, m) < Nth(T, n)
        /\ \A e \in T : \E n \in 1 .. N : Nth(T, n) = e
    <2> HIDE DEF T
    <2> QED BY <1>1, <1>2, NthIs, RanksGrow
  <1>5. \A e \in ends :
           /\ S(e) \in SlotT /\ S(e).gen = g /\ S(e).end = e + 1 /\ S(e).start <= e /\ e \in Nat
           /\ \E r \in K : r.id = S(e).start
           /\ \E r \in K : r.id = e
           /\ \A l \in ends : l < e => l < S(e).start
           /\ \A r \in K : S(e).start <= r.id /\ r.id <= e => r.n \in S(e).body
           /\ \A n \in S(e).body : \E r \in K : r.n = n
           /\ \A r \in K : r.id <= e /\ (\A l \in ends : l < e => l < r.id)
                 => r.n \in S(e).body /\ S(e).start <= r.id
    BY <1>1, SliceIs
  <1> HIDE DEF S, q
  <1>6. /\ q \in Seq(SlotT) /\ Len(q) = N
        /\ \A i \in 1 .. N : q[i] = S(Nth(T, i)) /\ Nth(T, i) \in ends /\ Nth(T, i) \in T
    BY <1>2, <1>3, <1>4, <1>5
  <1>7. ASSUME NEW i \in 1 .. N
        PROVE  /\ q[i].gen = g /\ q[i].start < q[i].end
               /\ \E r \in K : r.id = q[i].start
               /\ \E r \in K : q[i].end = r.id + 1
               /\ \A r \in K : q[i].start <= r.id /\ r.id < q[i].end => r.n \in q[i].body
               /\ \A n \in q[i].body : \E r \in K : r.n = n
               /\ \A r \in K : IsTokens /\ r.kind = "big" => q[i].end <= r.id
    <2> DEFINE e == Nth(T, i)
    <2>1. e \in ends /\ e \in T /\ q[i] = S(e) /\ e \in Nat
      BY <1>5, <1>6
    <2> HIDE DEF e
    <2>2. /\ q[i].gen = g /\ q[i].end = e + 1 /\ q[i].start <= e /\ q[i].start \in Nat
          /\ \E r \in K : r.id = q[i].start
          /\ \E r \in K : r.id = e
          /\ \A r \in K : q[i].start <= r.id /\ r.id <= e => r.n \in q[i].body
          /\ \A n \in q[i].body : \E r \in K : r.n = n
      BY <1>5, <2>1 DEF SlotT
    <2>3. \A r \in K : IsTokens /\ r.kind = "big" => ~ (r.id <= e)
      BY <2>1 DEF IsBig
    <2> QED BY <2>1, <2>2, <2>3 DEF Readable
  <1>8. ASSUME NEW i \in 1 .. N, NEW k \in 1 .. N, i < k PROVE q[i].end <= q[k].start
    <2>1. Nth(T, i) \in ends /\ Nth(T, k) \in ends /\ Nth(T, i) < Nth(T, k)
      BY <1>4, <1>6, <1>8
    <2>2. Nth(T, i) < S(Nth(T, k)).start /\ Nth(T, i) \in Nat
          /\ S(Nth(T, k)).start \in Nat /\ S(Nth(T, i)).end = Nth(T, i) + 1
      BY <1>5, <2>1 DEF SlotT
    <2> QED BY <1>6, <2>2
  <1>9. ASSUME NEW r \in K, r.kind # "big", IsTokens => \A b \in K : b.kind = "big" => r.id < b.id
        PROVE  \E i \in 1 .. N : q[i].start <= r.id /\ r.id < q[i].end /\ r.n \in q[i].body
    <2>1. PICK e \in ends : r.id <= e /\ \A l \in ends : r.id <= l => e <= l
      <3> DEFINE A == {l \in ends : r.id <= l}
      <3>1. PICK z \in Ids(K) : \A j \in Ids(K) : j <= z
        <4>1. r.id \in Ids(K)
          BY DEF Ids
        <4>2. Ids(K) \subseteq Int /\ Ids(K) # {}
          BY <1>1, <4>1
        <4> QED BY <1>1, <4>2, GreatestIs
      <3>2. z \in ends /\ r.id <= z
        BY <3>1 DEF Splits, Ids
      <3>3. A \subseteq Nat /\ A # {}
        BY <1>1, <3>2
      <3>4. PICK a \in A : \A l \in A : a <= l
        <4> HIDE DEF A
        <4> QED BY <3>3, LeastIn
      <3> QED BY <3>4
    <2>2. e \in Nat /\ r.id \in Nat /\ ends \subseteq Nat
      BY <1>1 DEF Readable
    <2>3. \A l \in ends : l < e => l < r.id
      BY <2>1, <2>2
    <2>4. r.n \in S(e).body /\ S(e).start <= r.id
      BY <1>5, <2>1, <2>3
    <2>5. ~IsBig(K, e)
      <3> SUFFICES ASSUME NEW b \in K, b.kind = "big", r.id < b.id, b.id <= e PROVE FALSE
        <4>1. ASSUME IsBig(K, e), IsTokens PROVE \E b \in K : b.kind = "big" /\ r.id < b.id /\ b.id <= e
          BY <1>9, <4>1 DEF IsBig
        <4>2. ASSUME IsBig(K, e), ~IsTokens PROVE \E b \in K : b.kind = "big" /\ r.id < b.id /\ b.id <= e
          <5>1. PICK b \in K : b.kind = "big" /\ b.id = e
            BY <4>2 DEF IsBig
          <5>2. b.id # r.id
            BY <1>9, <5>1 DEF Readable
          <5> QED BY <2>1, <2>2, <5>1, <5>2
        <4> QED BY <4>1, <4>2
      <3>1. b.id \in ends /\ b.id \in Nat
        BY DEF Splits, Ids, Readable
      <3>2. b.id = e
        BY <2>1, <2>2, <3>1
      <3> DEFINE B == {j \in Ids(K) : j < e}
      <3>3. PICK p \in B : \A j \in B : j <= p
        <4>1. r.id \in B
          BY <2>2, <3>2 DEF Ids
        <4>2. B \in SUBSET Ids(K) /\ B \subseteq Int /\ B # {}
          BY <1>1, <4>1
        <4>3. IsFiniteSet(B)
          <5> HIDE DEF B
          <5> QED BY <1>1, <4>2, FS_Subset
        <4> HIDE DEF B
        <4> QED BY <4>2, <4>3, GreatestIs
      <3>4. p \in Ids(K) /\ p < e /\ r.id <= p /\ p \in Nat
        <4>1. r.id \in B
          BY <2>2, <3>2 DEF Ids
        <4> QED BY <1>1, <3>3, <4>1
      <3>5. b.id \in Ids({x \in K : x.kind = "big"})
        BY DEF Ids
      <3>6. ~ \E j \in Ids(K) : p < j /\ j < b.id
        BY <1>1, <2>2, <3>2, <3>3, <3>4
      <3>7. p \in ends
        BY <3>2, <3>4, <3>5, <3>6 DEF Splits
      <3> QED BY <2>1, <2>2, <3>4, <3>7
    <2>6. PICK n \in 1 .. N : Nth(T, n) = e
      BY <1>4, <2>5
    <2>7. q[n] = S(e) /\ S(e).end = e + 1
      BY <1>5, <1>6, <2>6
    <2>8. q[n].start <= r.id /\ r.id < q[n].end /\ r.n \in q[n].body
      <3>1. r.id < e + 1
        BY <2>1, <2>2
      <3> HIDE DEF N, T
      <3> QED BY <2>4, <2>7, <3>1
    <2> QED BY <2>8
  <1> QED BY <1>6, <1>7, <1>8, <1>9 DEF CutOf, q

-----------------------------------------------------------------------------
(* RowCollector: the invariant of the tables whose rows may go *)

\* The types of the rows, the captures and the cursors.
AllStores == {"global", "workspace", "tokens", "state"}
RowT == [id : Nat, n : Nat, kind : {"talk", "empty", "foreign", "secret", "big"}]
Queued == 1 .. Len(queue)

TableTyped == Readable(rows) /\ \A r \in rows : r \in RowT /\ First <= r.id
CursorsTyped ==
    /\ cursors \in [Gens -> [end : Int, seen : Int]]
    /\ \A g \in Gens : cursors[g] = NoCursor \/ cursors[g].end \in Nat
QueueTyped ==
    queue \in Seq(SlotT) /\ \A i \in Queued : queue[i].gen \in Gens /\ queue[i].start < queue[i].end

StoreTyped ==
    /\ store \in AllStores /\ TableTyped /\ CursorsTyped /\ QueueTyped
    /\ endOf \in [Gens -> Nat]
    /\ pages \in Nat /\ written \in Nat /\ changes \in 0 .. MaxChanges
    /\ shrunk \in BOOLEAN /\ disturbed \in BOOLEAN

\* The cursor of a generation whose first poll found no row.
Replaced == [end |-> First, seen |-> Unseen]

\* There is a change of the application for every generation, and one more when rows
\* went since the last poll: no generation is beyond the last.
Counted ==
    /\ Gen <= changes
    /\ shrunk /\ Prior # NoCursor /\ Prior # Replaced => Gen < changes
    /\ Prior # NoCursor => cursors[0] # NoCursor

\* While no row goes, the cursor is not beyond the rows.
CursorSettled == ~shrunk => ~DetectVacuum /\ Floor <= Top + 1

\* The captures of a generation follow each other, behind what the backend holds and
\* up to the cursor.
InOrder ==
    /\ \A g \in Gens : IF cursors[g] = NoCursor THEN endOf[g] = 0 ELSE endOf[g] <= cursors[g].end
    /\ \A i \in Queued :
          /\ cursors[queue[i].gen] # NoCursor /\ queue[i].end <= cursors[queue[i].gen].end
          /\ endOf[queue[i].gen] <= queue[i].start
    /\ \A i, k \in Queued : i < k /\ queue[k].gen = queue[i].gen => queue[i].end <= queue[k].start

\* A row that must be read and was passed by the cursor was captured or set aside; a
\* row that was deleted under the cursor is what the ghost stands for.
WantedRow(r) == r.kind \in {"talk", "secret", "big"}
RowsRead == disturbed \/ DetectVacuum \/ \A r \in rows : WantedRow(r) /\ r.id < Floor => ~Unread(r)

TableInv == Counted /\ CursorSettled /\ InOrder /\ RowsRead

-----------------------------------------------------------------------------

\* Gen and Top as functions of the variables they look at.
GenIn(c) == Max({0} \cup {g \in Gens : c[g] # NoCursor})
TopOf(f, S) == Max({f - 1} \cup Ids(S))

\* The greatest generation that has a cursor.
LEMMA GenInIs ==
  ASSUME RowAssumption, NEW c
  PROVE  /\ GenIn(c) \in Gens /\ GenIn(c) \in Nat
         /\ GenIn(c) = 0 \/ c[GenIn(c)] # NoCursor
         /\ \A g \in Gens : c[g] # NoCursor => g <= GenIn(c)
         /\ \A g \in Gens : c[g] # NoCursor /\ (\A h \in Gens : c[h] # NoCursor => h <= g) => GenIn(c) = g
PROOF
  <1> DEFINE S == {0} \cup {g \in Gens : c[g] # NoCursor}
  <1>1. Gens \subseteq Nat /\ 0 \in Gens /\ Gens = 0 .. MaxChanges /\ MaxChanges \in Nat
    BY DEF Gens, RowAssumption
  <1>2. S \in SUBSET Gens /\ S \subseteq Int /\ S # {}
    BY <1>1
  <1>3. IsFiniteSet(S)
    <2>1. IsFiniteSet(Gens)
      BY <1>1, FS_Interval
    <2> HIDE DEF S
    <2> QED BY <1>2, <2>1, FS_Subset
  <1>4. Max(S) \in S /\ \A y \in S : y <= Max(S)
    <2> HIDE DEF S
    <2> QED BY <1>2, <1>3, GreatestIs
  <1>5. GenIn(c) = Max(S)
    BY DEF GenIn
  <1>6. \A g \in Gens : c[g] # NoCursor => g \in S
    OBVIOUS
  <1>7. \A g \in S : g \in Gens /\ (g = 0 \/ c[g] # NoCursor)
    BY <1>1
  <1> HIDE DEF S
  <1> QED BY <1>1, <1>4, <1>5, <1>6, <1>7

\* The greatest place that is taken.
LEMMA TopOfIs ==
  ASSUME NEW f \in {0, 1}, NEW S, IsFiniteSet(S), \A r \in S : r.id \in Nat
  PROVE  /\ TopOf(f, S) \in Int /\ f - 1 <= TopOf(f, S)
         /\ \A r \in S : r.id <= TopOf(f, S)
         /\ TopOf(f, S) = f - 1 \/ \E r \in S : r.id = TopOf(f, S)
PROOF
  <1> DEFINE I == {f - 1} \cup Ids(S)
  <1>1. I \subseteq Int /\ I # {}
    BY DEF Ids
  <1>2. IsFiniteSet(I)
    <2>1. IsFiniteSet(Ids(S) \cup {f - 1})
      BY IdsFinite, FS_AddElement
    <2>2. I = Ids(S) \cup {f - 1}
      OBVIOUS
    <2> QED BY <2>1, <2>2
  <1>3. Max(I) \in I /\ \A i \in I : i <= Max(I)
    <2> HIDE DEF I
    <2> QED BY <1>1, <1>2, GreatestIs
  <1>4. TopOf(f, S) = Max(I)
    BY DEF TopOf
  <1>5. f - 1 \in I /\ \A r \in S : r.id \in I
    BY DEF Ids
  <1>6. \A i \in I : i = f - 1 \/ \E r \in S : r.id = i
    BY DEF Ids
  <1> HIDE DEF I
  <1> QED BY <1>1, <1>3, <1>4, <1>5, <1>6

\* The generation, the cursor and the place it stands at.
LEMMA GenIs ==
  ASSUME RowAssumption, StoreTyped
  PROVE  /\ Gen \in Gens /\ Gen \in Nat /\ Gens = 0 .. MaxChanges /\ MaxChanges \in Nat
         /\ Prior = NoCursor => Gen = 0
         /\ Prior # NoCursor => Prior.end \in Nat /\ Floor = Prior.end
         /\ Prior = NoCursor => Floor = First
         /\ Floor \in Nat /\ First \in {0, 1} /\ (First = 0 <=> IsTokens)
         /\ \A g \in Gens : cursors[g] # NoCursor => g <= Gen
         /\ Prior = cursors[Gen] /\ Prior.seen \in Int
PROOF
  <1>1. Gen = GenIn(cursors)
    BY DEF Gen, GenIn
  <1>2. Gens = 0 .. MaxChanges /\ MaxChanges \in Nat
    BY DEF Gens, RowAssumption
  <1>3. First \in {0, 1} /\ (First = 0 <=> IsTokens)
    BY DEF First
  <1>4. /\ Gen \in Gens /\ Gen \in Nat /\ (Gen = 0 \/ cursors[Gen] # NoCursor)
        /\ \A g \in Gens : cursors[g] # NoCursor => g <= Gen
    BY <1>1, GenInIs
  <1>5. Prior = cursors[Gen] /\ (Prior = NoCursor => Floor = First) /\ (Prior # NoCursor => Floor = Prior.end)
    BY DEF Prior, Floor
  <1>6. cursors[Gen] \in [end : Int, seen : Int] /\ (cursors[Gen] = NoCursor \/ cursors[Gen].end \in Nat)
    BY <1>4 DEF StoreTyped, CursorsTyped
  <1> QED BY <1>2, <1>3, <1>4, <1>5, <1>6

\* The last row.
LEMMA TopIs ==
  ASSUME RowAssumption, StoreTyped
  PROVE  /\ Top \in Int /\ First - 1 <= Top /\ Top + 1 \in Nat
         /\ \A r \in rows : r.id <= Top
         /\ Top = First - 1 \/ \E r \in rows : r.id = Top
PROOF
  <1>1. Top = TopOf(First, rows)
    BY DEF Top, TopOf
  <1>2. First \in {0, 1}
    BY GenIs
  <1> QED BY <1>1, <1>2, TopOfIs DEF StoreTyped, TableTyped, Readable

\* The cursor and what is derived of it, after it was set for the generation that is
\* read or one above.
LEMMA GenAfter ==
  ASSUME RowAssumption, StoreTyped, NEW g \in Gens, Gen <= g, NEW c \in Nat, NEW p \in Int,
         cursors' = [cursors EXCEPT ![g] = [end |-> c, seen |-> p]], store' = store
  PROVE  /\ CursorsTyped' /\ Gen' = g /\ Prior' = [end |-> c, seen |-> p] /\ Prior' # NoCursor
         /\ Floor' = c /\ First' = First
         /\ cursors'[g] = [end |-> c, seen |-> p]
         /\ \A h \in Gens : h # g => cursors'[h] = cursors[h]
PROOF
  <1>1. Gens \subseteq Nat /\ \A h \in Gens : cursors[h] # NoCursor => h <= Gen
    BY GenIs
  <1>2. /\ cursors \in [Gens -> [end : Int, seen : Int]]
        /\ \A h \in Gens : cursors[h] = NoCursor \/ cursors[h].end \in Nat
    BY DEF StoreTyped, CursorsTyped
  <1>3. cursors'[g] = [end |-> c, seen |-> p] /\ \A h \in Gens : h # g => cursors'[h] = cursors[h]
    BY <1>2
  <1>4. [end |-> c, seen |-> p] # NoCursor /\ [end |-> c, seen |-> p] \in [end : Int, seen : Int]
    BY DEF NoCursor
  <1>5. CursorsTyped'
    BY <1>2, <1>3, <1>4 DEF CursorsTyped, Gens, NoCursor
  <1>6. \A h \in Gens : cursors'[h] # NoCursor => h <= g
    BY <1>1, <1>3, GenIs
  <1>7. GenIn(cursors') = g
    BY <1>3, <1>4, <1>6, GenInIs
  <1>8. Gen' = g
    BY <1>7 DEF Gen, GenIn, Gens, NoCursor
  <1>9. Prior' = [end |-> c, seen |-> p]
    BY <1>3, <1>8 DEF Prior
  <1>10. First' = First
    BY DEF First, IsTokens
  <1> QED BY <1>3, <1>4, <1>5, <1>8, <1>9, <1>10 DEF Floor, NoCursor

\* The generation a poll reads: one above when the table was rewritten.
LEMMA DetectedIs ==
  ASSUME RowAssumption, StoreTyped, ~IsTokens, TableInv
  PROVE  /\ ReadGen \in Gens /\ Gen <= ReadGen /\ ReadGen <= changes /\ ReadGen \in Nat
         /\ ReadGen = IF DetectVacuum THEN Gen + 1 ELSE Gen
         /\ DetectVacuum => cursors[ReadGen] = NoCursor /\ Prior # NoCursor /\ ReadFrom = 1
         /\ ~DetectVacuum => ReadGen = Gen /\ ReadFrom = Floor /\ Floor <= Top + 1
         /\ ReadGen # 0 => cursors[0] # NoCursor
         /\ First = 1
PROOF
  <1>1. /\ Gen \in Nat /\ Gens = 0 .. MaxChanges /\ MaxChanges \in Nat /\ First = 1 /\ Floor \in Nat
        /\ Prior = NoCursor => Gen = 0 /\ Floor = First
        /\ Prior # NoCursor => Floor = Prior.end
        /\ \A g \in Gens : cursors[g] # NoCursor => g <= Gen
    BY GenIs
  <1>2. Top \in Int /\ First - 1 <= Top
    BY TopIs
  <1>3. changes \in Nat /\ changes <= MaxChanges
    BY <1>1 DEF StoreTyped
  <1>4. ASSUME DetectVacuum PROVE Gen < changes /\ Prior # NoCursor
    <2>1. Prior # NoCursor /\ shrunk
      BY <1>4 DEF DetectVacuum, TableInv, CursorSettled
    <2>2. Prior # Replaced
      BY <1>1, <1>2, <1>4 DEF DetectVacuum, Replaced
    <2> QED BY <2>1, <2>2 DEF TableInv, Counted
  <1>5. ~DetectVacuum => Floor <= Top + 1
    BY <1>1, <1>2 DEF DetectVacuum
  <1>6. Gen <= changes /\ (Prior # NoCursor => cursors[0] # NoCursor)
    BY DEF TableInv, Counted
  <1>7. CASE DetectVacuum
    <2>1. ReadGen = Gen + 1 /\ ReadFrom = First
      BY <1>7 DEF ReadGen, ReadFrom
    <2> QED BY <1>1, <1>3, <1>4, <1>6, <1>7, <2>1
  <1>8. CASE ~DetectVacuum
    <2>1. ReadGen = Gen /\ ReadFrom = Floor
      BY <1>8 DEF ReadGen, ReadFrom
    <2> QED BY <1>1, <1>3, <1>5, <1>6, <1>8, <2>1
  <1> QED BY <1>7, <1>8

-----------------------------------------------------------------------------
(* The application *)

\* What a change of the rows leaves as it is.
ChangeFrame ==
    /\ UNCHANGED <<store, cursors, queue, held, endOf, quarantined, passed, half>>
    /\ First' = First /\ Gen' = Gen /\ Prior' = Prior /\ Floor' = Floor /\ IsTokens' = IsTokens

\* A change of the rows keeps the types, and all but the rows and what they imply.
LEMMA ChangedTyped ==
  ASSUME RowAssumption, StoreTyped, NEW R, NEW p \in Nat, NEW freed \in BOOLEAN,
         Changed(R, p, freed), Readable(R), \A r \in R : r \in RowT /\ First <= r.id,
         written' \in Nat, changes' \in 0 .. MaxChanges
  PROVE  /\ StoreTyped' /\ ChangeFrame /\ rows' = R /\ pages' = p
         /\ shrunk' = (shrunk \/ freed) /\ disturbed' = (disturbed \/ (shrunk' /\ Hidden'))
PROOF
  <1>1. /\ UNCHANGED <<store, cursors, queue, held, endOf, quarantined, passed, half>>
        /\ rows' = R /\ pages' = p
        /\ shrunk' = (shrunk \/ freed) /\ disturbed' = (disturbed \/ (shrunk' /\ Hidden'))
    BY DEF Changed
  <1>2. First' = First /\ Gen' = Gen /\ Prior' = Prior /\ Floor' = Floor /\ IsTokens' = IsTokens
    BY <1>1 DEF First, Gen, Prior, Floor, IsTokens, NoCursor
  <1>3. TableTyped'
    BY <1>1, <1>2 DEF TableTyped, Readable
  <1>4. CursorsTyped' /\ QueueTyped' /\ store' \in AllStores /\ endOf' \in [Gens -> Nat]
    BY <1>1 DEF StoreTyped, CursorsTyped, QueueTyped, Queued
  <1>5. shrunk' \in BOOLEAN /\ disturbed' \in BOOLEAN
    BY <1>1 DEF StoreTyped
  <1>6. StoreTyped'
    BY <1>1, <1>3, <1>4, <1>5 DEF StoreTyped
  <1> QED BY <1>1, <1>2, <1>6 DEF ChangeFrame

\* A new row stands behind the others; one row of the same key may go.
LEMMA WriteGives ==
  ASSUME RowAssumption, StoreTyped, NEW k, k \in RowKinds, Write(k)
  PROVE  \E kept, new :
            /\ kept \subseteq rows /\ (IsTokens => kept = rows)
            /\ new.id = Top + 1 /\ new.n = written + 1 /\ new.kind = k
            /\ rows' = kept \cup {new} /\ pages' \in Nat /\ pages <= pages'
            /\ pages' = pages \/ pages' = Cardinality(rows')
            /\ StoreTyped' /\ ChangeFrame /\ Top' = Top + 1 /\ changes' = changes
            /\ shrunk' = shrunk /\ disturbed' = (disturbed \/ (shrunk' /\ Hidden'))
            /\ k \in KindsOf
PROOF
  <1>1. PICK old \in {{}} \cup {{r} : r \in rows} :
           LET R == (IF IsTokens THEN rows ELSE rows \ old)
                    \cup {[id |-> Top + 1, n |-> written', kind |-> k]}
           IN  Changed(R, Max({pages, Cardinality(R)}), FALSE)
    BY DEF Write
  <1> DEFINE kept == IF IsTokens THEN rows ELSE rows \ old
             new == [id |-> Top + 1, n |-> written', kind |-> k]
             R == kept \cup {new}
             p == Max({pages, Cardinality(R)})
  <1>2. Changed(R, p, FALSE)
    BY <1>1
  <1>3. written' = written + 1 /\ changes' = changes /\ k \in KindsOf
    BY DEF Write
  <1>4. Top + 1 \in Nat /\ First <= Top + 1 /\ \A r \in rows : r.id <= Top
    BY TopIs, GenIs
  <1>5. kept \subseteq rows /\ IsFiniteSet(rows)
    BY DEF StoreTyped, TableTyped, Readable
  <1>6. new \in RowT
    BY <1>3, <1>4 DEF RowT, StoreTyped, RowAssumption
  <1>7. IsFiniteSet(R)
    <2>1. IsFiniteSet(kept)
      <3> HIDE DEF kept
      <3> QED BY <1>5, FS_Subset
    <2> HIDE DEF kept, new
    <2> QED BY <2>1, FS_AddElement
  <1>8. /\ \A r \in R : r \in RowT /\ First <= r.id
        /\ \A r, q \in R : r.id = q.id => r = q
    <2>1. \A r \in kept : r \in RowT /\ First <= r.id /\ r.id < Top + 1 /\ r.id \in Nat
      BY <1>4, <1>5, TopIs DEF StoreTyped, TableTyped, RowT
    <2>2. \A r, q \in kept : r.id = q.id => r = q
      BY <1>5 DEF StoreTyped, TableTyped, Readable
    <2>3. new.id = Top + 1
      OBVIOUS
    <2> HIDE DEF kept, new
    <2> QED BY <1>4, <1>6, <2>1, <2>2, <2>3
  <1>9. Readable(R)
    <2>1. \A r \in R : r.id \in Nat /\ r.n \in Nat
      <3> HIDE DEF R
      <3> QED BY <1>8 DEF RowT
    <2> HIDE DEF R
    <2> QED BY <1>7, <1>8, <2>1 DEF Readable
  <1>10. p \in Nat /\ pages <= p /\ (p = pages \/ p = Cardinality(R))
    <2> DEFINE C == {pages, Cardinality(R)}
    <2>1. C \subseteq Int /\ C # {} /\ pages \in C /\ C \subseteq Nat
      <3>1. Cardinality(R) \in Nat
        <4> HIDE DEF R
        <4> QED BY <1>7, FS_CardinalityType
      <3> QED BY <3>1 DEF StoreTyped
    <2>2. IsFiniteSet(C)
      <3>1. IsFiniteSet({pages} \cup {Cardinality(R)})
        <4>1. IsFiniteSet({pages})
          BY FS_Singleton
        <4> HIDE DEF R
        <4> QED BY <4>1, FS_AddElement
      <3>2. C = {pages} \cup {Cardinality(R)}
        OBVIOUS
      <3> QED BY <3>1, <3>2
    <2> HIDE DEF C
    <2>3. Max(C) \in C /\ pages <= Max(C)
      BY <2>1, <2>2, GreatestIs
    <2>4. p = Max(C)
      BY DEF C
    <2>5. p = pages \/ p = Cardinality(R)
      BY <2>3, <2>4 DEF C
    <2> HIDE DEF p
    <2> QED BY <2>1, <2>3, <2>4, <2>5
  <1>11. written' \in Nat /\ changes' \in 0 .. MaxChanges
    BY <1>3 DEF StoreTyped
  <1>12. /\ StoreTyped' /\ ChangeFrame /\ rows' = R /\ pages' = p
         /\ shrunk' = (shrunk \/ FALSE) /\ disturbed' = (disturbed \/ (shrunk' /\ Hidden'))
    <2> HIDE DEF R, p
    <2> QED BY <1>2, <1>8, <1>9, <1>10, <1>11, ChangedTyped
  <1>13. Top' = Top + 1
    <2>1. First \in {0, 1} /\ First' = First
      BY <1>12, GenIs DEF ChangeFrame
    <2>2. /\ \A r \in rows' : r.id <= TopOf(First, rows')
          /\ TopOf(First, rows') = First - 1 \/ \E r \in rows' : r.id = TopOf(First, rows')
          /\ TopOf(First, rows') \in Int
      <3> HIDE DEF R
      <3> QED BY <1>7, <1>9, <1>12, <2>1, TopOfIs DEF Readable
    <2>3. \A r \in rows' : r.id = Top + 1 \/ r.id <= Top
      BY <1>4, <1>5, <1>12
    <2>4. new \in rows' /\ new.id = Top + 1
      BY <1>12
    <2>5. Top' = TopOf(First, rows')
      BY <2>1 DEF Top, TopOf
    <2> HIDE DEF R, new
    <2> QED BY <1>4, <2>1, <2>2, <2>3, <2>4, <2>5, TopIs
  <1>14. shrunk' = shrunk
    BY <1>12 DEF StoreTyped
  <1>15. new.id = Top + 1 /\ new.n = written + 1 /\ new.kind = k /\ (IsTokens => kept = rows)
    BY <1>3
  <1>16. pages' = pages \/ pages' = Cardinality(rows')
    BY <1>10, <1>12
  <1> HIDE DEF kept, new, p
  <1> QED BY <1>3, <1>5, <1>10, <1>12, <1>13, <1>14, <1>15, <1>16

\* A change that no poll will notice is one after which a row is not read: the ghost says so.
LEMMA TableChanged ==
  ASSUME RowAssumption, StoreTyped, TableInv, ChangeFrame,
         changes \in Nat, changes' \in Nat, changes <= changes',
         shrunk' \in BOOLEAN, disturbed' \in BOOLEAN,
         shrunk' /\ ~shrunk => changes < changes',
         disturbed' = (disturbed \/ (shrunk' /\ Hidden')),
         ~shrunk' => ~DetectVacuum' /\ Floor' <= Top' + 1,
         ~shrunk' /\ RowsRead => RowsRead'
  PROVE  TableInv'
PROOF
  <1>1. Counted'
    <2>1. Gen \in Nat
      BY GenIs
    <2>2. Replaced' = Replaced /\ NoCursor' = NoCursor
      BY DEF ChangeFrame, Replaced, Unseen, NoCursor
    <2> QED BY <2>1, <2>2 DEF TableInv, Counted, ChangeFrame, StoreTyped
  <1>2. CursorSettled'
    BY DEF CursorSettled
  <1>3. InOrder'
    BY DEF TableInv, InOrder, ChangeFrame, Queued, Gens, NoCursor
  <1>4. CASE shrunk'
    <2>1. ASSUME ~DetectVacuum', ~disturbed', NEW r \in rows', WantedRow(r), r.id < Floor', Unread(r)' PROVE FALSE
      BY <1>4, <2>1 DEF Hidden
    <2> QED BY <1>1, <1>2, <1>3, <2>1 DEF TableInv, RowsRead, WantedRow
  <1>5. CASE ~shrunk'
    BY <1>1, <1>2, <1>3, <1>5 DEF TableInv
  <1> QED BY <1>4, <1>5

\* The application's changes: it writes a row, deletes one, rewrites the table.
LEMMA TableWrite ==
  ASSUME RowAssumption, StoreTyped, ~IsTokens, TableInv, NEW k \in RowKinds, Write(k)
  PROVE  StoreTyped' /\ TableInv'
PROOF
  <1>1. PICK kept, new :
            /\ kept \subseteq rows /\ (IsTokens => kept = rows)
            /\ new.id = Top + 1 /\ new.n = written + 1 /\ new.kind = k
            /\ rows' = kept \cup {new} /\ pages' \in Nat /\ pages <= pages'
            /\ pages' = pages \/ pages' = Cardinality(rows')
            /\ StoreTyped' /\ ChangeFrame /\ Top' = Top + 1 /\ changes' = changes
            /\ shrunk' = shrunk /\ disturbed' = (disturbed \/ (shrunk' /\ Hidden'))
            /\ k \in KindsOf
    BY WriteGives
  <1>2. changes \in Nat /\ pages \in Nat /\ Top + 1 \in Nat /\ Floor \in Nat /\ Prior.seen \in Int
        /\ (Prior # NoCursor => Prior.end \in Nat)
    BY TopIs, GenIs DEF StoreTyped
  <1>3. ASSUME ~shrunk PROVE ~DetectVacuum' /\ Floor' <= Top' + 1
    <2>1. ~DetectVacuum /\ Floor <= Top + 1
      BY <1>3 DEF TableInv, CursorSettled
    <2>2. ~DetectVacuum'
      BY <1>1, <1>2, <2>1 DEF DetectVacuum, ChangeFrame, NoCursor, Unseen
    <2> QED BY <1>1, <1>2, <2>1, <2>2 DEF ChangeFrame
  <1>4. ASSUME ~shrunk, RowsRead PROVE RowsRead'
    <2>1. ~DetectVacuum /\ Floor <= Top + 1
      BY <1>4 DEF TableInv, CursorSettled
    <2>2. ASSUME ~disturbed, NEW r \in rows', WantedRow(r), r.id < Floor', Unread(r)' PROVE FALSE
      <3>1. r.id < Floor
        BY <2>2, <1>1 DEF ChangeFrame
      <3>2. r \in rows
        BY <1>1, <1>2, <2>1, <3>1, <2>2
      <3>3. Unread(r)
        BY <1>1, <2>2 DEF Unread, Captured, ChangeFrame
      <3> QED BY <1>4, <2>1, <2>2, <3>1, <3>2, <3>3 DEF RowsRead
    <2>3. disturbed => disturbed'
      BY <1>1
    <2> QED BY <2>2, <2>3 DEF RowsRead, WantedRow
  <1>5. shrunk' \in BOOLEAN /\ disturbed' \in BOOLEAN /\ changes' \in Nat /\ changes <= changes'
    BY <1>1, <1>2 DEF StoreTyped
  <1>6. TableInv'
    BY <1>1, <1>2, <1>3, <1>4, <1>5, TableChanged
  <1> QED BY <1>1, <1>6

LEMMA TableDelete ==
  ASSUME RowAssumption, StoreTyped, ~IsTokens, TableInv, Delete
  PROVE  StoreTyped' /\ TableInv'
PROOF
  <1>1. PICK r \in rows : Changed(rows \ {r}, pages, TRUE)
    BY DEF Delete
  <1>2. changes \in Nat /\ MaxChanges \in Nat /\ changes < MaxChanges /\ changes' = changes + 1 /\ written' = written
    BY GenIs DEF Delete, StoreTyped
  <1>3. Readable(rows \ {r}) /\ \A q \in rows \ {r} : q \in RowT /\ First <= q.id
    BY FS_RemoveElement DEF StoreTyped, TableTyped, Readable
  <1>4. pages \in Nat /\ written' \in Nat /\ changes' \in 0 .. MaxChanges /\ changes' \in Nat
    BY <1>2 DEF StoreTyped
  <1>5. /\ StoreTyped' /\ ChangeFrame /\ shrunk' /\ shrunk' \in BOOLEAN
        /\ disturbed' = (disturbed \/ (shrunk' /\ Hidden'))
    BY <1>1, <1>3, <1>4, ChangedTyped
  <1>6. disturbed' \in BOOLEAN
    BY <1>5 DEF StoreTyped
  <1>7. TableInv'
    BY <1>2, <1>4, <1>5, <1>6, TableChanged
  <1> QED BY <1>5, <1>7

\* A vacuum numbers the rows from 1, and keeps what is in them.
LEMMA VacuumGives ==
  ASSUME RowAssumption, StoreTyped, Vacuum
  PROVE  /\ StoreTyped' /\ ChangeFrame /\ shrunk' = TRUE
         /\ disturbed' = (disturbed \/ (shrunk' /\ Hidden'))
         /\ changes < MaxChanges /\ changes' = changes + 1 /\ written' = written
         /\ Cardinality(rows) \in Nat /\ pages' = Cardinality(rows) /\ First = 1
         /\ \A q \in rows' : q.id <= Cardinality(rows) /\ \E r \in rows : q.n = r.n /\ q.kind = r.kind
PROOF
  <1> DEFINE T == Ids(rows)
             F == [r \in rows |-> [r EXCEPT !.id = Rank(T, r.id)]]
             R == {[r EXCEPT !.id = Rank(T, r.id)] : r \in rows}
  <1>1. Changed(R, Cardinality(rows), TRUE)
    BY DEF Vacuum
  <1>2. changes \in Nat /\ MaxChanges \in Nat /\ changes < MaxChanges /\ changes' = changes + 1 /\ written' = written
    BY GenIs DEF Vacuum, StoreTyped
  <1>3. IsFiniteSet(rows) /\ T \subseteq Nat /\ IsFiniteSet(T) /\ \A r \in rows : r \in RowT /\ r.id \in T
    BY IdsFinite DEF StoreTyped, TableTyped, Readable, Ids
  <1>4. IsFiniteSet(R)
    <2>1. F \in Surjection(rows, R)
      BY DEF Surjection
    <2> HIDE DEF F, R
    <2> QED BY <1>3, <2>1, FS_Surjection
  <1>5. /\ \A i \in T : Rank(T, i) \in Nat /\ 1 <= Rank(T, i)
        /\ \A i, j \in T : Rank(T, i) = Rank(T, j) => i = j
    <2>1. /\ Cardinality(T) \in Nat /\ \A i \in T : Rank(T, i) \in 1 .. Cardinality(T)
          /\ \A i, j \in T : i < j => Rank(T, i) < Rank(T, j)
      <3> HIDE DEF T
      <3> QED BY <1>3, RanksGrow
    <2> HIDE DEF T
    <2>2. \A i \in T : Rank(T, i) \in Nat /\ 1 <= Rank(T, i)
      BY <2>1
    <2>3. ASSUME NEW i \in T, NEW j \in T, Rank(T, i) = Rank(T, j) PROVE i = j
      BY <1>3, <2>1, <2>2, <2>3
    <2> QED BY <2>2, <2>3
  <1>6. First = 1
    BY DEF First, Vacuum
  <1>7. \A q \in R : \E r \in rows : q = [r EXCEPT !.id = Rank(T, r.id)]
    OBVIOUS
  <1>8. \A r \in rows : LET q == [r EXCEPT !.id = Rank(T, r.id)] IN q \in RowT /\ q.id = Rank(T, r.id)
    <2> HIDE DEF T
    <2> QED BY <1>3, <1>5 DEF RowT
  <1>9. Readable(R) /\ \A q \in R : q \in RowT /\ First <= q.id
    <2>1. ASSUME NEW q \in R PROVE q \in RowT /\ First <= q.id
      <3>1. PICK r \in rows : q = [r EXCEPT !.id = Rank(T, r.id)]
        BY <1>7
      <3> HIDE DEF T, R
      <3>2. q \in RowT /\ q.id = Rank(T, r.id) /\ r.id \in T
        BY <1>3, <1>8, <3>1
      <3> QED BY <1>5, <1>6, <3>2
    <2>2. ASSUME NEW p \in R, NEW q \in R, p.id = q.id PROVE p = q
      <3>1. PICK r \in rows : p = [r EXCEPT !.id = Rank(T, r.id)]
        BY <1>7
      <3>2. PICK s \in rows : q = [s EXCEPT !.id = Rank(T, s.id)]
        BY <1>7
      <3>3. r.id = s.id
        <4> HIDE DEF T, R
        <4> QED BY <1>3, <1>5, <1>8, <2>2, <3>1, <3>2
      <3>4. r = s
        BY <3>3 DEF StoreTyped, TableTyped, Readable
      <3> QED BY <3>1, <3>2, <3>4
    <2> HIDE DEF R
    <2> QED BY <1>4, <2>1, <2>2 DEF Readable, RowT
  <1>10. Cardinality(rows) \in Nat /\ written' \in Nat /\ changes' \in 0 .. MaxChanges /\ changes' \in Nat
    BY <1>2, <1>3, FS_CardinalityType DEF StoreTyped
  <1> HIDE DEF R
  <1>11. /\ StoreTyped' /\ ChangeFrame /\ shrunk' = TRUE /\ rows' = R /\ pages' = Cardinality(rows)
         /\ disturbed' = (disturbed \/ (shrunk' /\ Hidden'))
    BY <1>1, <1>9, <1>10, ChangedTyped
  <1>12. ASSUME NEW q \in R
         PROVE  q.id <= Cardinality(rows) /\ \E r \in rows : q.n = r.n /\ q.kind = r.kind
    <2>1. PICK r \in rows : q = [r EXCEPT !.id = Rank(T, r.id)]
      BY <1>7
    <2>2. Cardinality(T) \in Nat /\ Cardinality(T) <= Cardinality(rows)
      <3> DEFINE ids == [x \in rows |-> x.id]
      <3>1. ids \in Surjection(rows, T)
        BY DEF Surjection, Ids
      <3> HIDE DEF T, ids
      <3> QED BY <1>3, <3>1, FS_Surjection, FS_CardinalityType
    <2>3. Rank(T, r.id) \in 1 .. Cardinality(T)
      <3> HIDE DEF T
      <3> QED BY <1>3, RanksGrow
    <2> HIDE DEF T
    <2> QED BY <1>3, <1>8, <1>10, <2>1, <2>2, <2>3 DEF RowT
  <1>13. First = 1 /\ Cardinality(rows) \in Nat
    BY <1>6, <1>10
  <1> QED BY <1>2, <1>11, <1>12, <1>13

LEMMA TableVacuum ==
  ASSUME RowAssumption, StoreTyped, ~IsTokens, TableInv, Vacuum
  PROVE  StoreTyped' /\ TableInv'
PROOF
  <1>1. /\ StoreTyped' /\ ChangeFrame /\ shrunk' = TRUE
        /\ disturbed' = (disturbed \/ (shrunk' /\ Hidden'))
        /\ changes' = changes + 1
    BY VacuumGives
  <1>2. disturbed' \in BOOLEAN /\ changes \in Nat /\ shrunk' \in BOOLEAN
    BY <1>1, GenIs DEF StoreTyped
  <1>3. TableInv'
    BY <1>1, <1>2, TableChanged
  <1> QED BY <1>1, <1>3

-----------------------------------------------------------------------------
(* A poll *)

\* Some of the rows are read as all of them.
LEMMA ReadableIn == ASSUME NEW S, Readable(S), NEW K, K \subseteq S PROVE Readable(K)
PROOF
  <1>1. IsFiniteSet(K)
    BY FS_Subset DEF Readable
  <1> QED BY <1>1 DEF Readable

\* What a poll selects: the rows from ReadFrom on, but for those of no project of ours.
LEMMA SelectedIs ==
  ASSUME RowAssumption, StoreTyped
  PROVE  /\ Filtered \subseteq Selected /\ Selected \subseteq rows /\ Readable(Selected) /\ Readable(Filtered)
         /\ \A r \in Selected : ReadFrom <= r.id /\ r.kind # "foreign" /\ r.id \in Nat /\ r \in RowT
         /\ \A r \in rows : ReadFrom <= r.id /\ r.kind # "foreign" => r \in Selected
         /\ \A r \in Selected : r \in PlannedOut \/ r.kind = "empty" \/ r \in Filtered
         /\ ReadFrom \in Nat
         /\ Selected # {} => /\ Max(Ids(Selected)) + 1 \in Nat /\ Max(Ids(Selected)) \in Int
                             /\ Max(Ids(Selected)) <= Top
                             /\ \A r \in Selected : r.id <= Max(Ids(Selected))
                             /\ ReadFrom <= Max(Ids(Selected))
PROOF
  <1>1. Filtered \subseteq Selected /\ Selected \subseteq rows
    BY DEF Filtered, Selected
  <1>2. ReadFrom \in Nat
    BY GenIs DEF ReadFrom
  <1>3. Readable(Selected) /\ Readable(Filtered)
    BY <1>1, ReadableIn DEF StoreTyped, TableTyped
  <1>4. \A r \in Selected : ReadFrom <= r.id /\ r.kind # "foreign" /\ r.id \in Nat /\ r \in RowT
    BY <1>1 DEF Selected, StoreTyped, TableTyped, RowT
  <1>5. /\ \A r \in rows : ReadFrom <= r.id /\ r.kind # "foreign" => r \in Selected
        /\ \A r \in Selected : r \in PlannedOut \/ r.kind = "empty" \/ r \in Filtered
    BY DEF Selected, Filtered
  <1>6. ASSUME Selected # {}
        PROVE  /\ Max(Ids(Selected)) + 1 \in Nat /\ Max(Ids(Selected)) \in Int
               /\ Max(Ids(Selected)) <= Top
               /\ \A r \in Selected : r.id <= Max(Ids(Selected))
               /\ ReadFrom <= Max(Ids(Selected))
    <2>1. /\ Ids(Selected) \subseteq Int /\ Ids(Selected) # {} /\ IsFiniteSet(Ids(Selected))
          /\ Ids(Selected) \subseteq Nat
      BY <1>3, <1>4, <1>6, IdsFinite DEF Ids, Readable
    <2>2. Max(Ids(Selected)) \in Ids(Selected) /\ \A i \in Ids(Selected) : i <= Max(Ids(Selected))
      BY <2>1, GreatestIs
    <2>3. PICK r \in Selected : r.id = Max(Ids(Selected))
      BY <2>2 DEF Ids
    <2>4. \A q \in Selected : q.id \in Ids(Selected)
      BY DEF Ids
    <2> QED BY <1>1, <1>4, <2>1, <2>2, <2>3, <2>4, TopIs
  <1> QED BY <1>1, <1>2, <1>3, <1>4, <1>5, <1>6

\* The captures of a poll stand behind those that wait.
LEMMA Appended ==
  ASSUME QueueTyped, NEW g \in Gens, NEW K, NEW s, CutOf(g, K, s), queue' = queue \o s
  PROVE  /\ QueueTyped'
         /\ \A i \in Queued : i \in Queued' /\ queue'[i] = queue[i]
         /\ \A i \in Queued' : \/ i \in Queued
                               \/ /\ i - Len(queue) \in 1 .. Len(s) /\ queue'[i] = s[i - Len(queue)]
                                  /\ i > Len(queue)
         /\ \A j \in 1 .. Len(s) : Len(queue) + j \in Queued' /\ queue'[Len(queue) + j] = s[j]
         /\ Queued \subseteq Nat /\ Queued' \subseteq Nat /\ Len(queue) \in Nat
         /\ held' = held => \A n : Captured(n) => Captured(n)'
         /\ \A n : (\E j \in 1 .. Len(s) : n \in s[j].body) => Captured(n)'
PROOF
  <1>1. queue \in Seq(SlotT) /\ s \in Seq(SlotT) /\ queue' \in Seq(SlotT)
    BY DEF QueueTyped, CutOf
  <1>2. /\ Len(queue) \in Nat /\ Len(s) \in Nat /\ Len(queue') = Len(queue) + Len(s)
        /\ \A i \in 1 .. Len(queue) : queue'[i] = queue[i]
        /\ \A i \in Len(queue) + 1 .. Len(queue) + Len(s) : queue'[i] = s[i - Len(queue)]
        /\ DOMAIN queue = 1 .. Len(queue) /\ DOMAIN queue' = 1 .. Len(queue')
    BY <1>1
  <1>3. \A i \in Queued : i \in Queued' /\ queue'[i] = queue[i]
    BY <1>2 DEF Queued
  <1>4. \A i \in Queued' : \/ i \in Queued
                           \/ /\ i - Len(queue) \in 1 .. Len(s) /\ queue'[i] = s[i - Len(queue)]
                              /\ i > Len(queue)
    BY <1>2 DEF Queued
  <1>5. \A j \in 1 .. Len(s) : Len(queue) + j \in Queued' /\ queue'[Len(queue) + j] = s[j]
    BY <1>2 DEF Queued
  <1>6. Queued \subseteq Nat /\ Queued' \subseteq Nat
    BY DEF Queued
  <1>7. QueueTyped'
    <2>1. \A j \in 1 .. Len(s) : s[j].gen \in Gens /\ s[j].start < s[j].end
      BY DEF CutOf
    <2>2. \A i \in Queued : queue[i].gen \in Gens /\ queue[i].start < queue[i].end
      BY DEF QueueTyped
    <2> QED BY <1>1, <1>3, <1>4, <2>1, <2>2 DEF QueueTyped, Gens
  <1>8. ASSUME held' = held, NEW n, Captured(n) PROVE Captured(n)'
    BY <1>2, <1>3, <1>8 DEF Captured, Queued
  <1>9. ASSUME NEW n, NEW j \in 1 .. Len(s), n \in s[j].body PROVE Captured(n)'
    BY <1>2, <1>5, <1>9 DEF Captured, Queued
  <1> QED BY <1>2, <1>3, <1>4, <1>5, <1>6, <1>7, <1>8, <1>9

\* A poll that sets the cursor of the generation it reads, behind what it captures.
LEMMA TablePolled ==
  ASSUME RowAssumption, StoreTyped, ~IsTokens, TableInv,
         UNCHANGED <<store, rows, pages, endOf, written, changes>>,
         NEW K, NEW s, CutOf(ReadGen, K, s), queue' = queue \o s,
         NEW c \in Nat, SetCursor(ReadGen, c, pages),
         \A r \in K : r.id \in Nat /\ ReadFrom <= r.id /\ r.id < c,
         c <= Top + 1, ~DetectVacuum => Floor <= c,
         shrunk' = FALSE, disturbed' \in BOOLEAN
  PROVE  StoreTyped' /\ Counted' /\ CursorSettled' /\ InOrder' /\ Floor' = c
PROOF
  <1> DEFINE g == ReadGen
  <1>1. /\ g \in Gens /\ Gen <= g /\ g <= changes /\ g \in Nat
        /\ g = IF DetectVacuum THEN Gen + 1 ELSE Gen
        /\ DetectVacuum => cursors[g] = NoCursor /\ Prior # NoCursor /\ ReadFrom = 1
        /\ ~DetectVacuum => g = Gen /\ ReadFrom = Floor
        /\ g # 0 => cursors[0] # NoCursor
        /\ First = 1
    BY DetectedIs
  <1>2. /\ Gen \in Nat /\ Gens \subseteq Nat /\ 0 \in Gens
        /\ \A h \in Gens : cursors[h] # NoCursor => h <= Gen
        /\ Prior = cursors[Gen] /\ (Prior # NoCursor => Floor = Prior.end) /\ Floor \in Nat
        /\ pages \in Int /\ ReadFrom \in Nat
    BY GenIs, SelectedIs DEF StoreTyped
  <1>3. cursors' = [cursors EXCEPT ![g] = [end |-> c, seen |-> pages]]
    BY DEF SetCursor
  <1> HIDE DEF g
  <1>4. /\ CursorsTyped' /\ Gen' = g /\ Prior' = [end |-> c, seen |-> pages] /\ Prior' # NoCursor
        /\ Floor' = c /\ First' = First
        /\ cursors'[g] = [end |-> c, seen |-> pages]
        /\ \A h \in Gens : h # g => cursors'[h] = cursors[h]
    BY <1>1, <1>2, <1>3, GenAfter
  <1>5. CutOf(g, K, s) /\ QueueTyped
    BY DEF g, StoreTyped
  <1>6. /\ QueueTyped'
        /\ \A i \in Queued' : \/ i \in Queued /\ queue'[i] = queue[i]
                              \/ /\ i - Len(queue) \in 1 .. Len(s) /\ queue'[i] = s[i - Len(queue)]
                                 /\ i > Len(queue)
        /\ Queued \subseteq Nat /\ Queued' \subseteq Nat /\ Len(queue) \in Nat
    BY <1>1, <1>5, Appended
  <1>7. /\ s \in Seq(SlotT)
        /\ \A j \in 1 .. Len(s) : s[j].gen = g /\ ReadFrom <= s[j].start /\ s[j].end <= c
                                  /\ s[j].start \in Nat /\ s[j].end \in Nat
        /\ \A j, k \in 1 .. Len(s) : j < k => s[j].end <= s[k].start
    <2>1. s \in Seq(SlotT) /\ \A j, k \in 1 .. Len(s) : j < k => s[j].end <= s[k].start
      BY <1>5 DEF CutOf
    <2>2. ASSUME NEW j \in 1 .. Len(s)
          PROVE  s[j].gen = g /\ ReadFrom <= s[j].start /\ s[j].end <= c
                 /\ s[j].start \in Nat /\ s[j].end \in Nat
      <3>1. /\ s[j].gen = g /\ (\E r \in K : r.id = s[j].start) /\ (\E r \in K : s[j].end = r.id + 1)
        BY <1>5 DEF CutOf
      <3>2. s[j] \in SlotT
        BY <2>1
      <3> QED BY <3>1, <3>2 DEF SlotT
    <2> QED BY <2>1, <2>2
  <1>8. StoreTyped'
    <2>1. TableTyped'
      BY <1>4 DEF StoreTyped, TableTyped
    <2> QED BY <1>4, <1>6, <2>1 DEF StoreTyped, Gens
  <1>9. Counted'
    <2>1. cursors'[0] # NoCursor
      BY <1>1, <1>2, <1>4
    <2> QED BY <1>1, <1>4, <2>1 DEF Counted, NoCursor
  <1>10. CursorSettled'
    <2>1. Top' = Top /\ IsTokens' = IsTokens
      BY <1>4 DEF Top, IsTokens
    <2> QED BY <1>2, <1>4, <2>1, TopIs DEF CursorSettled, DetectVacuum
  <1>11. InOrder'
    <2>1. ASSUME NEW h \in Gens PROVE IF cursors'[h] = NoCursor THEN endOf[h] = 0 ELSE endOf[h] <= cursors'[h].end
      <3>1. CASE h # g
        BY <1>4, <3>1 DEF TableInv, InOrder
      <3>2. CASE h = g
        <4>1. endOf[h] = 0 \/ endOf[h] <= c
          <5>1. CASE DetectVacuum
            BY <1>1, <3>2, <5>1 DEF TableInv, InOrder
          <5>2. CASE ~DetectVacuum
            <6>1. IF cursors[g] = NoCursor THEN endOf[g] = 0 ELSE endOf[g] <= cursors[g].end
              BY <1>1 DEF TableInv, InOrder
            <6> QED BY <1>1, <1>2, <3>2, <5>2, <6>1 DEF StoreTyped
          <5> QED BY <5>1, <5>2
        <4> QED BY <1>4, <3>2, <4>1
      <3> QED BY <3>1, <3>2
    <2>2. ASSUME NEW i \in Queued, queue[i].gen = g
          PROVE  ~DetectVacuum /\ queue[i].end <= ReadFrom /\ endOf[g] <= queue[i].start /\ queue[i].end \in Nat
      <3>1. /\ cursors[g] # NoCursor /\ queue[i].end <= cursors[g].end /\ endOf[g] <= queue[i].start
        BY <2>2 DEF TableInv, InOrder
      <3>2. queue[i].end \in Nat
        <4>1. queue[i] \in SlotT
          BY DEF Queued, StoreTyped, QueueTyped
        <4> QED BY <4>1 DEF SlotT
      <3> QED BY <1>1, <1>2, <3>1, <3>2
    <2>3. endOf[g] \in Nat /\ (~DetectVacuum => endOf[g] <= Floor) /\ (DetectVacuum => endOf[g] = 0)
      <3>1. IF cursors[g] = NoCursor THEN endOf[g] = 0 ELSE endOf[g] <= cursors[g].end
        BY <1>1 DEF TableInv, InOrder
      <3> QED BY <1>1, <1>2, <3>1 DEF StoreTyped
    <2>4. ASSUME NEW i \in Queued'
          PROVE  /\ cursors'[queue'[i].gen] # NoCursor /\ queue'[i].end <= cursors'[queue'[i].gen].end
                 /\ endOf[queue'[i].gen] <= queue'[i].start
      <3>1. CASE i \in Queued /\ queue'[i] = queue[i] /\ queue[i].gen # g
        BY <1>4, <3>1 DEF TableInv, InOrder, StoreTyped, QueueTyped
      <3>2. CASE i \in Queued /\ queue'[i] = queue[i] /\ queue[i].gen = g
        BY <1>1, <1>2, <1>4, <2>2, <3>2 DEF NoCursor
      <3>3. CASE i - Len(queue) \in 1 .. Len(s) /\ queue'[i] = s[i - Len(queue)]
        <4> DEFINE b == s[i - Len(queue)]
        <4>1. b.gen = g /\ ReadFrom <= b.start /\ b.end <= c /\ b.start \in Nat /\ queue'[i] = b
          BY <1>7, <3>3
        <4>2. endOf[g] <= ReadFrom
          BY <1>1, <1>2, <2>3
        <4> HIDE DEF b
        <4>3. cursors'[g] # NoCursor /\ cursors'[g].end = c
          BY <1>4 DEF NoCursor
        <4> QED BY <1>2, <2>3, <4>1, <4>2, <4>3
      <3> QED BY <1>6, <3>1, <3>2, <3>3
    <2>5. ASSUME NEW i \in Queued', NEW k \in Queued', i < k, queue'[k].gen = queue'[i].gen
          PROVE  queue'[i].end <= queue'[k].start
      <3>1. CASE i \in Queued /\ k \in Queued
        <4>1. queue'[i] = queue[i] /\ queue'[k] = queue[k]
          BY <1>6, <3>1 DEF Queued
        <4> QED BY <2>5, <3>1, <4>1 DEF TableInv, InOrder
      <3>2. CASE i \in Queued /\ k > Len(queue)
        <4>1. k - Len(queue) \in 1 .. Len(s) /\ queue'[k] = s[k - Len(queue)] /\ queue'[i] = queue[i]
          BY <1>6, <3>2 DEF Queued
        <4>2. s[k - Len(queue)].gen = g /\ ReadFrom <= s[k - Len(queue)].start /\ s[k - Len(queue)].start \in Nat
          BY <1>7, <4>1
        <4>3. queue[i].end <= ReadFrom /\ queue[i].end \in Nat
          BY <2>2, <2>5, <3>2, <4>1, <4>2
        <4> QED BY <1>2, <4>1, <4>2, <4>3
      <3>3. CASE i > Len(queue)
        <4>1. /\ k - Len(queue) \in 1 .. Len(s) /\ queue'[k] = s[k - Len(queue)]
              /\ i - Len(queue) \in 1 .. Len(s) /\ queue'[i] = s[i - Len(queue)]
          BY <1>6, <2>5, <3>3 DEF Queued
        <4>2. i - Len(queue) < k - Len(queue)
          BY <1>6, <2>5
        <4> QED BY <1>7, <4>1, <4>2
      <3> QED BY <1>6, <2>5, <3>1, <3>2, <3>3 DEF Queued
    <2> QED BY <2>1, <2>4, <2>5 DEF InOrder, Gens, NoCursor
  <1> QED BY <1>4, <1>8, <1>9, <1>10, <1>11

\* A poll leaves no wanted row unread before the cursor it sets: it captured it or set
\* it aside, unless it was before the cursor already.
LEMMA TableRead ==
  ASSUME RowAssumption, StoreTyped, ~IsTokens, TableInv, rows' = rows,
         NEW c, Floor' = c,
         \A n : Captured(n) => Captured(n)',
         quarantined \subseteq quarantined', passed \subseteq passed',
         disturbed' = (disturbed /\ ~DetectVacuum),
         \A r \in Selected : WantedRow(r) /\ r.id < c =>
            Captured(r.n)' \/ r.n \in quarantined' \cup passed'
  PROVE  RowsRead'
PROOF
  <1> SUFFICES ASSUME ~disturbed', NEW r \in rows', WantedRow(r), r.id < Floor', Unread(r)' PROVE FALSE
    BY DEF RowsRead, WantedRow
  <1>1. r \in rows /\ r.id < c /\ First <= r.id /\ r.id \in Nat /\ r.kind # "foreign"
    BY DEF StoreTyped, TableTyped, Readable, WantedRow
  <1>2. ~ Captured(r.n)' /\ r.n \notin quarantined' \cup passed'
    BY DEF Unread
  <1>3. CASE r \in Selected
    BY <1>1, <1>2, <1>3
  <1>4. CASE r \notin Selected
    <2>1. ReadFrom \in Nat /\ ~ (ReadFrom <= r.id)
      BY <1>1, <1>4, SelectedIs
    <2>2. ~DetectVacuum /\ ReadFrom = Floor
      BY <1>1, <2>1, DetectedIs
    <2>3. r.id < Floor
      BY <1>1, <2>1, <2>2
    <2>4. ~Unread(r)
      BY <1>1, <2>2, <2>3 DEF TableInv, RowsRead
    <2> QED BY <1>2, <2>4 DEF Unread
  <1> QED BY <1>3, <1>4

\* A poll that captures nothing.
LEMMA NothingCut ==
  ASSUME QueueTyped, NEW g
  PROVE  CutOf(g, {}, << >>) /\ queue = queue \o << >>
PROOF
  <1>1. << >> \in Seq(SlotT) /\ Len(<< >>) = 0 /\ 1 .. 0 = {}
    OBVIOUS
  <1>2. CutOf(g, {}, << >>)
    BY <1>1 DEF CutOf
  <1>3. queue \in Seq(SlotT)
    BY DEF QueueTyped
  <1> QED BY <1>2, <1>3

\* A poll that finds no row to read.
LEMMA TableRefreshes ==
  ASSUME RowAssumption, StoreTyped, ~IsTokens, TableInv, PollRefreshes
  PROVE  StoreTyped' /\ TableInv'
PROOF
  <1>1. /\ UNCHANGED <<store, rows, pages, held, endOf, written, changes>>
        /\ UNCHANGED <<queue, quarantined, passed>> /\ Selected = {}
        /\ shrunk' = FALSE /\ disturbed' = (disturbed /\ ~DetectVacuum)
    BY DEF PollRefreshes, RowUnpolled, Looked
  <1>2. disturbed' \in BOOLEAN /\ (\A n : Captured(n) => Captured(n)')
    BY <1>1 DEF Captured
  <1>3. /\ ReadGen \in Gens /\ ReadGen = IF DetectVacuum THEN Gen + 1 ELSE Gen
        /\ (~DetectVacuum => ReadGen = Gen /\ ReadFrom = Floor /\ Floor <= Top + 1)
        /\ First = 1
    BY DetectedIs
  <1>4. /\ Prior = NoCursor => Gen = 0 /\ Floor = First
        /\ Prior # NoCursor => Prior.end \in Nat /\ Floor = Prior.end
        /\ Gen \in Nat
    BY GenIs
  <1>5. QueueTyped
    BY DEF StoreTyped
  <1>6. CASE Prior = NoCursor /\ ReadGen = 0
    <2>1. cursors' = cursors
      BY <1>6 DEF PollRefreshes
    <2>2. /\ StoreTyped' /\ Gen' = Gen /\ Prior' = Prior /\ Floor' = Floor /\ First' = First
          /\ IsTokens' = IsTokens /\ Top' = Top
      BY <1>1, <1>2, <2>1 DEF StoreTyped, TableTyped, CursorsTyped, QueueTyped, Queued, Gens,
            Gen, Prior, Floor, First, IsTokens, Top, NoCursor
    <2>3. ~DetectVacuum /\ ~DetectVacuum'
      BY <1>6, <2>2 DEF DetectVacuum, NoCursor
    <2>4. Counted' /\ CursorSettled' /\ InOrder'
      BY <1>1, <1>3, <1>6, <2>1, <2>2, <2>3 DEF TableInv, Counted, CursorSettled, InOrder, Queued, Gens, NoCursor
    <2>5. RowsRead'
      BY <1>1, <1>2, <1>4, <1>6, <2>2, TableRead
    <2> QED BY <2>2, <2>4, <2>5 DEF TableInv
  <1>7. CASE ~ (Prior = NoCursor /\ ReadGen = 0)
    <2>1. PICK c \in Nat : /\ SetCursor(ReadGen, c, pages) /\ c <= Top + 1
                           /\ ~DetectVacuum => c = Floor
      <3>1. CASE DetectVacuum
        <4>1. SetCursor(ReadGen, 0, pages)
          BY <1>7, <3>1 DEF PollRefreshes
        <4> QED BY <3>1, <4>1, TopIs
      <3>2. CASE ~DetectVacuum
        <4>1. Prior # NoCursor /\ SetCursor(Gen, Prior.end, pages)
          BY <1>3, <1>4, <1>7, <3>2 DEF PollRefreshes
        <4> QED BY <1>3, <1>4, <3>2, <4>1
      <3> QED BY <3>1, <3>2
    <2>2. StoreTyped' /\ Counted' /\ CursorSettled' /\ InOrder' /\ Floor' = c
      <3>1. CutOf(ReadGen, {}, << >>) /\ queue' = queue \o << >>
        BY <1>1, <1>5, NothingCut
      <3>2. ~DetectVacuum => Floor <= c
        BY <2>1, GenIs
      <3> DEFINE K == {}
                 s == << >>
      <3>3. \A r \in K : r.id \in Nat /\ ReadFrom <= r.id /\ r.id < c
        OBVIOUS
      <3>4. CutOf(ReadGen, K, s) /\ queue' = queue \o s
        BY <3>1
      <3> HIDE DEF K, s
      <3> QED BY <1>1, <1>2, <2>1, <3>2, <3>3, <3>4, TablePolled
    <2>3. RowsRead'
      BY <1>1, <1>2, <2>2, TableRead
    <2> QED BY <2>2, <2>3 DEF TableInv
  <1> QED BY <1>6, <1>7

\* What a poll captures is cut out of the rows it filtered.
LEMMA CapturesCut ==
  ASSUME RowAssumption, StoreTyped, ReadGen \in Nat, NEW s \in NewCaptures
  PROVE  CutOf(ReadGen, Filtered, s)
PROOF
  <1>1. PICK ends \in Splits(Filtered) : s = Slices(ReadGen, Filtered, ends)
    BY DEF NewCaptures, CapturesOf
  <1> QED BY <1>1, SelectedIs, SlicesOf

\* A poll that finds rows.
LEMMA TablePollsRows ==
  ASSUME RowAssumption, StoreTyped, ~IsTokens, TableInv, PollRows
  PROVE  StoreTyped' /\ TableInv'
PROOF
  <1> DEFINE c == Max(Ids(Selected)) + 1
  <1>1. /\ UNCHANGED <<store, rows, pages, held, endOf, written, changes>>
        /\ Selected # {} /\ quarantined' = quarantined \cup Big
        /\ passed' = passed \cup {r.n : r \in PlannedOut}
        /\ SetCursor(ReadGen, c, pages)
        /\ shrunk' = FALSE /\ disturbed' = (disturbed /\ ~DetectVacuum)
    BY DEF PollRows, RowUnpolled, Looked
  <1>2. PICK s \in NewCaptures : queue' = queue \o s
    BY DEF PollRows
  <1>3. ReadGen \in Gens /\ ReadGen \in Nat /\ (~DetectVacuum => ReadFrom = Floor)
    BY DetectedIs
  <1>4. CutOf(ReadGen, Filtered, s)
    BY <1>3, CapturesCut
  <1>5. /\ c \in Nat /\ c <= Top + 1 /\ ReadFrom < c /\ ReadFrom \in Nat
        /\ \A r \in Selected : r.id \in Nat /\ ReadFrom <= r.id /\ r.id < c
        /\ Filtered \subseteq Selected
    BY <1>1, SelectedIs, TopIs
  <1> HIDE DEF c
  <1>6. disturbed' \in BOOLEAN
    BY <1>1
  <1>7. ~DetectVacuum => Floor <= c
    BY <1>3, <1>5, GenIs
  <1>8. StoreTyped' /\ Counted' /\ CursorSettled' /\ InOrder' /\ Floor' = c
    BY <1>1, <1>2, <1>4, <1>5, <1>6, <1>7, TablePolled
  <1>9. /\ \A n : Captured(n) => Captured(n)'
        /\ \A n : (\E j \in 1 .. Len(s) : n \in s[j].body) => Captured(n)'
    <2>1. QueueTyped /\ held' = held
      BY <1>1 DEF StoreTyped
    <2> QED BY <1>2, <1>3, <1>4, <2>1, Appended
  <1>10. ASSUME NEW r \in Selected, WantedRow(r)
         PROVE  Captured(r.n)' \/ r.n \in quarantined' \cup passed'
    <2>1. CASE r \in PlannedOut
      BY <1>1, <2>1
    <2>2. CASE r \in Filtered /\ r.kind = "big"
      BY <1>1, <2>2 DEF Big
    <2>3. CASE r \in Filtered /\ r.kind # "big"
      <3>1. \E j \in 1 .. Len(s) : r.n \in s[j].body
        BY <1>4, <2>3 DEF CutOf
      <3> QED BY <1>9, <3>1
    <2> QED BY <1>10, <2>1, <2>2, <2>3, SelectedIs DEF WantedRow
  <1>11. RowsRead'
    BY <1>1, <1>8, <1>9, <1>10, TableRead
  <1> QED BY <1>8, <1>11 DEF TableInv

\* What a poll that throws had inserted is cut as well.
LEMMA SplitsBelow ==
  ASSUME NEW K, Readable(K), NEW ends \in Splits(K), NEW e \in Int,
         e \in ends \/ \A r \in K : e < r.id
  PROVE  {i \in ends : i <= e} \in Splits({r \in K : r.id <= e})
PROOF
  <1> DEFINE D == {r \in K : r.id <= e}
             E == {i \in ends : i <= e}
  <1>1. Ids(K) \subseteq Nat /\ ends \subseteq Ids(K) /\ Ids(D) = {i \in Ids(K) : i <= e}
    BY DEF Splits, Ids, Readable
  <1>2. E \in SUBSET Ids(D)
    BY <1>1
  <1>3. ASSUME NEW i \in Ids(D),
               \/ i \in Ids({r \in D : r.kind = "big"}) \/ \A j \in Ids(D) : j <= i
               \/ \E b \in Ids({r \in D : r.kind = "big"}) : i < b /\ ~ \E j \in Ids(D) : i < j /\ j < b
        PROVE  i \in ends
    <2>1. i \in Ids(K) /\ i <= e /\ i \in Nat
      BY <1>1
    <2>2. CASE i \in Ids({r \in D : r.kind = "big"})
      <3>1. i \in Ids({r \in K : r.kind = "big"})
        BY <2>2 DEF Ids
      <3> QED BY <2>1, <3>1 DEF Splits
    <2>3. CASE \A j \in Ids(D) : j <= i
      <3>1. e \in ends /\ e \in Ids(D)
        BY <1>1, <2>1 DEF Ids
      <3>2. i = e
        BY <1>1, <2>1, <2>3, <3>1
      <3> QED BY <3>1, <3>2
    <2>4. CASE \E b \in Ids({r \in D : r.kind = "big"}) : i < b /\ ~ \E j \in Ids(D) : i < j /\ j < b
      <3>1. PICK b \in Ids({r \in D : r.kind = "big"}) : i < b /\ ~ \E j \in Ids(D) : i < j /\ j < b
        BY <2>4
      <3>2. b \in Ids({r \in K : r.kind = "big"}) /\ b <= e /\ b \in Nat
        BY <3>1 DEF Ids, Readable
      <3>3. ~ \E j \in Ids(K) : i < j /\ j < b
        BY <1>1, <2>1, <3>1, <3>2
      <3> QED BY <2>1, <3>1, <3>2, <3>3 DEF Splits
    <2> QED BY <1>3, <2>2, <2>3, <2>4
  <1>4. \A i \in Ids(D) : i \in ends => i \in E
    BY <1>1
  <1> HIDE DEF D, E
  <1>5. E \in Splits(D)
    BY <1>2, <1>3, <1>4 DEF Splits
  <1> QED BY <1>5 DEF D, E

\* The rows up to e were inserted or quarantined when the poll threw, and `last` is
\* the last one of those that are quarantined.
FailedAt(e, s, done, kept, last) ==
    /\ e \in Int /\ done = {r \in Filtered : r.id <= e}
    /\ kept = {r \in done : r.kind = "big" /\ ~IsTokens}
    /\ last = TopOf(First, kept)
    /\ CutOf(ReadGen, done, s) /\ queue' = queue \o s
    /\ half' = (half \/ \E i \in 1 .. Len(s) : s[i].end > last + 1)
    /\ quarantined' = quarantined \cup {r.n : r \in kept}
    /\ passed' = passed \cup {r.n : r \in {q \in PlannedOut : q.id <= last}}
    /\ cursors' = Handled(CursorsPast(last))
    /\ IF last < First THEN UNCHANGED <<shrunk, disturbed>> ELSE Looked

\* A poll that throws did so behind some slice.
LEMMA PollFailsAt ==
  ASSUME RowAssumption, StoreTyped, ReadGen \in Nat, PollFails
  PROVE  \E e, s, done, kept, last : FailedAt(e, s, done, kept, last)
PROOF
  <1>1. PICK ends \in Splits(Filtered) : \E e \in {First - 1} \cup ends :
           FailsAfter({i \in ends : i <= e}, e)
    BY DEF PollFails
  <1>2. PICK e \in {First - 1} \cup ends : FailsAfter({i \in ends : i <= e}, e)
    BY <1>1
  <1> DEFINE E == {i \in ends : i <= e}
             done == {r \in Filtered : r.id <= e}
             kept == {r \in done : r.kind = "big" /\ ~IsTokens}
             last == Max({First - 1} \cup Ids(kept))
  <1>3. FailsAfter(E, e)
    BY <1>2
  <1>4. /\ \E slices \in {Slices(g, done, E) : g \in {ReadGen}} :
              /\ queue' = queue \o slices
              /\ half' = (half \/ \E i \in DOMAIN slices : slices[i].end > last + 1)
        /\ quarantined' = quarantined \cup {r.n : r \in kept}
        /\ passed' = passed \cup {r.n : r \in {q \in PlannedOut : q.id <= last}}
        /\ cursors' = Handled(CursorsPast(last))
        /\ IF last < First THEN UNCHANGED <<shrunk, disturbed>> ELSE Looked
    <2> HIDE DEF E
    <2> QED BY <1>3 DEF FailsAfter
  <1>5. Readable(Filtered) /\ First \in {0, 1} /\ Filtered \subseteq rows
    BY SelectedIs, GenIs
  <1>6. e \in Int /\ (e \in ends \/ \A r \in Filtered : e < r.id)
    <2>1. \A r \in Filtered : First <= r.id /\ r.id \in Nat
      BY <1>5 DEF StoreTyped, TableTyped, Readable
    <2>2. ends \subseteq Nat
      BY <1>5 DEF Splits, Ids, Readable
    <2> QED BY <1>5, <2>1, <2>2
  <1>7. E \in Splits(done)
    BY <1>5, <1>6, SplitsBelow
  <1>8. Readable(done)
    BY <1>5, ReadableIn
  <1> DEFINE s == Slices(ReadGen, done, E)
  <1>9. /\ queue' = queue \o s
        /\ half' = (half \/ \E i \in DOMAIN s : s[i].end > last + 1)
    <2> HIDE DEF E, done, kept, last
    <2> QED BY <1>4
  <1>10. CutOf(ReadGen, done, s)
    <2> HIDE DEF E, done
    <2> QED BY <1>7, <1>8, SlicesOf
  <1>11. DOMAIN s = 1 .. Len(s)
    <2> HIDE DEF s
    <2> QED BY <1>10 DEF CutOf
  <1>12. last = TopOf(First, kept)
    BY DEF TopOf
  <1>13. FailedAt(e, s, done, kept, last)
    <2>1. half' = (half \/ \E i \in 1 .. Len(s) : s[i].end > last + 1)
      BY <1>9, <1>11
    <2>2. done = {r \in Filtered : r.id <= e} /\ kept = {r \in done : r.kind = "big" /\ ~IsTokens}
      OBVIOUS
    <2> HIDE DEF s, kept, last, done, E
    <2> QED BY <1>4, <1>6, <1>9, <1>10, <1>12, <2>1, <2>2 DEF FailedAt
  <1> QED BY <1>13

\* A poll that throws.
LEMMA TableFails ==
  ASSUME RowAssumption, StoreTyped, ~IsTokens, TableInv, PollFails, ~half'
  PROVE  StoreTyped' /\ TableInv'
PROOF
  <1>1. /\ ReadGen \in Gens /\ ReadGen \in Nat /\ First = 1
        /\ ReadGen = IF DetectVacuum THEN Gen + 1 ELSE Gen
        /\ DetectVacuum => cursors[ReadGen] = NoCursor /\ Prior # NoCursor
        /\ ~DetectVacuum => ReadFrom = Floor /\ Floor <= Top + 1
        /\ ReadGen # 0 => cursors[0] # NoCursor
        /\ ReadGen <= changes /\ Gen <= ReadGen
    BY DetectedIs
  <1>2. PICK e, s, done, kept, last : FailedAt(e, s, done, kept, last)
    BY <1>1, PollFailsAt
  <1>3. /\ e \in Int /\ done = {r \in Filtered : r.id <= e}
        /\ kept = {r \in done : r.kind = "big"}
        /\ last = TopOf(First, kept)
        /\ CutOf(ReadGen, done, s) /\ queue' = queue \o s
        /\ quarantined' = quarantined \cup {r.n : r \in kept}
        /\ passed' = passed \cup {r.n : r \in {q \in PlannedOut : q.id <= last}}
        /\ cursors' = Handled(CursorsPast(last))
        /\ IF last < First THEN UNCHANGED <<shrunk, disturbed>> ELSE Looked
    BY <1>2 DEF FailedAt
  <1>4. \A i \in 1 .. Len(s) : ~ (s[i].end > last + 1)
    BY <1>2 DEF FailedAt
  <1>5. UNCHANGED <<store, rows, pages, held, endOf, written, changes>>
    BY DEF PollFails, RowUnpolled
  <1>6. /\ Filtered \subseteq Selected /\ Selected \subseteq rows /\ Readable(Filtered)
        /\ \A r \in Selected : ReadFrom <= r.id /\ r.kind # "foreign" /\ r.id \in Nat
        /\ ReadFrom \in Nat
        /\ \A r \in Selected : r \in PlannedOut \/ r.kind = "empty" \/ r \in Filtered
    BY SelectedIs
  <1>7. /\ last \in Int /\ First - 1 <= last /\ (\A r \in kept : r.id <= last)
        /\ last = First - 1 \/ \E r \in kept : r.id = last
    <2>1. kept \subseteq Filtered
      BY <1>3
    <2>2. Readable(kept)
      BY <1>6, <2>1, ReadableIn
    <2> QED BY <1>1, <1>3, <2>2, TopOfIs DEF Readable
  <1>8. s \in Seq(SlotT) /\ \A i \in 1 .. Len(s) : s[i].end \in Nat /\ s[i].end <= last + 1
    <2>1. s \in Seq(SlotT)
      BY <1>3 DEF CutOf
    <2>2. ASSUME NEW i \in 1 .. Len(s) PROVE s[i].end \in Nat
      <3>1. s[i] \in SlotT
        BY <2>1
      <3> QED BY <3>1 DEF SlotT
    <2> QED BY <1>4, <1>7, <2>1, <2>2
  <1>9. ASSUME NEW r \in done PROVE r.id <= last /\ r.id \in Nat /\ ReadFrom <= r.id
    <2>1. r \in Filtered /\ r.id \in Nat /\ ReadFrom <= r.id
      BY <1>3, <1>6
    <2>2. CASE r.kind = "big"
      BY <1>3, <1>7, <2>1, <2>2
    <2>3. CASE r.kind # "big"
      <3>1. PICK i \in 1 .. Len(s) : r.id < s[i].end
        BY <1>3, <2>3 DEF CutOf
      <3> QED BY <1>7, <1>8, <2>1, <3>1
    <2> QED BY <2>2, <2>3
  <1>10. /\ QueueTyped' /\ (\A n : Captured(n) => Captured(n)')
         /\ \A n : (\E j \in 1 .. Len(s) : n \in s[j].body) => Captured(n)'
    <2>1. QueueTyped /\ held' = held
      BY <1>5 DEF StoreTyped
    <2> QED BY <1>1, <1>3, <2>1, Appended
  <1>11. /\ Prior = NoCursor => Gen = 0 /\ Floor = First
         /\ Prior # NoCursor => Prior.end \in Nat /\ Floor = Prior.end
         /\ Gen \in Nat /\ Prior = cursors[Gen] /\ Floor \in Nat
    BY GenIs
  <1>12. HandlerGen = ReadGen \/ HandlerGen = 0
    BY DEF HandlerGen
  <1>13. CASE last >= First
    <2> DEFINE c == last + 1
    <2>1. CursorsPast(last) = [cursors EXCEPT ![ReadGen] = [end |-> c, seen |-> pages]]
      BY <1>1, <1>7, <1>13 DEF CursorsPast
    <2>2. CursorsPast(last)[HandlerGen] # NoCursor
      <3>1. DOMAIN cursors = Gens /\ 0 \in Gens /\ c # -1
        BY <1>1, <1>7, <1>13, GenIs DEF StoreTyped, CursorsTyped
      <3>2. CursorsPast(last)[ReadGen] # NoCursor
        BY <1>1, <2>1, <3>1 DEF NoCursor
      <3>3. ReadGen # 0 => CursorsPast(last)[0] = cursors[0]
        BY <1>1, <2>1, <3>1
      <3> QED BY <1>1, <1>12, <3>2, <3>3
    <2>3. SetCursor(ReadGen, c, pages)
      BY <1>3, <2>1, <2>2 DEF Handled, SetCursor
    <2>4. /\ c \in Nat /\ c <= Top + 1 /\ (~DetectVacuum => Floor <= c)
          /\ shrunk' = FALSE /\ disturbed' = (disturbed /\ ~DetectVacuum) /\ disturbed' \in BOOLEAN
      <3>1. PICK r \in kept : r.id = last
        BY <1>1, <1>7, <1>13
      <3>2. r \in rows /\ ReadFrom <= last /\ last <= e
        BY <1>3, <1>6, <3>1
      <3>3. Looked
        BY <1>1, <1>3, <1>7, <1>13
      <3> QED BY <1>1, <1>6, <1>7, <1>11, <3>1, <3>2, <3>3, TopIs DEF Looked
    <2>5. \A r \in done : r.id \in Nat /\ ReadFrom <= r.id /\ r.id < c
      BY <1>7, <1>9
    <2> HIDE DEF c
    <2>6. StoreTyped' /\ Counted' /\ CursorSettled' /\ InOrder' /\ Floor' = c
      BY <1>3, <1>5, <2>3, <2>4, <2>5, TablePolled
    <2>7. ASSUME NEW r \in Selected, WantedRow(r), r.id < c
          PROVE  Captured(r.n)' \/ r.n \in quarantined' \cup passed'
      <3>1. r.id <= last /\ last <= e
        BY <1>1, <1>3, <1>6, <1>7, <1>13, <2>7 DEF c
      <3>2. CASE r \in PlannedOut
        BY <1>3, <3>1, <3>2
      <3>3. CASE r \in Filtered
        <4>1. r \in done
          BY <1>3, <1>6, <1>7, <3>1, <3>3
        <4>2. CASE r.kind = "big"
          BY <1>3, <4>1, <4>2
        <4>3. CASE r.kind # "big"
          <5>1. \E j \in 1 .. Len(s) : r.n \in s[j].body
            BY <1>3, <4>1, <4>3 DEF CutOf
          <5> QED BY <1>10, <5>1
        <4> QED BY <4>2, <4>3
      <3> QED BY <1>6, <2>7, <3>2, <3>3 DEF WantedRow
    <2>8. RowsRead'
      BY <1>3, <1>5, <1>10, <2>4, <2>6, <2>7, TableRead
    <2> QED BY <2>6, <2>8 DEF TableInv
  <1>14. CASE last < First
    <2>1. done = {}
      <3>1. \A r \in done : r \in rows /\ First <= r.id /\ r.id \in Nat
        BY <1>3, <1>6, <1>9 DEF StoreTyped, TableTyped
      <3> QED BY <1>1, <1>7, <1>9, <1>14, <3>1
    <2>2. s = << >>
      <3>1. \A i \in 1 .. Len(s) : \E r \in done : r.id = s[i].start
        BY <1>3 DEF CutOf
      <3>2. Len(s) \in Nat
        BY <1>8
      <3>3. Len(s) = 0
        BY <2>1, <3>1, <3>2
      <3> QED BY <1>8, <3>3
    <2>3. queue' = queue
      BY <1>3, <2>2 DEF StoreTyped, QueueTyped
    <2>4. cursors' = Handled(cursors) /\ UNCHANGED <<shrunk, disturbed>>
      BY <1>3, <1>14 DEF CursorsPast
    <2>5. CASE cursors' = cursors
      <3>1. /\ StoreTyped' /\ Gen' = Gen /\ Prior' = Prior /\ Floor' = Floor /\ First' = First
            /\ IsTokens' = IsTokens /\ Top' = Top /\ Replaced' = Replaced /\ DetectVacuum' = DetectVacuum
        BY <1>5, <2>3, <2>4, <2>5 DEF StoreTyped, TableTyped, CursorsTyped, QueueTyped, Queued, Gens,
            Gen, Prior, Floor, First, IsTokens, Top, NoCursor, Replaced, Unseen, DetectVacuum
      <3>2. Counted' /\ CursorSettled' /\ InOrder'
        BY <1>5, <2>3, <2>4, <2>5, <3>1 DEF TableInv, Counted, CursorSettled, InOrder, Queued, Gens, NoCursor
      <3>3. \A r : Unread(r)' => Unread(r)
        BY <1>3, <1>10 DEF Unread
      <3>4. RowsRead'
        BY <1>5, <2>4, <3>1, <3>3 DEF TableInv, RowsRead, WantedRow
      <3> QED BY <3>1, <3>2, <3>4 DEF TableInv
    <2>6. CASE cursors' # cursors
      <3> DEFINE h == HandlerGen
      <3>1. cursors[h] = NoCursor /\ cursors' = [cursors EXCEPT ![h] = [end |-> First, seen |-> Unseen]]
        BY <2>4, <2>6 DEF Handled
      <3>2. h = ReadGen
        BY <1>1, <1>12, <3>1
      <3>3. /\ CursorsTyped' /\ Gen' = h /\ Prior' = [end |-> First, seen |-> Unseen] /\ Prior' # NoCursor
            /\ Floor' = First /\ First' = First
            /\ cursors'[h] = [end |-> First, seen |-> Unseen]
            /\ \A g \in Gens : g # h => cursors'[g] = cursors[g]
        <4>1. h \in Gens /\ Gen <= h /\ First \in Nat /\ Unseen \in Int
          BY <1>1, <3>2 DEF Unseen
        <4> HIDE DEF h
        <4> QED BY <1>5, <3>1, <4>1, GenAfter
      <3>4. StoreTyped'
        BY <1>5, <2>3, <2>4, <3>3 DEF StoreTyped, TableTyped, QueueTyped, Queued, Gens
      <3>5. Counted'
        <4>1. cursors'[0] # NoCursor
          BY <1>1, <3>2, <3>3, GenIs
        <4>2. Replaced' = [end |-> First, seen |-> Unseen]
          BY <3>3 DEF Replaced, Unseen
        <4> QED BY <1>1, <1>5, <3>2, <3>3, <4>1, <4>2 DEF Counted, NoCursor
      <3>6. Top' = Top /\ IsTokens' = IsTokens
        BY <1>5, <3>3 DEF Top, IsTokens
      <3>7. CursorSettled'
        BY <1>1, <3>3, <3>6, TopIs DEF CursorSettled, DetectVacuum, Unseen
      <3>8. InOrder'
        <4>1. ASSUME NEW g \in Gens PROVE IF cursors'[g] = NoCursor THEN endOf[g] = 0 ELSE endOf[g] <= cursors'[g].end
          <5>1. CASE g # h
            BY <3>3, <5>1 DEF TableInv, InOrder
          <5>2. CASE g = h
            <6>1. endOf[h] = 0
              BY <1>1, <3>1, <3>2 DEF TableInv, InOrder
            <6> QED BY <1>1, <3>3, <5>2, <6>1
          <5> QED BY <5>1, <5>2
        <4>2. \A i \in Queued : queue[i].gen # h /\ queue[i].gen \in Gens
          BY <3>1 DEF TableInv, InOrder, StoreTyped, QueueTyped
        <4> QED BY <1>5, <2>3, <3>3, <4>1, <4>2 DEF TableInv, InOrder, Queued, Gens, NoCursor
      <3>9. RowsRead'
        <4>1. \A r \in rows : First <= r.id /\ r.id \in Nat
          BY DEF StoreTyped, TableTyped, Readable
        <4> QED BY <1>1, <1>5, <3>3, <4>1 DEF RowsRead
      <3> QED BY <3>4, <3>5, <3>7, <3>8, <3>9 DEF TableInv
    <2> QED BY <2>5, <2>6
  <1> QED BY <1>1, <1>7, <1>13, <1>14

-----------------------------------------------------------------------------
(* An upload *)

\* The queue without its first capture.
LEMMA TailIs ==
  ASSUME QueueTyped, queue # << >>, queue' = Tail(queue)
  PROVE  /\ QueueTyped' /\ 1 \in Queued /\ Head(queue) = queue[1]
         /\ Queued \subseteq Nat \ {0} /\ Queued' \subseteq Nat \ {0}
         /\ \A i \in Queued' : i + 1 \in Queued /\ queue'[i] = queue[i + 1]
         /\ \A i \in Queued : i # 1 => i - 1 \in Queued' /\ queue'[i - 1] = queue[i]
         /\ \A i \in Queued : queue[i] \in SlotT
         /\ DOMAIN queue = Queued /\ DOMAIN queue' = Queued'
PROOF
  <1>1. queue \in Seq(SlotT) /\ queue' \in Seq(SlotT) /\ Len(queue) \in Nat /\ Len(queue) # 0
    BY DEF QueueTyped
  <1>2. Len(queue') = Len(queue) - 1 /\ \A i \in 1 .. Len(queue) - 1 : queue'[i] = queue[i + 1]
    BY <1>1
  <1>3. /\ 1 \in Queued /\ Head(queue) = queue[1]
        /\ Queued \subseteq Nat \ {0} /\ Queued' \subseteq Nat \ {0}
        /\ DOMAIN queue = Queued /\ DOMAIN queue' = Queued'
    BY <1>1 DEF Queued
  <1>4. \A i \in Queued' : i + 1 \in Queued /\ queue'[i] = queue[i + 1]
    BY <1>1, <1>2 DEF Queued
  <1>5. \A i \in Queued : i # 1 => i - 1 \in Queued' /\ queue'[i - 1] = queue[i]
    <2> SUFFICES ASSUME NEW i \in Queued, i # 1 PROVE i - 1 \in Queued' /\ queue'[i - 1] = queue[i]
      OBVIOUS
    <2>1. i - 1 \in 1 .. Len(queue) - 1 /\ (i - 1) + 1 = i
      BY <1>1 DEF Queued
    <2> QED BY <1>2, <2>1 DEF Queued
  <1>6. \A i \in Queued : queue[i] \in SlotT
    BY <1>1 DEF Queued
  <1>7. QueueTyped'
    BY <1>1, <1>4 DEF QueueTyped, Gens
  <1> QED BY <1>3, <1>4, <1>5, <1>6, <1>7

\* What the backend takes no longer waits, and is held.
LEMMA AcceptedStays ==
  ASSUME QueueTyped, queue # << >>, queue' = Tail(queue), held' = held \cup queue[1].body, NEW n, Captured(n)
  PROVE  Captured(n)'
PROOF
  <1>1. CASE n \in held
    BY <1>1 DEF Captured
  <1>2. CASE \E i \in Queued : n \in queue[i].body
    <2>1. PICK i \in Queued : n \in queue[i].body
      BY <1>2
    <2>2. i = 1 \/ (i - 1 \in Queued' /\ queue'[i - 1] = queue[i])
      BY TailIs
    <2> QED BY <2>1, <2>2, TailIs DEF Captured
  <1> QED BY <1>1, <1>2, TailIs DEF Captured

\* The backend's answer to the first capture: it follows what the backend holds, so it
\* is taken, or a capture of a generation without a watermark is.
LEMMA TableUploads ==
  ASSUME RowAssumption, StoreTyped, ~IsTokens, TableInv, RowUpload
  PROVE  StoreTyped' /\ TableInv'
PROOF
  <1> DEFINE b == queue[1]
  <1>0. queue # << >> /\ queue' = Tail(queue) /\ QueueTyped
    BY DEF RowUpload, StoreTyped
  <1>1. /\ QueueTyped' /\ 1 \in Queued /\ Head(queue) = b
        /\ Queued \subseteq Nat \ {0} /\ Queued' \subseteq Nat \ {0}
        /\ \A i \in Queued' : i + 1 \in Queued /\ queue'[i] = queue[i + 1]
        /\ \A i \in Queued : queue[i] \in SlotT
    BY <1>0, TailIs
  <1>2. /\ b.start \in Nat /\ b.end \in Nat /\ b.gen \in Gens /\ b.start < b.end
        /\ endOf[b.gen] \in Nat
    BY <1>0, <1>1 DEF SlotT, QueueTyped, StoreTyped
  <1>3. /\ endOf[b.gen] <= b.start /\ cursors[b.gen] # NoCursor /\ b.end <= cursors[b.gen].end
        /\ \A k \in Queued : 1 < k /\ queue[k].gen = b.gen => b.end <= queue[k].start
    BY <1>1 DEF TableInv, InOrder
  <1>4. /\ held' = held \cup b.body /\ endOf' = [endOf EXCEPT ![b.gen] = b.end]
        /\ UNCHANGED <<cursors, store, rows, pages, quarantined, passed, shrunk, disturbed, written, changes>>
    BY <1>1, <1>2, <1>3 DEF RowUpload
  <1>5. /\ StoreTyped' /\ Gen' = Gen /\ Prior' = Prior /\ Floor' = Floor /\ First' = First
        /\ IsTokens' = IsTokens /\ Top' = Top /\ Replaced' = Replaced /\ DetectVacuum' = DetectVacuum
    BY <1>1, <1>2, <1>4 DEF StoreTyped, TableTyped, CursorsTyped, Gens,
        Gen, Prior, Floor, First, IsTokens, Top, NoCursor, Replaced, Unseen, DetectVacuum
  <1>6. Counted' /\ CursorSettled'
    BY <1>4, <1>5 DEF TableInv, Counted, CursorSettled, NoCursor
  <1>7. endOf'[b.gen] = b.end /\ \A g \in Gens : g # b.gen => endOf'[g] = endOf[g]
    BY <1>2, <1>4 DEF StoreTyped
  <1>8. InOrder'
    <2>1. ASSUME NEW g \in Gens PROVE IF cursors[g] = NoCursor THEN endOf'[g] = 0 ELSE endOf'[g] <= cursors[g].end
      BY <1>3, <1>7 DEF TableInv, InOrder
    <2>2. ASSUME NEW i \in Queued'
          PROVE  /\ cursors[queue'[i].gen] # NoCursor /\ queue'[i].end <= cursors[queue'[i].gen].end
                 /\ endOf'[queue'[i].gen] <= queue'[i].start
      <3>1. i + 1 \in Queued /\ queue'[i] = queue[i + 1] /\ 1 < i + 1 /\ queue[i + 1].gen \in Gens
        <4>1. i + 1 \in Queued /\ queue'[i] = queue[i + 1] /\ 1 < i + 1
          BY <1>1
        <4> QED BY <1>0, <4>1 DEF QueueTyped
      <3>2. /\ cursors[queue[i + 1].gen] # NoCursor /\ queue[i + 1].end <= cursors[queue[i + 1].gen].end
            /\ endOf[queue[i + 1].gen] <= queue[i + 1].start
        BY <3>1 DEF TableInv, InOrder
      <3> QED BY <1>3, <1>7, <3>1, <3>2
    <2>3. ASSUME NEW i \in Queued', NEW k \in Queued', i < k, queue'[k].gen = queue'[i].gen
          PROVE  queue'[i].end <= queue'[k].start
      <3>1. /\ i + 1 \in Queued /\ queue'[i] = queue[i + 1] /\ k + 1 \in Queued /\ queue'[k] = queue[k + 1]
            /\ i + 1 < k + 1
        BY <1>1, <2>3
      <3> QED BY <2>3, <3>1 DEF TableInv, InOrder
    <2> QED BY <1>4, <2>1, <2>2, <2>3 DEF InOrder, Gens, NoCursor
  <1>9. RowsRead'
    <2>1. \A n : Captured(n) => Captured(n)'
      BY <1>0, <1>4, AcceptedStays
    <2>2. \A r : Unread(r)' => Unread(r)
      BY <1>4, <2>1 DEF Unread
    <2> QED BY <1>4, <1>5, <2>2 DEF TableInv, RowsRead, WantedRow
  <1> QED BY <1>5, <1>6, <1>8, <1>9 DEF TableInv

-----------------------------------------------------------------------------
(* RowCollector: the invariant of the table that only grows *)

\* A capture is of rows that no capture before it and nothing the backend holds has,
\* or it is one of rows that were all captured before.
Ahead(i) == endOf[0] <= queue[i].start /\ \A j \in Queued : j < i => queue[j].end <= queue[i].start
Repeated(i) == queue[i].end <= endOf[0] \/ \E j \in Queued : j < i /\ queue[i].end <= queue[j].end

\* The backend is behind the row, or a capture goes past it.
Below(r) == r.id < endOf[0] \/ \E i \in Queued : r.id < queue[i].end

\* The table has one generation.
TokenCursors == \A g \in Gens : g # 0 => cursors[g] = NoCursor
TokenEnds ==
    /\ endOf[0] <= Top + 1 /\ Floor <= Top + 1
    /\ \A i \in Queued : queue[i].gen = 0 /\ queue[i].end <= Top + 1

\* Nothing goes past a row that is too large.
Blocked ==
    \A r \in rows : r.kind = "big" =>
       Floor <= r.id /\ endOf[0] <= r.id /\ \A i \in Queued : queue[i].end <= r.id
\* Only what the models said is in the table.
TokenKinds == \A r \in rows : r.kind \in {"talk", "big"}

\* Until a row is too large the cursor is behind every capture and each is of new
\* rows; from then on what is before that row was captured once.
Flowing ==
    /\ endOf[0] <= Floor /\ \A i \in Queued : Ahead(i) /\ queue[i].end <= Floor
    /\ \A r \in rows : r.id < Floor => Below(r)
Halted == \E b \in rows : b.kind = "big" /\ \A r \in rows : r.id < b.id => Below(r)

\* Every capture is new or a repetition.
TokenQueue ==
    /\ \A i \in Queued : Ahead(i) \/ Repeated(i)
    /\ Flowing \/ Halted

\* Where a row before a capture is, one in its range, one before the end of what the
\* backend holds, and one before the cursor.
BeforeCaptures ==
    \A i \in Queued : \A r \in rows : r.id < queue[i].start =>
       r.n \in held \/ \E j \in Queued : j < i /\ r.n \in queue[j].body /\ r.id < queue[j].end
InCaptures ==
    \A i \in Queued : \A r \in rows : queue[i].start <= r.id /\ r.id < queue[i].end => r.n \in queue[i].body
AtBackend == \A r \in rows : r.id < endOf[0] => r.n \in held
BeforeCursor ==
    \A r \in rows : r.id < Floor =>
       r.n \in held \/ \E i \in Queued : r.n \in queue[i].body /\ r.id < queue[i].end

TokenInv ==
    /\ TokenCursors /\ TokenEnds /\ Blocked /\ TokenKinds /\ TokenQueue
    /\ BeforeCaptures /\ InCaptures /\ AtBackend /\ BeforeCursor

\* What the polls of this table read: everything from the cursor on.
LEMMA TokenRead ==
  ASSUME RowAssumption, StoreTyped, IsTokens, TokenInv
  PROVE  /\ ReadGen = 0 /\ 0 \in Gens /\ ReadGen \in Nat /\ ReadFrom = Floor /\ Gen = 0 /\ First = 0
         /\ ~DetectVacuum /\ Floor \in Nat /\ endOf[0] \in Nat
         /\ Prior = cursors[0] /\ (Prior = NoCursor => Floor = 0)
         /\ \A r \in rows : r.id \in Nat
         /\ \A i \in Queued : queue[i].start \in Nat /\ queue[i].end \in Nat /\ queue[i].start < queue[i].end
         /\ Queued \subseteq Nat /\ Top + 1 \in Nat /\ Top \in Int
PROOF
  <1>1. Gen \in Gens /\ 0 \in Gens
    BY GenIs
  <1>2. Gen = 0
    BY <1>1, GenIs DEF TokenInv, TokenCursors
  <1>3. ~DetectVacuum
    BY DEF DetectVacuum
  <1>4. \A i \in Queued : queue[i] \in SlotT /\ queue[i].start < queue[i].end
    BY DEF Queued, StoreTyped, QueueTyped
  <1>5. \A r \in rows : r.id \in Nat
    BY DEF StoreTyped, TableTyped, Readable
  <1>6. ReadGen = 0 /\ ReadFrom = Floor
    BY <1>2, <1>3 DEF ReadGen, ReadFrom
  <1>7. endOf[0] \in Nat /\ Queued \subseteq Nat
    BY <1>1 DEF StoreTyped, Queued
  <1> QED BY <1>1, <1>2, <1>3, <1>4, <1>5, <1>6, <1>7, GenIs, TopIs DEF SlotT

\* Nothing that concerns the rows of gemini, but perhaps a first cursor that stands
\* where its absence does.
LEMMA TokenStays ==
  ASSUME RowAssumption, StoreTyped, IsTokens, TokenInv,
         UNCHANGED <<store, rows, queue, held, endOf>>,
         Floor' = Floor, TokenCursors'
  PROVE  TokenInv'
PROOF
  <1>1. Top' = Top
    BY DEF Top, First, IsTokens
  <1>2. (Flowing => Flowing') /\ (Halted => Halted')
    BY DEF Flowing, Halted, Below, Ahead, Queued
  <1>3. TokenQueue'
    BY <1>2 DEF TokenInv, TokenQueue, Ahead, Repeated, Queued
  <1> QED BY <1>1, <1>3 DEF TokenInv, TokenEnds, Blocked, TokenKinds,
          BeforeCaptures, InCaptures, AtBackend, BeforeCursor, Queued

\* The application writes a row.
LEMMA TokenWrite ==
  ASSUME RowAssumption, StoreTyped, IsTokens, TokenInv, NEW k \in RowKinds, Write(k)
  PROVE  StoreTyped' /\ TokenInv'
PROOF
  <1>1. PICK kept, new :
            /\ IsTokens => kept = rows
            /\ new.id = Top + 1 /\ new.kind = k
            /\ rows' = kept \cup {new}
            /\ StoreTyped' /\ ChangeFrame /\ Top' = Top + 1
            /\ k \in KindsOf
    BY WriteGives
  <1>2. rows' = rows \cup {new}
    BY <1>1
  <1>3. k \in {"talk", "big"}
    BY <1>1 DEF KindsOf, RowAssumption, IsTokens
  <1>4. UNCHANGED <<cursors, queue, held, endOf>> /\ Floor' = Floor
    BY <1>1 DEF ChangeFrame
  <1>5. /\ Floor \in Nat /\ endOf[0] \in Nat /\ Top + 1 \in Nat /\ Top \in Int
        /\ \A r \in rows : r.id \in Nat
        /\ \A i \in Queued : queue[i].start \in Nat /\ queue[i].end \in Nat /\ queue[i].start < queue[i].end
    BY TokenRead
  <1>6. /\ endOf[0] <= new.id /\ Floor <= new.id /\ new.id \in Nat
        /\ \A i \in Queued : queue[i].start < new.id /\ queue[i].end <= new.id
    BY <1>1, <1>5 DEF TokenInv, TokenEnds
  <1>7. TokenCursors' /\ TokenKinds'
    BY <1>1, <1>2, <1>3, <1>4 DEF TokenInv, TokenCursors, TokenKinds, Gens, NoCursor
  <1>8. TokenEnds'
    BY <1>1, <1>4, <1>5 DEF TokenInv, TokenEnds, Queued
  <1>9. Blocked'
    BY <1>2, <1>4, <1>6 DEF TokenInv, Blocked, Queued
  <1>10. TokenQueue'
    <2>1. \A i \in Queued : (Ahead(i) => Ahead(i)') /\ (Repeated(i) => Repeated(i)')
      BY <1>4 DEF Ahead, Repeated, Queued
    <2>2. \A r : Below(r) => Below(r)'
      BY <1>4 DEF Below, Queued
    <2>3. \A r \in rows' : r.id < Floor => r \in rows
      BY <1>2, <1>5, <1>6
    <2>4. ASSUME Halted PROVE Halted'
      <3>1. PICK b \in rows : b.kind = "big" /\ \A r \in rows : r.id < b.id => Below(r)
        BY <2>4 DEF Halted
      <3>2. b \in rows' /\ b.id < Top + 1
        BY <1>2, <1>5, TopIs
      <3>3. \A r \in rows' : r.id < b.id => r \in rows
        BY <1>1, <1>2, <1>5, <3>2
      <3> QED BY <2>2, <3>1, <3>2, <3>3 DEF Halted
    <2>5. ASSUME Flowing PROVE Flowing'
      BY <1>4, <2>1, <2>2, <2>3, <2>5 DEF Flowing, Queued
    <2>6. \A i \in Queued' : i \in Queued
      BY <1>4 DEF Queued
    <2> QED BY <2>1, <2>4, <2>5, <2>6 DEF TokenInv, TokenQueue
  <1>11. BeforeCaptures' /\ InCaptures'
    BY <1>2, <1>4, <1>5, <1>6 DEF TokenInv, BeforeCaptures, InCaptures, Queued
  <1>12. AtBackend' /\ BeforeCursor'
    BY <1>2, <1>4, <1>5, <1>6 DEF TokenInv, AtBackend, BeforeCursor, Queued
  <1> QED BY <1>1, <1>7, <1>8, <1>9, <1>10, <1>11, <1>12 DEF TokenInv

\* A poll adds the captures s.
Adds(s) == queue' = queue \o s

\* A poll that captures what there is up to the first row that is too large.
LEMMA TokenPolled ==
  ASSUME RowAssumption, StoreTyped, IsTokens, TokenInv,
         UNCHANGED <<store, rows, held, endOf>>,
         NEW s, CutOf(0, Filtered, s), Adds(s),
         TokenCursors', Floor' \in Nat, Floor <= Floor', Floor' <= Top + 1,
         \/ Floor' = Floor /\ \E b \in rows : b.kind = "big"
         \/ (\A r \in rows : r.kind # "big") /\ \A r \in rows : r.id < Floor'
  PROVE  TokenInv'
PROOF
  <1> DEFINE New(j) == Len(queue) + j
  <1>1. /\ 0 \in Gens /\ ReadFrom = Floor /\ First = 0
        /\ Floor \in Nat /\ endOf[0] \in Nat
        /\ \A r \in rows : r.id \in Nat
        /\ \A i \in Queued : queue[i].start \in Nat /\ queue[i].end \in Nat /\ queue[i].start < queue[i].end
        /\ Queued \subseteq Nat /\ Top + 1 \in Nat /\ Top \in Int
    BY TokenRead
  <1>2. /\ \A i \in Queued : i \in Queued' /\ queue'[i] = queue[i]
        /\ \A j \in 1 .. Len(s) : New(j) \in Queued' /\ queue'[New(j)] = s[j]
        /\ \A i \in Queued' : i \in Queued \/ \E j \in 1 .. Len(s) : i = New(j)
        /\ \A i \in Queued, j \in 1 .. Len(s) : i < New(j)
        /\ \A i \in Queued, j \in 1 .. Len(s) : ~ (New(j) < i)
        /\ \A j, k \in 1 .. Len(s) : New(j) < New(k) <=> j < k
    <2> DEFINE g == 0
    <2>1. QueueTyped /\ g \in Gens /\ CutOf(g, Filtered, s)
      BY <1>1 DEF StoreTyped
    <2> HIDE DEF g
    <2>2. /\ \A i \in Queued : i \in Queued' /\ queue'[i] = queue[i]
          /\ \A i \in Queued' : \/ i \in Queued
                                \/ /\ i - Len(queue) \in 1 .. Len(s) /\ queue'[i] = s[i - Len(queue)]
                                   /\ i > Len(queue)
          /\ \A j \in 1 .. Len(s) : Len(queue) + j \in Queued' /\ queue'[Len(queue) + j] = s[j]
          /\ Queued' \subseteq Nat /\ Len(queue) \in Nat
      <3>0. queue' = queue \o s
        BY DEF Adds
      <3>1. QueueTyped'
        BY <2>1, <3>0, Appended
      <3>2. \A i \in Queued : i \in Queued' /\ queue'[i] = queue[i]
        BY <2>1, <3>0, Appended
      <3>3. \A i \in Queued' : \/ i \in Queued
                                \/ /\ i - Len(queue) \in 1 .. Len(s) /\ queue'[i] = s[i - Len(queue)]
                                   /\ i > Len(queue)
        BY <2>1, <3>0, Appended
      <3>4. \A j \in 1 .. Len(s) : Len(queue) + j \in Queued' /\ queue'[Len(queue) + j] = s[j]
        BY <2>1, <3>0, Appended
      <3>5. Queued' \subseteq Nat /\ Len(queue) \in Nat
        BY <2>1, <3>0, Appended
      <3> QED BY <3>1, <3>2, <3>3, <3>4, <3>5
    <2>3. Queued = 1 .. Len(queue) /\ Len(queue) \in Nat
      BY <2>2 DEF Queued
    <2>4. ASSUME NEW i \in Queued' PROVE i \in Queued \/ \E j \in 1 .. Len(s) : i = New(j)
      <3>1. i \in Nat /\ i = New(i - Len(queue))
        BY <2>2
      <3> QED BY <2>2, <3>1
    <2>5. /\ \A i \in Queued, j \in 1 .. Len(s) : i < New(j)
          /\ \A i \in Queued, j \in 1 .. Len(s) : ~ (New(j) < i)
          /\ \A j, k \in 1 .. Len(s) : New(j) < New(k) <=> j < k
      BY <2>3
    <2> QED BY <2>2, <2>4, <2>5
  <1> HIDE DEF New
  <1>3. \A r \in rows : Floor <= r.id <=> r \in Filtered
    <2>1. \A r \in rows : r.kind # "foreign" /\ r.kind # "empty"
      BY DEF TokenInv, TokenKinds
    <2>2. PlannedOut = {}
      BY DEF PlannedOut, IsTokens
    <2> QED BY <1>1, <2>1, <2>2, SelectedIs
  <1>4. Filtered \subseteq rows /\ \A b \in rows : b.kind = "big" => b \in Filtered
    BY <1>3, SelectedIs DEF TokenInv, Blocked
  <1>5. /\ s \in Seq(SlotT) /\ Len(s) \in Nat
        /\ \A j \in 1 .. Len(s) :
              /\ s[j].gen = 0 /\ s[j].start < s[j].end /\ s[j].start \in Nat /\ s[j].end \in Nat
              /\ Floor <= s[j].start
              /\ \E r \in rows : r.id = s[j].start
              /\ \E r \in rows : s[j].end = r.id + 1 /\ Floor <= r.id
              /\ \A r \in rows : s[j].start <= r.id /\ r.id < s[j].end => r.n \in s[j].body
              /\ \A b \in rows : b.kind = "big" => s[j].end <= b.id
        /\ \A j, k \in 1 .. Len(s) : j < k => s[j].end <= s[k].start
    <2>1. s \in Seq(SlotT) /\ \A j, k \in 1 .. Len(s) : j < k => s[j].end <= s[k].start
      BY DEF CutOf
    <2>2. ASSUME NEW j \in 1 .. Len(s)
          PROVE  /\ s[j].gen = 0 /\ s[j].start < s[j].end /\ s[j].start \in Nat /\ s[j].end \in Nat
                 /\ Floor <= s[j].start
                 /\ \E r \in rows : r.id = s[j].start
                 /\ \E r \in rows : s[j].end = r.id + 1 /\ Floor <= r.id
                 /\ \A r \in rows : s[j].start <= r.id /\ r.id < s[j].end => r.n \in s[j].body
                 /\ \A b \in rows : b.kind = "big" => s[j].end <= b.id
      <3>1. s[j].start \in Nat /\ s[j].end \in Nat
        <4>1. s[j] \in SlotT
          BY <2>1
        <4> QED BY <4>1 DEF SlotT
      <3>2. /\ s[j].gen = 0 /\ s[j].start < s[j].end
            /\ \E r \in Filtered : r.id = s[j].start
            /\ \E r \in Filtered : s[j].end = r.id + 1
            /\ \A r \in Filtered : s[j].start <= r.id /\ r.id < s[j].end => r.n \in s[j].body
            /\ \A r \in Filtered : IsTokens /\ r.kind = "big" => s[j].end <= r.id
        BY DEF CutOf
      <3>3. Floor <= s[j].start
        BY <1>3, <1>4, <3>2
      <3>4. ASSUME NEW r \in rows, s[j].start <= r.id, r.id < s[j].end PROVE r.n \in s[j].body
        <4>1. Floor <= r.id
          BY <1>1, <3>1, <3>3, <3>4
        <4> QED BY <1>3, <3>2, <3>4, <4>1
      <3> QED BY <1>3, <1>4, <3>1, <3>2, <3>3, <3>4
    <2>3. Len(s) \in Nat
      BY <2>1
    <2> QED BY <2>1, <2>2, <2>3
  <1>6. ASSUME NEW r \in rows, Floor <= r.id, r.kind # "big", \A b \in rows : b.kind = "big" => r.id < b.id
        PROVE  \E j \in 1 .. Len(s) : s[j].start <= r.id /\ r.id < s[j].end /\ r.n \in s[j].body
    BY <1>3, <1>4, <1>6 DEF CutOf
  <1>7. ASSUME NEW j \in 1 .. Len(s) PROVE s[j].end <= Top + 1
    BY <1>1, <1>5, TopIs
  <1>8. /\ Top' = Top /\ First' = First
        /\ \A r : Below(r) => Below(r)'
    BY <1>2 DEF Top, First, IsTokens, Below
  <1>9. \A i \in Queued' : i \in Queued \/ \E j \in 1 .. Len(s) : i = New(j) /\ queue'[i] = s[j]
    BY <1>2
  <1>10. \A i \in Queued, j \in Queued' : j < i => j \in Queued
    BY <1>2, <1>9
  <1>11. \A i \in Queued : (Ahead(i) => Ahead(i)') /\ (Repeated(i) => Repeated(i)')
    <2> SUFFICES ASSUME NEW i \in Queued PROVE (Ahead(i) => Ahead(i)') /\ (Repeated(i) => Repeated(i)')
      OBVIOUS
    <2>1. ASSUME Ahead(i) PROVE Ahead(i)'
      BY <1>2, <1>10, <2>1 DEF Ahead
    <2>2. ASSUME Repeated(i) PROVE Repeated(i)'
      BY <1>2, <2>2 DEF Repeated
    <2> QED BY <2>1, <2>2
  <1>12. TokenEnds'
    <2>1. \A i \in Queued' : queue'[i].gen = 0 /\ queue'[i].end <= Top + 1
      BY <1>2, <1>5, <1>7, <1>9 DEF TokenInv, TokenEnds
    <2> QED BY <1>8, <2>1 DEF TokenInv, TokenEnds
  <1>13. Blocked'
    <2>1. \A b \in rows : b.kind = "big" => Floor' = Floor
      OBVIOUS
    <2>2. ASSUME NEW b \in rows, b.kind = "big", NEW i \in Queued' PROVE queue'[i].end <= b.id
      BY <1>2, <1>5, <1>9, <2>2 DEF TokenInv, Blocked
    <2> QED BY <2>1, <2>2 DEF TokenInv, Blocked
  <1>14. ASSUME Flowing, NEW n \in Queued', NEW j \in 1 .. Len(s), n = New(j) PROVE Ahead(n)'
    <2>1. endOf[0] <= s[j].start
      BY <1>1, <1>5, <1>14 DEF Flowing
    <2>2. ASSUME NEW i \in Queued', i < n PROVE queue'[i].end <= s[j].start
      <3>1. CASE i \in Queued
        BY <1>1, <1>2, <1>5, <1>14, <3>1 DEF Flowing
      <3>2. CASE i \notin Queued
        <4>1. PICK k \in 1 .. Len(s) : i = New(k) /\ queue'[i] = s[k]
          BY <1>9, <3>2
        <4>2. k < j
          BY <1>2, <1>14, <2>2, <4>1
        <4> QED BY <1>5, <4>1, <4>2
      <3> QED BY <3>1, <3>2
    <2>3. queue'[n] = s[j]
      BY <1>2, <1>14
    <2> QED BY <2>1, <2>2, <2>3 DEF Ahead
  <1>15. ASSUME Halted, NEW n \in Queued', NEW j \in 1 .. Len(s), n = New(j) PROVE Repeated(n)'
    <2>1. PICK b \in rows : b.kind = "big" /\ \A r \in rows : r.id < b.id => Below(r)
      BY <1>15 DEF Halted
    <2>2. PICK r \in rows : s[j].end = r.id + 1
      BY <1>5
    <2>3. r.id < b.id
      BY <1>1, <1>5, <2>1, <2>2
    <2>4. Below(r)
      BY <2>1, <2>3
    <2>5. queue'[n] = s[j] /\ \A i \in Queued : i < n
      BY <1>2, <1>15
    <2>6. CASE r.id < endOf[0]
      <3>1. s[j].end <= endOf[0]
        BY <1>1, <2>2, <2>6
      <3> QED BY <2>5, <3>1 DEF Repeated
    <2>7. CASE \E i \in Queued : r.id < queue[i].end
      <3>1. PICK i \in Queued : s[j].end <= queue[i].end
        BY <1>1, <2>2, <2>7
      <3>2. i \in Queued' /\ queue'[i] = queue[i] /\ i < n
        BY <1>2, <2>5
      <3> QED BY <2>5, <3>1, <3>2 DEF Repeated
    <2> QED BY <2>4, <2>6, <2>7 DEF Below
  <1>16. \A i \in Queued' : Ahead(i)' \/ Repeated(i)'
    BY <1>2, <1>11, <1>14, <1>15 DEF TokenInv, TokenQueue
  <1>17. ASSUME NEW r \in rows, NEW j \in 1 .. Len(s), r.id < s[j].end PROVE Below(r)'
    BY <1>2, <1>17 DEF Below
  <1>18. ASSUME Halted PROVE Halted'
    BY <1>8, <1>18 DEF Halted
  <1>19. ASSUME Flowing, \E b \in rows : b.kind = "big" PROVE Halted'
    <2> DEFINE B == {b.id : b \in {q \in rows : q.kind = "big"}}
    <2>1. B \subseteq Nat /\ B # {}
      BY <1>1, <1>19
    <2>2. PICK m \in B : \A i \in B : m <= i
      <3> HIDE DEF B
      <3> QED BY <2>1, LeastIn
    <2>3. PICK b \in rows : b.kind = "big" /\ b.id = m
      BY <2>2
    <2>4. \A q \in rows : q.kind = "big" => b.id <= q.id
      BY <2>2, <2>3
    <2>5. ASSUME NEW r \in rows, r.id < b.id PROVE Below(r)'
      <3>1. r.id \in Nat /\ b.id \in Nat
        BY <1>1
      <3>2. CASE r.id < Floor
        BY <1>8, <1>19, <3>2 DEF Flowing
      <3>3. CASE Floor <= r.id
        <4>1. r.kind # "big"
          BY <2>4, <2>5, <3>1
        <4>2. \A q \in rows : q.kind = "big" => r.id < q.id
          BY <1>1, <2>4, <2>5, <3>1
        <4>3. PICK j \in 1 .. Len(s) : r.id < s[j].end
          BY <1>6, <3>3, <4>1, <4>2
        <4> QED BY <1>17, <4>3
      <3> QED BY <1>1, <3>1, <3>2, <3>3
    <2> QED BY <2>3, <2>5 DEF Halted
  <1>20. ASSUME Flowing, \A r \in rows : r.kind # "big", \A r \in rows : r.id < Floor' PROVE Flowing'
    <2>1. endOf'[0] <= Floor'
      BY <1>1, <1>20 DEF Flowing
    <2>2. \A i \in Queued' : Ahead(i)'
      BY <1>2, <1>11, <1>14, <1>20 DEF Flowing
    <2>3. \A i \in Queued' : queue'[i].end <= Floor'
      <3>1. ASSUME NEW i \in Queued PROVE queue'[i].end <= Floor'
        <4>1. queue[i].end <= Floor
          BY <1>20 DEF Flowing
        <4> QED BY <1>1, <1>2, <4>1
      <3>2. ASSUME NEW j \in 1 .. Len(s) PROVE s[j].end <= Floor'
        BY <1>1, <1>5, <1>20
      <3> QED BY <1>9, <3>1, <3>2
    <2>4. ASSUME NEW r \in rows PROVE Below(r)'
      <3>1. CASE r.id < Floor
        BY <1>8, <1>20, <3>1 DEF Flowing
      <3>2. CASE Floor <= r.id
        <4>1. PICK j \in 1 .. Len(s) : r.id < s[j].end
          BY <1>6, <1>20, <3>2
        <4> QED BY <1>17, <4>1
      <3> QED BY <1>1, <3>1, <3>2
    <2> QED BY <2>1, <2>2, <2>3, <2>4 DEF Flowing
  <1>21. TokenQueue'
    <2>1. Flowing' \/ Halted'
      BY <1>18, <1>19, <1>20 DEF TokenInv, TokenQueue, Halted
    <2> QED BY <1>16, <2>1 DEF TokenQueue
  <1>22. BeforeCaptures'
    <2> SUFFICES ASSUME NEW i \in Queued', NEW r \in rows, r.id < queue'[i].start, r.n \notin held
                 PROVE  \E k \in Queued' : k < i /\ r.n \in queue'[k].body /\ r.id < queue'[k].end
      BY DEF BeforeCaptures
    <2>1. CASE i \in Queued
      BY <1>2, <2>1 DEF TokenInv, BeforeCaptures
    <2>2. CASE i \notin Queued
      <3>1. PICK j \in 1 .. Len(s) : i = New(j) /\ queue'[i] = s[j]
        BY <1>9, <2>2
      <3>2. CASE r.id < Floor
        <4>1. PICK k \in Queued : r.n \in queue[k].body /\ r.id < queue[k].end
          BY <3>2 DEF TokenInv, BeforeCursor
        <4>2. k \in Queued' /\ queue'[k] = queue[k] /\ k < i
          BY <1>2, <3>1
        <4> QED BY <4>1, <4>2
      <3>3. CASE Floor <= r.id
        <4>1. /\ r.id < s[j].start /\ s[j].start < s[j].end /\ s[j].start \in Nat /\ s[j].end \in Nat
              /\ r.id \in Nat /\ \A b \in rows : b.kind = "big" => s[j].end <= b.id
          BY <1>1, <1>5, <3>1
        <4>2. r.kind # "big" /\ \A b \in rows : b.kind = "big" => r.id < b.id
          BY <1>1, <4>1
        <4>3. PICK k \in 1 .. Len(s) : s[k].start <= r.id /\ r.id < s[k].end /\ r.n \in s[k].body
          BY <1>6, <3>3, <4>2
        <4>4. k < j
          <5>1. k # j
            BY <1>5, <4>1, <4>3
          <5>2. ~ (j < k)
            <6>1. s[k].start \in Nat
              BY <1>5
            <6>2. j < k => s[j].end <= s[k].start
              BY <1>5
            <6> QED BY <4>1, <4>3, <6>1, <6>2
          <5> QED BY <5>1, <5>2
        <4>5. New(k) \in Queued' /\ queue'[New(k)] = s[k] /\ New(k) < i
          BY <1>2, <3>1, <4>4
        <4> QED BY <4>3, <4>5
      <3> QED BY <1>1, <3>2, <3>3
    <2> QED BY <2>1, <2>2
  <1>23. InCaptures'
    BY <1>2, <1>5, <1>9 DEF TokenInv, InCaptures
  <1>24. AtBackend'
    BY DEF TokenInv, AtBackend
  <1>25. BeforeCursor'
    <2> SUFFICES ASSUME NEW r \in rows, r.id < Floor', r.n \notin held
                 PROVE  \E k \in Queued' : r.n \in queue'[k].body /\ r.id < queue'[k].end
      BY DEF BeforeCursor
    <2>1. CASE r.id < Floor
      BY <1>2, <2>1 DEF TokenInv, BeforeCursor
    <2>2. CASE Floor <= r.id
      <3>1. Floor' # Floor
        BY <1>1, <2>2
      <3>2. \A b \in rows : b.kind # "big"
        BY <3>1
      <3>3. PICK k \in 1 .. Len(s) : r.id < s[k].end /\ r.n \in s[k].body
        BY <1>6, <2>2, <3>2
      <3> QED BY <1>2, <3>3
    <2> QED BY <1>1, <2>1, <2>2
  <1>26. TokenKinds'
    BY DEF TokenInv, TokenKinds
  <1> QED BY <1>12, <1>13, <1>21, <1>22, <1>23, <1>24, <1>25, <1>26 DEF TokenInv

\* The handler of a throw that is not about a row writes the first cursor, nothing else.
LEMMA TokenHandled ==
  ASSUME RowAssumption, StoreTyped, IsTokens, TokenInv, store' = store, cursors' = Handled(cursors)
  PROVE  CursorsTyped' /\ TokenCursors' /\ Floor' = Floor
PROOF
  <1>1. /\ HandlerGen = 0 /\ 0 \in Gens /\ Gen = 0 /\ First = 0 /\ Prior = cursors[0]
        /\ Prior = NoCursor => Floor = 0
    BY TokenRead DEF HandlerGen, IsTokens
  <1>2. CASE cursors[0] # NoCursor
    <2>1. cursors' = cursors
      BY <1>1, <1>2 DEF Handled
    <2> QED BY <2>1 DEF StoreTyped, CursorsTyped, TokenInv, TokenCursors, Floor, Prior, Gen, First,
              IsTokens, Gens, NoCursor
  <1>3. CASE cursors[0] = NoCursor
    <2>1. cursors' = [cursors EXCEPT ![0] = [end |-> 0, seen |-> Unseen]]
      BY <1>1, <1>3 DEF Handled
    <2>2. Gen <= 0 /\ Unseen \in Int
      BY <1>1 DEF Unseen
    <2> DEFINE g == 0
               c == 0
    <2>3. /\ CursorsTyped' /\ Floor' = c /\ \A h \in Gens : h # g => cursors'[h] = cursors[h]
      <3>1. /\ g \in Gens /\ Gen <= g /\ c \in Nat
            /\ cursors' = [cursors EXCEPT ![g] = [end |-> c, seen |-> Unseen]]
        BY <1>1, <2>1, <2>2
      <3> HIDE DEF g, c
      <3> QED BY <2>2, <3>1, GenAfter
    <2> QED BY <1>1, <1>3, <2>3 DEF TokenInv, TokenCursors, Gens, NoCursor
  <1> QED BY <1>2, <1>3

\* A poll that finds rows, none too large.
LEMMA TokenPollsRows ==
  ASSUME RowAssumption, StoreTyped, IsTokens, TokenInv, PollRows
  PROVE  StoreTyped' /\ TokenInv'
PROOF
  <1> DEFINE c == Max(Ids(Selected)) + 1
  <1>1. /\ UNCHANGED <<store, rows, pages, held, endOf, written, changes>>
        /\ Selected # {} /\ Big = {}
        /\ SetCursor(ReadGen, c, Unseen)
        /\ shrunk' = FALSE /\ disturbed' = (disturbed /\ ~DetectVacuum)
    BY DEF PollRows, RowUnpolled, Looked
  <1>2. PICK s \in NewCaptures : queue' = queue \o s
    BY DEF PollRows
  <1>3. /\ ReadGen = 0 /\ 0 \in Gens /\ Gen = 0 /\ ReadFrom = Floor /\ Floor \in Nat
        /\ Top + 1 \in Nat /\ \A r \in rows : r.id \in Nat
    BY TokenRead
  <1>4. CutOf(0, Filtered, s)
    <2>1. ReadGen \in Nat
      BY <1>3
    <2> QED BY <1>3, <2>1, CapturesCut
  <1>5. /\ c \in Nat /\ c <= Top + 1 /\ Floor <= c /\ \A r \in Selected : r.id < c /\ r.id \in Nat
    BY <1>1, <1>3, SelectedIs, TopIs
  <1> HIDE DEF c
  <1> DEFINE g == 0
  <1>6. CursorsTyped' /\ Floor' = c /\ \A h \in Gens : h # g => cursors'[h] = cursors[h]
    <2>1. /\ g \in Gens /\ Gen <= g /\ Unseen \in Int
          /\ cursors' = [cursors EXCEPT ![g] = [end |-> c, seen |-> Unseen]]
      BY <1>1, <1>3 DEF SetCursor, Unseen
    <2> HIDE DEF g
    <2> QED BY <1>1, <1>5, <2>1, GenAfter
  <1>7. QueueTyped'
    <2>1. QueueTyped /\ g \in Gens /\ CutOf(g, Filtered, s)
      BY <1>3, <1>4 DEF StoreTyped
    <2> HIDE DEF g
    <2> QED BY <1>2, <2>1, Appended
  <1>8. StoreTyped'
    <2>1. TableTyped'
      BY <1>1 DEF StoreTyped, TableTyped, First, IsTokens
    <2>2. shrunk' \in BOOLEAN /\ disturbed' \in BOOLEAN
      BY <1>1
    <2> QED BY <1>1, <1>6, <1>7, <2>1, <2>2 DEF StoreTyped, Gens
  <1>9. TokenCursors'
    BY <1>6 DEF TokenInv, TokenCursors, Gens, NoCursor
  <1>10. \A r \in rows : r.kind # "big" /\ r.id < Floor'
    <2> SUFFICES ASSUME NEW r \in rows PROVE r.kind # "big" /\ r.id < c
      BY <1>6
    <2>1. r.kind \in {"talk", "big"} /\ (r.kind = "big" => Floor <= r.id)
      BY DEF TokenInv, TokenKinds, Blocked
    <2>2. Floor <= r.id => r \in Selected
      BY <1>3, <2>1, SelectedIs
    <2>3. r.kind # "big"
      <3>1. ASSUME r.kind = "big" PROVE FALSE
        <4>1. r \in Selected
          BY <2>1, <2>2, <3>1
        <4>2. r \in Filtered
          BY <3>1, <4>1, SelectedIs DEF PlannedOut, IsTokens
        <4> QED BY <1>1, <3>1, <4>2 DEF Big
      <3> QED BY <3>1
    <2>4. r.id < c
      BY <1>3, <1>5, <2>2
    <2> QED BY <2>3, <2>4
  <1>11. TokenInv'
    <2>1. Adds(s)
      BY <1>2 DEF Adds
    <2> QED BY <1>1, <1>4, <1>5, <1>6, <1>9, <1>10, <2>1, TokenPolled
  <1> QED BY <1>8, <1>11

\* A poll that meets a row that is too large: the captures before it stay, and the
\* cursor does not move.
LEMMA TokenPollsOversized ==
  ASSUME RowAssumption, StoreTyped, IsTokens, TokenInv, PollOversized
  PROVE  StoreTyped' /\ TokenInv'
PROOF
  <1>1. /\ UNCHANGED <<store, rows, pages, held, endOf, written, changes>>
        /\ Big # {} /\ cursors' = Handled(cursors)
        /\ shrunk' = FALSE /\ disturbed' = (disturbed /\ ~DetectVacuum)
    BY DEF PollOversized, RowUnpolled, Looked, RowError
  <1>2. PICK s \in NewCaptures : queue' = queue \o s
    BY DEF PollOversized
  <1>3. /\ ReadGen = 0 /\ 0 \in Gens /\ Floor \in Nat
    BY TokenRead
  <1>4. CutOf(0, Filtered, s)
    <2>1. ReadGen \in Nat
      BY <1>3
    <2> QED BY <1>3, <2>1, CapturesCut
  <1>5. CursorsTyped' /\ TokenCursors' /\ Floor' = Floor
    BY <1>1, TokenHandled
  <1> DEFINE g == 0
  <1>6. QueueTyped'
    <2>1. QueueTyped /\ g \in Gens /\ CutOf(g, Filtered, s)
      BY <1>3, <1>4 DEF StoreTyped
    <2> HIDE DEF g
    <2> QED BY <1>2, <2>1, Appended
  <1>7. StoreTyped'
    <2>1. TableTyped'
      BY <1>1 DEF StoreTyped, TableTyped, First, IsTokens
    <2>2. shrunk' \in BOOLEAN /\ disturbed' \in BOOLEAN
      BY <1>1
    <2> QED BY <1>1, <1>5, <1>6, <2>1, <2>2 DEF StoreTyped, Gens
  <1>8. \E b \in rows : b.kind = "big"
    BY <1>1, SelectedIs DEF Big
  <1>9. TokenInv'
    <2>1. Adds(s) /\ Floor' \in Nat /\ Floor <= Floor' /\ Floor' <= Top + 1
      BY <1>2, <1>3, <1>5 DEF Adds, TokenInv, TokenEnds
    <2> QED BY <1>1, <1>4, <1>5, <1>8, <2>1, TokenPolled
  <1> QED BY <1>7, <1>9

\* A poll that throws.
LEMMA TokenFails ==
  ASSUME RowAssumption, StoreTyped, IsTokens, TokenInv, PollFails, ~half'
  PROVE  StoreTyped' /\ TokenInv'
PROOF
  <1>1. ReadGen = 0 /\ 0 \in Gens /\ First = 0 /\ ReadGen \in Nat
    BY TokenRead
  <1>2. PICK e, s, done, kept, last : FailedAt(e, s, done, kept, last)
    BY <1>1, PollFailsAt
  <1>3. /\ kept = {} /\ CutOf(ReadGen, done, s) /\ queue' = queue \o s
        /\ last = TopOf(First, kept)
        /\ cursors' = Handled(CursorsPast(last))
        /\ IF last < First THEN UNCHANGED <<shrunk, disturbed>> ELSE Looked
    BY <1>2 DEF FailedAt
  <1>4. \A i \in 1 .. Len(s) : ~ (s[i].end > last + 1)
    BY <1>2 DEF FailedAt
  <1>5. last = -1
    <2>1. IsFiniteSet({})
      BY FS_EmptySet
    <2> QED BY <1>1, <1>3, <2>1, TopOfIs
  <1>6. s = << >>
    <2>1. s \in Seq(SlotT)
      BY <1>3 DEF CutOf
    <2>2. ASSUME NEW i \in 1 .. Len(s) PROVE FALSE
      <3>1. s[i] \in SlotT
        BY <2>1
      <3>2. s[i].end \in Nat /\ s[i].start \in Nat /\ s[i].start < s[i].end
        BY <1>3, <3>1 DEF CutOf, SlotT
      <3> QED BY <1>4, <1>5, <3>2
    <2>3. Len(s) \in Nat
      BY <2>1
    <2>4. Len(s) = 0
      BY <2>2, <2>3
    <2> QED BY <2>1, <2>4
  <1>7. queue' = queue
    BY <1>3, <1>6 DEF StoreTyped, QueueTyped
  <1>8. cursors' = Handled(cursors) /\ UNCHANGED <<shrunk, disturbed>>
    BY <1>1, <1>3, <1>5 DEF CursorsPast
  <1>9. UNCHANGED <<store, rows, pages, held, endOf, written, changes>>
    BY DEF PollFails, RowUnpolled
  <1>10. CursorsTyped' /\ TokenCursors' /\ Floor' = Floor
    BY <1>8, <1>9, TokenHandled
  <1>11. StoreTyped'
    BY <1>7, <1>8, <1>9, <1>10 DEF StoreTyped, TableTyped, First, IsTokens, QueueTyped, Queued, Gens
  <1>12. TokenInv'
    BY <1>7, <1>9, <1>10, TokenStays
  <1> QED BY <1>11, <1>12

\* A poll that finds no row to read.
LEMMA TokenRefreshes ==
  ASSUME RowAssumption, StoreTyped, IsTokens, TokenInv, PollRefreshes
  PROVE  StoreTyped' /\ TokenInv'
PROOF
  <1>1. /\ UNCHANGED <<store, rows, pages, held, endOf, written, changes, queue>>
        /\ shrunk' = FALSE /\ disturbed' = (disturbed /\ ~DetectVacuum)
        /\ cursors' = cursors
    BY DEF PollRefreshes, RowUnpolled, Looked
  <1>2. shrunk' \in BOOLEAN /\ disturbed' \in BOOLEAN
    BY <1>1
  <1>3. StoreTyped'
    BY <1>1, <1>2 DEF StoreTyped, TableTyped, First, IsTokens, CursorsTyped, QueueTyped, Queued, Gens, NoCursor
  <1>4. Floor' = Floor /\ TokenCursors'
    BY <1>1 DEF TokenInv, TokenCursors, Floor, Prior, Gen, First, IsTokens, Gens, NoCursor
  <1> QED BY <1>1, <1>3, <1>4, TokenStays

\* The backend's answer to the first capture: it takes one that is new, and answers a
\* repetition as one that it already has.
LEMMA TokenUploads ==
  ASSUME RowAssumption, StoreTyped, IsTokens, TokenInv, RowUpload
  PROVE  StoreTyped' /\ TokenInv'
PROOF
  <1> DEFINE b == queue[1]
  <1>0. queue # << >> /\ queue' = Tail(queue) /\ QueueTyped
    BY DEF RowUpload, StoreTyped
  <1>1. /\ QueueTyped' /\ 1 \in Queued /\ Head(queue) = b
        /\ Queued \subseteq Nat \ {0} /\ Queued' \subseteq Nat \ {0}
        /\ \A i \in Queued' : i + 1 \in Queued /\ queue'[i] = queue[i + 1]
        /\ \A i \in Queued : i # 1 => i - 1 \in Queued' /\ queue'[i - 1] = queue[i]
    BY <1>0, TailIs
  <1>2. /\ ReadGen = 0 /\ 0 \in Gens /\ Gen = 0 /\ First = 0
        /\ Floor \in Nat /\ endOf[0] \in Nat
        /\ \A r \in rows : r.id \in Nat
        /\ \A i \in Queued : queue[i].start \in Nat /\ queue[i].end \in Nat /\ queue[i].start < queue[i].end
    BY TokenRead
  <1>3. b.gen = 0 /\ b.start \in Nat /\ b.end \in Nat /\ b.start < b.end
    BY <1>1, <1>2 DEF TokenInv, TokenEnds
  <1>4. UNCHANGED <<store, rows, pages, quarantined, passed, shrunk, disturbed, written, changes>>
    BY DEF RowUpload
  <1>5. Top' = Top /\ First' = First /\ TableTyped' /\ TokenKinds'
    BY <1>4 DEF Top, First, IsTokens, TableTyped, StoreTyped, TokenInv, TokenKinds
  <1>6. \A i, j \in Queued' : j < i => j + 1 < i + 1
    BY <1>1
  <1>7. \A i \in Queued', j \in Queued : j < i + 1 /\ j # 1 => j - 1 \in Queued' /\ j - 1 < i /\ queue'[j - 1] = queue[j]
    BY <1>1
  <1>8. \A i \in Queued' : 1 < i + 1
    BY <1>1
  <1>9. InCaptures'
    BY <1>1, <1>4 DEF TokenInv, InCaptures
  <1>10. CASE b.start >= endOf[0]
    <2>1. /\ held' = held \cup b.body /\ endOf' = [endOf EXCEPT ![0] = b.end] /\ cursors' = cursors
      BY <1>1, <1>2, <1>3, <1>10 DEF RowUpload
    <2>2. endOf' \in [Gens -> Nat] /\ endOf'[0] = b.end
      BY <1>2, <1>3, <2>1 DEF StoreTyped
    <2>3. /\ CursorsTyped' /\ TokenCursors' /\ Floor' = Floor
      BY <1>4, <2>1 DEF StoreTyped, CursorsTyped, TokenInv, TokenCursors, Floor, Prior, Gen, First,
              IsTokens, Gens, NoCursor
    <2>4. StoreTyped'
      BY <1>1, <1>4, <1>5, <2>2, <2>3 DEF StoreTyped, Gens
    <2>5. TokenEnds'
      BY <1>1, <1>5, <2>2, <2>3 DEF TokenInv, TokenEnds
    <2>6. Blocked'
      BY <1>1, <1>4, <2>2, <2>3 DEF TokenInv, Blocked
    <2>7. ASSUME NEW i \in Queued', Ahead(i + 1) PROVE Ahead(i)'
      BY <1>1, <1>6, <1>8, <2>2, <2>7 DEF Ahead
    <2>8. ASSUME NEW i \in Queued', Repeated(i + 1) PROVE Repeated(i)'
      <3>1. queue'[i] = queue[i + 1] /\ queue[i + 1].end \in Nat /\ i + 1 \in Queued
        BY <1>1, <1>2
      <3>2. CASE queue[i + 1].end <= endOf[0]
        BY <1>2, <1>3, <1>10, <2>2, <3>1, <3>2 DEF Repeated
      <3>3. CASE \E j \in Queued : j < i + 1 /\ queue[i + 1].end <= queue[j].end
        BY <1>7, <2>2, <3>1, <3>3 DEF Repeated
      <3> QED BY <2>8, <3>2, <3>3 DEF Repeated
    <2>9. ASSUME NEW r \in rows, Below(r) PROVE Below(r)'
      <3>1. CASE r.id < endOf[0]
        BY <1>2, <1>3, <1>10, <2>2, <3>1 DEF Below
      <3>2. CASE \E i \in Queued : r.id < queue[i].end
        BY <1>1, <2>2, <3>2 DEF Below
      <3> QED BY <2>9, <3>1, <3>2 DEF Below
    <2>10. TokenQueue'
      <3>1. \A i \in Queued' : Ahead(i)' \/ Repeated(i)'
        BY <1>1, <2>7, <2>8 DEF TokenInv, TokenQueue
      <3>2. ASSUME Flowing PROVE Flowing'
        <4>1. endOf'[0] <= Floor'
          BY <1>1, <2>2, <2>3, <3>2 DEF Flowing
        <4>2. \A i \in Queued' : Ahead(i)' /\ queue'[i].end <= Floor'
          BY <1>1, <2>3, <2>7, <3>2 DEF Flowing
        <4>3. \A r \in rows' : r.id < Floor' => Below(r)'
          BY <1>4, <2>3, <2>9, <3>2 DEF Flowing
        <4> QED BY <4>1, <4>2, <4>3 DEF Flowing
      <3>3. ASSUME Halted PROVE Halted'
        BY <1>4, <2>9, <3>3 DEF Halted
      <3> QED BY <3>1, <3>2, <3>3 DEF TokenInv, TokenQueue
    <2>11. BeforeCaptures'
      <3> SUFFICES ASSUME NEW i \in Queued', NEW r \in rows, r.id < queue'[i].start, r.n \notin held'
                   PROVE  \E j \in Queued' : j < i /\ r.n \in queue'[j].body /\ r.id < queue'[j].end
        BY <1>4 DEF BeforeCaptures
      <3>1. PICK j \in Queued : j < i + 1 /\ r.n \in queue[j].body /\ r.id < queue[j].end
        BY <1>1, <2>1 DEF TokenInv, BeforeCaptures
      <3>2. j # 1
        BY <2>1, <3>1
      <3> QED BY <1>7, <3>1, <3>2
    <2>12. AtBackend'
      <3> SUFFICES ASSUME NEW r \in rows, r.id < b.end PROVE r.n \in held'
        BY <1>4, <2>2 DEF AtBackend
      <3>1. CASE r.id < b.start
        <4>1. \A j \in Queued : ~ (j < 1)
          BY DEF Queued
        <4> QED BY <1>1, <2>1, <3>1, <4>1 DEF TokenInv, BeforeCaptures
      <3>2. CASE b.start <= r.id
        BY <1>1, <2>1, <3>2 DEF TokenInv, InCaptures
      <3> QED BY <1>2, <1>3, <3>1, <3>2
    <2>13. BeforeCursor'
      <3> SUFFICES ASSUME NEW r \in rows, r.id < Floor, r.n \notin held'
                   PROVE  \E j \in Queued' : r.n \in queue'[j].body /\ r.id < queue'[j].end
        BY <1>4, <2>3 DEF BeforeCursor
      <3>1. PICK j \in Queued : r.n \in queue[j].body /\ r.id < queue[j].end
        BY <2>1 DEF TokenInv, BeforeCursor
      <3>2. j # 1
        BY <2>1, <3>1
      <3> QED BY <1>1, <3>1, <3>2
    <2> QED BY <1>5, <1>9, <2>3, <2>4, <2>5, <2>6, <2>10, <2>11, <2>12, <2>13 DEF TokenInv
  <1>11. CASE b.start < endOf[0]
    <2>1. /\ held' = held /\ endOf' = endOf
          /\ cursors' = [cursors EXCEPT ![0] = [end |-> endOf[0], seen |-> cursors[0].seen]]
      BY <1>1, <1>2, <1>3, <1>11 DEF RowUpload, SetCursor
    <2> DEFINE g == 0
    <2>2. CursorsTyped' /\ Floor' = endOf[0] /\ \A h \in Gens : h # g => cursors'[h] = cursors[h]
      <3> DEFINE c == endOf[0]
                 p == cursors[0].seen
      <3>1. g \in Gens /\ Gen <= g /\ c \in Nat /\ p \in Int
            /\ cursors' = [cursors EXCEPT ![g] = [end |-> c, seen |-> p]]
        BY <1>2, <2>1, TokenRead, GenIs
      <3>2. Floor' = c => Floor' = endOf[0]
        OBVIOUS
      <3> HIDE DEF g, c, p
      <3> QED BY <1>4, <3>1, <3>2, GenAfter
    <2>3. TokenCursors'
      BY <2>2 DEF TokenInv, TokenCursors, Gens, NoCursor
    <2>4. StoreTyped'
      BY <1>1, <1>4, <1>5, <2>1, <2>2 DEF StoreTyped, Gens
    <2>5. b.end <= endOf[0]
      <3>1. ~Ahead(1)
        BY <1>2, <1>3, <1>11 DEF Ahead
      <3>2. \A j \in Queued : ~ (j < 1)
        BY DEF Queued
      <3> QED BY <1>1, <3>1, <3>2 DEF TokenInv, TokenQueue, Repeated
    <2>6. TokenEnds'
      BY <1>1, <1>5, <2>1, <2>2 DEF TokenInv, TokenEnds
    <2>7. Blocked'
      BY <1>1, <1>4, <2>1, <2>2 DEF TokenInv, Blocked
    <2>8. ASSUME NEW i \in Queued', Ahead(i + 1) PROVE Ahead(i)'
      BY <1>1, <1>6, <1>8, <2>1, <2>8 DEF Ahead
    <2>9. ASSUME NEW i \in Queued', Repeated(i + 1) PROVE Repeated(i)'
      <3>1. queue'[i] = queue[i + 1] /\ queue[i + 1].end \in Nat /\ i + 1 \in Queued
        BY <1>1, <1>2
      <3>2. CASE queue[i + 1].end <= endOf[0]
        BY <2>1, <3>1, <3>2 DEF Repeated
      <3>3. CASE \E j \in Queued : j < i + 1 /\ queue[i + 1].end <= queue[j].end
        <4>1. PICK j \in Queued : j < i + 1 /\ queue[i + 1].end <= queue[j].end
          BY <3>3
        <4>2. CASE j = 1
          BY <1>2, <1>3, <2>1, <2>5, <3>1, <4>1, <4>2 DEF Repeated
        <4>3. CASE j # 1
          BY <1>7, <3>1, <4>1, <4>3 DEF Repeated
        <4> QED BY <4>2, <4>3
      <3> QED BY <2>9, <3>2, <3>3 DEF Repeated
    <2>10. ASSUME NEW r \in rows, Below(r) PROVE Below(r)'
      <3>1. CASE r.id < endOf[0]
        BY <2>1, <3>1 DEF Below
      <3>2. CASE \E i \in Queued : r.id < queue[i].end
        <4>1. PICK i \in Queued : r.id < queue[i].end
          BY <3>2
        <4>2. CASE i = 1
          BY <1>2, <1>3, <2>1, <2>5, <4>1, <4>2 DEF Below
        <4>3. CASE i # 1
          BY <1>1, <4>1, <4>3 DEF Below
        <4> QED BY <4>2, <4>3
      <3> QED BY <2>10, <3>1, <3>2 DEF Below
    <2>11. TokenQueue'
      <3>1. \A i \in Queued' : Ahead(i)' \/ Repeated(i)'
        BY <1>1, <2>8, <2>9 DEF TokenInv, TokenQueue
      <3>2. ~Flowing
        BY <1>1, <1>2, <1>3, <1>11 DEF Flowing, Ahead
      <3>3. Halted'
        BY <1>4, <2>10, <3>2 DEF TokenInv, TokenQueue, Halted
      <3> QED BY <3>1, <3>3 DEF TokenQueue
    <2>12. AtBackend'
      BY <1>4, <2>1 DEF TokenInv, AtBackend
    <2>13. BeforeCaptures'
      <3> SUFFICES ASSUME NEW i \in Queued', NEW r \in rows, r.id < queue'[i].start, r.n \notin held
                   PROVE  \E j \in Queued' : j < i /\ r.n \in queue'[j].body /\ r.id < queue'[j].end
        BY <1>4, <2>1 DEF BeforeCaptures
      <3>1. PICK j \in Queued : j < i + 1 /\ r.n \in queue[j].body /\ r.id < queue[j].end
        BY <1>1 DEF TokenInv, BeforeCaptures
      <3>2. j # 1
        <4>1. ASSUME j = 1 PROVE r.id < endOf[0]
          BY <1>2, <1>3, <2>5, <3>1, <4>1
        <4> QED BY <4>1 DEF TokenInv, AtBackend
      <3> QED BY <1>7, <3>1, <3>2
    <2>14. BeforeCursor'
      BY <1>4, <2>1, <2>2 DEF TokenInv, AtBackend, BeforeCursor
    <2> QED BY <1>5, <1>9, <2>3, <2>4, <2>6, <2>7, <2>11, <2>12, <2>13, <2>14 DEF TokenInv
  <1> QED BY <1>2, <1>3, <1>10, <1>11

-----------------------------------------------------------------------------
(* RowCollector: the theorems *)

\* The inductive invariant; once captures were made whose cursor was not written, the
\* table is read twice and no order is left to state.
RowPlaces == StoreTyped /\ IF IsTokens THEN TokenInv ELSE TableInv
RowPlacesInv == half \/ RowPlaces

\* It holds of an empty table.
LEMMA RowStart == RowInit => RowPlacesInv
PROOF
  <1> SUFFICES ASSUME RowInit PROVE RowPlaces
    BY DEF RowPlacesInv
  <1> USE RowAssumption
  <1>1. /\ rows = {} /\ pages = 0 /\ written = 0 /\ changes = 0 /\ shrunk = FALSE /\ disturbed = FALSE
        /\ queue = << >> /\ held = {} /\ store \in AllStores
        /\ cursors = [g \in Gens |-> NoCursor] /\ endOf = [g \in Gens |-> 0]
    BY DEF RowInit, RowAssumption, AllStores
  <1>2. NoCursor \in [end : Int, seen : Int]
    BY DEF NoCursor
  <1>3. TableTyped
    BY <1>1, FS_EmptySet DEF TableTyped, Readable
  <1>4. CursorsTyped
    BY <1>1, <1>2 DEF CursorsTyped
  <1>5. QueueTyped /\ Queued = {}
    BY <1>1 DEF QueueTyped, Queued
  <1>6. endOf \in [Gens -> Nat] /\ changes \in 0 .. MaxChanges
    BY <1>1 DEF RowAssumption
  <1>7. StoreTyped
    BY <1>1, <1>3, <1>4, <1>5, <1>6 DEF StoreTyped
  <1>8. /\ Gen \in Gens /\ 0 \in Gens /\ Gens = 0 .. MaxChanges
        /\ First \in {0, 1} /\ (Prior = NoCursor => Gen = 0 /\ Floor = First)
        /\ Prior = cursors[Gen]
    BY <1>7, GenIs
  <1>9. Prior = NoCursor /\ Gen = 0 /\ Floor = First
    BY <1>1, <1>8
  <1>10. Top = First - 1
    BY <1>1, <1>7, TopIs
  <1>11. CASE IsTokens
    <2>1. TokenCursors /\ TokenKinds
      BY <1>1 DEF TokenCursors, TokenKinds
    <2>2. endOf[0] = 0 /\ First = 0
      BY <1>1, <1>8, <1>11 DEF First
    <2>3. TokenEnds /\ Blocked
      BY <1>1, <1>5, <1>9, <1>10, <2>2 DEF TokenEnds, Blocked
    <2>4. TokenQueue
      BY <1>1, <1>5, <1>9, <2>2 DEF TokenQueue, Flowing
    <2>5. BeforeCaptures /\ InCaptures /\ AtBackend /\ BeforeCursor
      BY <1>1 DEF BeforeCaptures, InCaptures, AtBackend, BeforeCursor
    <2> QED BY <1>7, <1>11, <2>1, <2>3, <2>4, <2>5 DEF RowPlaces, TokenInv
  <1>12. CASE ~IsTokens
    <2>1. ~DetectVacuum
      BY <1>9 DEF DetectVacuum
    <2>2. Counted
      BY <1>1, <1>9 DEF Counted
    <2>3. CursorSettled
      BY <1>8, <1>9, <1>10, <2>1 DEF CursorSettled
    <2>4. InOrder /\ RowsRead
      BY <1>1, <1>5 DEF InOrder, RowsRead
    <2> QED BY <1>7, <1>12, <2>2, <2>3, <2>4 DEF RowPlaces, TableInv
  <1> QED BY <1>11, <1>12

\* Captures that lost their cursor stay lost to it.
LEMMA HalfStays == half /\ [RowNext]_rowVars => half'
PROOF
  <1> SUFFICES ASSUME half, [RowNext]_rowVars PROVE half'
    OBVIOUS
  <1>1. CASE UNCHANGED rowVars
    BY <1>1 DEF rowVars
  <1>2. CASE \E k \in RowKinds : Write(k)
    BY <1>2 DEF Write, Changed
  <1>3. CASE Delete \/ Vacuum
    BY <1>3 DEF Delete, Vacuum, Changed
  <1>4. CASE Toggle
    BY <1>4 DEF Toggle
  <1>5. CASE RowPolls
    BY <1>5 DEF RowPolls, PollRefreshes, PollRows, PollOversized
  <1>6. CASE PollFails
    <2>1. PICK ends \in Splits(Filtered) : \E e \in {First - 1} \cup ends :
             FailsAfter({i \in ends : i <= e}, e)
      BY <1>6 DEF PollFails
    <2>2. PICK ee, e : FailsAfter(ee, e)
      BY <2>1
    <2>3. PICK P : half' = (half \/ P)
      BY <2>2 DEF FailsAfter
    <2> QED BY <2>3
  <1>7. CASE PollDies
    BY <1>7 DEF PollDies
  <1>8. CASE RowUpload
    BY <1>8 DEF RowUpload
  <1> QED BY <1>1, <1>2, <1>3, <1>4, <1>5, <1>6, <1>7, <1>8 DEF RowNext

\* It says nothing of the rest of the state.
LEMMA RowIdle ==
  ASSUME RowAssumption, RowPlaces,
         UNCHANGED <<store, rows, pages, cursors, queue, held, endOf, quarantined, passed,
                     shrunk, disturbed, written, changes>>
  PROVE  RowPlaces'
PROOF
  <1>1. IsTokens' = IsTokens /\ First' = First /\ Gen' = Gen /\ Prior' = Prior /\ Floor' = Floor /\ Top' = Top
        /\ Queued' = Queued /\ DetectVacuum' = DetectVacuum
    BY DEF IsTokens, First, Gen, Prior, Floor, Top, Queued, DetectVacuum, NoCursor, Unseen
  <1>2. StoreTyped'
    BY <1>1 DEF RowPlaces, StoreTyped, TableTyped, CursorsTyped, QueueTyped, NoCursor, Gens
  <1>3. CASE IsTokens
    <2>1. TokenCursors'
      BY <1>3 DEF RowPlaces, TokenInv, TokenCursors, Gens, NoCursor
    <2>2. TokenInv'
      BY <1>1, <1>3, <2>1, TokenStays DEF RowPlaces
    <2> QED BY <1>1, <1>2, <1>3, <2>2 DEF RowPlaces
  <1>4. CASE ~IsTokens
    <2>1. Counted' /\ CursorSettled' /\ InOrder'
      BY <1>1, <1>4 DEF RowPlaces, TableInv, Counted, CursorSettled, InOrder, NoCursor, Replaced, Unseen, Gens
    <2>2. RowsRead'
      BY <1>1, <1>4 DEF RowPlaces, TableInv, RowsRead, Unread, Captured, WantedRow
    <2> QED BY <1>1, <1>2, <1>4, <2>1, <2>2 DEF RowPlaces, TableInv
  <1> QED BY <1>3, <1>4

\* Every step keeps it.
LEMMA RowStep == RowPlacesInv /\ [RowNext]_rowVars => RowPlacesInv'
PROOF
  <1> USE RowAssumption
  <1> SUFFICES ASSUME RowPlacesInv, [RowNext]_rowVars, ~half' PROVE RowPlaces'
    BY DEF RowPlacesInv
  <1>1. ~half
    BY HalfStays
  <1>2. RowPlaces /\ StoreTyped
    BY <1>1 DEF RowPlacesInv, RowPlaces
  <1>3. CASE UNCHANGED rowVars
    BY <1>2, <1>3, RowIdle DEF rowVars
  <1>4. CASE Toggle
    BY <1>2, <1>4, RowIdle DEF Toggle
  <1>5. ASSUME RowNext, ~Toggle, IsTokens PROVE StoreTyped' /\ TokenInv' /\ store' = store
    <2>1. TokenInv
      BY <1>2, <1>5 DEF RowPlaces
    <2>2. CASE \E k \in RowKinds : Write(k)
      BY <1>2, <1>5, <2>1, <2>2, TokenWrite DEF Write, Changed
    <2>3. CASE PollRefreshes
      BY <1>2, <1>5, <2>1, <2>3, TokenRefreshes DEF PollRefreshes, RowUnpolled
    <2>4. CASE PollRows
      BY <1>2, <1>5, <2>1, <2>4, TokenPollsRows DEF PollRows, RowUnpolled
    <2>5. CASE PollOversized
      BY <1>2, <1>5, <2>1, <2>5, TokenPollsOversized DEF PollOversized, RowUnpolled
    <2>6. CASE PollFails
      BY <1>2, <1>5, <2>1, <2>6, TokenFails DEF PollFails, RowUnpolled
    <2>7. CASE RowUpload
      BY <1>2, <1>5, <2>1, <2>7, TokenUploads DEF RowUpload
    <2>8. ~Delete /\ ~Vacuum /\ ~PollDies
      BY <1>5 DEF Delete, Vacuum, PollDies
    <2> QED BY <1>5, <2>2, <2>3, <2>4, <2>5, <2>6, <2>7, <2>8 DEF RowNext, RowPolls
  <1>6. ASSUME RowNext, ~Toggle, ~IsTokens PROVE StoreTyped' /\ TableInv' /\ store' = store
    <2>1. TableInv
      BY <1>2, <1>6 DEF RowPlaces
    <2>2. CASE \E k \in RowKinds : Write(k)
      BY <1>2, <1>6, <2>1, <2>2, TableWrite DEF Write, Changed
    <2>3. CASE PollRefreshes
      BY <1>2, <1>6, <2>1, <2>3, TableRefreshes DEF PollRefreshes, RowUnpolled
    <2>4. CASE PollRows
      BY <1>2, <1>6, <2>1, <2>4, TablePollsRows DEF PollRows, RowUnpolled
    <2>5. CASE Delete
      BY <1>2, <1>6, <2>1, <2>5, TableDelete DEF Delete, Changed
    <2>6. CASE Vacuum
      BY <1>2, <1>6, <2>1, <2>6, TableVacuum DEF Vacuum, Changed
    <2>7. CASE PollFails
      BY <1>2, <1>6, <2>1, <2>7, TableFails DEF PollFails, RowUnpolled
    <2>8. CASE RowUpload
      BY <1>2, <1>6, <2>1, <2>8, TableUploads DEF RowUpload
    <2>9. ~PollOversized /\ ~PollDies
      BY <1>6 DEF PollOversized, PollDies
    <2> QED BY <1>6, <2>2, <2>3, <2>4, <2>5, <2>6, <2>7, <2>8, <2>9 DEF RowNext, RowPolls
  <1>7. store' = store => (IsTokens' <=> IsTokens)
    BY DEF IsTokens
  <1> QED BY <1>3, <1>4, <1>5, <1>6, <1>7 DEF RowPlaces

\* The invariant holds in every reachable state: the captures of cursor's and gemini's
\* pollers stand in the order of their rows between what the backend holds and the
\* cursor, generations are as many as the application's changes at most, and the rows
\* before a cursor were captured or set aside.
THEOREM RowsInvariant == RowSpec => []RowPlacesInv
PROOF
  <1>1. RowInit => RowPlacesInv
    BY RowStart
  <1>2. RowPlacesInv /\ [RowNext]_rowVars => RowPlacesInv'
    BY RowStep
  <1> QED BY <1>1, <1>2, PTL DEF RowSpec

\* No poll moves the cursor past a row it neither captured, quarantined nor planned out,
\* whatever the application writes, deletes or rewrites between two polls and wherever
\* a poll throws; what the code gives up is what the property excepts: rows a change
\* moved under the cursor before a poll could tell, and captures without a cursor.
THEOREM NoRowIsSkipped == RowSpec => []NoRowSkipped
PROOF
  <1>1. RowPlacesInv => NoRowSkipped
    <2> SUFFICES ASSUME RowPlaces, ~half PROVE NoRowSkipped
      BY DEF RowPlacesInv, NoRowSkipped
    <2>1. CASE ~IsTokens
      BY <2>1 DEF RowPlaces, TableInv, RowsRead, WantedRow, NoRowSkipped
    <2>2. CASE IsTokens
      <3> SUFFICES ASSUME NEW r \in rows, r.kind \in {"talk", "secret", "big"}, r.id < Floor PROVE ~Unread(r)
        BY DEF NoRowSkipped
      <3>1. QueueTyped /\ DOMAIN queue = Queued
        BY DEF RowPlaces, StoreTyped, QueueTyped, Queued
      <3>2. Captured(r.n)
        BY <2>2, <3>1 DEF RowPlaces, TokenInv, BeforeCursor, Captured
      <3> QED BY <3>2 DEF Unread
    <2> QED BY <2>1, <2>2
  <1> QED BY <1>1, RowsInvariant, PTL

-----------------------------------------------------------------------------
(* RowCollector: the types, also when captures have lost their cursor.     *)
(* The places and the writes are within the number of writes.  A cursor, a *)
(* watermark or a capture that is beyond the table, or notes a larger one, *)
(* is of a generation that the application's changes have left behind: a   *)
(* poll that begins another one has one to begin.                          *)

CursorsWithin(c) ==
    /\ c \in [Gens -> [end : Int, seen : Int]]
    /\ \A g \in Gens : c[g] # NoCursor =>
          /\ c[g].end \in 0 .. MaxRows + 1 /\ c[g].seen \in -1 .. MaxRows
          /\ g <= changes
          /\ c[g].end > Top + 1 \/ c[g].seen > pages => g < changes
EndsWithin ==
    \A g \in Gens : endOf[g] # 0 =>
       endOf[g] <= MaxRows + 1 /\ g <= changes /\ (endOf[g] > Top + 1 => g < changes)
SlotWithin(b) ==
    /\ b.start <= MaxRows /\ b.end <= MaxRows + 1 /\ b.body \subseteq 1 .. MaxRows
    /\ b.gen <= changes /\ (b.end > Top + 1 => b.gen < changes)
QueueWithin == \A i \in Queued : SlotWithin(queue[i])
RowsWithin ==
    /\ written <= MaxRows /\ pages <= written
    /\ \A r \in rows : r.id < First + written /\ r.n \in 1 .. written /\ r.kind \in RowKinds
RestWithin ==
    /\ store \in Stores /\ excluded \in BOOLEAN /\ half \in BOOLEAN
    /\ held \subseteq 1 .. MaxRows /\ quarantined \subseteq 1 .. MaxRows
    /\ passed \subseteq 1 .. MaxRows
    /\ toggles \in 0 .. MaxToggles /\ throws \in 0 .. MaxThrows

RowTypes ==
    StoreTyped /\ RowsWithin /\ CursorsWithin(cursors) /\ EndsWithin /\ QueueWithin /\ RestWithin

\* What a poll may insert, all of what it cut or the first of it.
PartOf(g, K, q) ==
    /\ q \in Seq(SlotT)
    /\ \A i \in 1 .. Len(q) :
          /\ q[i].gen = g /\ q[i].start < q[i].end
          /\ \E r \in K : r.id = q[i].start
          /\ \E r \in K : q[i].end = r.id + 1
          /\ \A n \in q[i].body : \E r \in K : r.n = n

LEMMA TypesSuffice == RowAssumption /\ RowTypes => RowTypeOK
PROOF
  <1> SUFFICES ASSUME RowAssumption, RowTypes PROVE RowTypeOK
    OBVIOUS
  <1>1. /\ store \in Stores /\ pages \in 0 .. MaxRows /\ written \in 0 .. MaxRows
        /\ changes \in 0 .. MaxChanges /\ toggles \in 0 .. MaxToggles /\ throws \in 0 .. MaxThrows
    BY DEF RowTypes, RowsWithin, RestWithin, StoreTyped, RowAssumption
  <1>2. rows \subseteq [id : 0 .. MaxRows, n : 1 .. MaxRows, kind : RowKinds]
    <2> SUFFICES ASSUME NEW r \in rows
                 PROVE  r \in [id : 0 .. MaxRows, n : 1 .. MaxRows, kind : RowKinds]
      OBVIOUS
    <2>1. r \in RowT /\ First \in {0, 1}
      BY DEF RowTypes, StoreTyped, TableTyped, First
    <2>2. r.id \in 0 .. MaxRows /\ r.n \in 1 .. MaxRows /\ r.kind \in RowKinds
      BY <1>1, <2>1 DEF RowTypes, RowsWithin, RowT
    <2> QED BY <2>1, <2>2 DEF RowT
  <1>3. \A r, q \in rows : r.id = q.id => r = q
    BY DEF RowTypes, StoreTyped, TableTyped, Readable
  <1>4. ASSUME NEW g \in Gens
        PROVE  cursors[g] = NoCursor \/ cursors[g] \in [end : 0 .. MaxRows + 1, seen : -1 .. MaxRows]
    <2>1. cursors[g] \in [end : Int, seen : Int]
      BY DEF RowTypes, CursorsWithin
    <2>2. cursors[g] # NoCursor => cursors[g].end \in 0 .. MaxRows + 1 /\ cursors[g].seen \in -1 .. MaxRows
      BY DEF RowTypes, CursorsWithin
    <2> QED BY <2>1, <2>2
  <1>5. ToSet(queue) \subseteq Slots
    <2>1. queue \in Seq(SlotT) /\ DOMAIN queue = Queued
      BY DEF RowTypes, StoreTyped, QueueTyped, Queued
    <2>2. ASSUME NEW i \in Queued PROVE queue[i] \in Slots
      <3>1. queue[i] \in SlotT /\ queue[i].gen \in Gens /\ queue[i].start < queue[i].end
        BY <2>1 DEF RowTypes, StoreTyped, QueueTyped, Queued
      <3>2. /\ queue[i].start <= MaxRows /\ queue[i].end <= MaxRows + 1
            /\ queue[i].body \subseteq 1 .. MaxRows
        BY DEF RowTypes, QueueWithin, SlotWithin
      <3>3. queue[i].start \in 0 .. MaxRows /\ queue[i].end \in 0 .. MaxRows + 1
            /\ queue[i].body \in SUBSET (1 .. MaxRows)
        BY <3>1, <3>2 DEF SlotT, RowAssumption
      <3> QED BY <3>1, <3>3 DEF SlotT, Slots
    <2> QED BY <2>1, <2>2 DEF ToSet
  <1>6. held \cup quarantined \cup passed \subseteq 1 .. MaxRows
    BY DEF RowTypes, RestWithin
  <1>7. excluded \in BOOLEAN /\ {shrunk, disturbed, half} \subseteq BOOLEAN
    BY Zenon DEF RowTypes, RestWithin, StoreTyped
  <1> QED BY <1>1, <1>2, <1>3, <1>4, <1>5, <1>6, <1>7 DEF RowTypeOK

\* The table ends within the number of writes.
LEMMA TopWithin ==
  ASSUME RowAssumption, RowTypes
  PROVE  /\ Top \in Int /\ First - 1 <= Top /\ Top + 1 \in 0 .. MaxRows + 1 /\ First \in {0, 1}
         /\ pages \in 0 .. MaxRows /\ MaxRows \in Nat /\ MaxChanges \in Nat /\ changes \in Nat
         /\ \A r \in rows : /\ r.id \in Nat /\ First <= r.id /\ r.id <= Top /\ r.id <= MaxRows
                            /\ r.n \in 1 .. MaxRows
         /\ Gens = 0 .. MaxChanges /\ changes \in Gens
PROOF
  <1>1. StoreTyped /\ RowsWithin
    BY DEF RowTypes
  <1>2. /\ Top \in Int /\ First - 1 <= Top /\ Top + 1 \in Nat /\ First \in {0, 1}
        /\ \A r \in rows : r.id <= Top
        /\ Top = First - 1 \/ \E r \in rows : r.id = Top
        /\ Gens = 0 .. MaxChanges /\ MaxChanges \in Nat
    BY <1>1, TopIs, GenIs
  <1>3. MaxRows \in Nat /\ written \in Nat /\ pages \in Nat /\ changes \in 0 .. MaxChanges
    BY <1>1 DEF RowAssumption, StoreTyped
  <1>4. \A r \in rows : r.id \in Nat /\ First <= r.id /\ r.id <= MaxRows /\ r.n \in 1 .. MaxRows
    BY <1>1, <1>2, <1>3 DEF StoreTyped, TableTyped, RowT, RowsWithin
  <1> QED BY <1>1, <1>2, <1>3, <1>4 DEF RowsWithin

\* A cursor is set.
LEMMA CursorSet ==
  ASSUME RowAssumption, RowTypes, NEW c, CursorsWithin(c), NEW g \in Gens, g <= changes,
         NEW e \in 0 .. MaxRows + 1, NEW p \in -1 .. MaxRows,
         e > Top + 1 \/ p > pages => g < changes
  PROVE  CursorsWithin([c EXCEPT ![g] = [end |-> e, seen |-> p]])
PROOF
  <1> DEFINE d == [c EXCEPT ![g] = [end |-> e, seen |-> p]]
  <1>1. d[g] = [end |-> e, seen |-> p] /\ \A h \in Gens : h # g => d[h] = c[h]
    BY DEF CursorsWithin
  <1>2. d \in [Gens -> [end : Int, seen : Int]]
    <2>1. [end |-> e, seen |-> p] \in [end : Int, seen : Int]
      BY DEF RowAssumption
    <2> QED BY <2>1 DEF CursorsWithin
  <1> HIDE DEF d
  <1> QED BY <1>1, <1>2 DEF CursorsWithin, d

\* The generation a poll reads is one that the bound allows.
LEMMA ReadWithin ==
  ASSUME RowAssumption, RowTypes
  PROVE  /\ ReadGen \in Gens /\ ReadGen \in Nat /\ ReadGen <= changes
         /\ Gen \in Gens /\ Gen <= changes /\ (DetectVacuum => ReadGen = Gen + 1)
         /\ (~DetectVacuum => ReadGen = Gen)
PROOF
  <1>1. StoreTyped /\ CursorsWithin(cursors)
    BY DEF RowTypes
  <1>2. /\ Gen \in Gens /\ Gen \in Nat /\ Prior = cursors[Gen] /\ (Prior = NoCursor => Gen = 0)
        /\ Gens = 0 .. MaxChanges /\ changes \in 0 .. MaxChanges /\ MaxChanges \in Nat
    BY <1>1, GenIs DEF StoreTyped
  <1>3. Gen <= changes
    BY <1>1, <1>2 DEF CursorsWithin
  <1>4. ASSUME DetectVacuum PROVE Gen < changes
    <2>1. Prior # NoCursor /\ (pages < Prior.seen \/ Top + 1 < Prior.end)
      BY <1>4 DEF DetectVacuum
    <2>2. pages \in Nat /\ Top + 1 \in Nat /\ Prior.seen \in Int /\ Prior.end \in Int
      BY <1>1, <2>1, TopIs, GenIs DEF StoreTyped
    <2> QED BY <1>1, <1>2, <2>1, <2>2 DEF CursorsWithin
  <1> QED BY <1>2, <1>3, <1>4 DEF ReadGen

\* An exception's handler sets a cursor to the start of the table, or none.
LEMMA HandledWithin ==
  ASSUME RowAssumption, RowTypes, NEW c, CursorsWithin(c)
  PROVE  CursorsWithin(Handled(c))
PROOF
  <1>1. HandlerGen \in Gens /\ HandlerGen <= changes
    BY ReadWithin, TopWithin DEF HandlerGen
  <1>2. /\ First \in 0 .. MaxRows + 1 /\ Unseen \in -1 .. MaxRows
        /\ ~ (First > Top + 1) /\ ~ (Unseen > pages)
    BY TopWithin DEF Unseen
  <1>3. CursorsWithin([c EXCEPT ![HandlerGen] = [end |-> First, seen |-> Unseen]])
    <2> DEFINE h == HandlerGen
               f == First
               u == Unseen
    <2>1. h \in Gens /\ h <= changes /\ f \in 0 .. MaxRows + 1 /\ u \in -1 .. MaxRows
          /\ ~ (f > Top + 1) /\ ~ (u > pages)
      BY <1>1, <1>2
    <2> HIDE DEF h, f, u
    <2>2. CursorsWithin([c EXCEPT ![h] = [end |-> f, seen |-> u]])
      BY <2>1, CursorSet
    <2> QED BY <2>2 DEF h, f, u
  <1> QED BY <1>3 DEF Handled

LEMMA CutsArePart ==
  ASSUME NEW g, NEW K, NEW q, CutOf(g, K, q)
  PROVE  PartOf(g, K, q)
BY DEF CutOf, PartOf

LEMMA PartsArePart ==
  ASSUME NEW g, NEW K, NEW q, PartOf(g, K, q), NEW n \in 1 .. Len(q)
  PROVE  PartOf(g, K, SubSeq(q, 1, n))
PROOF
  <1>1. q \in Seq(SlotT) /\ Len(q) \in Nat
    BY DEF PartOf
  <1>2. /\ SubSeq(q, 1, n) \in Seq(SlotT) /\ Len(SubSeq(q, 1, n)) = n
        /\ \A i \in 1 .. n : SubSeq(q, 1, n)[i] = q[i]
    BY <1>1
  <1> DEFINE p == SubSeq(q, 1, n)
  <1>3. p \in Seq(SlotT) /\ Len(p) = n /\ \A i \in 1 .. n : p[i] = q[i] /\ i \in 1 .. Len(q)
    BY <1>1, <1>2
  <1> HIDE DEF p
  <1>4. PartOf(g, K, p)
    BY <1>3 DEF PartOf
  <1> QED BY <1>4 DEF p

\* A poll adds captures of rows it read and sets cursors within the table.
LEMMA PolledWithin ==
  ASSUME RowAssumption, RowTypes, RowUnpolled, CursorsWithin(cursors'),
         NEW g \in Gens, g <= changes, NEW K, K \subseteq rows, NEW s, PartOf(g, K, s),
         queue' = queue \o s,
         quarantined' \subseteq 1 .. MaxRows, passed' \subseteq 1 .. MaxRows,
         half' \in BOOLEAN, shrunk' \in BOOLEAN, disturbed' \in BOOLEAN,
         throws' \in 0 .. MaxThrows
  PROVE  RowTypes'
PROOF
  <1>1. /\ UNCHANGED <<store, rows, pages, excluded, held, endOf, written, changes, toggles>>
        /\ IsTokens' = IsTokens /\ First' = First /\ Top' = Top
    BY DEF RowUnpolled, IsTokens, First, Top
  <1>2. queue \in Seq(SlotT) /\ s \in Seq(SlotT) /\ queue' \in Seq(SlotT)
    BY DEF RowTypes, StoreTyped, QueueTyped, PartOf
  <1>3. /\ Len(queue) \in Nat /\ Len(s) \in Nat
        /\ \A i \in Queued' : \/ i \in Queued /\ queue'[i] = queue[i]
                              \/ i - Len(queue) \in 1 .. Len(s) /\ queue'[i] = s[i - Len(queue)]
    BY <1>2 DEF Queued
  <1>4. ASSUME NEW i \in 1 .. Len(s)
        PROVE  SlotWithin(s[i]) /\ s[i].gen \in Gens /\ s[i].start < s[i].end
    <2>1. /\ s[i].gen = g /\ s[i].start < s[i].end /\ s[i] \in SlotT
          /\ \A n \in s[i].body : \E r \in K : r.n = n
      BY <1>2 DEF PartOf
    <2>2. PICK r \in rows : r.id = s[i].start
      BY DEF PartOf
    <2>3. PICK q \in rows : s[i].end = q.id + 1
      BY DEF PartOf
    <2>4. s[i].start <= MaxRows /\ s[i].end <= MaxRows + 1 /\ s[i].end <= Top + 1
      <3>1. /\ r.id <= MaxRows /\ q.id \in Nat /\ q.id <= Top /\ q.id <= MaxRows
            /\ MaxRows \in Nat /\ Top \in Int
        BY TopWithin
      <3> QED BY <2>2, <2>3, <3>1
    <2>5. s[i].body \subseteq 1 .. MaxRows
      BY <2>1, TopWithin
    <2>6. s[i].end \in Nat /\ Top + 1 \in Nat
      BY <2>1, TopWithin DEF SlotT
    <2> QED BY <2>1, <2>4, <2>5, <2>6 DEF SlotWithin
  <1>5. QueueWithin' /\ QueueTyped'
    <2>1. \A i \in Queued : SlotWithin(queue[i]) /\ queue[i].gen \in Gens /\ queue[i].start < queue[i].end
      BY DEF RowTypes, QueueWithin, StoreTyped, QueueTyped
    <2>2. \A i \in Queued' : SlotWithin(queue'[i]) /\ queue'[i].gen \in Gens /\ queue'[i].start < queue'[i].end
      BY <1>3, <1>4, <2>1
    <2> QED BY <1>1, <1>2, <2>2 DEF QueueWithin, QueueTyped, SlotWithin, Gens
  <1>6. CursorsWithin(cursors)' /\ CursorsTyped'
    BY <1>1 DEF CursorsWithin, CursorsTyped, Gens, NoCursor
  <1>7. StoreTyped'
    BY <1>1, <1>5, <1>6 DEF RowTypes, StoreTyped, TableTyped, Gens
  <1>8. RowsWithin' /\ EndsWithin'
    BY <1>1 DEF RowTypes, RowsWithin, EndsWithin, Gens
  <1>9. RestWithin'
    BY <1>1 DEF RowTypes, RestWithin
  <1> QED BY <1>5, <1>6, <1>7, <1>8, <1>9 DEF RowTypes

\* The application changes the table: it grows, or the changes count one more.
LEMMA ChangedWithin ==
  ASSUME RowAssumption, RowTypes, StoreTyped', ChangeFrame, RowsWithin',
         changes' \in 0 .. MaxChanges,
         \/ changes < changes'
         \/ changes = changes' /\ Top <= Top' /\ pages <= pages',
         UNCHANGED <<excluded, toggles, throws>>
  PROVE  RowTypes'
PROOF
  <1>1. /\ UNCHANGED <<store, cursors, queue, held, endOf, quarantined, passed, half>>
        /\ Top \in Int /\ pages \in Nat /\ changes \in Nat /\ Top' \in Int /\ pages' \in Nat
        /\ changes' \in Nat /\ Gens \subseteq Nat
    <2>1. First' \in {0, 1} /\ Top' = TopOf(First', rows')
      <3>1. First \in {0, 1}
        BY TopWithin
      <3> QED BY <3>1 DEF ChangeFrame, Top, TopOf
    <2>2. Top' \in Int
      <3>1. IsFiniteSet(rows') /\ \A r \in rows' : r.id \in Nat
        BY DEF StoreTyped, TableTyped, Readable
      <3> QED BY <2>1, <3>1, TopOfIs
    <2> QED BY <2>2, TopWithin DEF ChangeFrame, StoreTyped, RowTypes
  <1>2. CursorsWithin(cursors)'
    <2>1. \A g \in Gens : /\ cursors[g].end \in Int /\ cursors[g].seen \in Int /\ g \in Nat
      BY <1>1 DEF RowTypes, CursorsWithin
    <2> QED BY <1>1, <2>1 DEF RowTypes, CursorsWithin, Gens, NoCursor
  <1>3. EndsWithin'
    <2>1. \A g \in Gens : endOf[g] \in Nat /\ g \in Nat
      BY <1>1 DEF RowTypes, StoreTyped
    <2> QED BY <1>1, <2>1 DEF RowTypes, EndsWithin, Gens
  <1>4. QueueWithin'
    <2>1. \A i \in Queued : queue[i].end \in Nat /\ queue[i].gen \in Nat
      <3>1. \A i \in Queued : queue[i] \in SlotT
        BY DEF RowTypes, StoreTyped, QueueTyped, Queued
      <3> QED BY <3>1 DEF SlotT
    <2> QED BY <1>1, <2>1 DEF RowTypes, QueueWithin, SlotWithin, Queued
  <1>5. RestWithin'
    BY <1>1 DEF RowTypes, RestWithin
  <1> QED BY <1>2, <1>3, <1>4, <1>5 DEF RowTypes

\* There are at most as many rows as there were writes.
LEMMA RowsCounted ==
  ASSUME NEW S, Readable(S), NEW f \in {0, 1}, NEW w \in Nat,
         \A r \in S : f <= r.id /\ r.id < f + w
  PROVE  Cardinality(S) \in Nat /\ Cardinality(S) <= w
PROOF
  <1> DEFINE ids == [r \in S |-> r.id]
             places == f .. f + w - 1
  <1>1. ids \in Injection(S, places)
    <2>1. \A r \in S : r.id \in places
      BY DEF Readable
    <2>2. \A r, q \in S : ids[r] = ids[q] => r = q
      BY DEF Readable
    <2>3. ids \in [S -> places]
      BY <2>1
    <2> HIDE DEF ids, places
    <2> QED BY <2>2, <2>3 DEF Injection, IsInjective
  <1>2. IsFiniteSet(places) /\ Cardinality(places) = w
    <2>1. f \in Int /\ f + w - 1 \in Int
      OBVIOUS
    <2>2. IsFiniteSet(places)
          /\ Cardinality(places) = IF f > f + w - 1 THEN 0 ELSE f + w - 1 - f + 1
      BY <2>1, FS_Interval
    <2>3. (IF f > f + w - 1 THEN 0 ELSE f + w - 1 - f + 1) = w
      OBVIOUS
    <2> HIDE DEF places
    <2> QED BY <2>2, <2>3
  <1>3. Cardinality(S) <= Cardinality(places)
    <2> HIDE DEF ids, places
    <2> QED BY <1>1, <1>2, FS_Injection
  <1>4. Cardinality(S) \in Nat
    BY FS_CardinalityType DEF Readable
  <1> HIDE DEF places
  <1> QED BY <1>2, <1>3, <1>4

LEMMA WriteWithin ==
  ASSUME RowAssumption, RowTypes, NEW k \in RowKinds, Write(k)
  PROVE  RowTypes'
PROOF
  <1>1. StoreTyped
    BY DEF RowTypes
  <1>2. PICK kept, new :
            /\ kept \subseteq rows /\ (IsTokens => kept = rows)
            /\ new.id = Top + 1 /\ new.n = written + 1 /\ new.kind = k
            /\ rows' = kept \cup {new} /\ pages' \in Nat /\ pages <= pages'
            /\ pages' = pages \/ pages' = Cardinality(rows')
            /\ StoreTyped' /\ ChangeFrame /\ Top' = Top + 1 /\ changes' = changes
            /\ shrunk' = shrunk /\ disturbed' = (disturbed \/ (shrunk' /\ Hidden'))
            /\ k \in KindsOf
    BY <1>1, WriteGives
  <1>3. /\ written' = written + 1 /\ written < MaxRows /\ UNCHANGED <<excluded, toggles, throws>>
    BY DEF Write, Changed
  <1>4. /\ First \in {0, 1} /\ First' = First /\ written \in Nat /\ pages \in Nat /\ MaxRows \in Nat
        /\ Top \in Int /\ changes \in 0 .. MaxChanges
        /\ \A r \in rows : r.id \in Nat /\ First <= r.id /\ r.id < First + written /\ r.n \in 1 .. written
                           /\ r.kind \in RowKinds
        /\ pages <= written
    BY <1>1, <1>2, TopWithin DEF RowTypes, RowsWithin, StoreTyped, ChangeFrame
  <1>5. Top < First + written /\ First - 1 <= Top
    <2>1. Top = First - 1 \/ \E r \in rows : r.id = Top
      BY <1>1, TopIs
    <2>2. First - 1 < First + written
      BY <1>4
    <2> QED BY <1>4, <2>1, <2>2, TopWithin
  <1>6. \A r \in rows' : First <= r.id /\ r.id < First + written' /\ r.n \in 1 .. written' /\ r.kind \in RowKinds
    <2>1. \A r \in kept : First <= r.id /\ r.id < First + written' /\ r.n \in 1 .. written' /\ r.kind \in RowKinds
      BY <1>2, <1>3, <1>4
    <2>2. First <= new.id /\ new.id < First + written' /\ new.n \in 1 .. written' /\ new.kind \in RowKinds
      BY <1>2, <1>3, <1>4, <1>5
    <2> QED BY <1>2, <2>1, <2>2
  <1>7. Cardinality(rows') \in Nat /\ Cardinality(rows') <= written'
    <2>1. Readable(rows') /\ written' \in Nat
      BY <1>2, <1>3, <1>4 DEF StoreTyped, TableTyped
    <2> QED BY <1>4, <1>6, <2>1, RowsCounted
  <1>8. RowsWithin'
    BY <1>2, <1>3, <1>4, <1>6, <1>7 DEF RowsWithin
  <1>9. changes' \in 0 .. MaxChanges /\ changes = changes' /\ Top <= Top' /\ pages <= pages'
    BY <1>2, <1>4
  <1> QED BY <1>2, <1>3, <1>8, <1>9, ChangedWithin

LEMMA RemovedWithin ==
  ASSUME RowAssumption, RowTypes, Delete \/ Vacuum
  PROVE  RowTypes'
PROOF
  <1>1. StoreTyped /\ RowsWithin
    BY DEF RowTypes
  <1>2. /\ First \in {0, 1} /\ written \in Nat /\ changes \in Nat /\ MaxChanges \in Nat
        /\ pages \in Nat /\ changes \in 0 .. MaxChanges
    BY <1>1, TopWithin DEF StoreTyped
  <1>3. CASE Delete
    <2>1. PICK r \in rows : Changed(rows \ {r}, pages, TRUE)
      BY <1>3 DEF Delete
    <2>2. /\ changes < MaxChanges /\ changes' = changes + 1 /\ written' = written
          /\ UNCHANGED <<excluded, toggles, throws>>
      BY <1>3, <2>1 DEF Delete, Changed
    <2>3. Readable(rows \ {r}) /\ \A q \in rows \ {r} : q \in RowT /\ First <= q.id
      BY <1>1, FS_RemoveElement DEF StoreTyped, TableTyped, Readable
    <2>4. written' \in Nat /\ changes' \in 0 .. MaxChanges /\ changes < changes'
      BY <1>2, <2>2
    <2>5. StoreTyped' /\ ChangeFrame /\ rows' = rows \ {r} /\ pages' = pages
      BY <1>1, <1>2, <2>1, <2>3, <2>4, ChangedTyped
    <2>6. RowsWithin'
      BY <1>1, <2>2, <2>5 DEF RowsWithin, ChangeFrame
    <2> QED BY <2>2, <2>4, <2>5, <2>6, ChangedWithin
  <1>4. CASE Vacuum
    <2>1. /\ StoreTyped' /\ ChangeFrame
          /\ changes < MaxChanges /\ changes' = changes + 1 /\ written' = written
          /\ Cardinality(rows) \in Nat /\ pages' = Cardinality(rows) /\ First = 1
          /\ \A q \in rows' : q.id <= Cardinality(rows) /\ \E r \in rows : q.n = r.n /\ q.kind = r.kind
      BY <1>1, <1>4, VacuumGives
    <2>2. UNCHANGED <<excluded, toggles, throws>>
      BY <1>4 DEF Vacuum, Changed
    <2>3. Cardinality(rows) <= written
      <3>1. Readable(rows) /\ \A r \in rows : First <= r.id /\ r.id < First + written
        BY <1>1 DEF StoreTyped, TableTyped, RowsWithin
      <3> QED BY <1>2, <3>1, RowsCounted
    <2>4. \A q \in rows' : q.id \in Nat
      BY <2>1 DEF StoreTyped, TableTyped, Readable
    <2>5. \A q \in rows' : q.id < First + written
      BY <1>2, <2>1, <2>3, <2>4
    <2>6. RowsWithin'
      BY <1>1, <2>1, <2>3, <2>5 DEF RowsWithin, ChangeFrame
    <2>7. changes' \in 0 .. MaxChanges /\ changes < changes'
      BY <1>2, <2>1
    <2> QED BY <2>1, <2>2, <2>6, <2>7, ChangedWithin
  <1> QED BY <1>3, <1>4

\* The polls.
LEMMA PollsWithin ==
  ASSUME RowAssumption, RowTypes, RowPolls
  PROVE  RowTypes'
PROOF
  <1>1. StoreTyped /\ CursorsWithin(cursors) /\ RestWithin
    BY DEF RowTypes
  <1>2. /\ ReadGen \in Gens /\ ReadGen \in Nat /\ ReadGen <= changes /\ Gen \in Gens /\ Gen <= changes
        /\ (~DetectVacuum => ReadGen = Gen)
    BY ReadWithin
  <1>3. /\ Filtered \subseteq rows /\ Selected \subseteq rows /\ PlannedOut \subseteq rows
        /\ \A r \in rows : r.n \in 1 .. MaxRows
    BY <1>1, SelectedIs, TopWithin DEF PlannedOut
  <1>4. /\ Top + 1 \in 0 .. MaxRows + 1 /\ pages \in -1 .. MaxRows /\ Unseen \in -1 .. MaxRows
        /\ ~ (pages > pages) /\ ~ (Unseen > pages) /\ Top \in Int
    BY TopWithin DEF Unseen
  <1>5. /\ half \in BOOLEAN /\ shrunk' \in BOOLEAN /\ disturbed' \in BOOLEAN
        /\ throws \in 0 .. MaxThrows
        /\ quarantined \subseteq 1 .. MaxRows /\ passed \subseteq 1 .. MaxRows
    <2>1. shrunk' = FALSE /\ disturbed' = (disturbed /\ ~DetectVacuum)
      BY DEF RowPolls, PollRefreshes, PollRows, PollOversized, Looked
    <2> QED BY <1>1, <2>1 DEF RestWithin
  <1>6. CASE PollRefreshes
    <2>1. CursorsWithin(cursors')
      <3>1. CASE cursors' = cursors
        BY <1>1, <3>1
      <3>2. CASE DetectVacuum /\ SetCursor(ReadGen, 0, pages)
        <4>1. 0 \in 0 .. MaxRows + 1 /\ ~ (0 > Top + 1)
          BY <1>4, TopWithin
        <4> DEFINE e == 0
        <4>2. e \in 0 .. MaxRows + 1 /\ ~ (e > Top + 1) /\ cursors' = [cursors EXCEPT ![ReadGen] = [end |-> e, seen |-> pages]]
          BY <3>2, <4>1 DEF SetCursor
        <4> HIDE DEF e
        <4> QED BY <1>1, <1>2, <1>4, <4>2, CursorSet
      <3>3. CASE SetCursor(Gen, Prior.end, pages) /\ Prior # NoCursor
        <4>1. Prior = cursors[Gen]
          BY <1>1, GenIs
        <4>2. Prior.end \in 0 .. MaxRows + 1 /\ (Prior.end > Top + 1 => Gen < changes)
          BY <1>1, <1>2, <3>3, <4>1 DEF CursorsWithin
        <4> DEFINE e == Prior.end
        <4>3. e \in 0 .. MaxRows + 1 /\ (e > Top + 1 => Gen < changes)
              /\ cursors' = [cursors EXCEPT ![Gen] = [end |-> e, seen |-> pages]]
          BY <3>3, <4>2 DEF SetCursor
        <4> HIDE DEF e
        <4> QED BY <1>1, <1>2, <1>4, <4>3, CursorSet
      <3>4. Prior = NoCursor => Gen = 0
        BY <1>1, GenIs
      <3> QED BY <1>2, <1>6, <3>1, <3>2, <3>3, <3>4 DEF PollRefreshes, DetectVacuum
    <2>2. PartOf(ReadGen, {}, << >>) /\ queue' = queue \o << >>
      <3>1. QueueTyped /\ queue' = queue
        BY <1>1, <1>6 DEF StoreTyped, PollRefreshes
      <3> QED BY <3>1, NothingCut, CutsArePart
    <2>3. RowUnpolled /\ UNCHANGED <<quarantined, passed, half, throws>>
      BY <1>6 DEF PollRefreshes
    <2> DEFINE K == {}
               s == << >>
    <2>4. PartOf(ReadGen, K, s) /\ queue' = queue \o s /\ K \subseteq rows
      BY <2>2
    <2> HIDE DEF K, s
    <2> QED BY <1>2, <1>5, <2>1, <2>3, <2>4, PolledWithin
  <1>7. CASE PollRows
    <2> DEFINE e == Max(Ids(Selected)) + 1
               p == IF IsTokens THEN Unseen ELSE pages
    <2>1. /\ RowUnpolled /\ UNCHANGED <<half, throws>> /\ Selected # {}
          /\ quarantined' = quarantined \cup Big /\ passed' = passed \cup {r.n : r \in PlannedOut}
          /\ cursors' = [cursors EXCEPT ![ReadGen] = [end |-> e, seen |-> p]]
      BY <1>7 DEF PollRows, SetCursor
    <2>2. PICK s \in NewCaptures : queue' = queue \o s
      BY <1>7 DEF PollRows
    <2>3. PartOf(ReadGen, Filtered, s)
      BY <1>1, <1>2, CapturesCut, CutsArePart
    <2>4. e \in 0 .. MaxRows + 1 /\ ~ (e > Top + 1) /\ p \in -1 .. MaxRows /\ ~ (p > pages)
      <3>1. e \in Nat /\ e <= Top + 1
        BY <1>1, <1>4, <2>1, SelectedIs
      <3> HIDE DEF e
      <3> QED BY <1>4, <3>1
    <2> HIDE DEF e, p
    <2>5. CursorsWithin(cursors')
      BY <1>1, <1>2, <2>1, <2>4, CursorSet
    <2>6. quarantined' \subseteq 1 .. MaxRows /\ passed' \subseteq 1 .. MaxRows
      <3>1. Big \subseteq 1 .. MaxRows
        BY <1>3 DEF Big
      <3>2. {r.n : r \in PlannedOut} \subseteq 1 .. MaxRows
        BY <1>3
      <3> QED BY <1>5, <2>1, <3>1, <3>2
    <2> QED BY <1>2, <1>3, <1>5, <2>1, <2>2, <2>3, <2>5, <2>6, PolledWithin
  <1>8. CASE PollOversized
    <2>1. /\ RowUnpolled /\ UNCHANGED <<quarantined, passed, half, throws>>
          /\ cursors' = Handled(cursors)
      BY <1>8 DEF PollOversized, RowError
    <2>2. PICK s \in NewCaptures : queue' = queue \o s
      BY <1>8 DEF PollOversized
    <2>3. PartOf(ReadGen, Filtered, s)
      BY <1>1, <1>2, CapturesCut, CutsArePart
    <2>4. CursorsWithin(cursors')
      BY <1>1, <2>1, HandledWithin
    <2> QED BY <1>2, <1>3, <1>5, <2>1, <2>2, <2>3, <2>4, PolledWithin
  <1> QED BY <1>6, <1>7, <1>8 DEF RowPolls

\* A poll that throws, and one that dies.
LEMMA ThrowsWithin ==
  ASSUME RowAssumption, RowTypes, PollFails \/ PollDies
  PROVE  RowTypes'
PROOF
  <1>1. StoreTyped /\ CursorsWithin(cursors) /\ RestWithin
    BY DEF RowTypes
  <1>2. ReadGen \in Gens /\ ReadGen \in Nat /\ ReadGen <= changes
    BY ReadWithin
  <1>3. /\ Filtered \subseteq rows /\ PlannedOut \subseteq rows
        /\ \A r \in rows : r.n \in 1 .. MaxRows /\ r.id \in Nat /\ r.id <= Top /\ r.id <= MaxRows
    BY <1>1, SelectedIs, TopWithin DEF PlannedOut
  <1>4. /\ half \in BOOLEAN /\ shrunk \in BOOLEAN /\ disturbed \in BOOLEAN
        /\ quarantined \subseteq 1 .. MaxRows /\ passed \subseteq 1 .. MaxRows
    BY <1>1 DEF RestWithin, StoreTyped
  <1>5. RowUnpolled /\ throws' \in 0 .. MaxThrows
    <2>1. throws \in 0 .. MaxThrows /\ throws < MaxThrows /\ throws' = throws + 1 /\ MaxThrows \in Nat
      BY <1>1 DEF PollFails, PollDies, RestWithin, RowAssumption
    <2> QED BY <2>1 DEF PollFails, PollDies
  <1>6. CASE PollFails
    <2>1. PICK e, s, done, kept, last : FailedAt(e, s, done, kept, last)
      BY <1>1, <1>2, <1>6, PollFailsAt
    <2>2. /\ done = {r \in Filtered : r.id <= e}
          /\ kept = {r \in done : r.kind = "big" /\ ~IsTokens}
          /\ last = TopOf(First, kept)
          /\ CutOf(ReadGen, done, s) /\ queue' = queue \o s
          /\ half' = (half \/ \E i \in 1 .. Len(s) : s[i].end > last + 1)
          /\ quarantined' = quarantined \cup {r.n : r \in kept}
          /\ passed' = passed \cup {r.n : r \in {q \in PlannedOut : q.id <= last}}
          /\ cursors' = Handled(CursorsPast(last))
          /\ IF last < First THEN UNCHANGED <<shrunk, disturbed>> ELSE Looked
      BY <2>1 DEF FailedAt
    <2>3. done \subseteq rows /\ kept \subseteq rows /\ PartOf(ReadGen, done, s)
      BY <1>3, <2>2, CutsArePart
    <2>4. CursorsWithin(CursorsPast(last))
      <3>1. CASE last < First
        BY <1>1, <3>1 DEF CursorsPast
      <3>2. CASE ~ (last < First)
        <4>1. IsFiniteSet(kept) /\ First \in {0, 1} /\ \A r \in kept : r.id \in Nat
          <5>1. IsFiniteSet(rows) /\ kept \in SUBSET rows
            BY <1>1, <2>3 DEF StoreTyped, TableTyped, Readable
          <5> QED BY <1>3, <2>3, <5>1, TopWithin, FS_Subset
        <4>2. last \in Int /\ First - 1 <= last /\ (last = First - 1 \/ \E r \in kept : r.id = last)
          BY <2>2, <4>1, TopOfIs
        <4>3. PICK r \in rows : r.id = last
          BY <2>3, <3>2, <4>1, <4>2
        <4> DEFINE c == last + 1
        <4>4. /\ c \in 0 .. MaxRows + 1 /\ ~ (c > Top + 1) /\ pages \in -1 .. MaxRows /\ ~ (pages > pages)
          BY <1>3, <4>3, TopWithin
        <4>5. CursorsPast(last) = [cursors EXCEPT ![ReadGen] = [end |-> c, seen |-> pages]]
          BY <3>2 DEF CursorsPast
        <4> HIDE DEF c
        <4>6. CursorsWithin([cursors EXCEPT ![ReadGen] = [end |-> c, seen |-> pages]])
          BY <1>1, <1>2, <4>4, CursorSet
        <4> QED BY <4>5, <4>6, Zenon
      <3> QED BY <3>1, <3>2
    <2>5. CursorsWithin(cursors')
      BY <2>2, <2>4, HandledWithin
    <2>6. quarantined' \subseteq 1 .. MaxRows /\ passed' \subseteq 1 .. MaxRows
      BY <1>3, <1>4, <2>2, <2>3
    <2>7. half' \in BOOLEAN /\ shrunk' \in BOOLEAN /\ disturbed' \in BOOLEAN
      <3>1. half' \in BOOLEAN
        BY <1>4, <2>2
      <3>2. shrunk' \in BOOLEAN /\ disturbed' \in BOOLEAN
        BY <1>4, <2>2 DEF Looked
      <3> QED BY <3>1, <3>2
    <2> QED BY <1>2, <1>5, <2>2, <2>3, <2>5, <2>6, <2>7, PolledWithin
  <1>7. CASE PollDies
    <2>1. /\ UNCHANGED <<cursors, quarantined, passed, shrunk, disturbed>> /\ half' = TRUE
      BY <1>7 DEF PollDies
    <2>2. PICK q \in NewCaptures : \E m \in 1 .. Len(q) : queue' = queue \o SubSeq(q, 1, m)
      BY <1>7 DEF PollDies
    <2>7. PICK n \in 1 .. Len(q) : queue' = queue \o SubSeq(q, 1, n)
      BY <2>2
    <2>3. PartOf(ReadGen, Filtered, SubSeq(q, 1, n))
      BY <1>1, <1>2, CapturesCut, CutsArePart, PartsArePart
    <2> DEFINE s == SubSeq(q, 1, n)
    <2>4. queue' = queue \o s /\ PartOf(ReadGen, Filtered, s)
      BY <2>3, <2>7
    <2>5. CursorsWithin(cursors')
      BY <1>1, <2>1
    <2>6. half' \in BOOLEAN
      BY <2>1
    <2> HIDE DEF s
    <2> QED BY <1>2, <1>3, <1>4, <1>5, <2>1, <2>4, <2>5, <2>6, PolledWithin
  <1> QED BY <1>6, <1>7

\* An upload.
LEMMA UploadWithin ==
  ASSUME RowAssumption, RowTypes, RowUpload
  PROVE  RowTypes'
PROOF
  <1> DEFINE b == queue[1]
  <1>1. queue # << >> /\ queue' = Tail(queue) /\ QueueTyped /\ StoreTyped /\ CursorsWithin(cursors)
    BY DEF RowUpload, RowTypes, StoreTyped
  <1>2. /\ QueueTyped' /\ 1 \in Queued /\ Head(queue) = b
        /\ \A i \in Queued' : i + 1 \in Queued /\ queue'[i] = queue[i + 1]
        /\ \A i \in Queued : queue[i] \in SlotT
    BY <1>1, TailIs
  <1>3. /\ b.start \in Nat /\ b.end \in Nat /\ b.gen \in Gens /\ SlotWithin(b) /\ endOf[b.gen] \in Nat
    BY <1>1, <1>2 DEF SlotT, QueueTyped, StoreTyped, RowTypes, QueueWithin
  <1>4. /\ UNCHANGED <<store, rows, pages, excluded, quarantined, passed, shrunk, disturbed,
                       half, written, changes, toggles, throws>>
        /\ IsTokens' = IsTokens /\ First' = First /\ Top' = Top
    BY DEF RowUpload, IsTokens, First, Top
  <1>5. /\ CursorsWithin(cursors') /\ held' \subseteq 1 .. MaxRows
        /\ endOf' \in [Gens -> Nat] /\ EndsWithin'
    <2>1. CASE b.start >= endOf[b.gen]
      <3>1. held' = held \cup b.body /\ endOf' = [endOf EXCEPT ![b.gen] = b.end] /\ cursors' = cursors
        BY <1>2, <1>3, <2>1 DEF RowUpload
      <3>2. held' \subseteq 1 .. MaxRows
        BY <1>3, <3>1 DEF SlotWithin, RowTypes, RestWithin
      <3>3. /\ endOf' \in [Gens -> Nat] /\ endOf'[b.gen] = b.end
            /\ \A g \in Gens : g # b.gen => endOf'[g] = endOf[g]
        BY <1>1, <1>3, <3>1 DEF StoreTyped
      <3>4. EndsWithin'
        <4>1. ASSUME NEW g \in Gens, endOf'[g] # 0
              PROVE  endOf'[g] <= MaxRows + 1 /\ g <= changes /\ (endOf'[g] > Top + 1 => g < changes)
          <5>1. CASE g = b.gen
            BY <1>3, <3>3, <5>1 DEF SlotWithin
          <5>2. CASE g # b.gen
            BY <3>3, <4>1, <5>2 DEF RowTypes, EndsWithin
          <5> QED BY <5>1, <5>2
        <4> QED BY <1>4, <4>1 DEF EndsWithin, Gens
      <3> QED BY <1>1, <3>1, <3>2, <3>3, <3>4
    <2>2. CASE b.start < endOf[b.gen]
      <3>1. /\ held' = held /\ endOf' = endOf
            /\ cursors' = [cursors EXCEPT ![b.gen] = [end |-> endOf[b.gen], seen |-> cursors[b.gen].seen]]
        BY <1>2, <1>3, <2>2 DEF RowUpload, SetCursor
      <3>2. held' \subseteq 1 .. MaxRows /\ endOf' \in [Gens -> Nat] /\ EndsWithin'
        BY <1>1, <1>4, <3>1 DEF RowTypes, RestWithin, StoreTyped, EndsWithin, Gens
      <3> DEFINE g == b.gen
                 e == endOf[g]
                 p == cursors[g].seen
      <3>3. g \in Gens /\ g <= changes /\ e \in 0 .. MaxRows + 1 /\ (e > Top + 1 => g < changes)
        <4>1. e # 0 /\ e \in Nat /\ g \in Gens
          BY <1>3, <2>2
        <4>2. e <= MaxRows + 1 /\ g <= changes /\ (e > Top + 1 => g < changes)
          BY <4>1 DEF RowTypes, EndsWithin
        <4> HIDE DEF e, g
        <4> QED BY <4>1, <4>2, TopWithin
      <3>4. p \in -1 .. MaxRows /\ (p > pages => g < changes)
        <4>1. CASE cursors[g] = NoCursor
          BY <1>3, <4>1, TopWithin DEF NoCursor
        <4>2. CASE cursors[g] # NoCursor
          BY <1>1, <3>3, <4>2 DEF CursorsWithin
        <4> QED BY <4>1, <4>2
      <3>5. cursors' = [cursors EXCEPT ![g] = [end |-> e, seen |-> p]]
        BY <3>1
      <3> HIDE DEF g, e, p
      <3>6. CursorsWithin(cursors')
        BY <1>1, <3>3, <3>4, <3>5, CursorSet
      <3> QED BY <3>2, <3>6
    <2> QED BY <1>3, <2>1, <2>2
  <1>6. QueueWithin'
    <2>1. \A i \in Queued' : SlotWithin(queue'[i])
      BY <1>2 DEF RowTypes, QueueWithin
    <2> QED BY <1>4, <2>1 DEF QueueWithin, SlotWithin
  <1>7. CursorsWithin(cursors)' /\ CursorsTyped'
    BY <1>4, <1>5 DEF CursorsWithin, CursorsTyped, Gens, NoCursor
  <1>8. StoreTyped'
    BY <1>1, <1>2, <1>4, <1>5, <1>7 DEF StoreTyped, TableTyped, Gens
  <1>9. RowsWithin' /\ RestWithin'
    BY <1>4, <1>5 DEF RowTypes, RowsWithin, RestWithin
  <1> QED BY <1>5, <1>6, <1>7, <1>8, <1>9 DEF RowTypes

LEMMA TypesStart == RowAssumption /\ RowInit => RowTypes
PROOF
  <1> SUFFICES ASSUME RowAssumption, RowInit PROVE RowTypes
    OBVIOUS
  <1>1. /\ rows = {} /\ pages = 0 /\ written = 0 /\ changes = 0 /\ shrunk = FALSE /\ disturbed = FALSE
        /\ queue = << >> /\ held = {} /\ store \in AllStores /\ store \in Stores
        /\ quarantined = {} /\ passed = {} /\ toggles = 0 /\ throws = 0
        /\ cursors = [g \in Gens |-> NoCursor] /\ endOf = [g \in Gens |-> 0]
    BY DEF RowInit, RowAssumption, AllStores
  <1>2. NoCursor \in [end : Int, seen : Int]
    BY DEF NoCursor
  <1>3. TableTyped /\ CursorsTyped /\ CursorsWithin(cursors)
    BY <1>1, <1>2, FS_EmptySet DEF TableTyped, Readable, CursorsTyped, CursorsWithin
  <1>4. QueueTyped /\ Queued = {}
    BY <1>1 DEF QueueTyped, Queued
  <1>5. endOf \in [Gens -> Nat] /\ changes \in 0 .. MaxChanges
    BY <1>1 DEF RowAssumption
  <1>6. StoreTyped
    BY <1>1, <1>3, <1>4, <1>5 DEF StoreTyped
  <1>7. RowsWithin /\ EndsWithin /\ QueueWithin
    BY <1>1, <1>4 DEF RowsWithin, EndsWithin, QueueWithin, RowAssumption
  <1>8. excluded \in BOOLEAN /\ half \in BOOLEAN
    BY Zenon DEF RowInit
  <1>9. RestWithin
    BY <1>1, <1>8 DEF RestWithin, RowAssumption
  <1> QED BY <1>3, <1>6, <1>7, <1>9 DEF RowTypes

\* What changes no more than the exclusion list, and counts it, keeps the types.
LEMMA TypesStay ==
  ASSUME RowAssumption, RowTypes, UNCHANGED rowVars \/ Toggle
  PROVE  RowTypes'
PROOF
  <1>1. /\ UNCHANGED <<store, rows, pages, cursors, queue, held, endOf, quarantined, passed,
                       shrunk, disturbed, half, written, changes, throws>>
        /\ IsTokens' = IsTokens /\ First' = First /\ Top' = Top /\ Queued' = Queued
    BY DEF Toggle, rowVars, IsTokens, First, Top, Queued
  <1>2. excluded' \in BOOLEAN /\ toggles' \in 0 .. MaxToggles
    <2>1. excluded \in BOOLEAN /\ toggles \in 0 .. MaxToggles /\ MaxToggles \in Nat
      BY DEF RowTypes, RestWithin, RowAssumption
    <2>2. excluded' \in BOOLEAN
      BY <2>1 DEF Toggle, rowVars
    <2>3. toggles' \in 0 .. MaxToggles
      BY <2>1 DEF Toggle, rowVars
    <2> QED BY <2>2, <2>3
  <1>3. StoreTyped'
    BY <1>1 DEF RowTypes, StoreTyped, TableTyped, CursorsTyped, QueueTyped, NoCursor, Gens
  <1>4. RowsWithin' /\ CursorsWithin(cursors)' /\ EndsWithin'
    BY <1>1 DEF RowTypes, RowsWithin, CursorsWithin, EndsWithin, NoCursor, Gens
  <1>5. QueueWithin'
    BY <1>1 DEF RowTypes, QueueWithin, SlotWithin
  <1>6. RestWithin'
    BY <1>1, <1>2 DEF RowTypes, RestWithin
  <1> QED BY <1>3, <1>4, <1>5, <1>6 DEF RowTypes

LEMMA TypesStep == RowAssumption /\ RowTypes /\ [RowNext]_rowVars => RowTypes'
  BY TypesStay, WriteWithin, RemovedWithin, PollsWithin, ThrowsWithin, UploadWithin DEF RowNext

\* In every reachable state each variable keeps to its values: in particular the bounds
\* on writes and changes bound the places, the cursors and the generations, also after
\* captures have lost their cursor.
THEOREM RowCollectorTypes == RowSpec => []RowTypeOK
PROOF
  <1>1. RowInit => RowTypes
    BY RowAssumption, TypesStart
  <1>2. RowTypes /\ [RowNext]_rowVars => RowTypes'
    BY RowAssumption, TypesStep
  <1>3. RowTypes => RowTypeOK
    BY RowAssumption, TypesSuffice
  <1> QED BY <1>1, <1>2, <1>3, PTL DEF RowSpec

=============================================================================
