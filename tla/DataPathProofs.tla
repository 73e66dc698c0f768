--------------------------- MODULE DataPathProofs ---------------------------
(***************************************************************************)
(* Proofs about the data path beside claude-code's, in three parts.        *)
(*                                                                         *)
(* LineCollectors: a cursor passes no line that neither the backend nor a  *)
(* capture holds, and an excluded project is frozen; for files of any      *)
(* length, any number of faults, and any cut of a read.                    *)
(*                                                                         *)
(* BufferViews: what the commands put together of several queries was so   *)
(* while they read, and neither loop puts back the other's older part of   *)
(* daemon_state; for any number of captures, drains, deaths of the daemon  *)
(* and runs of setup, and for any retention times.                         *)
(*                                                                         *)
(* ConsentSurface: what inspect says of the collectors is so; for files of *)
(* any length.                                                             *)
(*                                                                         *)
(* And the run of the three and of RowCollector: every variable keeps to   *)
(* its values.                                                             *)
(***************************************************************************)
EXTENDS RowProofs, MCDataPath, FiniteSetTheorems, TLAPS

-----------------------------------------------------------------------------
(* LineCollectors: the pieces of a read *)

\* What a read of everything new is cut into: ranges that follow each other from the
\* cursor to the end of the read, each with the kept lines of its range, those
\* before the last one ending at a kept line, and a line that is too large alone.
CutInOrder(p) ==
    /\ p \in Seq(Captures) /\ Len(p) \in Nat \ {0}
    /\ p[1].start = Position /\ p[Len(p)].end = Len(line)
    /\ \A n \in 1..Len(p) :
          /\ p[n].start < p[n].end /\ Position <= p[n].start /\ p[n].end <= Len(line)
          /\ p[n].body \subseteq 1..Len(line)
          /\ \A i \in p[n].body : p[n].start < i /\ i <= p[n].end
    /\ \A m, n \in 1..Len(p) : m < n => p[m].end <= p[n].start
    /\ \A n \in 1..Len(p) : n > 1 => p[n].start = p[n - 1].end
    /\ \A n \in 1..Len(p) : n < Len(p) => p[n].end \in KeptFrom(Position)
    /\ \A i \in KeptFrom(Position), n \in 1..Len(p) :
          /\ i <= p[n].end => \E m \in 1..n : i \in p[m].body
          /\ p[n].start < i /\ i <= p[n].end => i \in p[n].body
    /\ \A n \in 1..Len(p) : \A h, i \in p[n].body : line[h] = "huge" => i = h

\* What is so of claude-desktop's slices too, which all have the range of the read.
CutWithin(p) ==
    /\ p \in Seq(Captures) /\ Len(p) \in Nat \ {0}
    /\ \A n \in 1..Len(p) :
          /\ p[n].start < p[n].end /\ p[n].end <= Len(line)
          /\ p[n].body \subseteq 1..Len(line)
          /\ \A i \in p[n].body : i <= p[n].end

\* Only a file whose reads may be cut has a line that is too large.
LargeInCut == \A i \in DOMAIN line : line[i] = "huge" => app \in Cut

LEMMA PositionType ==
  ASSUME LineAssumption, LineTypeOK
  PROVE  /\ Len(line) \in Nat /\ DOMAIN line = 1..Len(line)
         /\ fallback \in Nat /\ own \in {None} \cup 0..Len(line)
         /\ own # None => Position = own
         /\ own = None => Position = fallback
         /\ Position \in Int /\ Position >= 0
BY DEF LineAssumption, LineTypeOK, Position, None

LEMMA ReadingsCut ==
  ASSUME LineAssumption, LineTypeOK, app = "claude-desktop" => app \notin Cut, Reads,
         NEW p \in Readings
  PROVE  CutInOrder(p)
PROOF
  <1> DEFINE P == Position
             L == Len(line)
             kept == KeptFrom(P)
  <1>1. P \in Nat /\ L \in Nat /\ P < L /\ L <= MaxLines /\ MaxLines \in Nat
    BY PositionType DEF Reads, LineTypeOK, LineAssumption
  <1>2. kept \subseteq P + 1..L
    BY DEF KeptFrom
  <1>3a. PICK m \in 1..L : \E of \in Slicings(kept, m) : \E last \in LastLines(kept, m, of) :
           p = [n \in 1..m |-> Piece(last, m, n, {i \in kept : of[i] = n})]
    BY DEF Readings
  <1>3b. PICK of \in Slicings(kept, m) : \E last \in LastLines(kept, m, of) :
           p = [n \in 1..m |-> Piece(last, m, n, {i \in kept : of[i] = n})]
    BY <1>3a
  <1>3. PICK last \in LastLines(kept, m, of) :
          p = [n \in 1..m |-> Piece(last, m, n, {i \in kept : of[i] = n})]
    BY <1>3b
  <1>4. /\ of \in [kept -> 1..m]
        /\ app \in Cut \/ m = 1
        /\ \A i, j \in kept : i < j => of[i] <= of[j]
        /\ \A i, j \in kept : line[i] = "huge" /\ of[i] = of[j] => i = j
    BY DEF Slicings
  <1>5. /\ last \in [1..m -> kept]
        /\ \A n \in 1..m : of[last[n]] = n
        /\ \A n \in 1..m : \A i \in kept : of[i] = n => i <= last[n]
    BY DEF LastLines
  <1>6. m \in Nat /\ m >= 1
    BY <1>1
  <1> DEFINE S(n) == IF n = 1 THEN P ELSE last[n - 1]
             E(n) == IF n = m THEN L ELSE last[n]
             B(n) == {i \in kept : of[i] = n}
  <1>7a. \A n \in 1..m : p[n] = [start |-> S(n), end |-> E(n), body |-> B(n)]
    <2> TAKE n \in 1..m
    <2>1. p[n] = Piece(last, m, n, B(n))
      BY <1>3
    <2>2. CASE app = "claude-desktop"
      <3>1. m = 1 /\ n = 1
        BY <1>4, <2>2, <1>6
      <3> QED BY <2>1, <2>2, <3>1 DEF Piece, WholeRange
    <2>3. CASE app # "claude-desktop"
      BY <2>1, <2>3 DEF Piece, PieceRange
    <2> QED BY <2>2, <2>3
  <1>7. \A n \in 1..m : p[n].start = S(n) /\ p[n].end = E(n) /\ p[n].body = B(n)
    <2> TAKE n \in 1..m
    <2>1. p[n] = [start |-> S(n), end |-> E(n), body |-> B(n)]
      BY <1>7a
    <2> HIDE DEF S, E, B
    <2> QED BY <2>1
  <1>8. Len(p) = m /\ DOMAIN p = 1..m
    BY <1>3, <1>6
  <1>9. \A n \in 1..m : last[n] \in kept /\ last[n] \in Nat /\ P < last[n] /\ last[n] <= L
    BY <1>5, <1>2, <1>1
  <1>10. \A a, b \in 1..m : a < b => last[a] < last[b]
    <2> SUFFICES ASSUME NEW a \in 1..m, NEW b \in 1..m, a < b, ~(last[a] < last[b])
                 PROVE  FALSE
      OBVIOUS
    <2>1. of[last[a]] = a /\ of[last[b]] = b
      BY <1>5
    <2>2. last[b] < last[a] \/ last[b] = last[a]
      BY <1>9
    <2>3. of[last[b]] <= of[last[a]]
      BY <2>2, <1>4, <1>9, <2>1, <1>6
    <2> QED BY <2>1, <2>3, <1>6
  <1>11. \A n \in 1..m : /\ S(n) \in Nat /\ E(n) \in Nat /\ P <= S(n) /\ E(n) <= L
                         /\ S(n) < E(n) /\ last[n] <= E(n)
    <2> TAKE n \in 1..m
    <2>1. n - 1 \in 1..m \/ n = 1
      BY <1>6
    <2>2. S(n) \in Nat /\ P <= S(n) /\ S(n) < last[n]
      BY <2>1, <1>9, <1>10, <1>1, <1>6
    <2>3. E(n) \in Nat /\ E(n) <= L /\ last[n] <= E(n)
      BY <1>9, <1>1
    <2> QED BY <2>2, <2>3, <1>9
  <1>12. \A i \in kept : i \in Nat /\ of[i] \in 1..m
    BY <1>2, <1>4, <1>1
  \* A kept line is in the range of its own slice.
  <1>13. \A i \in kept, n \in 1..m : i <= E(n) => of[i] <= n
    <2> SUFFICES ASSUME NEW i \in kept, NEW n \in 1..m, i <= E(n), ~(of[i] <= n)
                 PROVE  FALSE
      OBVIOUS
    <2>1. n # m /\ E(n) = last[n]
      BY <1>12, <1>6
    <2>2. i <= last[n] /\ of[last[n]] = n /\ last[n] \in kept
      BY <2>1, <1>5
    <2>3. of[i] <= of[last[n]]
      BY <2>2, <1>4, <1>12
    <2> QED BY <2>2, <2>3
  <1>14. \A i \in kept, n \in 1..m : S(n) < i => n <= of[i]
    <2> SUFFICES ASSUME NEW i \in kept, NEW n \in 1..m, S(n) < i, ~(n <= of[i])
                 PROVE  FALSE
      OBVIOUS
    <2>1. n # 1 /\ n - 1 \in 1..m /\ S(n) = last[n - 1]
      BY <1>12, <1>6
    <2>2. i <= last[of[i]] /\ of[i] <= n - 1
      BY <1>5, <1>12, <1>6
    <2>3. last[of[i]] <= last[n - 1]
      BY <2>1, <2>2, <1>10, <1>12, <1>9
    <2> QED BY <2>1, <2>2, <2>3, <1>9, <1>12
  <1>14a. \A n \in 1..m : \A i \in B(n) : S(n) < i
    <2> SUFFICES ASSUME NEW n \in 1..m, NEW i \in kept, of[i] = n, ~(S(n) < i)
                 PROVE  FALSE
      OBVIOUS
    <2>1. n # 1 /\ n - 1 \in 1..m /\ S(n) = last[n - 1]
      BY <1>2, <1>1, <1>6
    <2>2. i <= last[n - 1] /\ of[last[n - 1]] = n - 1 /\ last[n - 1] \in kept
      BY <2>1, <1>5, <1>9, <1>12
    <2>3. of[i] <= of[last[n - 1]]
      BY <2>2, <1>4, <1>12
    <2> QED BY <2>2, <2>3, <1>6
  <1>15. p \in Seq(Captures)
    <2>1. \A n \in 1..m : B(n) \in SUBSET (1..MaxLines)
      BY <1>2, <1>1
    <2>2. \A n \in 1..m : S(n) \in 0..MaxLines /\ E(n) \in 0..MaxLines
      BY <1>11, <1>1
    <2>3. \A n \in 1..m : p[n] \in Captures
      <3> TAKE n \in 1..m
      <3>1. p[n] = [start |-> S(n), end |-> E(n), body |-> B(n)]
        BY <1>7a
      <3> HIDE DEF S, E, B
      <3> QED BY <3>1, <2>1, <2>2 DEF Captures
    <2>4. p = [n \in 1..m |-> p[n]]
      BY <1>3
    <2> QED BY <2>3, <2>4, <1>6
  <1>16. p[1].start = P /\ p[m].end = L
    BY <1>7, <1>6
  <1>17. \A n \in 1..m : /\ p[n].start < p[n].end /\ P <= p[n].start /\ p[n].end <= L
                         /\ p[n].body \subseteq 1..L
                         /\ \A i \in p[n].body : p[n].start < i /\ i <= p[n].end
    <2> TAKE n \in 1..m
    <2>1. B(n) \subseteq 1..L
      BY <1>2, <1>1
    <2>2. \A i \in B(n) : S(n) < i /\ i <= E(n)
      BY <1>5, <1>9, <1>11, <1>12, <1>14a
    <2>3. p[n].start = S(n) /\ p[n].end = E(n) /\ p[n].body = B(n)
      BY <1>7
    <2>4. P <= S(n) /\ E(n) <= L /\ S(n) < E(n)
      BY <1>11
    <2> HIDE DEF S, E, B
    <2> QED BY <2>1, <2>2, <2>3, <2>4
  <1>18. \A a, b \in 1..m : a < b => p[a].end <= p[b].start
    <2> SUFFICES ASSUME NEW a \in 1..m, NEW b \in 1..m, a < b
                 PROVE  E(a) <= S(b)
      BY <1>7
    <2>1. b - 1 \in 1..m /\ a <= b - 1 /\ E(a) = last[a] /\ S(b) = last[b - 1]
      BY <1>6
    <2> QED BY <2>1, <1>10, <1>9
  <1>19. \A n \in 1..m : n > 1 => p[n].start = p[n - 1].end
    <2> SUFFICES ASSUME NEW n \in 1..m, n > 1
                 PROVE  S(n) = E(n - 1) /\ n - 1 \in 1..m
      BY <1>7
    <2> QED BY <1>6
  <1>20. \A n \in 1..m : n < m => p[n].end \in kept
    BY <1>7, <1>9, <1>6
  <1>21. \A i \in kept, n \in 1..m :
           /\ i <= p[n].end => \E a \in 1..n : i \in p[a].body
           /\ p[n].start < i /\ i <= p[n].end => i \in p[n].body
    <2> TAKE i \in kept, n \in 1..m
    <2>1. i \in B(of[i]) /\ p[of[i]].body = B(of[i]) /\ p[n].end = E(n) /\ p[n].start = S(n)
      BY <1>7, <1>12
    <2>2. ASSUME i <= E(n) PROVE of[i] \in 1..n
      BY <2>2, <1>13, <1>12, <1>6
    <2>3. ASSUME S(n) < i, i <= E(n) PROVE of[i] = n
      BY <2>3, <1>13, <1>14, <1>12, <1>6
    <2> QED BY <2>1, <2>2, <2>3
  <1>22. \A n \in 1..m : \A h, i \in p[n].body : line[h] = "huge" => i = h
    BY <1>7, <1>4
  <1> HIDE DEF P, L, kept, S, E, B
  <1>23. p \in Seq(Captures) /\ Len(p) \in Nat \ {0}
    BY <1>6, <1>8, <1>15
  <1>24. p[1].start = Position /\ p[Len(p)].end = Len(line)
    BY <1>8, <1>16 DEF P, L
  <1>25. \A n \in 1..Len(p) :
           /\ p[n].start < p[n].end /\ Position <= p[n].start /\ p[n].end <= Len(line)
           /\ p[n].body \subseteq 1..Len(line)
           /\ \A i \in p[n].body : p[n].start < i /\ i <= p[n].end
    BY <1>8, <1>17 DEF P, L
  <1>26. \A a, b \in 1..Len(p) : a < b => p[a].end <= p[b].start
    BY <1>8, <1>18
  <1>27. \A n \in 1..Len(p) : n > 1 => p[n].start = p[n - 1].end
    BY <1>8, <1>19
  <1>28. \A n \in 1..Len(p) : n < Len(p) => p[n].end \in KeptFrom(Position)
    BY <1>8, <1>20 DEF kept, P
  <1>29. \A i \in KeptFrom(Position), n \in 1..Len(p) :
           /\ i <= p[n].end => \E a \in 1..n : i \in p[a].body
           /\ p[n].start < i /\ i <= p[n].end => i \in p[n].body
    BY <1>8, <1>21 DEF kept, P
  <1>30. \A n \in 1..Len(p) : \A h, i \in p[n].body : line[h] = "huge" => i = h
    BY <1>8, <1>22
  <1> QED BY <1>23, <1>24, <1>25, <1>26, <1>27, <1>28, <1>29, <1>30 DEF CutInOrder

\* Whoever reads, and however it is cut.
LEMMA ReadingsWithin ==
  ASSUME LineAssumption, LineTypeOK, Reads, NEW p \in Readings
  PROVE  CutWithin(p)
PROOF
  <1>1. CASE app # "claude-desktop"
    BY <1>1, ReadingsCut DEF CutInOrder, CutWithin
  <1>2. CASE app = "claude-desktop"
    <2> DEFINE kept == KeptFrom(Position)
    <2>1. PICK m \in 1..Len(line) : \E of \in Slicings(kept, m) : \E last \in LastLines(kept, m, of) :
             p = [n \in 1..m |-> Piece(last, m, n, {i \in kept : of[i] = n})]
      BY DEF Readings
    <2>2. PICK of \in Slicings(kept, m) : \E last \in LastLines(kept, m, of) :
             p = [n \in 1..m |-> Piece(last, m, n, {i \in kept : of[i] = n})]
      BY <2>1
    <2> DEFINE B(n) == {i \in kept : of[i] = n}
               q(n) == [start |-> Position, end |-> Len(line), body |-> B(n)]
    <2>3. p = [n \in 1..m |-> q(n)]
      BY <1>2, <2>2 DEF Piece, WholeRange
    <2>4. /\ Position \in Nat /\ Len(line) \in Nat /\ Position < Len(line)
          /\ Len(line) <= MaxLines /\ MaxLines \in Nat /\ m \in Nat /\ m >= 1
      BY PositionType DEF Reads, LineTypeOK, LineAssumption
    <2>5. \A n \in 1..m : B(n) \subseteq 1..Len(line)
      BY <2>4 DEF KeptFrom
    <2>6. \A n \in 1..m : q(n) \in Captures
      BY <2>4, <2>5 DEF Captures
    <2>7. \A n \in 1..m : /\ q(n).start = Position /\ q(n).end = Len(line)
                          /\ q(n).body = B(n)
      OBVIOUS
    <2> HIDE DEF q, B, kept
    <2>8. p \in Seq(Captures) /\ Len(p) = m /\ \A n \in 1..m : p[n] = q(n)
      BY <2>3, <2>4, <2>6
    <2> QED BY <2>4, <2>5, <2>7, <2>8 DEF CutWithin
  <1> QED BY <1>1, <1>2

-----------------------------------------------------------------------------
\* A waiting capture has lines that the file has, up to its end.
CapturesTrue ==
    \A n \in 1..Len(waiting) :
        /\ waiting[n].start < waiting[n].end /\ waiting[n].end <= Len(line)
        /\ waiting[n].body \subseteq 1..Len(line)
        /\ \A i \in waiting[n].body : i <= waiting[n].end

Covered(i) == i <= serverEnd \/ \E n \in 1..Len(waiting) : i <= waiting[n].end

\* A capture the backend will take, and one it will refuse, for it has what it says.
Fresh(n) ==
    /\ serverEnd <= waiting[n].start
    /\ \A m \in 1..n - 1 : waiting[m].end <= waiting[n].start
Stale(n) ==
    \/ waiting[n].end <= serverEnd
    \/ \E m \in 1..n - 1 : waiting[n].end <= waiting[m].end

\* The cursor is where the captures end: they follow each other up to it.
AtFront ==
    /\ serverEnd <= Position
    /\ \A n \in 1..Len(waiting) : waiting[n].end <= Position /\ Fresh(n)
    /\ \A i \in 1..Position : Keeps(line[i]) => Covered(i)

\* A line that is too large holds the cursor: what comes before it is captured again
\* and again, and nothing after it is captured.
StoppedBefore(h) ==
    /\ line[h] = "huge" /\ Position < h /\ serverEnd < h
    /\ \A n \in 1..Len(waiting) : waiting[n].end < h /\ (Fresh(n) \/ Stale(n))
    /\ \A i \in 1..h - 1 : Keeps(line[i]) => Covered(i)

InPlace == AtFront \/ \E h \in 1..Len(line) : StoppedBefore(h)

\* The wanted lines are where the ranges say: the backend holds those up to its
\* watermark, a capture those of its range, and what is before a capture's range is
\* at the backend or in a capture that waits before it.
LinesWhereSaid ==
    /\ \A i \in 1..serverEnd : Wanted(i) => i \in delivered
    /\ \A n \in 1..Len(waiting) : \A i \in 1..waiting[n].end :
          Wanted(i) => IF i > waiting[n].start
                       THEN i \in waiting[n].body
                       ELSE i \in delivered \/ \E m \in 1..n - 1 : i \in waiting[m].body

LineInv ==
    /\ LineTypeOK /\ LargeInCut /\ CapturesTrue
    /\ torn \/ (InPlace /\ LinesWhereSaid)

LEMMA LineValues ==
  ASSUME LineAssumption, LineTypeOK, CapturesTrue
  PROVE  /\ Len(line) \in Nat /\ Position \in Nat /\ serverEnd \in 0..Len(line)
         /\ Len(waiting) \in Nat
         /\ \A n \in 1..Len(waiting) :
               /\ waiting[n].start \in Nat /\ waiting[n].end \in Nat
               /\ waiting[n] \in Captures
PROOF
  <1>1. Len(line) \in Nat /\ Position \in Nat
    BY PositionType
  <1>2. serverEnd \in 0..Len(line) /\ waiting \in Seq(Captures) /\ Len(waiting) \in Nat
    BY DEF LineTypeOK
  <1>3. \A n \in 1..Len(waiting) : waiting[n] \in Captures
    BY <1>2
  <1>4. \A c \in Captures : c.start \in Nat /\ c.end \in Nat
    BY DEF Captures
  <1> QED BY <1>1, <1>2, <1>3, <1>4

LEMMA WantedIsKept ==
  ASSUME LineAssumption, LineTypeOK, LargeInCut, "claude-desktop" \notin Cut
  PROVE  \A i \in 1..Len(line) :
           /\ Wanted(i) => Keeps(line[i])
           /\ line[i] = "huge" => app # "claude-desktop" /\ Keeps(line[i])
BY PositionType DEF LineAssumption, LineTypeOK, LargeInCut, Wanted, Keeps, IsDialogue

LEMMA InPlaceBound ==
  ASSUME LineAssumption, LineTypeOK
  PROVE  Position <= Len(line)
BY PositionType DEF LineTypeOK

\* What the cursor has passed and is wanted is at the backend or waits.
LEMMA NothingPassed ==
  ASSUME LineAssumption, LineInv, ~torn, "claude-desktop" \notin Cut
  PROVE  /\ Position <= Len(line)
         /\ \A i \in 1..Len(line) :
              Wanted(i) /\ Covered(i)
                => i \in delivered \/ \E n \in 1..Len(waiting) : i \in waiting[n].body
         /\ \A i \in 1..Position : Keeps(line[i]) => Covered(i)
PROOF
  <1>1. LineTypeOK /\ LargeInCut /\ CapturesTrue /\ InPlace /\ LinesWhereSaid
    BY DEF LineInv
  <1>2. Len(line) \in Nat /\ Position \in Nat /\ serverEnd \in 0..Len(line)
        /\ Len(waiting) \in Nat
        /\ \A n \in 1..Len(waiting) : waiting[n].start \in Nat /\ waiting[n].end \in Nat
    BY <1>1, LineValues
  <1>3. Position <= Len(line)
    BY <1>1, <1>2, InPlaceBound
  <1>4. ASSUME NEW i \in 1..Len(line), Wanted(i), Covered(i)
        PROVE  i \in delivered \/ \E n \in 1..Len(waiting) : i \in waiting[n].body
    <2>1. CASE i <= serverEnd
      BY <2>1, <1>1, <1>2, <1>4 DEF LinesWhereSaid
    <2>2. ASSUME NEW n \in 1..Len(waiting), i <= waiting[n].end
          PROVE  i \in delivered \/ \E m \in 1..Len(waiting) : i \in waiting[m].body
      <3>1. i \in 1..waiting[n].end
        BY <2>2, <1>2
      <3> QED BY <3>1, <1>1, <1>2, <1>4 DEF LinesWhereSaid
    <2> QED BY <2>1, <2>2, <1>4 DEF Covered
  <1>5. \A i \in 1..Position : Keeps(line[i]) => Covered(i)
    <2>1. CASE AtFront
      BY <2>1 DEF AtFront
    <2>2. ASSUME NEW h \in 1..Len(line), StoppedBefore(h)
          PROVE  \A i \in 1..Position : Keeps(line[i]) => Covered(i)
      BY <2>2, <1>2 DEF StoppedBefore
    <2> QED BY <2>1, <2>2, <1>1 DEF InPlace
  <1> QED BY <1>3, <1>4, <1>5

-----------------------------------------------------------------------------
(* The insertion of the first pieces of a read *)

LEMMA InsertedWithin ==
  ASSUME LineAssumption, LineTypeOK, CapturesTrue,
         NEW p, CutWithin(p), NEW k \in 0..Len(p),
         Insert(SubSeq(p, 1, k)), UNCHANGED line
  PROVE  /\ waiting' \in Seq(Captures) /\ Len(waiting') = Len(waiting) + k
         /\ \A n \in 1..Len(waiting) : waiting'[n] = waiting[n]
         /\ \A n \in 1..k : waiting'[Len(waiting) + n] = p[n]
         /\ \A n \in 1..Len(waiting') :
               \/ n \in 1..Len(waiting)
               \/ n - Len(waiting) \in 1..k /\ waiting'[n] = p[n - Len(waiting)]
         /\ CapturesTrue'
PROOF
  <1>1. p \in Seq(Captures) /\ Len(p) \in Nat /\ waiting \in Seq(Captures)
        /\ Len(waiting) \in Nat /\ k \in Nat
    BY DEF CutWithin, LineTypeOK
  <1> DEFINE q == SubSeq(p, 1, k)
  <1>2. q \in Seq(Captures) /\ Len(q) = k /\ \A n \in 1..k : q[n] = p[n]
    BY <1>1
  <1>3. waiting' = waiting \o q
    BY DEF Insert
  <1> HIDE DEF q
  <1>4. waiting' \in Seq(Captures) /\ Len(waiting') = Len(waiting) + k
    <2>1. waiting \o q \in Seq(Captures)
      BY <1>1, <1>2
    <2>2. Len(waiting \o q) = Len(waiting) + Len(q)
      BY SMTT(30), <1>1, <1>2
    <2> QED BY <2>1, <2>2, <1>2, <1>3
  <1>5. \A n \in 1..Len(waiting) : waiting'[n] = waiting[n]
    BY <1>1, <1>2, <1>3
  <1>6. \A n \in 1..k : waiting'[Len(waiting) + n] = q[n]
    BY <1>1, <1>2, <1>3
  <1>7. \A n \in 1..k : waiting'[Len(waiting) + n] = p[n]
    BY <1>2, <1>6
  <1>8. ASSUME NEW n \in 1..Len(waiting')
        PROVE  \/ n \in 1..Len(waiting)
               \/ n - Len(waiting) \in 1..k /\ waiting'[n] = p[n - Len(waiting)]
    <2>1. CASE n <= Len(waiting)
      BY <2>1, <1>1, <1>4
    <2>2. CASE n > Len(waiting)
      <3>1. n - Len(waiting) \in 1..k /\ n = Len(waiting) + (n - Len(waiting))
        BY <2>2, <1>1, <1>4
      <3> QED BY <3>1, <1>7
    <2> QED BY <2>1, <2>2, <1>1, <1>4
  <1>9. CapturesTrue'
    <2> SUFFICES ASSUME NEW n \in 1..Len(waiting')
                 PROVE  /\ waiting'[n].start < waiting'[n].end
                        /\ waiting'[n].end <= Len(line)
                        /\ waiting'[n].body \subseteq 1..Len(line)
                        /\ \A i \in waiting'[n].body : i <= waiting'[n].end
      BY DEF CapturesTrue
    <2>1. CASE n \in 1..Len(waiting)
      BY <2>1, <1>5 DEF CapturesTrue
    <2>2. CASE n - Len(waiting) \in 1..k /\ waiting'[n] = p[n - Len(waiting)]
      <3>1. n - Len(waiting) \in 1..Len(p)
        BY <2>2, <1>1
      <3> QED BY <2>2, <3>1 DEF CutWithin
    <2> QED BY <2>1, <2>2, <1>8
  <1> QED BY <1>4, <1>5, <1>7, <1>8, <1>9

LEMMA InsertedWaiting ==
  ASSUME LineAssumption, LineTypeOK, CapturesTrue,
         NEW p, CutInOrder(p), NEW k \in 0..Len(p),
         Insert(SubSeq(p, 1, k)), UNCHANGED line
  PROVE  /\ waiting' \in Seq(Captures) /\ Len(waiting') = Len(waiting) + k
         /\ \A n \in 1..Len(waiting) : waiting'[n] = waiting[n]
         /\ \A n \in 1..k : waiting'[Len(waiting) + n] = p[n]
         /\ \A n \in 1..Len(waiting') :
               \/ n \in 1..Len(waiting)
               \/ n - Len(waiting) \in 1..k /\ waiting'[n] = p[n - Len(waiting)]
         /\ CapturesTrue'
PROOF
  <1>1. CutWithin(p)
    BY DEF CutInOrder, CutWithin
  <1> QED BY <1>1, InsertedWithin

\* What was covered stays so, and the pieces cover their ranges.
LEMMA InsertedCovers ==
  ASSUME LineAssumption, LineTypeOK, CapturesTrue,
         NEW p, CutInOrder(p), NEW k \in 0..Len(p),
         Insert(SubSeq(p, 1, k)), UNCHANGED <<line, serverEnd>>
  PROVE  /\ \A i \in Nat : Covered(i) => Covered(i)'
         /\ \A i \in Nat : \A n \in 1..k : i <= p[n].end => Covered(i)'
PROOF
  <1>1. /\ Len(waiting') = Len(waiting) + k /\ Len(waiting) \in Nat /\ k \in Nat
        /\ \A n \in 1..Len(waiting) : waiting'[n] = waiting[n]
        /\ \A n \in 1..k : waiting'[Len(waiting) + n] = p[n]
    <2>1. Len(waiting) \in Nat /\ k \in Nat
      BY LineValues DEF CutInOrder
    <2> QED BY <2>1, InsertedWaiting
  <1>2. ASSUME NEW i \in Nat, Covered(i)
        PROVE  i <= serverEnd' \/ \E n \in 1..Len(waiting') : i <= waiting'[n].end
    <2>1. ASSUME NEW n \in 1..Len(waiting), i <= waiting[n].end
          PROVE  n \in 1..Len(waiting') /\ i <= waiting'[n].end
      BY <2>1, <1>1
    <2> QED BY <1>2, <2>1 DEF Covered
  <1>3. ASSUME NEW i \in Nat, NEW n \in 1..k, i <= p[n].end
        PROVE  i <= serverEnd' \/ \E m \in 1..Len(waiting') : i <= waiting'[m].end
    <2>1. Len(waiting) + n \in 1..Len(waiting') /\ i <= waiting'[Len(waiting) + n].end
      BY <1>1, <1>3
    <2> QED BY <2>1
  <1> QED BY <1>2, <1>3 DEF Covered

\* The lines stay where the captures say.
LEMMA InsertedWhereSaid ==
  ASSUME LineAssumption, LineInv, ~torn, "claude-desktop" \notin Cut,
         NEW p, CutInOrder(p), NEW k \in 0..Len(p),
         Insert(SubSeq(p, 1, k)), UNCHANGED <<app, line, delivered, serverEnd>>
  PROVE  LinesWhereSaid'
PROOF
  <1>1. LineTypeOK /\ LargeInCut /\ CapturesTrue /\ LinesWhereSaid
    BY DEF LineInv
  <1>2. /\ Len(waiting') = Len(waiting) + k /\ Len(waiting) \in Nat /\ k \in Nat
        /\ \A n \in 1..Len(waiting) : waiting'[n] = waiting[n]
        /\ \A n \in 1..k : waiting'[Len(waiting) + n] = p[n]
        /\ \A n \in 1..Len(waiting') :
              \/ n \in 1..Len(waiting)
              \/ n - Len(waiting) \in 1..k /\ waiting'[n] = p[n - Len(waiting)]
    <2>1. Len(waiting) \in Nat /\ k \in Nat
      BY <1>1, LineValues DEF CutInOrder
    <2> QED BY <2>1, <1>1, InsertedWaiting
  <1>3. Len(line) \in Nat /\ Position \in Nat /\ Len(p) \in Nat
    BY <1>1, LineValues DEF CutInOrder
  <1>4. \A i \in 1..Len(line) : Wanted(i)' = Wanted(i)
    BY DEF Wanted
  <1>5. \A n \in 1..k :
          /\ n \in 1..Len(p) /\ p[n].start \in Nat /\ p[n].end \in Nat
          /\ Position <= p[n].start /\ p[n].end <= Len(line)
    <2> SUFFICES ASSUME NEW n \in 1..k
                 PROVE  /\ n \in 1..Len(p) /\ p[n].start \in Nat /\ p[n].end \in Nat
                        /\ Position <= p[n].start /\ p[n].end <= Len(line)
      OBVIOUS
    <2>1. n \in 1..Len(p)
      BY <1>2, <1>3
    <2>2. p[n] \in Captures
      BY <2>1 DEF CutInOrder
    <2>3. p[n].start \in Nat /\ p[n].end \in Nat
      BY <2>2 DEF Captures
    <2> QED BY <2>1, <2>3 DEF CutInOrder
  <1>6. ASSUME NEW n \in 1..k, NEW i \in 1..p[n].end, Wanted(i)
        PROVE  IF i > p[n].start
               THEN i \in p[n].body
               ELSE i \in delivered
                    \/ \E m \in 1..Len(waiting) + n - 1 : i \in waiting'[m].body
    <2>1. i \in 1..Len(line) /\ Keeps(line[i]) /\ n \in 1..Len(p)
      BY <1>1, <1>3, <1>5, <1>6, WantedIsKept
    <2>2. CASE i <= Position
      <3>1. ~(i > p[n].start)
        BY <2>1, <2>2, <1>3, <1>5
      <3>2. Covered(i)
        BY <2>1, <2>2, <1>3, NothingPassed
      <3>3. i \in delivered \/ \E m \in 1..Len(waiting) : i \in waiting[m].body
        BY <2>1, <1>6, <3>2, NothingPassed
      <3>4. \A m \in 1..Len(waiting) : m \in 1..Len(waiting) + n - 1
        BY <1>2
      <3> QED BY <3>1, <3>3, <3>4, <1>2
    <2>3. CASE i > Position
      <3>1. i \in KeptFrom(Position)
        BY <2>1, <2>3, <1>3 DEF KeptFrom
      <3>2. CASE i > p[n].start
        BY <2>1, <3>1, <3>2, <1>5 DEF CutInOrder
      <3>3. CASE ~(i > p[n].start)
        <4>1. n > 1 /\ n - 1 \in 1..Len(p)
          <5>1. p[1].start = Position
            BY DEF CutInOrder
          <5> QED BY <2>1, <2>3, <3>3, <5>1, <1>3, <1>5
        <4>1a. p[n].start = p[n - 1].end
          BY <2>1, <4>1 DEF CutInOrder
        <4>2. i <= p[n - 1].end
          BY <2>1, <3>3, <4>1a, <1>3, <1>5
        <4>3. PICK m \in 1..n - 1 : i \in p[m].body
          <5>1. \A j \in KeptFrom(Position), b \in 1..Len(p) :
                  j <= p[b].end => \E m \in 1..b : j \in p[m].body
            BY DEF CutInOrder
          <5> QED BY <3>1, <4>1, <4>2, <5>1
        <4>4. m \in 1..k /\ Len(waiting) + m \in 1..Len(waiting) + n - 1
          BY <1>2, <1>5
        <4> QED BY <3>3, <4>3, <4>4, <1>2
      <3> QED BY <3>2, <3>3
    <2> QED BY <2>2, <2>3, <1>3
  <1>7. ASSUME NEW n \in 1..Len(waiting'), NEW i \in 1..waiting'[n].end, Wanted(i)'
        PROVE  IF i > waiting'[n].start
               THEN i \in waiting'[n].body
               ELSE i \in delivered \/ \E m \in 1..n - 1 : i \in waiting'[m].body
    <2>1. CASE n \in 1..Len(waiting)
      <3>1. waiting'[n] = waiting[n] /\ waiting[n].end \in Nat
            /\ waiting[n].end <= Len(line)
        BY <2>1, <1>2, <1>1, LineValues DEF CapturesTrue
      <3>2. Wanted(i)
        BY <3>1, <1>4, <1>3, <1>7
      <3>3. \A m \in 1..n - 1 : waiting'[m] = waiting[m]
        BY <2>1, <1>2
      <3> QED BY <2>1, <3>1, <3>2, <3>3, <1>1 DEF LinesWhereSaid
    <2>2. ASSUME n - Len(waiting) \in 1..k, waiting'[n] = p[n - Len(waiting)]
          PROVE  IF i > waiting'[n].start
                 THEN i \in waiting'[n].body
                 ELSE i \in delivered \/ \E m \in 1..n - 1 : i \in waiting'[m].body
      <3>1. Wanted(i)
        BY SMTT(30), <2>2, <1>5, <1>4, <1>3, <1>7
      <3>2. Len(waiting) + (n - Len(waiting)) - 1 = n - 1
        BY <1>2
      <3> QED BY <2>2, <3>1, <3>2, <1>6, <1>7
    <2> QED BY <2>1, <2>2, <1>2
  <1>8. \A i \in 1..serverEnd' : Wanted(i)' => i \in delivered'
    <2>1. serverEnd \in 0..Len(line)
      BY <1>1, LineValues
    <2> QED BY <1>1, <1>4, <1>3, <2>1 DEF LinesWhereSaid
  <1> QED BY <1>7, <1>8 DEF LinesWhereSaid

\* Each piece is new to the backend while the captures end at the cursor.
LEMMA InsertedFresh ==
  ASSUME LineAssumption, LineTypeOK, CapturesTrue, AtFront,
         NEW p, CutInOrder(p), NEW k \in 0..Len(p),
         Insert(SubSeq(p, 1, k)), UNCHANGED <<line, serverEnd>>
  PROVE  \A n \in 1..Len(waiting') : Fresh(n)'
PROOF
  <1>1. /\ Len(waiting) \in Nat /\ Len(p) \in Nat /\ k \in Nat /\ Position \in Nat
        /\ serverEnd \in Nat
        /\ \A n \in 1..Len(waiting) : waiting[n].start \in Nat /\ waiting[n].end \in Nat
    BY LineValues DEF CutInOrder
  <1>2. /\ Len(waiting') = Len(waiting) + k
        /\ \A n \in 1..Len(waiting) : waiting'[n] = waiting[n]
        /\ \A n \in 1..Len(waiting') :
              \/ n \in 1..Len(waiting)
              \/ n - Len(waiting) \in 1..k /\ waiting'[n] = p[n - Len(waiting)]
    BY InsertedWaiting
  <1>3. \A n \in 1..k : /\ n \in 1..Len(p) /\ p[n].start \in Nat /\ p[n].end \in Nat
                         /\ Position <= p[n].start
    <2> SUFFICES ASSUME NEW n \in 1..k
                 PROVE  /\ n \in 1..Len(p) /\ p[n].start \in Nat /\ p[n].end \in Nat
                        /\ Position <= p[n].start
      OBVIOUS
    <2>1. n \in 1..Len(p)
      BY <1>1
    <2>2. p[n] \in Captures /\ Position <= p[n].start
      BY <2>1 DEF CutInOrder
    <2> QED BY <2>1, <2>2 DEF Captures
  <1>4. \A a, b \in 1..Len(p) : a < b => p[a].end <= p[b].start
    BY DEF CutInOrder
  <1>5. ASSUME NEW n \in 1..Len(waiting')
        PROVE  /\ serverEnd <= waiting'[n].start
               /\ \A m \in 1..n - 1 : waiting'[m].end <= waiting'[n].start
    <2>1. CASE n \in 1..Len(waiting)
      <3>1. \A m \in 1..n - 1 : m \in 1..Len(waiting)
        BY <2>1, <1>1
      <3> QED BY <2>1, <3>1, <1>2 DEF AtFront, Fresh
    <2>2. ASSUME n - Len(waiting) \in 1..k, waiting'[n] = p[n - Len(waiting)]
          PROVE  /\ serverEnd <= waiting'[n].start
                 /\ \A m \in 1..n - 1 : waiting'[m].end <= waiting'[n].start
      <3>1. serverEnd <= waiting'[n].start
        BY <2>2, <1>1, <1>3 DEF AtFront
      <3>2. ASSUME NEW m \in 1..n - 1 PROVE waiting'[m].end <= waiting'[n].start
        <4>1. m \in 1..Len(waiting')
          BY <1>1, <1>2
        <4>2. CASE m \in 1..Len(waiting)
          <5>1. waiting'[m].end <= Position /\ waiting'[m].end \in Nat
            BY <4>2, <1>1, <1>2 DEF AtFront
          <5> QED BY <2>2, <5>1, <1>1, <1>3
        <4>3. CASE m - Len(waiting) \in 1..k /\ waiting'[m] = p[m - Len(waiting)]
          <5>1. m - Len(waiting) < n - Len(waiting)
            BY <1>1
          <5> QED BY <2>2, <4>3, <5>1, <1>3, <1>4
        <4> QED BY <4>1, <4>2, <4>3, <1>2
      <3> QED BY <3>1, <3>2
    <2> QED BY <2>1, <2>2, <1>2
  <1> QED BY <1>5 DEF Fresh

\* The cursor is not moved by an exception that hides no synced row.
LEMMA HandledKeeps ==
  ASSUME LineAssumption, LineTypeOK, HandleError, ~HidesFallback, UNCHANGED fallback
  PROVE  Position' = Position
BY PositionType DEF LineTypeOK, HandleError, HidesFallback, HandledCursor, Position, None,
                    LineAssumption

-----------------------------------------------------------------------------
(* The steps *)

LEMMA NothingInserted ==
  ASSUME LineAssumption, LineInv, Insert(<< >>)
  PROVE  waiting' = waiting
BY DEF Insert, LineInv, LineTypeOK

\* A whole read is captured only when no line before its end is too large.
LEMMA PollPlaced ==
  ASSUME LineAssumption, LineInv, ~torn, "claude-desktop" \notin Cut, Poll
  PROVE  InPlace' /\ LinesWhereSaid'
PROOF
  <1>1. LineTypeOK /\ LargeInCut /\ CapturesTrue /\ InPlace
    BY DEF LineInv
  <1>2. Reads /\ own' = Len(line)
        /\ UNCHANGED <<app, line, fallback, delivered, serverEnd>>
    BY DEF Poll, Unpolled
  <1>3. PICK p \in Readings : Insertable(p, Len(p)) /\ Insert(p)
    BY DEF Poll
  <1>4. CutInOrder(p)
    BY <1>1, <1>2, ReadingsCut
  <1>5. p \in Seq(Captures) /\ Len(p) \in Nat \ {0} /\ Len(p) \in 1..Len(p)
    BY <1>4 DEF CutInOrder
  <1>6. SubSeq(p, 1, Len(p)) = p /\ Len(p) \in 0..Len(p)
    BY <1>5
  <1>7. Insert(SubSeq(p, 1, Len(p)))
    BY <1>3, <1>6
  <1>8. LinesWhereSaid'
    BY <1>2, <1>4, <1>6, <1>7, InsertedWhereSaid
  <1>9. Len(line) \in Nat /\ Position \in Nat /\ Position < Len(line)
        /\ serverEnd \in 0..Len(line) /\ p[Len(p)].end = Len(line)
    BY <1>1, <1>2, <1>4, LineValues DEF Reads, CutInOrder
  <1>10. ASSUME NEW h \in 1..Len(line), StoppedBefore(h) PROVE FALSE
    <2>1. h \in KeptFrom(Position) /\ h <= p[Len(p)].end /\ app # "claude-desktop"
      BY <1>1, <1>9, <1>10, WantedIsKept DEF StoppedBefore, KeptFrom
    <2>2. PICK m \in 1..Len(p) : h \in p[m].body
      BY <2>1, <1>4, <1>5 DEF CutInOrder
    <2> QED BY <2>1, <2>2, <1>3, <1>10 DEF Insertable, TooLarge, StoppedBefore
  <1>11. AtFront
    BY <1>1, <1>10 DEF InPlace
  <1>12. Position' = Len(line)
    BY <1>2, <1>9 DEF Position, None
  <1>13. \A n \in 1..Len(waiting') : Fresh(n)' /\ waiting'[n].end <= Position'
    <2>1. CapturesTrue'
      BY <1>1, <1>2, <1>4, <1>6, <1>7, InsertedWaiting
    <2>2. \A n \in 1..Len(waiting') : waiting'[n].end <= Len(line)
      BY <2>1, <1>2 DEF CapturesTrue
    <2> QED BY <2>2, <1>1, <1>2, <1>4, <1>6, <1>7, <1>11, <1>12, InsertedFresh
  <1>14. \A i \in 1..Position' : Covered(i)'
    <2>1. \A i \in Nat : \A n \in 1..Len(p) : i <= p[n].end => Covered(i)'
      BY <1>1, <1>2, <1>4, <1>6, <1>7, InsertedCovers
    <2> QED BY <2>1, <1>5, <1>9, <1>12
  <1>15. AtFront'
    BY <1>2, <1>9, <1>12, <1>13, <1>14 DEF AtFront
  <1> QED BY <1>8, <1>15 DEF InPlace

\* What comes before a line that is too large waits, and the cursor stays before it.
LEMMA PollTooLargePlaced ==
  ASSUME LineAssumption, LineInv, ~torn, "claude-desktop" \notin Cut, PollTooLarge, ~torn'
  PROVE  InPlace' /\ LinesWhereSaid'
PROOF
  <1>1. LineTypeOK /\ LargeInCut /\ CapturesTrue /\ InPlace
    BY DEF LineInv
  <1>2. Reads /\ HandleError /\ ~HidesFallback
        /\ UNCHANGED <<app, line, fallback, delivered, serverEnd>>
    BY DEF PollTooLarge, Unpolled
  <1>2a. \A i : Keeps(line[i])' = Keeps(line[i])
    BY <1>2 DEF Keeps, IsDialogue
  <1>3. PICK p \in Readings : \E n \in 1..Len(p) :
          /\ Insertable(p, n - 1) /\ TooLarge(p[n])
          /\ Insert(SubSeq(p, 1, n - 1))
    BY DEF PollTooLarge
  <1>4. PICK n \in 1..Len(p) :
          /\ Insertable(p, n - 1) /\ TooLarge(p[n])
          /\ Insert(SubSeq(p, 1, n - 1))
    BY <1>3
  <1>5. CutInOrder(p) /\ Len(p) \in Nat
    BY <1>1, <1>2, ReadingsCut DEF CutInOrder
  <1>6. n \in Nat /\ n - 1 \in 0..Len(p) /\ n - 1 \in Nat
    BY <1>5
  <1>7. LinesWhereSaid'
    BY <1>2, <1>4, <1>5, <1>6, InsertedWhereSaid
  <1>8. Position' = Position
    BY <1>1, <1>2, HandledKeeps
  <1>9. /\ Len(line) \in Nat /\ Position \in Nat /\ serverEnd \in Nat /\ Len(waiting) \in Nat
        /\ \A j \in 1..Len(waiting) : waiting[j].start \in Nat /\ waiting[j].end \in Nat
    BY <1>1, LineValues
  <1>10. \A j \in 1..Len(p) : /\ p[j].start \in Nat /\ p[j].end \in Nat
                              /\ Position <= p[j].start /\ p[j].start < p[j].end
    <2> SUFFICES ASSUME NEW j \in 1..Len(p)
                 PROVE  p[j].start \in Nat /\ p[j].end \in Nat
      BY <1>5 DEF CutInOrder
    <2>1. p[j] \in Captures
      BY <1>5 DEF CutInOrder
    <2> QED BY <2>1 DEF Captures
  <1>11. \A a, b \in 1..Len(p) : a < b => p[a].end <= p[b].start
    BY <1>5 DEF CutInOrder
  <1>12. \A i \in KeptFrom(Position), j \in 1..Len(p) :
            i <= p[j].end => \E m \in 1..j : i \in p[m].body
    BY <1>5 DEF CutInOrder
  <1>13. /\ Len(waiting') = Len(waiting) + (n - 1)
         /\ \A j \in 1..Len(waiting) : waiting'[j] = waiting[j]
         /\ \A j \in 1..Len(waiting') :
               \/ j \in 1..Len(waiting)
               \/ j - Len(waiting) \in 1..n - 1 /\ waiting'[j] = p[j - Len(waiting)]
    BY <1>1, <1>2, <1>4, <1>5, <1>6, InsertedWaiting
  <1>14. /\ \A i \in Nat : Covered(i) => Covered(i)'
         /\ \A i \in Nat : \A j \in 1..n - 1 : i <= p[j].end => Covered(i)'
    BY <1>1, <1>2, <1>4, <1>5, <1>6, InsertedCovers
  <1>15. PICK h \in p[n].body : line[h] = "huge"
    BY <1>4 DEF TooLarge
  <1>16. h \in 1..Len(line) /\ p[n].start < h /\ h <= p[n].end /\ h \in Nat
    BY <1>15, <1>5, <1>9 DEF CutInOrder
  <1>17. \A i \in p[n].body : i = h
    BY <1>15, <1>5 DEF CutInOrder
  <1>18. \A j \in 1..n - 1 : j \in 1..Len(p) /\ p[j].end <= p[n].start
    BY <1>5, <1>6, <1>11
  <1>19. CASE AtFront
    <2>1. \A j \in 1..Len(waiting') : Fresh(j)'
      BY <1>1, <1>2, <1>4, <1>5, <1>6, <1>19, InsertedFresh
    <2>2. ASSUME NEW j \in 1..Len(waiting') PROVE waiting'[j].end < h
      <3>1. CASE j \in 1..Len(waiting)
        <4>1. waiting'[j].end <= Position /\ waiting'[j].end \in Nat
          BY <3>1, <1>9, <1>13, <1>19 DEF AtFront
        <4>2. Position <= p[n].start /\ p[n].start \in Nat
          BY <1>10
        <4> QED BY <4>1, <4>2, <1>9, <1>16
      <3>2. CASE j - Len(waiting) \in 1..n - 1 /\ waiting'[j] = p[j - Len(waiting)]
        <4>1. waiting'[j].end <= p[n].start /\ waiting'[j].end \in Nat
          BY <3>2, <1>10, <1>18
        <4>2. p[n].start \in Nat
          BY <1>10
        <4> QED BY <4>1, <4>2, <1>16
      <3> QED BY <3>1, <3>2, <1>13
    <2>3. ASSUME NEW i \in 1..h - 1, Keeps(line[i]) PROVE Covered(i)'
      <3>1. i \in Nat /\ i \in 1..Len(line) /\ i < h
        BY <1>9, <1>16
      <3>2. CASE i <= Position
        BY <3>1, <3>2, <2>3, <1>9, <1>14, <1>19 DEF AtFront
      <3>3. CASE i > Position
        <4>1. i \in KeptFrom(Position)
          BY <3>1, <3>3, <2>3, <1>9 DEF KeptFrom
        <4>2. i <= p[n].end
          BY <3>1, <1>10, <1>16
        <4>3. PICK m \in 1..n : i \in p[m].body
          BY <4>1, <4>2, <1>12
        <4>4. m # n
          BY <4>3, <3>1, <1>17
        <4>5. m \in 1..n - 1 /\ i <= p[m].end
          BY <4>3, <4>4, <1>5, <1>6, <1>18 DEF CutInOrder
        <4> QED BY <4>5, <3>1, <1>14
      <3> QED BY <3>1, <3>2, <3>3, <1>9
    <2>4. Position' < h /\ serverEnd' < h
      BY <1>2, <1>8, <1>9, <1>10, <1>16, <1>19 DEF AtFront
    <2>5. StoppedBefore(h)'
      BY <2>1, <2>2, <2>3, <2>4, <1>2, <1>2a, <1>15 DEF StoppedBefore
    <2> QED BY <2>5, <1>2, <1>7, <1>16 DEF InPlace
  <1>20. ASSUME NEW g \in 1..Len(line), StoppedBefore(g)
         PROVE  StoppedBefore(g)'
    <2>1. g \in KeptFrom(Position) /\ app # "claude-desktop" /\ g \in Nat
      BY <1>1, <1>9, <1>20, WantedIsKept DEF StoppedBefore, KeptFrom
    <2>2. PICK e \in 1..Len(p) : g \in p[e].body
      <3>1. Len(p) \in 1..Len(p) /\ g <= p[Len(p)].end
        BY <1>5, <1>9 DEF CutInOrder
      <3> QED BY <2>1, <3>1, <1>12
    <2>3. p[e].start < g /\ TooLarge(p[e])
      BY <2>1, <2>2, <1>5, <1>20 DEF CutInOrder, TooLarge, StoppedBefore
    <2>4. ~(e \in 1..n - 1)
      BY <2>3, <1>4 DEF Insertable
    <2>5. \A j \in 1..n - 1 : p[j].end < g /\ j \in 1..Len(p) /\ j < Len(p)
      <3> SUFFICES ASSUME NEW j \in 1..n - 1
                   PROVE  p[j].end < g /\ j \in 1..Len(p) /\ j < Len(p)
        OBVIOUS
      <3>1. j < e /\ j \in 1..Len(p) /\ e <= Len(p)
        BY <2>2, <2>4, <1>5, <1>6
      <3> QED BY <3>1, <2>1, <2>2, <2>3, <1>5, <1>10, <1>11
    <2>6. ASSUME NEW j \in 1..Len(waiting')
          PROVE  waiting'[j].end < g /\ (Fresh(j)' \/ Stale(j)')
      <3>1. CASE j \in 1..Len(waiting)
        <4>1. \A m \in 1..j - 1 : m \in 1..Len(waiting)
          BY <3>1, <1>9
        <4>2. \A m \in 1..j - 1 : waiting'[m] = waiting[m]
          BY <4>1, <1>13
        <4> QED BY <3>1, <4>1, <4>2, <1>2, <1>13, <1>20 DEF StoppedBefore, Fresh, Stale
      <3>2. ASSUME j - Len(waiting) \in 1..n - 1, waiting'[j] = p[j - Len(waiting)]
            PROVE  waiting'[j].end < g /\ Stale(j)'
        <4>1. waiting'[j].end \in KeptFrom(Position) /\ waiting'[j].end < g
          BY <3>2, <2>5, <1>5 DEF CutInOrder
        <4>2. Covered(waiting'[j].end)
          <5>1. \A i \in KeptFrom(Position) : i < g => Covered(i)
            BY <2>1, <1>9, <1>20 DEF StoppedBefore, KeptFrom
          <5> QED BY <4>1, <5>1
        <4>3. \A m \in 1..Len(waiting) : m \in 1..j - 1 /\ waiting'[m] = waiting[m]
          BY SMTT(30), <3>2, <1>9, <1>13
        <4>4. waiting'[j].end <= serverEnd
              \/ \E m \in 1..Len(waiting) : waiting'[j].end <= waiting[m].end
          BY <4>2 DEF Covered
        <4> QED BY <4>1, <4>3, <4>4, <1>2 DEF Stale
      <3> QED BY <3>1, <3>2, <1>13
    <2>7. \A i \in 1..g - 1 : Keeps(line[i]) => Covered(i)'
      BY <2>1, <1>14, <1>20 DEF StoppedBefore
    <2> QED BY <2>6, <2>7, <1>2, <1>2a, <1>8, <1>20 DEF StoppedBefore
  <1> QED BY <1>1, <1>2, <1>7, <1>19, <1>20 DEF InPlace

LEMMA CapturesTyped ==
  ASSUME NEW w \in Seq(Captures), NEW last \in Nat,
         \A n \in 1..Len(w) : w[n].start < w[n].end /\ w[n].body \subseteq 1..last
  PROVE  \A b \in ToSet(w) : b.start < b.end /\ b.body \subseteq 1..last
BY DEF ToSet

LEMMA TooLargeStays ==
  ASSUME LineInv, UNCHANGED <<line, app>>
  PROVE  LargeInCut'
BY DEF LineInv, LargeInCut

\* The variables keep their values in a poll.
LEMMA PollTypes ==
  ASSUME LineAssumption, LineTypeOK, CapturesTrue, NEW p, CutWithin(p), NEW k \in 0..Len(p),
         Insert(SubSeq(p, 1, k)), own' \in {None} \cup 0..Len(line), Unpolled,
         faults' \in 0..MaxFaults, torn' \in BOOLEAN
  PROVE  LineTypeOK' /\ CapturesTrue'
PROOF
  <1>1. waiting' \in Seq(Captures) /\ CapturesTrue' /\ UNCHANGED line
    BY InsertedWithin DEF Unpolled
  <1>2. \A b \in ToSet(waiting') : b.start < b.end /\ b.body \subseteq 1..Len(line)
    <2>1. Len(line) \in Nat
      BY LineValues
    <2> QED BY <2>1, <1>1, CapturesTyped DEF CapturesTrue
  <1>3. LineTypeOK'
    BY <1>1, <1>2 DEF LineTypeOK, Unpolled
  <1> QED BY <1>1, <1>3

LEMMA HandledType ==
  ASSUME LineTypeOK, HandleError
  PROVE  own' \in {None} \cup 0..Len(line)
BY DEF LineTypeOK, HandleError, HandledCursor

\* Every poll, also one that throws or dies.
LEMMA PollsTyped ==
  ASSUME LineAssumption, LineTypeOK, CapturesTrue, Polls \/ PollThrows \/ PollCrashes
  PROVE  LineTypeOK' /\ CapturesTrue'
PROOF
  <1>1. CASE PollNothing
    <2>1. own' \in {None} \cup 0..Len(line) /\ Len(line) \in Nat
      BY <1>1, LineValues DEF PollNothing
    <2>2. UNCHANGED <<app, line, list, hint, fallback, waiting, delivered, serverEnd,
                      torn, events, faults>>
      BY <1>1 DEF PollNothing, Unpolled
    <2> QED BY <2>1, <2>2 DEF LineTypeOK, CapturesTrue
  <1>2. ASSUME NEW p \in Readings, NEW n \in 0..Len(p), Insert(SubSeq(p, 1, n)), Unpolled, Reads,
               own' \in {None} \cup 0..Len(line), faults' \in 0..MaxFaults, torn' \in BOOLEAN
        PROVE  LineTypeOK' /\ CapturesTrue'
    BY <1>2, ReadingsWithin, PollTypes
  <1>3. \A p \in Readings : Reads => Len(p) \in Nat /\ SubSeq(p, 1, Len(p)) = p
    BY ReadingsWithin DEF CutWithin
  <1>4. /\ Len(line) \in Nat /\ faults \in 0..MaxFaults /\ MaxFaults \in Nat /\ torn \in BOOLEAN
        /\ own \in {None} \cup 0..Len(line) /\ HidesFallback \in BOOLEAN
    BY LineValues DEF LineTypeOK, LineAssumption, HidesFallback
  <1>5. CASE Poll
    <2>1. Reads /\ own' = Len(line) /\ Unpolled /\ faults' = faults /\ torn' = torn
      BY <1>5 DEF Poll
    <2>2. PICK p \in Readings : Insert(p)
      BY <1>5 DEF Poll
    <2>3. Len(p) \in Nat /\ SubSeq(p, 1, Len(p)) = p
      BY <1>3, <2>1
    <2>4. Insert(SubSeq(p, 1, Len(p)))
      BY <2>2, <2>3 DEF Insert
    <2>5. Len(p) \in 0..Len(p)
      BY <2>3
    <2> QED BY <1>2, <1>4, <2>1, <2>4, <2>5
  <1>6. CASE PollTooLarge
    <2>1. Reads /\ HandleError /\ torn' = (torn \/ HidesFallback) /\ Unpolled /\ faults' = faults
      BY <1>6 DEF PollTooLarge
    <2>2. PICK p \in Readings : \E n \in 1..Len(p) : Insert(SubSeq(p, 1, n - 1))
      BY <1>6 DEF PollTooLarge
    <2>3. PICK n \in 1..Len(p) : Insert(SubSeq(p, 1, n - 1))
      BY <2>2
    <2>4. n - 1 \in 0..Len(p)
      BY <1>3, <2>1
    <2>5. own' \in {None} \cup 0..Len(line) /\ faults' \in 0..MaxFaults /\ torn' \in BOOLEAN
      BY <1>4, <2>1, HandledType
    <2> QED BY <1>2, <2>1, <2>3, <2>4, <2>5
  <1>7. CASE PollThrows
    <2>1. Reads /\ faults < MaxFaults /\ HandleError /\ faults' = faults + 1 /\ Unpolled
      BY <1>7 DEF PollThrows
    <2>2. PICK p \in Readings : \E n \in 0..Len(p) :
             Insert(SubSeq(p, 1, n)) /\ torn' = (torn \/ n > 0 \/ HidesFallback)
      BY <1>7 DEF PollThrows
    <2>3. PICK n \in 0..Len(p) : Insert(SubSeq(p, 1, n)) /\ torn' = (torn \/ n > 0 \/ HidesFallback)
      BY <2>2
    <2>4. own' \in {None} \cup 0..Len(line) /\ faults' \in 0..MaxFaults /\ torn' \in BOOLEAN
      BY <1>4, <2>1, <2>3, HandledType
    <2> QED BY <1>2, <2>1, <2>3, <2>4
  <1>8. CASE PollCrashes
    <2>1. Reads /\ faults < MaxFaults /\ faults' = faults + 1 /\ torn' = TRUE /\ Unpolled /\ own' = own
      BY <1>8 DEF PollCrashes
    <2>2. PICK p \in Readings : \E n \in 1..Len(p) : Insert(SubSeq(p, 1, n))
      BY <1>8 DEF PollCrashes
    <2>3. PICK n \in 1..Len(p) : Insert(SubSeq(p, 1, n))
      BY <2>2
    <2>4. n \in 0..Len(p) /\ faults' \in 0..MaxFaults
      BY <1>3, <1>4, <2>1
    <2> QED BY <1>2, <1>4, <2>1, <2>3, <2>4
  <1> QED BY <1>1, <1>5, <1>6, <1>7, <1>8 DEF Polls

\* Of the other steps.
LEMMA EndsTyped ==
  ASSUME LineAssumption, LineTypeOK, CapturesTrue, NEW k \in Kinds, Ends(k)
  PROVE  LineTypeOK' /\ CapturesTrue'
PROOF
  <1>1. /\ line' = line \o <<k>> /\ Len(line) < MaxLines
        /\ UNCHANGED <<app, list, hint, own, fallback, waiting, delivered, serverEnd,
                       torn, events, faults>>
    BY DEF Ends
  <1>2. /\ line \in Seq(Kinds \cup {"talk"}) /\ Len(line) \in Nat /\ MaxLines \in Nat
        /\ waiting \in Seq(Captures) /\ Len(waiting) \in Nat
        /\ \A n \in 1..Len(waiting) : waiting[n].end \in Nat
    BY LineValues DEF LineTypeOK, LineAssumption
  <1>3. line' \in Seq(Kinds \cup {"talk"}) /\ Len(line') = Len(line) + 1
    BY <1>1, <1>2
  <1>4. CapturesTrue'
    BY <1>1, <1>2, <1>3 DEF CapturesTrue
  <1>5. \A b \in ToSet(waiting) : b.start < b.end /\ b.body \subseteq 1..Len(line')
    <2>1. \A n \in 1..Len(waiting) :
            waiting[n].start < waiting[n].end /\ waiting[n].body \subseteq 1..Len(line')
      BY <1>1, <1>4 DEF CapturesTrue
    <2>2. Len(line') \in Nat
      BY <1>2, <1>3
    <2> QED BY <1>2, <2>1, <2>2, CapturesTyped
  <1> QED BY <1>1, <1>2, <1>3, <1>4, <1>5 DEF LineTypeOK

LEMMA UploadTyped ==
  ASSUME LineAssumption, LineTypeOK, CapturesTrue, Upload
  PROVE  LineTypeOK' /\ CapturesTrue'
PROOF
  <1>1. /\ waiting # << >> /\ waiting' = Tail(waiting)
        /\ UNCHANGED <<app, line, list, hint, fallback, torn, events, faults>>
        /\ \/ /\ Head(waiting).start >= serverEnd
              /\ delivered' = delivered \cup Head(waiting).body
              /\ serverEnd' = Head(waiting).end /\ own' = own
           \/ /\ Head(waiting).start < serverEnd /\ own' = serverEnd
              /\ delivered' = delivered /\ serverEnd' = serverEnd
    BY DEF Upload
  <1>2. /\ Len(line) \in Nat /\ serverEnd \in 0..Len(line)
        /\ waiting \in Seq(Captures) /\ Len(waiting) \in Nat \ {0}
    BY <1>1, LineValues DEF LineTypeOK
  <1>3. /\ waiting' \in Seq(Captures) /\ Len(waiting') = Len(waiting) - 1
        /\ \A n \in 1..Len(waiting') : n + 1 \in 1..Len(waiting) /\ waiting'[n] = waiting[n + 1]
        /\ Head(waiting) = waiting[1] /\ 1 \in 1..Len(waiting)
    <2>1. waiting' \in Seq(Captures) /\ Len(waiting') = Len(waiting) - 1
      BY <1>1, <1>2
    <2>2. \A n \in 1..Len(waiting') : n + 1 \in 1..Len(waiting) /\ waiting'[n] = waiting[n + 1]
      BY <1>1, <1>2
    <2>3. Head(waiting) = waiting[1] /\ 1 \in 1..Len(waiting)
      BY <1>1, <1>2
    <2> QED
      BY <2>1, <2>2, <2>3
  <1>4. /\ Head(waiting).end \in 0..Len(line) /\ Head(waiting).body \subseteq 1..Len(line)
    BY <1>2, <1>3, LineValues DEF CapturesTrue
  <1>5. CapturesTrue'
    BY <1>1, <1>3 DEF CapturesTrue
  <1>6. \A b \in ToSet(waiting') : b.start < b.end /\ b.body \subseteq 1..Len(line)
    BY <1>1, <1>2, <1>3, <1>5, CapturesTyped DEF CapturesTrue
  <1>7. /\ own' \in {None} \cup 0..Len(line) /\ delivered' \subseteq 1..Len(line)
        /\ serverEnd' \in 0..Len(line)
    BY <1>1, <1>2, <1>4 DEF LineTypeOK
  <1> QED BY <1>1, <1>3, <1>5, <1>6, <1>7 DEF LineTypeOK

\* What a capture says of its lines needs nothing said of the order of the captures.
LEMMA LineTypesStep ==
  ASSUME LineAssumption, LineTypeOK, CapturesTrue, [LineNext]_lineVars
  PROVE  LineTypeOK' /\ CapturesTrue'
PROOF
  <1>1. CASE UNCHANGED lineVars
    BY <1>1 DEF lineVars, LineTypeOK, CapturesTrue
  <1>2. CASE Exclude \/ Name
    <2>1. UNCHANGED <<app, line, own, fallback, waiting, delivered, serverEnd, torn, faults>>
      BY <1>2 DEF Exclude, Name, Event
    <2>2. list' \in {"none", "others", "this"} /\ hint' \in {"missing", "torn", "named"}
      BY <1>2 DEF Exclude, Name, Names, LineTypeOK
    <2>3. events' \in 0..MaxEvents
      BY <1>2 DEF Exclude, Name, Event, LineTypeOK, LineAssumption
    <2> QED BY <2>1, <2>2, <2>3 DEF LineTypeOK, CapturesTrue
  <1> QED BY <1>1, <1>2, PollsTyped, EndsTyped, UploadTyped DEF LineNext

LEMMA PlacedStill ==
  ASSUME InPlace, LinesWhereSaid, Position' = Position,
         UNCHANGED <<app, line, waiting, delivered, serverEnd>>
  PROVE  InPlace' /\ LinesWhereSaid'
PROOF
  <1>1. \A i : Keeps(line[i])' = Keeps(line[i])
    BY DEF Keeps, IsDialogue
  <1>2. \A i : Covered(i)' = Covered(i)
    BY DEF Covered
  <1>3. \A n : Fresh(n)' = Fresh(n) /\ Stale(n)' = Stale(n)
    BY DEF Fresh, Stale
  <1>4. AtFront => AtFront'
    BY <1>1, <1>2, <1>3 DEF AtFront
  <1>5. \A h : StoppedBefore(h) => StoppedBefore(h)'
    BY <1>1, <1>2, <1>3 DEF StoppedBefore
  <1>6. InPlace'
    BY <1>4, <1>5 DEF InPlace
  <1>7. LinesWhereSaid'
    BY DEF LinesWhereSaid, Wanted
  <1> QED BY <1>6, <1>7

LEMMA EndsStep ==
  ASSUME LineAssumption, LineInv, NEW k \in Kinds, Ends(k), "claude-desktop" \notin Cut
  PROVE  LineInv'
PROOF
  <1>1. LineTypeOK /\ LargeInCut /\ CapturesTrue
    BY DEF LineInv
  <1>2. /\ line' = line \o <<k>> /\ Len(line) < MaxLines /\ (k = "huge" => app \in Cut)
        /\ UNCHANGED <<app, list, hint, own, fallback, waiting, delivered, serverEnd,
                       torn, events, faults>>
    BY DEF Ends
  <1>3. /\ line \in Seq(Kinds \cup {"talk"}) /\ Len(line) \in Nat /\ MaxLines \in Nat
        /\ Position \in Nat /\ serverEnd \in 0..Len(line) /\ Len(waiting) \in Nat
        /\ waiting \in Seq(Captures)
        /\ \A n \in 1..Len(waiting) : waiting[n].start \in Nat /\ waiting[n].end \in Nat
    BY <1>1, LineValues DEF LineTypeOK, LineAssumption
  <1>4. /\ line' \in Seq(Kinds \cup {"talk"}) /\ Len(line') = Len(line) + 1
        /\ \A i \in 1..Len(line) : line'[i] = line[i]
        /\ line'[Len(line) + 1] = k
    BY <1>2, <1>3
  <1>7. LineTypeOK' /\ CapturesTrue'
    BY <1>1, EndsTyped
  <1>8. LargeInCut'
    BY <1>1, <1>2, <1>3, <1>4 DEF LargeInCut
  <1>9. ASSUME ~torn PROVE InPlace' /\ LinesWhereSaid'
    <2>1. InPlace /\ LinesWhereSaid
      BY <1>9 DEF LineInv
    <2>2. Position' = Position /\ Position <= Len(line)
      BY <1>1, <1>2, InPlaceBound DEF Position
    <2>3. \A i \in 1..Len(line) : Keeps(line[i])' = Keeps(line[i]) /\ Wanted(i)' = Wanted(i)
      BY <1>2, <1>4 DEF Keeps, IsDialogue, Wanted
    <2>4. \A i : Covered(i)' = Covered(i)
      BY <1>2 DEF Covered
    <2>5. \A n : Fresh(n)' = Fresh(n) /\ Stale(n)' = Stale(n)
      BY <1>2 DEF Fresh, Stale
    <2>6. AtFront => AtFront'
      BY <1>2, <1>3, <2>2, <2>3, <2>4, <2>5 DEF AtFront
    <2>7. \A h \in 1..Len(line) : StoppedBefore(h) => StoppedBefore(h)'
      <3> SUFFICES ASSUME NEW h \in 1..Len(line), StoppedBefore(h)
                   PROVE  StoppedBefore(h)'
        OBVIOUS
      <3>1. line'[h] = "huge" /\ Position' < h /\ serverEnd' < h
        BY <1>2, <1>4, <2>2 DEF StoppedBefore
      <3>2. \A n \in 1..Len(waiting') : waiting'[n].end < h /\ (Fresh(n)' \/ Stale(n)')
        BY <1>2, <2>5 DEF StoppedBefore
      <3>3. \A i \in 1..h - 1 : i \in 1..Len(line)
        BY <1>3
      <3>4. \A i \in 1..h - 1 : Keeps(line[i])' => Covered(i)'
        BY <2>3, <2>4, <3>3 DEF StoppedBefore
      <3> QED BY <3>1, <3>2, <3>4 DEF StoppedBefore
    <2>8. InPlace'
      BY <1>3, <1>4, <2>1, <2>6, <2>7 DEF InPlace
    <2>9. \A n \in 1..Len(waiting) : waiting[n].end <= Len(line)
      BY <1>1 DEF CapturesTrue
    <2>10. LinesWhereSaid'
      <3>1. \A i \in 1..serverEnd : i \in 1..Len(line)
        BY <1>3
      <3>2. \A n \in 1..Len(waiting) : \A i \in 1..waiting[n].end : i \in 1..Len(line)
        BY <1>3, <2>9
      <3>3. \A i \in 1..serverEnd' : Wanted(i)' => i \in delivered'
        BY <1>2, <2>1, <2>3, <3>1 DEF LinesWhereSaid
      <3>4. ASSUME NEW n \in 1..Len(waiting), NEW i \in 1..waiting[n].end, Wanted(i)'
            PROVE  IF i > waiting[n].start
                   THEN i \in waiting[n].body
                   ELSE i \in delivered \/ \E m \in 1..n - 1 : i \in waiting[m].body
        <4>1. Wanted(i)
          BY <2>3, <3>2, <3>4
        <4> QED BY <2>1, <4>1 DEF LinesWhereSaid
      <3> QED BY <1>2, <3>3, <3>4 DEF LinesWhereSaid
    <2> QED BY <2>8, <2>10
  <1> QED BY <1>2, <1>7, <1>8, <1>9 DEF LineInv

LEMMA PollNothingStep ==
  ASSUME LineAssumption, LineInv, PollNothing, "claude-desktop" \notin Cut
  PROVE  LineInv'
PROOF
  <1>1. LineTypeOK /\ LargeInCut /\ CapturesTrue
    BY DEF LineInv
  <1>2. Reads /\ KeptFrom(Position) = {} /\ own' = Len(line)
        /\ UNCHANGED <<app, line, list, hint, fallback, waiting, delivered, serverEnd,
                       torn, events, faults>>
    BY DEF PollNothing, Unpolled
  <1>3. Len(line) \in Nat /\ Position \in Nat /\ Position < Len(line) /\ serverEnd \in Nat
        /\ Len(waiting) \in Nat
        /\ \A n \in 1..Len(waiting) : waiting[n].start \in Nat /\ waiting[n].end \in Nat
    BY <1>1, <1>2, LineValues DEF Reads
  <1>4. LineTypeOK' /\ CapturesTrue'
    BY <1>1, PollsTyped DEF Polls
  <1>5. LargeInCut'
    BY <1>2, TooLargeStays
  <1>6. Position' = Len(line)
    BY <1>2, <1>3 DEF Position, None
  <1>7. ASSUME ~torn PROVE InPlace' /\ LinesWhereSaid'
    <2>1. InPlace /\ LinesWhereSaid
      BY <1>7 DEF LineInv
    <2>2. \A i \in 1..Len(line) : i > Position => ~Keeps(line[i])
      BY <1>2, <1>3 DEF KeptFrom
    <2>3. AtFront
      BY <1>1, <1>3, <2>1, <2>2, WantedIsKept DEF InPlace, StoppedBefore
    <2>4. \A i : Keeps(line[i])' = Keeps(line[i])
      BY <1>2 DEF Keeps, IsDialogue
    <2>5. \A i : Covered(i)' = Covered(i)
      BY <1>2 DEF Covered
    <2>6. \A n : Fresh(n)' = Fresh(n)
      BY <1>2 DEF Fresh
    <2>7. AtFront'
      BY <1>2, <1>3, <1>6, <2>2, <2>3, <2>4, <2>5, <2>6 DEF AtFront
    <2>8. LinesWhereSaid'
      BY <1>2, <2>1 DEF LinesWhereSaid, Wanted
    <2> QED BY <2>7, <2>8 DEF InPlace
  <1> QED BY <1>2, <1>4, <1>5, <1>7 DEF LineInv

LEMMA PollStep ==
  ASSUME LineAssumption, LineInv, Poll, "claude-desktop" \notin Cut
  PROVE  LineInv'
PROOF
  <1>1. LineTypeOK /\ LargeInCut /\ Len(line) \in Nat
    BY LineValues DEF LineInv
  <1>2. Reads /\ own' = Len(line) /\ Unpolled /\ UNCHANGED <<torn, faults>>
    BY DEF Poll
  <1>3. PICK p \in Readings : Insert(p)
    BY DEF Poll
  <1>4. CutInOrder(p)
    BY <1>1, <1>2, ReadingsCut
  <1>7. LineTypeOK' /\ LargeInCut' /\ CapturesTrue'
    BY <1>2, PollsTyped, TooLargeStays DEF Polls, LineInv, Unpolled
  <1> QED BY <1>2, <1>7, PollPlaced DEF LineInv

LEMMA PollTooLargeStep ==
  ASSUME LineAssumption, LineInv, PollTooLarge, "claude-desktop" \notin Cut
  PROVE  LineInv'
PROOF
  <1>1. LineTypeOK /\ LargeInCut
    BY DEF LineInv
  <1>2. Reads /\ HandleError /\ torn' = (torn \/ HidesFallback) /\ Unpolled
        /\ UNCHANGED faults
    BY DEF PollTooLarge
  <1>3. PICK p \in Readings : \E n \in 1..Len(p) : Insert(SubSeq(p, 1, n - 1))
    BY DEF PollTooLarge
  <1>4. PICK n \in 1..Len(p) : Insert(SubSeq(p, 1, n - 1))
    BY <1>3
  <1>5. CutInOrder(p)
    BY <1>1, <1>2, ReadingsCut
  <1>8. LineTypeOK' /\ LargeInCut' /\ CapturesTrue'
    BY <1>2, PollsTyped, TooLargeStays DEF Polls, LineInv, Unpolled
  <1> QED BY <1>2, <1>8, PollTooLargePlaced DEF LineInv

LEMMA PollThrowsStep ==
  ASSUME LineAssumption, LineInv, PollThrows, "claude-desktop" \notin Cut
  PROVE  LineInv'
PROOF
  <1>1. LineTypeOK /\ LargeInCut
    BY DEF LineInv
  <1>2. Reads /\ faults < MaxFaults /\ HandleError /\ faults' = faults + 1 /\ Unpolled
    BY DEF PollThrows
  <1>3. PICK p \in Readings : \E n \in 0..Len(p) :
          Insert(SubSeq(p, 1, n)) /\ torn' = (torn \/ n > 0 \/ HidesFallback)
    BY DEF PollThrows
  <1>4. PICK n \in 0..Len(p) :
          Insert(SubSeq(p, 1, n)) /\ torn' = (torn \/ n > 0 \/ HidesFallback)
    BY <1>3
  <1>5. CutInOrder(p)
    BY <1>1, <1>2, ReadingsCut
  <1>7. LineTypeOK' /\ LargeInCut' /\ CapturesTrue'
    BY <1>2, PollsTyped, TooLargeStays DEF LineInv, Unpolled
  <1>8. ASSUME ~torn' PROVE InPlace' /\ LinesWhereSaid'
    <2>1. ~torn /\ ~HidesFallback /\ n = 0
      <3>1. ~(torn \/ n > 0 \/ HidesFallback)
        BY <1>4, <1>8
      <3> QED BY <3>1, <1>5 DEF CutInOrder
    <2>2. InPlace /\ LinesWhereSaid
      BY <2>1 DEF LineInv
    <2>3. SubSeq(p, 1, 0) = << >>
      BY <1>5 DEF CutInOrder
    <2>4. waiting' = waiting
      BY <1>4, <2>1, <2>3, NothingInserted
    <2>5. UNCHANGED <<app, line, fallback, delivered, serverEnd>>
      BY <1>2 DEF Unpolled
    <2>6. Position' = Position
      BY <1>1, <1>2, <2>1, <2>5, HandledKeeps
    <2> QED BY <2>2, <2>4, <2>5, <2>6, PlacedStill
  <1> QED BY <1>7, <1>8 DEF LineInv

LEMMA PollCrashesStep ==
  ASSUME LineAssumption, LineInv, PollCrashes
  PROVE  LineInv'
PROOF
  <1>1. torn' = TRUE /\ Unpolled
    BY DEF PollCrashes
  <1> QED BY <1>1, PollsTyped, TooLargeStays DEF LineInv, Unpolled

\* The backend takes the oldest capture.
LEMMA TakenStep ==
  ASSUME LineAssumption, LineInv, ~torn, "claude-desktop" \notin Cut,
         waiting # << >>, Head(waiting).start >= serverEnd,
         delivered' = delivered \cup Head(waiting).body, serverEnd' = Head(waiting).end,
         waiting' = Tail(waiting), UNCHANGED <<own, app, line, fallback>>
  PROVE  InPlace' /\ LinesWhereSaid'
PROOF
  <1> DEFINE w == waiting[1]
  <1>1. LineTypeOK /\ LargeInCut /\ CapturesTrue /\ InPlace /\ LinesWhereSaid
    BY DEF LineInv
  <1>2. /\ Len(line) \in Nat /\ Position \in Nat /\ serverEnd \in 0..Len(line)
        /\ waiting \in Seq(Captures) /\ Len(waiting) \in Nat \ {0}
        /\ \A n \in 1..Len(waiting) : waiting[n].start \in Nat /\ waiting[n].end \in Nat
    BY <1>1, LineValues DEF LineTypeOK
  <1>3. /\ Head(waiting) = w /\ Len(waiting') = Len(waiting) - 1
        /\ \A n \in 1..Len(waiting') : n + 1 \in 1..Len(waiting) /\ waiting'[n] = waiting[n + 1]
    BY <1>2
  <1>4. /\ w.start \in Nat /\ w.end \in Nat /\ w.start < w.end /\ w.end <= Len(line)
        /\ w.start >= serverEnd /\ delivered' = delivered \cup w.body /\ serverEnd' = w.end
    BY <1>1, <1>2, <1>3 DEF CapturesTrue
  <1> HIDE DEF w
  <1>5. Position' = Position
    BY DEF Position
  <1>6. /\ \A i : Keeps(line[i])' = Keeps(line[i])
        /\ \A i : Wanted(i)' = Wanted(i)
    BY DEF Keeps, IsDialogue, Wanted
  <1>7. ASSUME NEW i \in Nat, Covered(i) PROVE Covered(i)'
    <2>1. CASE i <= serverEnd
      BY <2>1, <1>2, <1>4 DEF Covered
    <2>2. ASSUME NEW n \in 1..Len(waiting), i <= waiting[n].end PROVE Covered(i)'
      <3>1. CASE n = 1
        BY <2>2, <3>1, <1>4 DEF Covered, w
      <3>2. CASE n # 1
        <4>1. n - 1 \in 1..Len(waiting') /\ waiting'[n - 1] = waiting[n]
          BY <3>2, <1>2, <1>3
        <4> QED BY <2>2, <4>1 DEF Covered
      <3> QED BY <3>1, <3>2
    <2> QED BY <2>1, <2>2, <1>7 DEF Covered
  <1>8. ASSUME NEW n \in 1..Len(waiting'), Fresh(n + 1) PROVE Fresh(n)'
    <2>1. w.end <= waiting'[n].start
      <3>1. 1 \in 1..(n + 1) - 1
        BY <1>2, <1>3
      <3> QED BY <1>3, <1>8, <3>1 DEF Fresh, w
    <2>2. ASSUME NEW m \in 1..n - 1 PROVE waiting'[m].end <= waiting'[n].start
      <3>1. m \in 1..Len(waiting') /\ m + 1 \in 1..(n + 1) - 1
        BY <1>2, <1>3
      <3> QED BY <1>3, <1>8, <3>1 DEF Fresh
    <2> QED BY <1>4, <2>1, <2>2 DEF Fresh
  <1>9. ASSUME NEW n \in 1..Len(waiting'), Stale(n + 1) PROVE Stale(n)'
    <2>1. CASE waiting[n + 1].end <= serverEnd
      BY <2>1, <1>2, <1>3, <1>4 DEF Stale
    <2>2. ASSUME NEW m \in 1..(n + 1) - 1, waiting[n + 1].end <= waiting[m].end PROVE Stale(n)'
      <3>1. CASE m = 1
        BY <2>2, <3>1, <1>3, <1>4 DEF Stale, w
      <3>2. CASE m # 1
        <4>1. m - 1 \in 1..n - 1 /\ m - 1 \in 1..Len(waiting')
              /\ waiting'[m - 1] = waiting[m]
          BY <3>2, <1>2, <1>3
        <4> QED BY <2>2, <4>1, <1>3 DEF Stale
      <3> QED BY <3>1, <3>2
    <2> QED BY <2>1, <2>2, <1>9 DEF Stale
  <1>10. ASSUME AtFront PROVE AtFront'
    <2>1. w.end <= Position
      BY <1>2, <1>10 DEF AtFront, w
    <2>2. \A n \in 1..Len(waiting') : waiting'[n].end <= Position /\ Fresh(n)'
      BY <1>3, <1>8, <1>10 DEF AtFront
    <2>3. \A i \in 1..Position : Keeps(line[i])' => Covered(i)'
      BY <1>2, <1>6, <1>7, <1>10 DEF AtFront
    <2> QED BY <2>1, <2>2, <2>3, <1>4, <1>5 DEF AtFront
  <1>11. ASSUME NEW h \in 1..Len(line), StoppedBefore(h) PROVE StoppedBefore(h)'
    <2>1. w.end < h
      BY <1>2, <1>11 DEF StoppedBefore, w
    <2>2. \A n \in 1..Len(waiting') : waiting'[n].end < h /\ (Fresh(n)' \/ Stale(n)')
      BY <1>3, <1>8, <1>9, <1>11 DEF StoppedBefore
    <2>3. \A i \in 1..h - 1 : Keeps(line[i])' => Covered(i)'
      BY <1>2, <1>6, <1>7, <1>11 DEF StoppedBefore
    <2> QED BY <2>1, <2>2, <2>3, <1>4, <1>5, <1>11 DEF StoppedBefore
  <1>12. InPlace'
    BY <1>1, <1>10, <1>11 DEF InPlace
  <1>13. ASSUME NEW i \in 1..w.end, Wanted(i) PROVE i \in delivered'
    <2>1. 1 \in 1..Len(waiting) /\ i \in 1..waiting[1].end
      BY <1>2 DEF w
    <2>2. CASE i > w.start
      BY <2>1, <2>2, <1>1, <1>4, <1>13 DEF LinesWhereSaid, w
    <2>3. CASE ~(i > w.start)
      BY <2>1, <2>3, <1>1, <1>4, <1>13 DEF LinesWhereSaid, w
    <2> QED BY <2>2, <2>3
  <1>14. ASSUME NEW n \in 1..Len(waiting'), NEW i \in 1..waiting'[n].end, Wanted(i)
         PROVE  IF i > waiting'[n].start
                THEN i \in waiting'[n].body
                ELSE i \in delivered' \/ \E m \in 1..n - 1 : i \in waiting'[m].body
    <2>1. n + 1 \in 1..Len(waiting) /\ waiting'[n] = waiting[n + 1]
      BY <1>3
    <2>2. CASE i > waiting'[n].start
      BY <2>1, <2>2, <1>1, <1>14 DEF LinesWhereSaid
    <2>3. CASE ~(i > waiting'[n].start)
      <3>1. i \in delivered \/ \E m \in 1..(n + 1) - 1 : i \in waiting[m].body
        BY <2>1, <2>3, <1>1, <1>14 DEF LinesWhereSaid
      <3>2. ASSUME NEW m \in 1..(n + 1) - 1, i \in waiting[m].body
            PROVE  i \in delivered' \/ \E j \in 1..n - 1 : i \in waiting'[j].body
        <4>1. CASE m = 1
          BY <3>2, <4>1, <1>4 DEF w
        <4>2. CASE m # 1
          <5>1. m - 1 \in 1..n - 1 /\ m - 1 \in 1..Len(waiting')
                /\ waiting'[m - 1] = waiting[m]
            BY <4>2, <1>2, <1>3
          <5> QED BY <3>2, <5>1
        <4> QED BY <4>1, <4>2
      <3> QED BY <2>3, <3>1, <3>2, <1>4
    <2> QED BY <2>2, <2>3
  <1>15. LinesWhereSaid'
    BY <1>4, <1>6, <1>13, <1>14 DEF LinesWhereSaid
  <1> QED BY <1>12, <1>15

\* The backend refuses the oldest capture: what that capture says it has already.
LEMMA RefusedStep ==
  ASSUME LineAssumption, LineInv, ~torn, "claude-desktop" \notin Cut,
         waiting # << >>, Head(waiting).start < serverEnd, own' = serverEnd,
         waiting' = Tail(waiting), UNCHANGED <<delivered, serverEnd, app, line, fallback>>
  PROVE  InPlace' /\ LinesWhereSaid'
PROOF
  <1> DEFINE w == waiting[1]
  <1>1. LineTypeOK /\ LargeInCut /\ CapturesTrue /\ InPlace /\ LinesWhereSaid
    BY DEF LineInv
  <1>2. /\ Len(line) \in Nat /\ Position \in Nat /\ serverEnd \in 0..Len(line)
        /\ waiting \in Seq(Captures) /\ Len(waiting) \in Nat \ {0}
        /\ \A n \in 1..Len(waiting) : waiting[n].start \in Nat /\ waiting[n].end \in Nat
    BY <1>1, LineValues DEF LineTypeOK
  <1>3. /\ Head(waiting) = w /\ Len(waiting') = Len(waiting) - 1
        /\ \A n \in 1..Len(waiting') : n + 1 \in 1..Len(waiting) /\ waiting'[n] = waiting[n + 1]
    BY <1>2
  <1>4. /\ w.start \in Nat /\ w.end \in Nat /\ w.start < serverEnd
        /\ \A i \in w.body : i \in 1..Len(line) /\ i <= w.end
    BY <1>1, <1>2, <1>3 DEF CapturesTrue
  <1> HIDE DEF w
  <1>5. Position' = serverEnd
    BY <1>2 DEF Position, None
  <1>6. /\ \A i : Keeps(line[i])' = Keeps(line[i])
        /\ \A i : Wanted(i)' = Wanted(i)
    BY DEF Keeps, IsDialogue, Wanted
  <1>7. PICK h \in 1..Len(line) : StoppedBefore(h)
    <2>1. ~Fresh(1)
      BY <1>2, <1>4 DEF Fresh, w
    <2> QED BY <2>1, <1>1, <1>2 DEF InPlace, AtFront
  <1>8. w.end <= serverEnd
    <2>1. Stale(1)
      BY <1>2, <1>4, <1>7 DEF StoppedBefore, Fresh, w
    <2> QED BY <2>1 DEF Stale, w
  <1>9. ASSUME NEW i \in Nat, Covered(i) PROVE Covered(i)'
    <2>1. CASE i <= serverEnd
      BY <2>1 DEF Covered
    <2>2. ASSUME NEW n \in 1..Len(waiting), i <= waiting[n].end PROVE Covered(i)'
      <3>1. CASE n = 1
        BY <2>2, <3>1, <1>2, <1>4, <1>8 DEF Covered, w
      <3>2. CASE n # 1
        <4>1. n - 1 \in 1..Len(waiting') /\ waiting'[n - 1] = waiting[n]
          BY <3>2, <1>2, <1>3
        <4> QED BY <2>2, <4>1 DEF Covered
      <3> QED BY <3>1, <3>2
    <2> QED BY <2>1, <2>2, <1>9 DEF Covered
  <1>10. ASSUME NEW n \in 1..Len(waiting'), Fresh(n + 1) PROVE Fresh(n)'
    <2>1. ASSUME NEW m \in 1..n - 1 PROVE waiting'[m].end <= waiting'[n].start
      <3>1. m \in 1..Len(waiting') /\ m + 1 \in 1..(n + 1) - 1
        BY <1>2, <1>3
      <3> QED BY <1>3, <1>10, <3>1 DEF Fresh
    <2> QED BY <1>3, <1>10, <2>1 DEF Fresh
  <1>11. ASSUME NEW n \in 1..Len(waiting'), Stale(n + 1) PROVE Stale(n)'
    <2>1. CASE waiting[n + 1].end <= serverEnd
      BY <2>1, <1>3 DEF Stale
    <2>2. ASSUME NEW m \in 1..(n + 1) - 1, waiting[n + 1].end <= waiting[m].end PROVE Stale(n)'
      <3>1. CASE m = 1
        <4>1. waiting[n + 1].end \in Nat /\ waiting[n + 1].end <= w.end
          BY <2>2, <3>1, <1>2, <1>3 DEF w
        <4> QED BY <4>1, <1>2, <1>3, <1>4, <1>8 DEF Stale
      <3>2. CASE m # 1
        <4>1. m - 1 \in 1..n - 1 /\ m - 1 \in 1..Len(waiting')
              /\ waiting'[m - 1] = waiting[m]
          BY <3>2, <1>2, <1>3
        <4> QED BY <2>2, <4>1, <1>3 DEF Stale
      <3> QED BY <3>1, <3>2
    <2> QED BY <2>1, <2>2, <1>11 DEF Stale
  <1>12. StoppedBefore(h)'
    <2>1. \A n \in 1..Len(waiting') : waiting'[n].end < h /\ (Fresh(n)' \/ Stale(n)')
      BY <1>3, <1>7, <1>10, <1>11 DEF StoppedBefore
    <2>2. \A i \in 1..h - 1 : Keeps(line[i])' => Covered(i)'
      <3>1. \A i \in 1..h - 1 : i \in Nat
        BY <1>2
      <3>2. \A i \in 1..h - 1 : Keeps(line[i]) => Covered(i)
        BY <1>7 DEF StoppedBefore
      <3> QED BY <3>1, <3>2, <1>6, <1>9
    <2> QED BY <2>1, <2>2, <1>5, <1>7 DEF StoppedBefore
  <1>13. InPlace'
    BY <1>12 DEF InPlace
  <1>14. ASSUME NEW n \in 1..Len(waiting'), NEW i \in 1..waiting'[n].end, Wanted(i)
         PROVE  IF i > waiting'[n].start
                THEN i \in waiting'[n].body
                ELSE i \in delivered \/ \E m \in 1..n - 1 : i \in waiting'[m].body
    <2>1. n + 1 \in 1..Len(waiting) /\ waiting'[n] = waiting[n + 1]
      BY <1>3
    <2>2. CASE i > waiting'[n].start
      BY <2>1, <2>2, <1>1, <1>14 DEF LinesWhereSaid
    <2>3. CASE ~(i > waiting'[n].start)
      <3>1. i \in delivered \/ \E m \in 1..(n + 1) - 1 : i \in waiting[m].body
        BY <2>1, <2>3, <1>1, <1>14 DEF LinesWhereSaid
      <3>2. ASSUME NEW m \in 1..(n + 1) - 1, i \in waiting[m].body
            PROVE  i \in delivered \/ \E j \in 1..n - 1 : i \in waiting'[j].body
        <4>1. CASE m = 1
          <5>1. i \in 1..serverEnd
            BY <3>2, <4>1, <1>2, <1>4, <1>8 DEF w
          <5> QED BY <5>1, <1>1, <1>14 DEF LinesWhereSaid
        <4>2. CASE m # 1
          <5>1. m - 1 \in 1..n - 1 /\ m - 1 \in 1..Len(waiting')
                /\ waiting'[m - 1] = waiting[m]
            BY <4>2, <1>2, <1>3
          <5> QED BY <3>2, <5>1
        <4> QED BY <4>1, <4>2
      <3> QED BY <2>3, <3>1, <3>2
    <2> QED BY <2>2, <2>3
  <1>15. LinesWhereSaid'
    BY <1>1, <1>6, <1>14 DEF LinesWhereSaid
  <1> QED BY <1>13, <1>15

LEMMA UploadStep ==
  ASSUME LineAssumption, LineInv, Upload, "claude-desktop" \notin Cut
  PROVE  LineInv'
PROOF
  <1>1. /\ waiting # << >> /\ waiting' = Tail(waiting)
        /\ UNCHANGED <<app, line, list, hint, fallback, torn, events, faults>>
        /\ \/ /\ Head(waiting).start >= serverEnd
              /\ delivered' = delivered \cup Head(waiting).body
              /\ serverEnd' = Head(waiting).end /\ own' = own
           \/ /\ Head(waiting).start < serverEnd /\ own' = serverEnd
              /\ delivered' = delivered /\ serverEnd' = serverEnd
    BY DEF Upload
  <1>2. LineTypeOK' /\ CapturesTrue' /\ LargeInCut'
    BY <1>1, UploadTyped, TooLargeStays DEF LineInv
  <1>3. ~torn => InPlace' /\ LinesWhereSaid'
    BY <1>1, TakenStep, RefusedStep
  <1> QED BY <1>1, <1>2, <1>3 DEF LineInv

LEMMA LineStep ==
  ASSUME LineAssumption, LineInv, [LineNext]_lineVars, "claude-desktop" \notin Cut
  PROVE  LineInv'
PROOF
  <1>1. ASSUME NEW k \in Kinds, Ends(k) PROVE LineInv'
    BY <1>1, EndsStep
  <1>2. ASSUME UNCHANGED <<app, line, own, fallback, waiting, delivered, serverEnd, torn,
                           faults>>,
               list' \in {"none", "others", "this"}, hint' \in {"missing", "torn", "named"},
               events' \in 0..MaxEvents
        PROVE  LineInv'
    <2>1. LineTypeOK'
      BY <1>2 DEF LineInv, LineTypeOK
    <2>2. LargeInCut' /\ CapturesTrue'
      BY <1>2, TooLargeStays DEF LineInv, CapturesTrue
    <2>3. Position' = Position
      BY <1>2 DEF Position
    <2>4. ~torn => InPlace' /\ LinesWhereSaid'
      BY <1>2, <2>3, PlacedStill DEF LineInv
    <2> QED BY <1>2, <2>1, <2>2, <2>4 DEF LineInv
  <1>3. ASSUME Exclude \/ Name PROVE LineInv'
    <2>1. list' \in {"none", "others", "this"} /\ hint' \in {"missing", "torn", "named"}
      BY <1>3 DEF Exclude, Name, Names, LineInv, LineTypeOK
    <2>2. events' \in 0..MaxEvents
      BY <1>3 DEF Exclude, Name, Event, LineInv, LineTypeOK, LineAssumption
    <2> QED BY <1>2, <1>3, <2>1, <2>2 DEF Exclude, Name, Event
  <1>4. CASE PollNothing
    BY <1>4, PollNothingStep
  <1>5. CASE Poll
    BY <1>5, PollStep
  <1>6. CASE PollTooLarge
    BY <1>6, PollTooLargeStep
  <1>7. CASE PollThrows
    BY <1>7, PollThrowsStep
  <1>8. CASE PollCrashes
    BY <1>8, PollCrashesStep
  <1>9. CASE Upload
    BY <1>9, UploadStep
  <1>10. CASE UNCHANGED lineVars
    <2>1. list' \in {"none", "others", "this"} /\ hint' \in {"missing", "torn", "named"}
          /\ events' \in 0..MaxEvents
      BY <1>10 DEF lineVars, LineInv, LineTypeOK
    <2> QED BY <1>2, <1>10, <2>1 DEF lineVars
  <1> QED BY <1>1, <1>3, <1>4, <1>5, <1>6, <1>7, <1>8, <1>9, <1>10 DEF LineNext, Polls

LEMMA LineStart ==
  ASSUME LineAssumption, LineInit
  PROVE  LineInv
PROOF
  <1>1. /\ fallback \in 0..Synced /\ Synced \in 0..MaxLines /\ MaxLines \in Nat
        /\ line = [i \in 1..fallback |-> "talk"]
    BY DEF LineInit, LineAssumption
  <1>2. line \in Seq(Kinds \cup {"talk"}) /\ Len(line) = fallback
        /\ \A i \in 1..Len(line) : line[i] = "talk"
    BY <1>1
  <1>3. Position = fallback /\ Len(waiting) = 0 /\ waiting \in Seq(Captures)
        /\ ToSet(waiting) = {}
    BY DEF LineInit, Position, ToSet
  <1>4. LineTypeOK
    <2>1. /\ app \in Apps /\ list \in {"none", "others", "this"}
          /\ hint \in {"missing", "torn", "named"} /\ own = None /\ torn \in BOOLEAN
      BY DEF LineInit
    <2>2. delivered \subseteq 1..Len(line) /\ serverEnd \in 0..Len(line)
          /\ Len(line) <= MaxLines
      BY <1>1, <1>2 DEF LineInit
    <2>3. events \in 0..MaxEvents /\ faults \in 0..MaxFaults
      BY DEF LineInit, LineAssumption
    <2> QED BY <1>1, <1>2, <1>3, <2>1, <2>2, <2>3 DEF LineTypeOK
  <1>5. LargeInCut /\ CapturesTrue
    BY <1>2, <1>3 DEF LargeInCut, CapturesTrue
  <1>6. AtFront
    BY <1>1, <1>2, <1>3 DEF LineInit, AtFront, Covered
  <1>7. LinesWhereSaid
    BY <1>1, <1>2, <1>3 DEF LineInit, LinesWhereSaid
  <1> QED BY <1>4, <1>5, <1>6, <1>7 DEF LineInv, InPlace

\* The invariant: while nothing was torn the captures that wait follow each other up
\* to the cursor, or a line that is too large holds the cursor before it.
THEOREM LinesInvariant ==
  ASSUME "claude-desktop" \notin Cut
  PROVE  LineSpec => []LineInv
PROOF
  <1>1. LineInit => LineInv
    BY LineAssumption, LineStart
  <1>2. LineInv /\ [LineNext]_lineVars => LineInv'
    BY LineAssumption, LineStep
  <1> QED BY <1>1, <1>2, PTL DEF LineSpec

\* The variables of a line collector keep their values (LineTypeOK), whosever reads are
\* cut, claude-desktop's too.
THEOREM LineTypes == LineSpec => []LineTypeOK
PROOF
  <1>1. LineInit => LineTypeOK /\ CapturesTrue
    BY LineAssumption, LineStart DEF LineInv
  <1>2. LineTypeOK /\ CapturesTrue /\ [LineNext]_lineVars => LineTypeOK' /\ CapturesTrue'
    BY LineAssumption, LineTypesStep
  <1> QED BY <1>1, <1>2, PTL DEF LineSpec

\* No cursor passes a line that is kept and that neither the backend nor a waiting
\* capture holds, unless lines were captured, or synced, and are read again.
THEOREM NoLineIsLost ==
  ASSUME "claude-desktop" \notin Cut
  PROVE  LineSpec => []NoLineLost
PROOF
  <1>1. LineInv => NoLineLost
    <2> SUFFICES ASSUME LineInv, ~torn, NEW i \in 1..Position, Wanted(i)
                 PROVE  Held(i)
      BY DEF NoLineLost
    <2>1. LineTypeOK /\ LargeInCut /\ CapturesTrue
      BY DEF LineInv
    <2>2. Position <= Len(line) /\ Position \in Nat /\ Len(line) \in Nat
      BY <2>1, LineAssumption, LineValues, InPlaceBound
    <2>3. i \in 1..Len(line) /\ Keeps(line[i])
      BY <2>1, <2>2, LineAssumption, WantedIsKept
    <2>4. i \in delivered \/ \E n \in 1..Len(waiting) : i \in waiting[n].body
      BY <2>3, LineAssumption, NothingPassed
    <2> QED BY <2>4, <2>1 DEF Held, ToSet, LineTypeOK
  <1> QED BY <1>1, LinesInvariant, PTL

\* While the list names the project and something tells which project the file is of,
\* or the index that would tell is torn, nothing is captured and the cursor stays,
\* except where a refused capture puts it.
THEOREM ExcludedFreezes ==
  ASSUME "claude-desktop" \notin Cut
  PROVE  LineSpec => ExcludedIsFrozen
PROOF
  <1> DEFINE Named == list = "this" /\ (Identified \/ (app = "gemini" /\ ~IndexComplete))
             Frozen == /\ Len(waiting') <= Len(waiting)
                       /\ Position' > Position => own' = serverEnd
  <1>1. ASSUME LineInv, [LineNext]_lineVars, Named PROVE Frozen
    <2>1. ~Reads
      BY <1>1 DEF Reads, Pauses
    <2>2. Len(waiting) \in Nat /\ waiting \in Seq(Captures) /\ Position \in Nat
      BY <1>1, LineAssumption, LineValues DEF LineInv, LineTypeOK
    <2>3. ASSUME UNCHANGED <<own, fallback, waiting>> PROVE Frozen
      BY <2>2, <2>3 DEF Position
    <2>4. CASE Upload
      <3>1. waiting # << >> /\ waiting' = Tail(waiting) /\ fallback' = fallback
            /\ (own' = own \/ own' = serverEnd)
        BY <2>4 DEF Upload
      <3>2. Len(waiting') <= Len(waiting)
        BY <2>2, <3>1
      <3>3. own' = own => Position' = Position
        BY <3>1 DEF Position
      <3> QED BY <2>2, <3>1, <3>2, <3>3
    <2>5. CASE \/ \E k \in Kinds : Ends(k)
               \/ Exclude \/ Name \/ UNCHANGED lineVars
      BY <2>3, <2>5 DEF Ends, Exclude, Name, Event, lineVars
    <2> QED
      BY <1>1, <2>1, <2>4, <2>5
         DEF LineNext, Polls, PollNothing, Poll, PollTooLarge, PollThrows, PollCrashes
  <1>2. LineInv /\ [LineNext]_lineVars => [Named => Frozen]_lineVars
    BY <1>1
  <1> QED BY <1>2, LinesInvariant, PTL DEF LineSpec, ExcludedIsFrozen

-----------------------------------------------------------------------------
(* BufferViews: the tables *)

USE ViewsAssumption
USE DEF tables, viewVars

Times == 0 .. tick
BatchT == [status : {"pending", "failed"}, created : Times, failedAt : Times]
StateT == [error : Times, sources : 0 .. MaxRecords]
\* At most one of the two loops is between its read of daemon_state and its write.
Copies == [{} -> StateT] \cup [{"capture"} -> StateT] \cup [{"drain"} -> StateT]
WriterT == [at : 0 .. 10, looked : BOOLEAN, drain : {"idle", "uploading", "pruned", "stated"},
            shipped : BOOLEAN, fatal : BOOLEAN, error : Times, deleting : 0 .. MaxRecords,
            copy : Copies]

CountsTyped ==
  /\ schema \subseteq Latest /\ inserted \in 0 .. MaxRecords /\ tick \in 1 .. MaxTicks
  /\ upsets \in 0 .. MaxUpsets /\ success \in Times
RowsTyped ==
  /\ batches \in [DOMAIN batches -> BatchT] /\ DOMAIN batches \subseteq 1 .. inserted
  /\ receipts \in [DOMAIN receipts -> Times] /\ DOMAIN receipts \subseteq 1 .. inserted
  /\ resyncs \in [DOMAIN resyncs -> Times] /\ DOMAIN resyncs \subseteq 1 .. inserted
WriterTyped ==
  /\ writer \in WriterT /\ stateRow \in StateT /\ said \in StateT
  /\ writer.looked => writer.at \in 1 .. 9

\* A capture is either queued or delivered.
KeptOnce == DOMAIN batches \cap DOMAIN receipts = {}

\* The failures doctor should report are those it finds by the time of the last success.
UnseenIsFailed == unseen = FailedAfter(success)

\* A drain that is under way began after the last success; and what it deletes after an
\* audit it had been uploading.
DrainIsLater == writer.drain # "idle" => success < tick
DeletesPending ==
  writer.deleting \in DOMAIN batches => batches[writer.deleting].status = "pending"

\* What a loop will write back of the other's part is not older than the row.
CopiesCurrent ==
  \A l \in DOMAIN writer.copy :
    writer.copy[l].sources = said.sources /\ writer.copy[l].error \in {0, said.error}

\* The drain cycle has its copy between the pruning and what it says.
DrainCopies == "drain" \in DOMAIN writer.copy => writer.drain # "idle"

TablesInv ==
  /\ CountsTyped /\ RowsTyped /\ WriterTyped
  /\ KeptOnce /\ UnseenIsFailed /\ DrainIsLater /\ DeletesPending
  /\ DrainCopies /\ CopiesCurrent /\ StateRowCurrent

LEMMA Pieces ==
  /\ Len(SchemaPieces) = 9 /\ DOMAIN SchemaPieces = 1 .. 9
  /\ Latest = {"batches", "failed_at", "cursors", "receipts", "display", "metadata", "state",
               "quarantine", "resync"}
  /\ \A i \in 1 .. 9 : SchemaPieces[i] \in Latest
<1>1. Len(SchemaPieces) = 9 /\ DOMAIN SchemaPieces = 1 .. 9
  BY DEF SchemaPieces
<1>2. Latest = {SchemaPieces[i] : i \in 1 .. 9}
  BY <1>1 DEF Latest, Range
<1>3. {SchemaPieces[i] : i \in 1 .. 9} =
          {"batches", "failed_at", "cursors", "receipts", "display", "metadata", "state",
               "quarantine", "resync"}
  BY DEF SchemaPieces
<1> QED
  BY <1>1, <1>2, <1>3

\* The next missing piece exists, be it the end.
LEMMA MissingIsPlace ==
  ASSUME NEW i \in 0 .. 9, NEW pieces PROVE Missing(i, pieces) \in 1 .. 10
<1> DEFINE misses(j) == j \in DOMAIN SchemaPieces => SchemaPieces[j] \notin pieces
           missing == {j \in i + 1 .. 10 : misses(j)}
           Fits(j) == misses(j) /\ \A k \in i + 1 .. j - 1 : SchemaPieces[k] \in pieces
<1>1. 10 \in missing /\ missing \subseteq Nat
  BY Pieces
<1>2. PICK j \in missing : \A k \in missing : j <= k
  BY <1>1
<1>3. ASSUME NEW k \in i + 1 .. j - 1 PROVE SchemaPieces[k] \in pieces
  <2>1. k \in 1 .. 9 /\ k < j /\ k \in i + 1 .. 10
    BY <1>1, <1>2
  <2>2. k \notin missing
    BY <1>1, <1>2, <2>1
  <2> QED
    BY <2>1, <2>2
<1>4. j \in i + 1 .. 10 /\ Fits(j)
  BY <1>2, <1>3
<1> HIDE DEF misses, missing, Fits
<1>5. (CHOOSE h \in i + 1 .. 10 : Fits(h)) \in i + 1 .. 10
  BY <1>4
<1>6. Missing(i, pieces) = CHOOSE h \in i + 1 .. 10 : Fits(h)
  BY Pieces DEF Missing, Fits, misses
<1> QED
  BY <1>5, <1>6

USE DEF CountsTyped, RowsTyped, WriterTyped, KeptOnce, UnseenIsFailed, DrainIsLater,
        DeletesPending, DrainCopies, CopiesCurrent, StateRowCurrent, Times

LEMMA EmptyRow == ASSUME NEW S PROVE DOMAIN << >> = {} /\ << >> \in [{} -> S]
OBVIOUS

LEMMA TablesStart == ViewsInit => TablesInv
<1> SUFFICES ASSUME ViewsInit PROVE TablesInv
  OBVIOUS
<1>1. tick = 2 /\ success \in {0, 1} /\ receipts \in {<< >>} \cup [{1} -> {1}]
      /\ resyncs = << >> /\ upsets = 0 /\ schema \subseteq Latest
  BY Pieces DEF ViewsInit
<1>2. batches = << >> \/ batches \in [{1} -> BatchT]
  BY <1>1 DEF ViewsInit, BatchT
<1>3. \/ batches = << >> /\ receipts = << >>
      \/ batches \in [{1} -> BatchT] /\ receipts = << >>
      \/ batches = << >> /\ receipts \in [{1} -> Times]
  BY <1>1, <1>2 DEF ViewsInit
<1>4. inserted = IF batches = << >> /\ receipts = << >> THEN 0 ELSE 1
  <2>1. CASE batches = << >> /\ receipts = << >>
    <3>1. DOMAIN batches \cup DOMAIN receipts = {}
      BY <2>1, EmptyRow
    <3> QED
      BY <2>1, <3>1, FS_EmptySet DEF ViewsInit
  <2>2. CASE batches # << >> \/ receipts # << >>
    <3>1. DOMAIN batches \cup DOMAIN receipts = {1}
      BY <1>3, <2>2, EmptyRow
    <3> QED
      BY <2>2, <3>1, FS_Singleton DEF ViewsInit
  <2> QED
    BY <2>1, <2>2
<1>5. stateRow = [error |-> 0, sources |-> 0] /\ said = stateRow /\ writer = NoWriter
  BY DEF ViewsInit
<1>6. writer \in WriterT /\ ~writer.looked
  BY <1>1, <1>5, EmptyRow DEF WriterT, NoWriter, Copies
<1>7. CountsTyped /\ RowsTyped /\ WriterTyped
  <2>1. CountsTyped
    BY <1>1, <1>4
  <2>2. RowsTyped
    <3>1. CASE batches = << >> /\ receipts = << >>
      BY <1>1, <3>1, EmptyRow
    <3>2. CASE batches \in [{1} -> BatchT] /\ receipts = << >>
      <4>1. DOMAIN batches = {1} /\ batches # << >>
        BY <3>2, EmptyRow
      <4>2. inserted = 1 /\ {1} \subseteq 1 .. inserted
        BY <1>4, <4>1
      <4> QED
        BY <1>1, <3>2, <4>1, <4>2, EmptyRow
    <3>3. CASE batches = << >> /\ receipts \in [{1} -> Times]
      <4>1. DOMAIN receipts = {1} /\ receipts # << >>
        BY <3>3, EmptyRow
      <4>2. inserted = 1 /\ {1} \subseteq 1 .. inserted
        BY <1>4, <4>1
      <4> QED
        BY <1>1, <3>3, <4>1, <4>2, EmptyRow
    <3> QED
      BY <1>3, <3>1, <3>2, <3>3
  <2>3. WriterTyped
    BY <1>1, <1>5, <1>6 DEF StateT
  <2> QED
    BY <2>1, <2>2, <2>3
<1>8. KeptOnce
  BY <1>3, EmptyRow
<1>9. UnseenIsFailed
  <2>1. unseen = IF success = 0 THEN DOMAIN batches ELSE {}
    BY DEF ViewsInit
  <2>2. \A r \in DOMAIN batches :
           batches[r].status = "failed" /\ (success # 0 => batches[r].failedAt = 0)
    BY <1>1, EmptyRow DEF ViewsInit
  <2> QED
    BY <1>1, <2>1, <2>2 DEF FailedAfter, InStatus
<1>10. DrainIsLater /\ DeletesPending /\ DrainCopies /\ CopiesCurrent /\ StateRowCurrent
  BY <1>3, <1>5, EmptyRow DEF NoWriter
<1> QED
  BY <1>7, <1>8, <1>9, <1>10 DEF TablesInv

\* What a write may do to a record: it is queued once, delivered once, and its row says
\* something else only when it has another place.
Moves ==
  /\ \A r \in DOMAIN batches' : r \in DOMAIN batches \/ r \notin Stored
  /\ DOMAIN receipts' \subseteq Stored
  /\ \A r \in DOMAIN batches : Place(r)' = Place(r) => batches'[r] = batches[r]

USE DEF Moves, Stored, Busy, IsOpen, InStatus, FailedAfter, Place

USE DEF With, Minus

\* The copies a loop takes and writes back keep to what a copy may be.
LEMMA CopiesTyped ==
  ASSUME NEW l \in {"capture", "drain"}, NEW row \in StateT
  PROVE  /\ With(<< >>, l, row) \in Copies /\ << >> \in Copies
         /\ \A c \in Copies : l \in DOMAIN c => Minus(c, {l}) \in Copies /\ c[l] \in StateT
<1>1. With(<< >>, l, row) \in Copies /\ << >> \in Copies
  BY EmptyRow DEF Copies
<1>2. ASSUME NEW c \in Copies, l \in DOMAIN c PROVE Minus(c, {l}) \in Copies /\ c[l] \in StateT
  <2>1. c \in [{l} -> StateT]
    BY <1>2 DEF Copies
  <2>2. Minus(c, {l}) \in [{} -> StateT]
    BY <2>1
  <2> QED
    BY <2>1, <2>2 DEF Copies
<1> QED
  BY <1>1, <1>2

HIDE DEF With, Minus

\* The writer's other fields change, and it stands in the opening where it stood.
Updates(v, w) == v \in WriterT /\ v.looked = w.looked /\ v.at = w.at

LEMMA WriterUpdates ==
  ASSUME CountsTyped, NEW w \in WriterT
  PROVE  /\ Updates([w EXCEPT !.shipped = TRUE], w)
         /\ Updates([w EXCEPT !.fatal = TRUE, !.error = tick], w)
         /\ Updates([w EXCEPT !.error = tick], w)
         /\ \A r \in 0 .. MaxRecords : Updates([w EXCEPT !.deleting = r], w)
         /\ Updates([w EXCEPT !.deleting = 0, !.shipped = TRUE], w)
         /\ Updates([w EXCEPT !.drain = "pruned"], w)
         /\ Updates([w EXCEPT !.drain = "idle", !.shipped = FALSE, !.fatal = FALSE,
                             !.error = 0], w)
         /\ \A c \in Copies : /\ Updates([w EXCEPT !.copy = c], w)
                             /\ Updates([w EXCEPT !.drain = "stated", !.copy = c], w)
<1> USE DEF WriterT, Updates
<1>1. tick \in Times /\ 0 \in Times /\ 0 \in 0 .. MaxRecords
  OBVIOUS
<1>3. Updates([w EXCEPT !.shipped = TRUE], w)
  OBVIOUS
<1>4. Updates([w EXCEPT !.fatal = TRUE, !.error = tick], w)
  BY <1>1
<1>5. Updates([w EXCEPT !.error = tick], w)
  BY <1>1
<1>6. \A r \in 0 .. MaxRecords : Updates([w EXCEPT !.deleting = r], w)
  OBVIOUS
<1>7. Updates([w EXCEPT !.deleting = 0, !.shipped = TRUE], w)
  BY <1>1
<1>8. Updates([w EXCEPT !.drain = "pruned"], w)
  OBVIOUS
<1>9. Updates([w EXCEPT !.drain = "idle", !.shipped = FALSE, !.fatal = FALSE, !.error = 0], w)
  BY <1>1
<1>10. \A c \in Copies : /\ Updates([w EXCEPT !.copy = c], w)
                         /\ Updates([w EXCEPT !.drain = "stated", !.copy = c], w)
  OBVIOUS
<1> HIDE DEF WriterT, Updates
<1> QED
  BY <1>3, <1>4, <1>5, <1>6, <1>7, <1>8, <1>9, <1>10

LEMMA Opening ==
  ASSUME NEW w \in WriterT
  PROVE  /\ \A i \in 0 .. 10 : LET v == [w EXCEPT !.looked = FALSE, !.at = i]
                               IN  v \in WriterT /\ ~v.looked
         /\ LET v == [w EXCEPT !.looked = TRUE] IN v \in WriterT /\ v.at = w.at
  BY DEF WriterT

LEMMA NoWriterTyped == ASSUME CountsTyped PROVE NoWriter \in WriterT /\ ~NoWriter.looked
<1>1. << >> \in Copies
  BY EmptyRow DEF Copies
<1> QED
  BY <1>1 DEF NoWriter, WriterT

LEMMA WriterKeeps == ASSUME CountsTyped, WriterTyped, Writes PROVE WriterTyped'
<1> DEFINE goes(pieces) == Missing(writer.at, pieces)
<1>a. ASSUME NEW pieces, writer.at \in 0 .. 9, GoesOn(pieces)
      PROVE  writer' \in WriterT /\ ~writer'.looked
  <2>1. goes(pieces) \in 0 .. 10
    BY <1>a, MissingIsPlace
  <2>2. writer' = [writer EXCEPT !.looked = FALSE, !.at = goes(pieces)]
    BY <1>a DEF GoesOn
  <2> HIDE DEF goes
  <2> QED
    BY <2>1, <2>2, Opening
<1>1. tick' = tick => WriterT' = WriterT /\ StateT' = StateT
  BY DEF WriterT, Copies, StateT
<1>2. CASE Starts
  BY <1>1, <1>2, <1>a DEF Starts
<1>3. CASE CreateTable
  BY <1>1, <1>3, <1>a, Pieces DEF CreateTable
<1>4. CASE LookForColumn
  <2>1. CASE SchemaPieces[writer.at] \in schema
    BY <1>1, <1>4, <2>1, <1>a, Pieces DEF LookForColumn
  <2>2. CASE SchemaPieces[writer.at] \notin schema
    <3>1. writer' = [writer EXCEPT !.looked = TRUE] /\ writer.at \in 1 .. 9
      BY <1>4, <2>2, Pieces DEF LookForColumn
    <3>2. writer'.at = writer.at /\ writer' \in WriterT
      BY <3>1, Opening
    <3> QED
      BY <1>1, <1>4, <3>1, <3>2 DEF LookForColumn
  <2> QED
    BY <2>1, <2>2
<1>5. CASE AddColumn
  <2>1. CASE SchemaPieces[writer.at] \in schema
    BY <1>1, <1>5, <2>1, NoWriterTyped DEF AddColumn
  <2>2. CASE SchemaPieces[writer.at] \notin schema
    BY <1>1, <1>5, <2>2, <1>a DEF AddColumn
  <2> QED
    BY <2>1, <2>2
<1>6. CASE InsertBatch
  BY <1>1, <1>6, WriterUpdates DEF Updates, InsertBatch
<1>7. CASE MarkDelivered
  <2>1. writer' = [writer EXCEPT !.shipped = TRUE]
    BY <1>7 DEF MarkDelivered
  <2>2. Updates(writer', writer)
    BY <2>1, WriterUpdates
  <2> QED
    BY <1>1, <1>7, <2>2 DEF Updates, MarkDelivered
<1>8. CASE MarkFailed
  <2>1. writer' = [writer EXCEPT !.fatal = TRUE, !.error = tick]
    BY <1>8 DEF MarkFailed
  <2>2. Updates(writer', writer)
    BY <2>1, WriterUpdates
  <2> QED
    BY <1>1, <1>8, <2>2 DEF Updates, MarkFailed
<1>9. CASE RetriableFailure
  <2>1. writer' = [writer EXCEPT !.error = tick]
    BY <1>9 DEF RetriableFailure
  <2>2. Updates(writer', writer)
    BY <2>1, WriterUpdates
  <2> QED
    BY <1>1, <1>9, <2>2 DEF Updates, RetriableFailure
<1>10. CASE RecordResync
  <2>1. PICK r \in RecordIds : writer' = [writer EXCEPT !.deleting = r]
    BY <1>10 DEF RecordResync
  <2>2. Updates(writer', writer)
    <3>1. r \in 0 .. MaxRecords
      BY DEF RecordIds
    <3> QED
      BY <2>1, <3>1, WriterUpdates
  <2> QED
    BY <1>1, <1>10, <2>1, <2>2 DEF RecordResync, Updates
<1>11. CASE DeleteBatch
  BY <1>1, <1>11, WriterUpdates DEF Updates, DeleteBatch
<1>12. CASE PruneBuffer
  BY <1>1, <1>12, WriterUpdates DEF Updates, PruneBuffer
<1>13. CASE PersistDrainMetrics
  BY <1>1, <1>13, WriterUpdates DEF Updates, PersistDrainMetrics
<1>14. CASE WriterDies
  BY <1>1, <1>14, WriterUpdates, NoWriterTyped DEF WriterDies
<1>15. CASE CaptureReadsState
  <2>1. writer' = [writer EXCEPT !.copy = With(<< >>, "capture", stateRow)]
    BY <1>15 DEF CaptureReadsState
  <2>2. With(<< >>, "capture", stateRow) \in Copies
    BY CopiesTyped
  <2>3. Updates(writer', writer)
    BY <2>1, <2>2, WriterUpdates
  <2> QED
    BY <1>1, <1>15, <2>1, <2>3 DEF CaptureReadsState, Updates
<1>16. CASE CaptureWritesState
  <2>1. Minus(writer.copy, {"capture"}) \in Copies /\ writer.copy["capture"] \in StateT
    BY <1>16, CopiesTyped DEF CaptureWritesState, WriterT
  <2>2. Updates(writer', writer)
    BY <1>16, <2>1, WriterUpdates DEF CaptureWritesState
  <2>3. stateRow' \in StateT /\ said' \in StateT
    BY <1>16, <2>1 DEF CaptureWritesState, StateT
  <2> QED
    BY <1>1, <1>16, <2>2, <2>3 DEF CaptureWritesState, Updates
<1>17. CASE DrainBegins
  <2>1. tick' \in Nat /\ Times \subseteq Times' /\ 0 \in Times'
    BY <1>17 DEF DrainBegins
  <2>2. StateT \subseteq StateT' /\ Copies \subseteq Copies'
    <3>1. StateT \subseteq StateT'
      BY <2>1 DEF StateT
    <3> QED
      BY <3>1 DEF Copies
  <2>3. writer' \in WriterT'
    <3> HIDE DEF Times
    <3>1. writer \in WriterT'
      BY <2>1, <2>2 DEF WriterT
    <3> QED
      BY <1>17, <2>1, <3>1 DEF DrainBegins, WriterT
  <2>4. writer'.looked = writer.looked /\ writer'.at = writer.at
    BY <1>17 DEF DrainBegins, WriterT
  <2> QED
    BY <1>17, <2>2, <2>3, <2>4 DEF DrainBegins
<1>18. CASE DrainReadsState
  <2>1. writer' = [writer EXCEPT !.copy = With(<< >>, "drain", stateRow)]
    BY <1>18 DEF DrainReadsState
  <2>2. With(<< >>, "drain", stateRow) \in Copies
    BY CopiesTyped
  <2>3. Updates(writer', writer)
    BY <2>1, <2>2, WriterUpdates
  <2> QED
    BY <1>1, <1>18, <2>1, <2>3 DEF DrainReadsState, Updates
<1>19. CASE DrainWritesState
  <2>1. Minus(writer.copy, {"drain"}) \in Copies /\ writer.copy["drain"] \in StateT
    BY <1>19, CopiesTyped DEF DrainWritesState, WriterT
  <2>2. Updates(writer', writer)
    BY <1>19, <2>1, WriterUpdates DEF DrainWritesState
  <2>3. writer.error \in Times
    BY DEF WriterT
  <2>4. stateRow' \in StateT /\ said' \in StateT
    BY <1>19, <2>1, <2>3 DEF DrainWritesState, StateT
  <2> QED
    BY <1>1, <1>19, <2>2, <2>4 DEF DrainWritesState, Updates
<1>20. CASE ClearFailedState
  <2>1. [stateRow EXCEPT !.error = 0] \in StateT
    BY DEF StateT
  <2> QED
    BY <1>1, <1>20, <2>1 DEF ClearFailedState
<1> QED
  BY <1>2, <1>3, <1>4, <1>5, <1>6, <1>7, <1>8, <1>9, <1>10, <1>11, <1>12, <1>13, <1>14, <1>15, <1>16, <1>17, <1>18, <1>19, <1>20 DEF Writes

RowsInv ==
  /\ CountsTyped /\ RowsTyped /\ KeptOnce /\ UnseenIsFailed /\ DrainIsLater /\ DeletesPending

-----------------------------------------------------------------------------
(* The writes that leave the rows alone.                                   *)

QuietWrite ==
  \/ Starts \/ CreateTable \/ LookForColumn \/ AddColumn \/ CaptureReadsState
  \/ CaptureWritesState \/ RetriableFailure \/ DrainReadsState \/ DrainWritesState \/ WriterDies

QuietFrame ==
  /\ UNCHANGED <<batches, receipts, resyncs, success, inserted, tick, unseen>>
  /\ writer'.drain # "idle" => writer.drain # "idle"
  /\ writer'.deleting \in {writer.deleting, 0}

LEMMA QuietLeaves == ASSUME WriterTyped, DrainCopies, QuietWrite PROVE QuietFrame
<1> USE DEF QuietFrame, WriterT
<1>1. CASE Starts
  BY <1>1 DEF Starts, GoesOn
<1>2. CASE CreateTable
  BY <1>2 DEF CreateTable, GoesOn
<1>3. CASE LookForColumn
  BY <1>3 DEF LookForColumn, GoesOn
<1>4. CASE AddColumn
  <2>1. CASE SchemaPieces[writer.at] \in schema
    BY <1>4, <2>1 DEF AddColumn, NoWriter
  <2>2. CASE SchemaPieces[writer.at] \notin schema
    BY <1>4, <2>2 DEF AddColumn, GoesOn
  <2> QED
    BY <2>1, <2>2
<1>5. CASE CaptureReadsState
  BY <1>5 DEF CaptureReadsState
<1>6. CASE CaptureWritesState
  BY <1>6 DEF CaptureWritesState
<1>7. CASE RetriableFailure
  BY <1>7 DEF RetriableFailure, Uploading
<1>8. CASE DrainReadsState
  BY <1>8 DEF DrainReadsState
<1>9. CASE DrainWritesState
  BY <1>9 DEF DrainWritesState
<1>10. CASE WriterDies
  BY <1>10 DEF WriterDies, NoWriter
<1> QED
  BY <1>1, <1>2, <1>3, <1>4, <1>5, <1>6, <1>7, <1>8, <1>9, <1>10 DEF QuietWrite

LEMMA QuietCounts == ASSUME CountsTyped, WriterTyped, QuietWrite PROVE CountsTyped'
<1>1. CASE Starts \/ LookForColumn \/ CaptureReadsState \/ CaptureWritesState
  BY <1>1 DEF Starts, LookForColumn, CaptureReadsState, CaptureWritesState
<1>2. CASE RetriableFailure \/ DrainReadsState \/ DrainWritesState \/ WriterDies
  BY <1>2 DEF RetriableFailure, DrainReadsState, DrainWritesState, WriterDies
<1>3. CASE CreateTable \/ AddColumn
  <2>1. schema' \subseteq Latest
    <3>1. CASE CreateTable
      BY <3>1, Pieces DEF CreateTable
    <3>2. CASE AddColumn
      <4>1. SchemaPieces[writer.at] \in Latest
        BY <3>2, Pieces DEF AddColumn
      <4>2. schema' = schema \/ schema' = schema \cup {SchemaPieces[writer.at]}
        BY <3>2 DEF AddColumn
      <4> QED
        BY <4>1, <4>2
    <3> QED
      BY <1>3, <3>1, <3>2
  <2> QED
    BY <1>3, <2>1 DEF CreateTable, AddColumn
<1> QED
  BY <1>1, <1>2, <1>3 DEF QuietWrite

LEMMA QuietKeeps ==
  ASSUME RowsInv, WriterTyped, DrainCopies, QuietWrite PROVE RowsInv' /\ Moves
<1> USE DEF RowsInv
<1>1. QuietFrame /\ CountsTyped'
  BY QuietLeaves, QuietCounts
<1>2. Moves /\ KeptOnce' /\ UnseenIsFailed' /\ DrainIsLater'
  BY <1>1 DEF QuietFrame
<1>3. RowsTyped'
  BY <1>1 DEF QuietFrame, BatchT
<1>4. DeletesPending'
  BY <1>1 DEF QuietFrame
<1> QED
  BY <1>1, <1>2, <1>3, <1>4

-----------------------------------------------------------------------------
(* The writes of rows.                                                     *)

USE DEF With, Minus

LEMMA InsertKeeps ==
  ASSUME RowsInv, WriterTyped, InsertBatch PROVE RowsInv' /\ Moves
<1> USE DEF RowsInv, InsertBatch
<1>1. NewBatch \in BatchT /\ NewBatch.status = "pending" /\ inserted' \in 1 .. MaxRecords
  BY DEF NewBatch, BatchT
<1>2. inserted' \notin DOMAIN batches \cup DOMAIN receipts \cup DOMAIN resyncs
  OBVIOUS
<1>3. /\ DOMAIN batches' = DOMAIN batches \cup {inserted'}
      /\ \A r \in DOMAIN batches : batches'[r] = batches[r]
      /\ batches'[inserted'] = NewBatch
  BY <1>2
<1>4. CountsTyped'
  BY <1>1
<1>5. RowsTyped'
  <2>1. Times' = Times /\ BatchT' = BatchT
    BY DEF BatchT
  <2>2. batches' \in [DOMAIN batches' -> BatchT]
    BY <1>1, <1>2
  <2>3. 1 .. inserted \subseteq 1 .. inserted' /\ inserted' \in 1 .. inserted'
    BY <1>1
  <2> QED
    BY <1>3, <2>1, <2>2, <2>3
<1>6. KeptOnce'
  BY <1>2, <1>3
<1>7. UnseenIsFailed'
  BY <1>1, <1>2, <1>3
<1>8. DrainIsLater'
  OBVIOUS
<1>9. DeletesPending'
  BY <1>1, <1>2, <1>3
<1>10. Moves
  BY <1>2, <1>3
<1> QED
  BY <1>4, <1>5, <1>6, <1>7, <1>8, <1>9, <1>10

LEMMA BeginKeeps ==
  ASSUME RowsInv, WriterTyped, DrainBegins PROVE RowsInv' /\ Moves
<1> USE DEF RowsInv, DrainBegins
<1>1. CountsTyped' /\ Times \subseteq Times'
  OBVIOUS
<1>2. RowsTyped'
  <2>1. BatchT \subseteq BatchT'
    BY <1>1 DEF BatchT
  <2> QED
    BY <1>1, <2>1
<1>3. KeptOnce' /\ UnseenIsFailed' /\ Moves
  OBVIOUS
<1>4. DrainIsLater' /\ DeletesPending'
  BY DEF WriterT
<1> QED
  BY <1>1, <1>2, <1>3, <1>4

LEMMA DeliveredKeeps ==
  ASSUME RowsInv, WriterTyped, MarkDelivered PROVE RowsInv' /\ Moves
<1> USE DEF RowsInv
<1>1. PICK r \in RecordIds :
        /\ Uploading(r)
        /\ receipts' = InsertReceipt(r) /\ batches' = Minus(batches, {r})
        /\ writer' = [writer EXCEPT !.shipped = TRUE]
        /\ UNCHANGED <<schema, resyncs, success, stateRow, inserted, tick, upsets, unseen, said>>
  BY DEF MarkDelivered
<1>2. writer'.drain = writer.drain /\ writer'.deleting = writer.deleting
  BY <1>1 DEF WriterT
<1>3. r \in DOMAIN batches /\ batches[r].status = "pending" /\ r \in 1 .. inserted
  BY <1>1 DEF Uploading
<1>4. /\ DOMAIN batches' = DOMAIN batches \ {r}
      /\ \A x \in DOMAIN batches' : batches'[x] = batches[x]
      /\ DOMAIN receipts' = DOMAIN receipts \cup {r}
  BY <1>1 DEF InsertReceipt
<1>5. CountsTyped'
  BY <1>1
<1>6. RowsTyped'
  <2>1. Times' = Times /\ BatchT' = BatchT /\ tick \in Times
    BY <1>1 DEF BatchT
  <2>2. batches' \in [DOMAIN batches' -> BatchT]
    BY <1>1, <1>4
  <2>3. receipts' \in [DOMAIN receipts' -> Times]
    BY <1>1, <1>4, <2>1 DEF InsertReceipt
  <2> QED
    BY <1>1, <1>3, <1>4, <2>1, <2>2, <2>3
<1>7. KeptOnce'
  BY <1>4
<1>8. UnseenIsFailed'
  BY <1>1, <1>3, <1>4
<1>9. DrainIsLater' /\ DeletesPending'
  BY <1>1, <1>2, <1>4
<1>10. Moves
  BY <1>3, <1>4
<1> QED
  BY <1>5, <1>6, <1>7, <1>8, <1>9, <1>10

LEMMA FailedKeeps ==
  ASSUME RowsInv, WriterTyped, MarkFailed PROVE RowsInv' /\ Moves
<1> USE DEF RowsInv
<1>1. PICK r \in RecordIds :
        /\ Uploading(r)
        /\ batches' = [batches EXCEPT ![r].status = "failed", ![r].failedAt = tick]
        /\ writer' = [writer EXCEPT !.fatal = TRUE, !.error = tick]
        /\ unseen' = unseen \cup {r}
        /\ UNCHANGED <<schema, receipts, resyncs, success, stateRow, inserted, tick, upsets, said>>
  BY DEF MarkFailed
<1>2. writer'.drain = writer.drain /\ writer'.deleting = writer.deleting
  BY <1>1 DEF WriterT
<1>3. /\ r \in DOMAIN batches /\ batches[r].status = "pending" /\ batches[r] \in BatchT
      /\ success < tick /\ tick \in Times /\ writer.deleting = 0
  BY <1>1 DEF Uploading
<1> DEFINE row == [batches[r] EXCEPT !.status = "failed", !.failedAt = tick]
<1>4. row \in BatchT /\ row.status = "failed" /\ row.failedAt = tick
  BY <1>3 DEF BatchT
<1>5. batches' = [batches EXCEPT ![r] = row]
  BY <1>1, <1>3 DEF BatchT
<1> HIDE DEF row
<1>6. DOMAIN batches' = DOMAIN batches /\ \A x \in DOMAIN batches :
                                           batches'[x] = IF x = r THEN row ELSE batches[x]
  BY <1>5
<1>7. CountsTyped'
  BY <1>1
<1>8. RowsTyped'
  <2>1. Times' = Times /\ BatchT' = BatchT
    BY <1>1 DEF BatchT
  <2>2. batches' \in [DOMAIN batches' -> BatchT]
    BY <1>4, <1>5
  <2> QED
    BY <1>1, <1>6, <2>1, <2>2
<1>9. KeptOnce' /\ DrainIsLater'
  BY <1>1, <1>2, <1>6
<1>10. UnseenIsFailed'
  <2>1. InStatus("failed")' = InStatus("failed") \cup {r}
    BY <1>3, <1>4, <1>6
  <2>2. \A x \in InStatus("failed")' :
          x \in unseen' <=> success = 0 \/ batches'[x].failedAt > success
    BY <1>1, <1>3, <1>4, <1>6
  <2>3. unseen' \subseteq InStatus("failed")'
    BY <1>1, <2>1
  <2> QED
    BY <1>1, <2>2, <2>3
<1>11. DeletesPending'
  BY <1>2, <1>3, <1>6
<1>12. Moves
  BY <1>1, <1>3, <1>4, <1>6
<1> QED
  BY <1>7, <1>8, <1>9, <1>10, <1>11, <1>12

LEMMA ResyncKeeps ==
  ASSUME RowsInv, WriterTyped, RecordResync PROVE RowsInv' /\ Moves
<1> USE DEF RowsInv
<1>1. PICK r \in RecordIds :
        /\ Uploading(r)
        /\ resyncs' = With(resyncs, r, tick) /\ writer' = [writer EXCEPT !.deleting = r]
        /\ UNCHANGED <<schema, batches, receipts, success, stateRow, inserted, tick, upsets, unseen, said>>
  BY DEF RecordResync
<1>2. writer'.drain = writer.drain /\ writer'.deleting = r
  BY <1>1 DEF WriterT
<1>3. r \in DOMAIN batches /\ batches[r].status = "pending" /\ r \in 1 .. inserted
  BY <1>1 DEF Uploading
<1>4. CountsTyped' /\ KeptOnce' /\ UnseenIsFailed' /\ DrainIsLater' /\ Moves
  BY <1>1, <1>2
<1>5. RowsTyped'
  <2>1. Times' = Times /\ BatchT' = BatchT /\ tick \in Times
    BY <1>1 DEF BatchT
  <2>2. resyncs' \in [DOMAIN resyncs' -> Times] /\ DOMAIN resyncs' = DOMAIN resyncs \cup {r}
    BY <1>1, <2>1
  <2> QED
    BY <1>1, <1>3, <2>1, <2>2
<1>6. DeletesPending'
  BY <1>1, <1>2, <1>3
<1> QED
  BY <1>4, <1>5, <1>6

\* Captures go: pruned, deleted after an audit, or cleared by setup.
LEMMA RemovalKeeps ==
  ASSUME RowsInv, NEW gone, NEW rest, NEW old,
         batches' = Minus(batches, gone), receipts' = Minus(receipts, rest),
         resyncs' = Minus(resyncs, old), unseen' = unseen \ gone,
         UNCHANGED <<success, inserted, tick>>
  PROVE  RowsTyped' /\ KeptOnce' /\ UnseenIsFailed' /\ Moves
<1> USE DEF RowsInv
<1>1. /\ DOMAIN batches' = DOMAIN batches \ gone
      /\ \A x \in DOMAIN batches' : batches'[x] = batches[x]
      /\ DOMAIN receipts' = DOMAIN receipts \ rest
      /\ \A x \in DOMAIN receipts' : receipts'[x] = receipts[x]
      /\ DOMAIN resyncs' = DOMAIN resyncs \ old
      /\ \A x \in DOMAIN resyncs' : resyncs'[x] = resyncs[x]
  OBVIOUS
<1>2. RowsTyped'
  <2>1. Times' = Times /\ BatchT' = BatchT
    BY DEF BatchT
  <2>2. batches' \in [DOMAIN batches' -> BatchT]
    BY <1>1
  <2>3. receipts' \in [DOMAIN receipts' -> Times] /\ resyncs' \in [DOMAIN resyncs' -> Times]
    BY <1>1
  <2> QED
    BY <1>1, <2>1, <2>2, <2>3
<1>3. KeptOnce'
  BY <1>1
<1>4. UnseenIsFailed'
  BY <1>1
<1>5. Moves
  <2>1. \A r \in DOMAIN batches : batches[r].status # "none"
    BY DEF BatchT
  <2>2. ASSUME NEW r \in DOMAIN batches, Place(r)' = Place(r) PROVE batches'[r] = batches[r]
    <3>1. r \in DOMAIN batches'
      BY <2>1, <2>2
    <3> QED
      BY <1>1, <3>1
  <2> QED
    BY <1>1, <2>2
<1> QED
  BY <1>2, <1>3, <1>4, <1>5

LEMMA DeleteKeeps ==
  ASSUME RowsInv, WriterTyped, DeleteBatch PROVE RowsInv' /\ Moves
<1> USE DEF RowsInv
<1>1. unseen' = unseen \ {writer.deleting}
  BY DEF DeleteBatch
<1>2. receipts' = Minus(receipts, {}) /\ resyncs' = Minus(resyncs, {})
  BY DEF DeleteBatch
<1>3. RowsTyped' /\ KeptOnce' /\ UnseenIsFailed' /\ Moves
  BY <1>1, <1>2, RemovalKeeps DEF DeleteBatch
<1>4. writer'.drain = writer.drain /\ writer'.deleting = 0
  BY DEF DeleteBatch, WriterT
<1>5. CountsTyped' /\ DrainIsLater'
  BY <1>4 DEF DeleteBatch
<1>6. DeletesPending'
  BY <1>3, <1>4
<1> QED
  BY <1>3, <1>5, <1>6

LEMMA PruneKeeps ==
  ASSUME RowsInv, WriterTyped, PruneBuffer PROVE RowsInv' /\ Moves
<1> USE DEF RowsInv
<1>1. RowsTyped' /\ KeptOnce' /\ UnseenIsFailed' /\ Moves
  BY RemovalKeeps DEF PruneBuffer
<1>2. writer'.drain = "pruned" /\ writer'.deleting = 0
  BY DEF PruneBuffer, WriterT
<1>3. CountsTyped' /\ DrainIsLater'
  BY <1>2 DEF PruneBuffer
<1>4. DeletesPending'
  BY <1>1, <1>2
<1> QED
  BY <1>1, <1>3, <1>4

LEMMA ClearKeeps ==
  ASSUME RowsInv, WriterTyped, ClearFailedState PROVE RowsInv' /\ Moves
<1> USE DEF RowsInv
<1>1. /\ unseen' = unseen \ InStatus("failed") /\ receipts' = Minus(receipts, {})
      /\ resyncs' = Minus(resyncs, DOMAIN resyncs)
  <2>1. Minus(resyncs, DOMAIN resyncs) = << >>
    BY EmptyRow
  <2> QED
    BY <2>1 DEF ClearFailedState
<1>2. RowsTyped' /\ KeptOnce' /\ UnseenIsFailed' /\ Moves
  BY <1>1, RemovalKeeps DEF ClearFailedState
<1>3. CountsTyped' /\ DrainIsLater'
  BY SMTT(30), Pieces DEF ClearFailedState
<1>4. DeletesPending'
  BY DEF ClearFailedState
<1> QED
  BY <1>2, <1>3, <1>4

LEMMA MetricsKeep ==
  ASSUME RowsInv, WriterTyped, PersistDrainMetrics PROVE RowsInv' /\ Moves
<1> USE DEF RowsInv, PersistDrainMetrics
<1>1. writer'.drain = "idle" /\ writer'.deleting = writer.deleting
  BY DEF WriterT
<1>2. CountsTyped'
  OBVIOUS
<1>3. RowsTyped'
  BY DEF BatchT
<1>4. KeptOnce' /\ DrainIsLater' /\ DeletesPending' /\ Moves
  BY <1>1
<1>5. UnseenIsFailed'
  <2>1. \A r \in DOMAIN batches : batches[r].failedAt \in Times
    BY DEF BatchT
  <2>2. CASE RecordsSuccess
    BY <2>1, <2>2 DEF RecordsSuccess
  <2>3. CASE ~RecordsSuccess
    BY <2>3 DEF RecordsSuccess
  <2> QED
    BY <2>2, <2>3
<1> QED
  BY <1>2, <1>3, <1>4, <1>5

-----------------------------------------------------------------------------
(* The row of daemon_state.                                                *)

StateInv == DrainCopies /\ CopiesCurrent /\ StateRowCurrent

\* A step that leaves the row alone, and of the copies makes none.
StateFrame ==
  /\ UNCHANGED <<stateRow, said>>
  /\ writer'.copy \in {writer.copy, << >>}
  /\ writer'.drain = "idle" => writer.drain = "idle" \/ writer'.copy = << >>

LEMMA StateLeft ==
  ASSUME WriterTyped, Writes
  PROVE  \/ StateFrame \/ CaptureReadsState \/ CaptureWritesState
         \/ DrainReadsState \/ DrainWritesState \/ ClearFailedState
<1> USE DEF StateFrame, WriterT
<1>1. CASE Starts \/ CreateTable
  BY <1>1 DEF Starts, CreateTable, GoesOn
<1>2. CASE LookForColumn
  BY <1>2 DEF LookForColumn, GoesOn
<1>3. CASE AddColumn
  <2>1. CASE SchemaPieces[writer.at] \in schema
    BY <1>3, <2>1 DEF AddColumn, NoWriter
  <2>2. CASE SchemaPieces[writer.at] \notin schema
    BY <1>3, <2>2 DEF AddColumn, GoesOn
  <2> QED
    BY <2>1, <2>2
<1>4. CASE InsertBatch
  BY <1>4 DEF InsertBatch
<1>5. CASE DrainBegins
  BY <1>5 DEF DrainBegins
<1>6. CASE MarkDelivered \/ MarkFailed \/ RetriableFailure \/ RecordResync
  <2>1. CASE MarkDelivered
    BY <2>1 DEF MarkDelivered
  <2>2. CASE MarkFailed
    BY <2>2 DEF MarkFailed
  <2>3. CASE RetriableFailure
    BY <2>3 DEF RetriableFailure
  <2>4. CASE RecordResync
    BY <2>4 DEF RecordResync
  <2> QED
    BY <1>6, <2>1, <2>2, <2>3, <2>4
<1>7. CASE DeleteBatch \/ PruneBuffer
  <2>1. CASE DeleteBatch
    BY <2>1 DEF DeleteBatch
  <2>2. CASE PruneBuffer
    BY <2>2 DEF PruneBuffer
  <2> QED
    BY <1>7, <2>1, <2>2
<1>8. CASE PersistDrainMetrics \/ WriterDies
  <2>1. CASE PersistDrainMetrics
    BY <2>1 DEF PersistDrainMetrics
  <2>2. CASE WriterDies
    BY <2>2 DEF WriterDies, NoWriter
  <2> QED
    BY <1>8, <2>1, <2>2
<1> QED
  BY <1>1, <1>2, <1>3, <1>4, <1>5, <1>6, <1>7, <1>8 DEF Writes

LEMMA StateKeeps ==
  ASSUME StateInv, WriterTyped, Writes PROVE StateInv'
<1> USE DEF StateInv
<1>1. CASE StateFrame
  BY <1>1, EmptyRow DEF StateFrame
<1>2. CASE CaptureReadsState
  <2>1. writer'.copy = With(<< >>, "capture", stateRow) /\ writer'.drain = writer.drain
    BY <1>2 DEF CaptureReadsState, WriterT
  <2> QED
    BY <1>2, <2>1, EmptyRow DEF CaptureReadsState
<1>3. CASE DrainReadsState
  <2>1. writer'.copy = With(<< >>, "drain", stateRow) /\ writer'.drain = "pruned"
    BY <1>3 DEF DrainReadsState, WriterT
  <2> QED
    BY <1>3, <2>1, EmptyRow DEF DrainReadsState
<1>4. ASSUME NEW l \in {"capture", "drain"}, l \in DOMAIN writer.copy,
             writer'.copy = Minus(writer.copy, {l})
      PROVE  DOMAIN writer'.copy = {} /\ writer.copy[l] \in StateT
  BY <1>4 DEF WriterT, Copies
<1>5. CASE CaptureWritesState
  <2>1. "capture" \in DOMAIN writer.copy /\ writer'.copy = Minus(writer.copy, {"capture"})
    BY <1>5 DEF CaptureWritesState, WriterT
  <2>2. DOMAIN writer'.copy = {} /\ writer.copy["capture"] \in StateT
    BY <2>1, <1>4
  <2>3. /\ stateRow'.sources = inserted /\ stateRow'.error = writer.copy["capture"].error
        /\ said'.sources = inserted /\ said'.error = said.error
    BY <1>5, <2>2 DEF CaptureWritesState, StateT
  <2> QED
    BY <2>1, <2>2, <2>3
<1>6. CASE DrainWritesState
  <2>1. "drain" \in DOMAIN writer.copy /\ writer'.copy = Minus(writer.copy, {"drain"})
    BY <1>6 DEF DrainWritesState, WriterT
  <2>2. DOMAIN writer'.copy = {} /\ writer.copy["drain"] \in StateT
    BY <2>1, <1>4
  <2>3. /\ stateRow'.error = writer.error /\ stateRow'.sources = writer.copy["drain"].sources
        /\ said'.error = writer.error /\ said'.sources = said.sources
    BY <1>6, <2>2 DEF DrainWritesState, StateT
  <2> QED
    BY <2>1, <2>2, <2>3
<1>7. CASE ClearFailedState
  <2>1. stateRow'.error = 0 /\ stateRow'.sources = stateRow.sources
    BY <1>7 DEF ClearFailedState, StateT
  <2> QED
    BY <1>7, <2>1 DEF ClearFailedState
<1> QED
  BY <1>1, <1>2, <1>3, <1>5, <1>6, <1>7, StateLeft

LEMMA TablesKeep == ASSUME TablesInv, Writes PROVE TablesInv' /\ Moves
<1>1. RowsInv /\ WriterTyped /\ StateInv
  BY DEF TablesInv, RowsInv, StateInv
<1>2. WriterTyped' /\ StateInv'
  BY <1>1, WriterKeeps, StateKeeps DEF RowsInv
<1>3. RowsInv' /\ Moves
  <2> HIDE DEF Moves
  <2>1. CASE QuietWrite
    BY <1>1, <2>1, QuietKeeps DEF StateInv
  <2>2. CASE InsertBatch \/ DrainBegins \/ MarkDelivered
    BY <1>1, <2>2, InsertKeeps, BeginKeeps, DeliveredKeeps
  <2>3. CASE MarkFailed \/ RecordResync \/ DeleteBatch
    BY <1>1, <2>3, FailedKeeps, ResyncKeeps, DeleteKeeps
  <2>4. CASE PruneBuffer \/ ClearFailedState \/ PersistDrainMetrics
    BY <1>1, <2>4, PruneKeeps, ClearKeeps, MetricsKeep
  <2> QED
    BY <2>1, <2>2, <2>3, <2>4 DEF Writes, QuietWrite
<1> QED
  BY <1>2, <1>3 DEF TablesInv, RowsInv, StateInv

-----------------------------------------------------------------------------
(* The commands.                                                           *)

HIDE DEF Moves, With, Minus, Stored, Busy, IsOpen, InStatus, FailedAfter, Place, CountsTyped,
         RowsTyped, WriterTyped, KeptOnce, UnseenIsFailed, DrainIsLater, DeletesPending,
         DrainCopies, CopiesCurrent, StateRowCurrent

CapturedIds == 1 .. inserted
ReaderT ==
  [cmd : {"none", "status", "doctor", "lookup"}, next : 1 .. 7, asked : 0 .. MaxRecords,
   since : Times, shown : SUBSET CapturedIds, whole : BOOLEAN, steady : SUBSET RecordIds,
   through : SUBSET CapturedIds, delivered : SUBSET CapturedIds, calm : BOOLEAN]

\* Between two queries that belong together the records not shown yet are where the
\* second one looks.
StatusHolds(v) ==
  v.cmd = "status" /\ v.whole =>
    /\ v.next \in {2, 4} => v.through \subseteq v.shown \cup DOMAIN receipts
    /\ v.next \in {3, 5} => v.through \subseteq v.shown
    /\ v.next = 6 => v.through \subseteq v.shown \cup DOMAIN batches \cup v.delivered
    /\ v.next = 7 => v.through \subseteq v.shown \cup v.delivered

\* doctor knows the last success until a drain records another.
DoctorHolds(v) ==
  v.cmd = "doctor" /\ v.whole =>
    /\ v.next \in {2, 4} => v.shown = {} /\ (v.calm => v.since = success)
    /\ v.next \in {3, 5} /\ v.calm => v.shown \cap v.steady = unseen \cap v.steady

LookupHolds(v) ==
  v.cmd = "lookup" /\ v.whole /\ v.asked \in v.through \ v.delivered =>
    /\ v.next = 2 => v.shown # {} \/ v.asked \in DOMAIN batches
    /\ v.next = 3 => v.shown # {}

\* A command stands at one of its queries, or at its end.
InPlan(v) ==
  /\ v.cmd = "doctor" => v.next <= 6
  /\ v.cmd = "lookup" => v.next <= 3

ReaderOK(v) == v \in ReaderT /\ InPlan(v) /\ StatusHolds(v) /\ DoctorHolds(v) /\ LookupHolds(v)

ViewsInv == TablesInv /\ ReaderOK(reader)

LEMMA Plans ==
  /\ Len(StatusPlan) = 6 /\ Len(DoctorPlan) = 5 /\ Len(LookupPlan) = 2
  /\ Plan("status") = StatusPlan /\ Plan("doctor") = DoctorPlan /\ Plan("lookup") = LookupPlan
BY DEF StatusPlan, DoctorPlan, LookupPlan, Plan

LEMMA StatusQueries ==
  /\ StatusPlan[1][1] = "count_batches" /\ StatusPlan[2][1] = "count_receipts"
  /\ StatusPlan[3][1] = "source_batches" /\ StatusPlan[4][1] = "source_receipts"
  /\ StatusPlan[5][1] = "uploaded" /\ StatusPlan[6][1] = "captured"
  /\ \A i \in 1 .. 6 : Begins(StatusPlan, i) <=> i \in {1, 3, 5}
  /\ StatusPlan[1][2] = "totals" /\ StatusPlan[2][2] = "totals"
  /\ StatusPlan[3][2] = "sources" /\ StatusPlan[4][2] = "sources"
  /\ StatusPlan[5][2] = "bytes" /\ StatusPlan[6][2] = "bytes"
BY DEF StatusPlan, Begins

LEMMA DoctorQueries ==
  /\ DoctorPlan[1][1] = "last_success" /\ DoctorPlan[2][1] = "count_failed"
  /\ DoctorPlan[3][1] = "last_success" /\ DoctorPlan[4][1] = "errors"
  /\ DoctorPlan[5][1] = "others"
  /\ \A i \in 1 .. 5 : Begins(DoctorPlan, i) <=> i \in {1, 3, 5}
  /\ DoctorPlan[1][2] = "failures" /\ DoctorPlan[2][2] = "failures"
  /\ DoctorPlan[3][2] = "errors" /\ DoctorPlan[4][2] = "errors" /\ DoctorPlan[5][2] = "others"
BY DEF DoctorPlan, Begins

LEMMA LookupQueries ==
  /\ LookupPlan[1][1] = "find_receipt" /\ LookupPlan[2][1] = "find_batch"
  /\ \A i \in 1 .. 2 : Begins(LookupPlan, i) <=> i = 1
  /\ LookupPlan[1][2] = "lookup" /\ LookupPlan[2][2] = "lookup"
BY DEF LookupPlan, Begins

LEMMA SkipIsLater ==
  ASSUME NEW v \in ReaderT, v.cmd # "none", v.next <= Len(Plan(v.cmd))
  PROVE  Skip(v) \in v.next + 1 .. Len(Plan(v.cmd)) + 1
<1> DEFINE n == Len(Plan(v.cmd))
           late == Resumes(v) \cup {n + 1}
<1>1. n \in 1 .. 6 /\ v.next \in 1 .. 7
  BY Plans DEF ReaderT
<1>2. late \subseteq v.next + 1 .. n + 1 /\ n + 1 \in late
  BY <1>1 DEF Resumes
<1>3. \E j \in late : \A k \in Resumes(v) : j <= k
  <2>1. CASE v.cmd = "doctor"
    <3>0. Plan(v.cmd) = DoctorPlan /\ n = 5
      BY <2>1, Plans
    <3>1. Resumes(v) = {j \in {3, 5} : j > v.next}
      <4>1. Resumes(v) = {j \in v.next + 1 .. 5 : Begins(DoctorPlan, j)}
        BY <2>1, <3>0 DEF Resumes
      <4>2. \A j \in v.next + 1 .. 5 : j \in 1 .. 5
        BY <1>1
      <4> QED
        BY <1>1, <4>1, <4>2, DoctorQueries
    <3>2. \A k \in Resumes(v) : IF v.next < 3 THEN 3 <= k ELSE k = 5
      BY <3>1
    <3> QED
      BY <1>1, <3>0, <3>1, <3>2
  <2>2. CASE v.cmd # "doctor"
    BY <2>2 DEF Resumes
  <2> QED
    BY <2>1, <2>2
<1>4. Skip(v) = CHOOSE j \in late : \A k \in Resumes(v) : j <= k
  BY DEF Skip
<1> HIDE DEF late
<1>5. Skip(v) \in late
  BY <1>3, <1>4
<1> QED
  BY <1>2, <1>5

\* A write takes neither a capture nor a tick back.
LEMMA WritesGrow ==
  ASSUME CountsTyped, Writes
  PROVE  inserted' \in {inserted, inserted + 1} /\ tick' \in {tick, tick + 1}
<1> USE DEF Starts, CreateTable, LookForColumn, AddColumn, InsertBatch, CaptureReadsState,
        CaptureWritesState, DrainBegins, MarkDelivered, MarkFailed, RetriableFailure,
        RecordResync, DeleteBatch, PruneBuffer, DrainReadsState, DrainWritesState,
        PersistDrainMetrics, WriterDies, ClearFailedState
<1>1. CASE InsertBatch
  BY <1>1
<1>2. CASE DrainBegins
  BY <1>2
<1>3. CASE ~InsertBatch /\ ~DrainBegins
  <2>1. inserted' = inserted /\ tick' = tick
    BY <1>3 DEF Writes
  <2> QED
    BY <2>1
<1> QED
  BY <1>1, <1>2, <1>3

\* Where the reader's fields are after a write.
LEMMA ObserveFields ==
  ASSUME reader \in ReaderT, reader.cmd # "none", Observe
  PROVE  /\ reader'.cmd = reader.cmd /\ reader'.next = reader.next
         /\ reader'.asked = reader.asked /\ reader'.since = reader.since
         /\ reader'.shown = reader.shown /\ reader'.whole = reader.whole
         /\ reader'.steady = {r \in reader.steady : Place(r)' = Place(r)}
         /\ reader'.through = reader.through \cap Stored'
         /\ reader'.delivered = reader.delivered
              \cup (reader.through \cap (DOMAIN receipts' \ DOMAIN receipts))
         /\ reader'.calm = (reader.calm /\ (reader.cmd = "doctor" => success' = success))
         /\ DOMAIN reader' = DOMAIN reader
BY DEF Observe, ReaderT

LEMMA ObserveTyped ==
  ASSUME TablesInv, TablesInv', Writes, reader \in ReaderT, Observe
  PROVE  (reader \in ReaderT)'
<1>1. /\ inserted' \in {inserted, inserted + 1} /\ tick' \in {tick, tick + 1}
      /\ inserted \in Nat /\ tick \in Nat
  BY WritesGrow DEF TablesInv, CountsTyped
<1>2. CapturedIds \subseteq CapturedIds' /\ Times \subseteq Times'
  BY <1>1 DEF CapturedIds, Times
<1>3. SUBSET CapturedIds \subseteq SUBSET CapturedIds'
  BY <1>2
<1> DEFINE D == reader.delivered \cup (reader.through \cap (DOMAIN receipts' \ DOMAIN receipts))
           T == reader.through \cap Stored'
           E == {r \in reader.steady : Place(r)' = Place(r)}
           c == reader.calm /\ (reader.cmd = "doctor" => success' = success)
<1>4. CASE reader.cmd = "none"
  <2>1. reader' = reader
    BY <1>4 DEF Observe
  <2> QED
    BY <1>2, <1>3, <2>1 DEF ReaderT
<1>5. CASE reader.cmd # "none"
  <2>1. reader' = [reader EXCEPT !.steady = E, !.through = T, !.delivered = D, !.calm = c]
    BY <1>5 DEF Observe, ReaderT
  <2>2. D \in SUBSET CapturedIds' /\ T \in SUBSET CapturedIds' /\ E \in SUBSET RecordIds /\ c \in BOOLEAN
    BY <1>2 DEF ReaderT
  <2> HIDE DEF D, T, E, c
  <2> QED
    BY <1>2, <1>3, <2>1, <2>2 DEF ReaderT
<1> QED
  BY <1>4, <1>5

\* A write while a command reads: what a later query has yet to find is still there, or
\* has been delivered since.
LEMMA ObserveKeeps ==
  ASSUME TablesInv, TablesInv', Writes, Moves, ReaderOK(reader), Observe
  PROVE  ReaderOK(reader)'
<1>1. (reader \in ReaderT)'
  BY ObserveTyped DEF ReaderOK
<1>2. CASE reader.cmd = "none"
  <2>1. reader' = reader
    BY <1>2 DEF Observe
  <2> QED
    BY <1>1, <1>2, <2>1 DEF ReaderOK, InPlan, StatusHolds, DoctorHolds, LookupHolds
<1>3. CASE reader.cmd # "none"
  <2> DEFINE v == reader
             w == reader'
             moved == DOMAIN receipts' \ DOMAIN receipts
  <2>1. /\ w.cmd = v.cmd /\ w.next = v.next /\ w.asked = v.asked /\ w.since = v.since
        /\ w.shown = v.shown /\ w.whole = v.whole
        /\ w.steady = {r \in v.steady : Place(r)' = Place(r)}
        /\ w.through = v.through \cap Stored' /\ w.delivered = v.delivered \cup (v.through \cap moved)
        /\ w.calm => v.calm /\ (v.cmd = "doctor" => success' = success)
    BY <1>3, ObserveFields DEF ReaderOK
  <2> HIDE DEF w, v, moved
  <2>2. \A r \in Stored \cap Stored' :
           /\ r \in DOMAIN receipts => r \in DOMAIN receipts'
           /\ r \in DOMAIN batches => r \in DOMAIN batches' \/ r \in moved
    BY DEF moved, Stored, Moves, TablesInv, KeptOnce
  <2>3. \A r \in w.through :
           /\ r \in v.through /\ r \in Stored'
           /\ r \in moved => r \in w.delivered
           /\ r \in v.delivered => r \in w.delivered
    BY <2>1
  <2>4. v \in ReaderT /\ v.through \subseteq CapturedIds
    BY DEF ReaderOK, ReaderT, v
  <2>5. StatusHolds(reader)'
    <3> SUFFICES ASSUME v.cmd = "status", v.whole
                 PROVE  /\ v.next \in {2, 4} => w.through \subseteq v.shown \cup DOMAIN receipts'
                        /\ v.next \in {3, 5} => w.through \subseteq v.shown
                        /\ v.next = 6 =>
                             w.through \subseteq v.shown \cup DOMAIN batches' \cup w.delivered
                        /\ v.next = 7 => w.through \subseteq v.shown \cup w.delivered
      BY <2>1 DEF StatusHolds, w, v
    <3>1. StatusHolds(v)
      BY DEF ReaderOK, v
    <3> QED
      BY <2>2, <2>3, <3>1 DEF StatusHolds, Stored
  <2>6. DoctorHolds(reader)'
    <3> SUFFICES ASSUME v.cmd = "doctor", v.whole
                 PROVE  /\ v.next \in {2, 4} => v.shown = {} /\ (w.calm => v.since = success')
                        /\ v.next \in {3, 5} /\ w.calm =>
                             v.shown \cap w.steady = unseen' \cap w.steady
      BY <2>1 DEF DoctorHolds, w, v
    <3>1. DoctorHolds(v)
      BY DEF ReaderOK, v
    <3>2. ASSUME w.calm, NEW r \in w.steady PROVE r \in unseen <=> r \in unseen'
      <4>1. Place(r)' = Place(r) /\ success' = success
        BY <2>1, <3>2
      <4>2. unseen = FailedAfter(success) /\ unseen' = FailedAfter(success)'
        BY DEF TablesInv, UnseenIsFailed
      <4>3. /\ r \in DOMAIN batches <=> r \in DOMAIN batches'
            /\ r \in DOMAIN batches => batches'[r] = batches[r]
        <5>1. r \in DOMAIN batches => batches[r].status # "none"
          BY DEF TablesInv, RowsTyped, BatchT
        <5>2. r \in DOMAIN batches' => batches'[r].status # "none"
          BY DEF TablesInv, RowsTyped, BatchT
        <5>3. (IF r \in DOMAIN batches THEN batches[r].status ELSE "none")
                = (IF r \in DOMAIN batches' THEN batches'[r].status ELSE "none")
          BY <4>1 DEF Place
        <5> QED
          BY <4>1, <5>1, <5>2, <5>3 DEF Moves
      <4> QED
        BY <4>1, <4>2, <4>3 DEF FailedAfter, InStatus
    <3> QED
      BY <2>1, <3>1, <3>2 DEF DoctorHolds
  <2>7. LookupHolds(reader)'
    <3> SUFFICES ASSUME v.cmd = "lookup", v.whole, v.asked \in w.through \ w.delivered
                 PROVE  /\ v.next = 2 => v.shown # {} \/ v.asked \in DOMAIN batches'
                        /\ v.next = 3 => v.shown # {}
      BY <2>1 DEF LookupHolds, w, v
    <3>1. LookupHolds(v)
      BY DEF ReaderOK, v
    <3> QED
      BY <2>2, <2>3, <3>1 DEF LookupHolds, Stored
  <2>8. InPlan(reader)'
    BY <2>1 DEF InPlan, ReaderOK, v, w
  <2> QED
    BY <1>1, <2>5, <2>6, <2>7, <2>8 DEF ReaderOK
<1> QED
  BY <1>2, <1>3

-----------------------------------------------------------------------------
(* The answers.                                                            *)

\* What each query adds to what is shown; last_success and others are told apart below.
LEMMA Answers ==
  ASSUME TablesInv, NEW u \in ReaderT
  PROVE  /\ Answer("count_batches", u) = Added(u, DOMAIN batches)
         /\ Answer("count_receipts", u) = Added(u, DOMAIN receipts)
         /\ Answer("source_batches", u) = Added(u, DOMAIN batches)
         /\ Answer("source_receipts", u) = Added(u, DOMAIN receipts)
         /\ Answer("uploaded", u) = Added(u, DOMAIN receipts)
         /\ Answer("captured", u) = Added(u, DOMAIN batches)
         /\ Answer("last_success", u) = LastSuccess(u)
         /\ Answer("count_failed", u) = Added(u, FailedAfter(u.since))
         /\ Answer("errors", u) = Added(u, FailedAfter(u.since))
         /\ Answer("find_receipt", u) = Added(u, DOMAIN receipts \cap {u.asked})
         /\ Answer("find_batch", u) = FindBatch(u)
         /\ Answer("others", u) = u
<1>1. InStatus("pending") \cup InStatus("failed") = DOMAIN batches
  BY DEF TablesInv, RowsTyped, BatchT, InStatus
<1> HIDE DEF TablesInv
<1>2. /\ Answer("count_batches", u) = Added(u, DOMAIN batches)
      /\ Answer("source_batches", u) = Added(u, DOMAIN batches)
  BY <1>1 DEF Answer, CountBatches, SourceBatches
<1>3. /\ Answer("count_receipts", u) = Added(u, DOMAIN receipts)
      /\ Answer("source_receipts", u) = Added(u, DOMAIN receipts)
      /\ Answer("uploaded", u) = Added(u, DOMAIN receipts)
      /\ Answer("captured", u) = Added(u, DOMAIN batches)
  BY DEF Answer, CountReceipts, SourceReceipts, UploadedBytes, CapturedBytes
<1>4. /\ Answer("last_success", u) = LastSuccess(u)
      /\ Answer("count_failed", u) = Added(u, FailedAfter(u.since))
      /\ Answer("errors", u) = Added(u, FailedAfter(u.since))
  BY DEF Answer, CountFailed, FailedErrors
<1>5. /\ Answer("find_receipt", u) = Added(u, DOMAIN receipts \cap {u.asked})
      /\ Answer("find_batch", u) = FindBatch(u) /\ Answer("others", u) = u
  BY DEF Answer, FindReceipt, Others
<1> QED
  BY <1>2, <1>3, <1>4, <1>5

\* v has what u has but for what was shown and the query that comes next.
Follows(v, u) ==
  /\ v \in ReaderT /\ v.next = u.next + 1 /\ v.cmd = u.cmd /\ v.asked = u.asked
  /\ v.whole = u.whole /\ v.steady = u.steady /\ v.through = u.through
  /\ v.delivered = u.delivered /\ v.calm = u.calm

LEMMA Shows ==
  ASSUME TablesInv, NEW u \in ReaderT, u.next <= 6, NEW S \in SUBSET CapturedIds
  PROVE  LET v == [Added(u, S) EXCEPT !.next = @ + 1]
         IN  Follows(v, u) /\ v.shown = u.shown \cup S /\ v.since = u.since
<1>1. u.next + 1 \in 1 .. 7 /\ u.shown \cup S \in SUBSET CapturedIds
  BY DEF ReaderT
<1>2. [Added(u, S) EXCEPT !.next = @ + 1] =
         [u EXCEPT !.shown = u.shown \cup S, !.next = u.next + 1]
  BY DEF Added, ReaderT
<1> QED
  BY <1>1, <1>2 DEF Follows, ReaderT

LEMMA TellsSuccess ==
  ASSUME TablesInv, NEW u \in ReaderT, u.next <= 6
  PROVE  LET v == [LastSuccess(u) EXCEPT !.next = @ + 1]
         IN  Follows(v, u) /\ v.shown = u.shown /\ v.since = success
<1>1. u.next + 1 \in 1 .. 7 /\ success \in Times
  BY DEF ReaderT, TablesInv, CountsTyped
<1>2. [LastSuccess(u) EXCEPT !.next = @ + 1] = [u EXCEPT !.since = success, !.next = u.next + 1]
  BY DEF LastSuccess, ReaderT
<1> QED
  BY <1>1, <1>2 DEF Follows, ReaderT

LEMMA GoesToNext ==
  ASSUME NEW u \in ReaderT, u.next <= 6
  PROVE  LET v == [u EXCEPT !.next = @ + 1]
         IN  Follows(v, u) /\ v.shown = u.shown /\ v.since = u.since
<1>1. u.next + 1 \in 1 .. 7
  BY DEF ReaderT
<1> QED
  BY <1>1 DEF Follows, ReaderT

\* A first query finds nothing shown, everything stored and nothing moved.
LEMMA BeginsAnew ==
  ASSUME TablesInv, NEW v \in ReaderT
  PROVE  /\ Begun(v) \in ReaderT /\ Begun(v).cmd = v.cmd /\ Begun(v).next = v.next
         /\ Begun(v).asked = v.asked /\ Begun(v).since = v.since
         /\ IF Begins(Plan(v.cmd), v.next)
            THEN /\ Begun(v).shown = {} /\ Begun(v).through = Stored /\ Begun(v).delivered = {}
                 /\ Begun(v).steady = RecordIds /\ Begun(v).calm /\ Begun(v).whole
            ELSE Begun(v) = v
<1>1. Stored \in SUBSET CapturedIds /\ {} \in SUBSET CapturedIds /\ RecordIds \in SUBSET RecordIds
  BY DEF TablesInv, RowsTyped, Stored, CapturedIds
<1>2. CASE Begins(Plan(v.cmd), v.next)
  <2>1. Begun(v) = [v EXCEPT !.shown = {}, !.through = Stored, !.delivered = {},
                             !.steady = RecordIds, !.calm = TRUE, !.whole = TRUE]
    BY <1>2 DEF Begun
  <2> QED
    BY <1>1, <1>2, <2>1 DEF ReaderT
<1>3. CASE ~Begins(Plan(v.cmd), v.next)
  BY <1>3 DEF Begun
<1> QED
  BY <1>2, <1>3

\* The query that a command is at has answered, and w is what the command has then.
Answered(v, w) == w = [Answer(Plan(v.cmd)[v.next][1], Begun(v)) EXCEPT !.next = @ + 1]

LEMMA QueriedSets ==
  ASSUME TablesInv
  PROVE  /\ DOMAIN batches \in SUBSET CapturedIds /\ DOMAIN receipts \in SUBSET CapturedIds
         /\ \A t : FailedAfter(t) \in SUBSET CapturedIds
         /\ \A r : DOMAIN receipts \cap {r} \in SUBSET CapturedIds
         /\ \A r : DOMAIN batches \cap {r} \in SUBSET CapturedIds
BY DEF TablesInv, RowsTyped, FailedAfter, InStatus, CapturedIds

\* status: the first query of two sees what is queued or what is delivered, the second
\* what the first cannot have missed but by a delivery.
LEMMA StatusAnswers ==
  ASSUME TablesInv, NEW v, ReaderOK(v), v.cmd = "status", v.next <= 6, NEW w, Answered(v, w)
  PROVE  ReaderOK(w)
<1> DEFINE u == Begun(v)
           n == v.next
           S == IF n \in {1, 3, 6} THEN DOMAIN batches ELSE DOMAIN receipts
<1>1. v \in ReaderT /\ n \in 1 .. 6
  BY DEF ReaderOK, ReaderT
<1>2. /\ u \in ReaderT /\ u.cmd = "status" /\ u.next = n
      /\ n \in {1, 3, 5} => u.shown = {} /\ u.through = Stored /\ u.delivered = {}
      /\ n \in {2, 4, 6} => u = v
  BY <1>1, BeginsAnew, Plans, StatusQueries
<1>3. Answer(Plan(v.cmd)[n][1], u) = Added(u, S)
  <2> HIDE DEF u
  <2>1. Plan(v.cmd) = StatusPlan
    BY Plans
  <2>2. Plan(v.cmd)[n][1] = StatusPlan[n][1]
    BY <2>1
  <2>3. CASE n \in {1, 3, 6}
    <3>1. S = DOMAIN batches
      BY <2>3
    <3>2. StatusPlan[n][1] \in {"count_batches", "source_batches", "captured"}
      BY <2>3, StatusQueries
    <3>3. \A q \in {"count_batches", "source_batches", "captured"} : Answer(q, u) = Added(u, DOMAIN batches)
      BY <1>2, Answers
    <3> HIDE DEF S
    <3> QED
      BY <2>2, <3>1, <3>2, <3>3
  <2>4. CASE n \in {2, 4, 5}
    <3>1. S = DOMAIN receipts
      BY <2>4
    <3>2. StatusPlan[n][1] \in {"count_receipts", "source_receipts", "uploaded"}
      BY <2>4, StatusQueries
    <3>3. \A q \in {"count_receipts", "source_receipts", "uploaded"} : Answer(q, u) = Added(u, DOMAIN receipts)
      BY <1>2, Answers
    <3> HIDE DEF S
    <3> QED
      BY <2>2, <3>1, <3>2, <3>3
  <2> QED
    BY <1>1, <2>3, <2>4
<1> HIDE DEF u
<1>4. S \in SUBSET CapturedIds
  BY QueriedSets
<1>5. w = [Added(u, S) EXCEPT !.next = @ + 1]
  BY <1>3 DEF Answered, u
<1>6. Follows(w, u) /\ w.shown = u.shown \cup S
  <2> HIDE DEF S
  <2> QED
    BY <1>1, <1>2, <1>4, <1>5, Shows
<1>7. w \in ReaderT /\ w.cmd = "status" /\ w.next = n + 1
  BY <1>2, <1>6 DEF Follows
<1>8. StatusHolds(w)
  <2>1. w.whole => u.whole /\ w.through = u.through /\ w.delivered = u.delivered
    BY <1>6 DEF Follows
  <2>2. CASE n \in {1, 3, 5}
    BY <1>1, <1>2, <1>6, <1>7, <2>1, <2>2 DEF StatusHolds, Stored
  <2>3. CASE n \in {2, 4, 6}
    <3>1. StatusHolds(v) /\ u = v
      BY <1>2, <2>3 DEF ReaderOK
    <3> QED
      BY <1>1, <1>6, <1>7, <2>1, <2>3, <3>1 DEF StatusHolds
  <2> QED
    BY <1>1, <2>2, <2>3
<1> QED
  BY <1>7, <1>8 DEF ReaderOK, InPlan, DoctorHolds, LookupHolds

\* doctor: the failures since the last success it has read are those no drain has followed,
\* as long as no drain has recorded another.
LEMMA DoctorAnswers ==
  ASSUME TablesInv, NEW v, ReaderOK(v), v.cmd = "doctor", v.next <= 5, NEW w, Answered(v, w)
  PROVE  ReaderOK(w)
<1> DEFINE u == Begun(v)
           n == v.next
<1>1. v \in ReaderT /\ n \in 1 .. 5
  BY DEF ReaderOK, ReaderT
<1>2. /\ u \in ReaderT /\ u.cmd = "doctor" /\ u.next = n
      /\ n \in {1, 3, 5} => u.shown = {}
      /\ n \in {2, 4} => u = v
  BY <1>1, BeginsAnew, Plans, DoctorQueries
<1> HIDE DEF u
<1>3. w = [Answer(DoctorPlan[n][1], u) EXCEPT !.next = @ + 1]
  BY Plans DEF Answered, u
<1>4. CASE n \in {1, 3}
  <2>1. w = [LastSuccess(u) EXCEPT !.next = @ + 1]
    <3>1. DoctorPlan[n][1] = "last_success"
      BY <1>4, DoctorQueries
    <3>2. Answer("last_success", u) = LastSuccess(u)
      BY <1>2, Answers
    <3> QED
      BY <1>3, <3>1, <3>2
  <2>2. Follows(w, u) /\ w.shown = {} /\ w.since = success
    BY <1>1, <1>2, <1>4, <2>1, TellsSuccess
  <2>3. w \in ReaderT /\ w.cmd = "doctor" /\ w.next = n + 1
    BY <1>2, <2>2 DEF Follows
  <2> QED
    BY <1>4, <2>2, <2>3 DEF ReaderOK, InPlan, StatusHolds, DoctorHolds, LookupHolds
<1>5. CASE n \in {2, 4}
  <2> DEFINE S == FailedAfter(v.since)
  <2>1. w = [Added(v, S) EXCEPT !.next = @ + 1] /\ u = v
    <3>1. u = v /\ DoctorPlan[n][1] \in {"count_failed", "errors"}
      BY <1>2, <1>5, DoctorQueries
    <3>2. Answer("count_failed", u) = Added(u, FailedAfter(u.since))
          /\ Answer("errors", u) = Added(u, FailedAfter(u.since))
      BY <1>2, Answers
    <3> QED
      BY <1>3, <3>1, <3>2
  <2>2. S \in SUBSET CapturedIds
    BY QueriedSets
  <2>3. Follows(w, v) /\ w.shown = v.shown \cup S
    <3> HIDE DEF S
    <3> QED
      BY <1>1, <2>1, <2>2, Shows
  <2>4. w \in ReaderT /\ w.cmd = "doctor" /\ w.next = n + 1
    BY <2>3 DEF Follows
  <2>5. w.whole /\ w.calm => w.shown = unseen
    BY <1>5, <2>3 DEF Follows, ReaderOK, DoctorHolds, TablesInv, UnseenIsFailed
  <2> QED
    BY <1>5, <2>4, <2>5 DEF ReaderOK, InPlan, StatusHolds, DoctorHolds, LookupHolds
<1>6. CASE n = 5
  <2>1. w = [u EXCEPT !.next = @ + 1]
    <3>1. DoctorPlan[n][1] = "others"
      BY <1>6, DoctorQueries
    <3>2. Answer("others", u) = u
      BY <1>2, Answers
    <3> QED
      BY <1>3, <3>1, <3>2
  <2>2. w \in ReaderT /\ w.cmd = "doctor" /\ w.next = 6
    BY <1>2, <1>6, <2>1, GoesToNext DEF Follows
  <2> QED
    BY <2>2 DEF ReaderOK, InPlan, StatusHolds, DoctorHolds, LookupHolds
<1> QED
  BY <1>1, <1>4, <1>5, <1>6

\* logs --id: what is not among the receipts is among the batches, or is delivered next.
LEMMA LookupAnswers ==
  ASSUME TablesInv, NEW v, ReaderOK(v), v.cmd = "lookup", v.next <= 2, NEW w, Answered(v, w)
  PROVE  ReaderOK(w)
<1> DEFINE u == Begun(v)
           n == v.next
<1>1. v \in ReaderT /\ n \in 1 .. 2
  BY DEF ReaderOK, ReaderT
<1>2. /\ u \in ReaderT /\ u.cmd = "lookup" /\ u.next = n /\ u.asked = v.asked
      /\ n = 1 => u.shown = {} /\ u.through = Stored
      /\ n = 2 => u = v
  BY <1>1, BeginsAnew, Plans, LookupQueries
<1> HIDE DEF u
<1>3. w = [Answer(LookupPlan[n][1], u) EXCEPT !.next = @ + 1]
  BY Plans DEF Answered, u
<1>4. CASE n = 1
  <2> DEFINE S == DOMAIN receipts \cap {u.asked}
  <2>1. w = [Added(u, S) EXCEPT !.next = @ + 1] /\ S \in SUBSET CapturedIds
    BY <1>2, <1>3, <1>4, Answers, LookupQueries, QueriedSets
  <2>2. Follows(w, u) /\ w.shown = u.shown \cup S
    <3> HIDE DEF S
    <3> QED
      BY <1>2, <1>4, <2>1, Shows
  <2> QED
    BY <1>2, <1>4, <2>2 DEF Follows, ReaderOK, InPlan, StatusHolds, DoctorHolds, LookupHolds, Stored
<1>5. CASE n = 2
  <2> DEFINE S == IF v.shown # {} THEN {} ELSE DOMAIN batches \cap {v.asked}
  <2>1. w = [FindBatch(v) EXCEPT !.next = @ + 1] /\ u = v
    BY <1>2, <1>3, <1>5, Answers, LookupQueries
  <2>2. Follows(w, v) /\ w.shown = v.shown \cup S
    <3>1. CASE v.shown # {}
      BY <1>1, <1>5, <2>1, <3>1, GoesToNext DEF FindBatch
    <3>2. CASE v.shown = {}
      <4>1. w = [Added(v, S) EXCEPT !.next = @ + 1] /\ S \in SUBSET CapturedIds
        BY <2>1, <3>2, QueriedSets DEF FindBatch
      <4> HIDE DEF S
      <4> QED
        BY <1>1, <1>5, <4>1, Shows
    <3> QED
      BY <3>1, <3>2
  <2> QED
    BY <1>5, <2>2 DEF Follows, ReaderOK, InPlan, StatusHolds, DoctorHolds, LookupHolds
<1> QED
  BY <1>1, <1>4, <1>5

\* One that fails leaves the others to say what they find: it makes nothing whole.
LEMMA FailureKeeps ==
  ASSUME NEW v, ReaderOK(v), v.cmd \in {"status", "doctor", "lookup"},
         v.next <= Len(Plan(v.cmd)), NEW w, w = [v EXCEPT !.next = Skip(v), !.whole = FALSE]
  PROVE  ReaderOK(w)
<1>1. v \in ReaderT /\ v.next \in 1 .. 7 /\ Len(Plan(v.cmd)) \in 1 .. 6
  BY Plans DEF ReaderOK, ReaderT
<1> DEFINE n == Len(Plan(v.cmd))
           k == Skip(v)
           m == v.next
<1>2. k \in m + 1 .. n + 1 /\ m \in 1 .. 7 /\ n \in 1 .. 6
  BY <1>1, SkipIsLater
<1>3. k \in 1 .. 7 /\ k <= n + 1
  <2> HIDE DEF n, k, m
  <2> QED
    BY <1>2
<1>4. w \in ReaderT /\ ~w.whole /\ w.cmd = v.cmd /\ w.next = Skip(v)
  BY <1>1, <1>3 DEF ReaderT
<1>5. InPlan(w)
  <2>1. (v.cmd = "doctor" => n = 5) /\ (v.cmd = "lookup" => n = 2)
    BY Plans
  <2> HIDE DEF n, k
  <2>2. w.next = k
    BY <1>4 DEF k
  <2> QED
    BY <1>3, <1>4, <2>1, <2>2 DEF InPlan
<1> QED
  BY <1>4, <1>5 DEF ReaderOK, StatusHolds, DoctorHolds, LookupHolds

LEMMA QueryKeeps ==
  ASSUME TablesInv, NEW v, ReaderOK(v), v.cmd \in {"status", "doctor", "lookup"},
         v.next <= Len(Plan(v.cmd)), QueryNext(v)
  PROVE  ReaderOK(reader')
<1>1. Answered(v, reader') \/ reader' = [v EXCEPT !.next = Skip(v), !.whole = FALSE]
  BY DEF QueryNext, Answered
<1>2. CASE Answered(v, reader')
  <2>1. CASE v.cmd = "status"
    BY <1>2, <2>1, Plans, StatusAnswers
  <2>2. CASE v.cmd = "doctor"
    BY <1>2, <2>2, Plans, DoctorAnswers
  <2>3. CASE v.cmd = "lookup"
    BY <1>2, <2>3, Plans, LookupAnswers
  <2> QED
    BY <2>1, <2>2, <2>3
<1> QED
  BY <1>1, <1>2, FailureKeeps

\* Nothing is written in a step of the command.
LEMMA ReadingKeeps ==
  ASSUME TablesInv, ReaderOK(reader'),
         UNCHANGED <<tables, inserted, tick, upsets, writer, unseen, said>>
  PROVE  ViewsInv'
<1>1. TablesInv'
  BY DEF TablesInv, CountsTyped, RowsTyped, WriterTyped, KeptOnce, UnseenIsFailed, DrainIsLater,
         DeletesPending, DrainCopies, CopiesCurrent, StateRowCurrent, WriterT, StateT, BatchT,
         Copies, Times, FailedAfter, InStatus
<1>2. ReaderOK(reader)'
  BY DEF ReaderOK, ReaderT, CapturedIds, Times, InPlan, StatusHolds, DoctorHolds, LookupHolds
<1> QED
  BY <1>1, <1>2 DEF ViewsInv

LEMMA IdleReader ==
  ASSUME TablesInv
  PROVE  /\ ReaderOK(NoReader)
         /\ \A c \in {"status", "doctor", "lookup"}, r \in 0 .. MaxRecords :
              LET v == [NoReader EXCEPT !.cmd = c, !.asked = r]
              IN  ReaderOK(v) /\ v.cmd = c /\ v.next = 1
<1>1. 0 \in Times /\ {} \in SUBSET CapturedIds /\ {} \in SUBSET RecordIds /\ 0 \in 0 .. MaxRecords
  BY DEF TablesInv, CountsTyped, Times
<1>2. NoReader \in ReaderT /\ NoReader.cmd = "none" /\ NoReader.next = 1
  BY <1>1 DEF NoReader, ReaderT
<1>3. ASSUME NEW c \in {"status", "doctor", "lookup"}, NEW r \in 0 .. MaxRecords,
             NEW v, v = [NoReader EXCEPT !.cmd = c, !.asked = r]
      PROVE  v \in ReaderT /\ v.cmd = c /\ v.next = 1
  BY <1>2, <1>3 DEF ReaderT
<1>4. ASSUME NEW v \in ReaderT, v.next = 1 PROVE ReaderOK(v)
  BY <1>4 DEF ReaderOK, InPlan, StatusHolds, DoctorHolds, LookupHolds
<1> QED
  BY <1>2, <1>3, <1>4

LEMMA OpensKeeps == ASSUME TablesInv, Opens PROVE ViewsInv'
<1>1. PICK c \in {"status", "doctor", "lookup"}, r \in 0 .. MaxRecords :
        QueryNext([NoReader EXCEPT !.cmd = c, !.asked = r])
  <2>1. /\ [NoReader EXCEPT !.cmd = "status"] = [NoReader EXCEPT !.cmd = "status", !.asked = 0]
        /\ [NoReader EXCEPT !.cmd = "doctor"] = [NoReader EXCEPT !.cmd = "doctor", !.asked = 0]
    <3>1. ASSUME NEW c
          PROVE  /\ [NoReader EXCEPT !.cmd = c] = [NoReader EXCEPT !.cmd = c, !.asked = @]
                 /\ NoReader.asked = 0
      BY DEF NoReader
    <3> QED
      BY <3>1
  <2>2. 0 \in 0 .. MaxRecords /\ \A r \in RecordIds : r \in 0 .. MaxRecords
    BY DEF RecordIds
  <2> QED
    BY <2>1, <2>2 DEF Opens
<1> DEFINE v == [NoReader EXCEPT !.cmd = c, !.asked = r]
<1>2. ReaderOK(v) /\ v.cmd \in {"status", "doctor", "lookup"} /\ v.next = 1
  BY IdleReader
<1> HIDE DEF v
<1>3. v.next <= Len(Plan(v.cmd))
  <2> DEFINE n == Len(Plan(v.cmd))
             m == v.next
  <2>1. n \in 1 .. 6 /\ m = 1
    BY <1>2, Plans
  <2> HIDE DEF n, m
  <2>2. m <= n
    BY <2>1
  <2> QED
    BY <2>2 DEF m, n
<1>4. ReaderOK(reader')
  BY <1>1, <1>2, <1>3, QueryKeeps DEF v
<1> QED
  BY <1>4, ReadingKeeps DEF Opens

LEMMA StepKeeps == ASSUME ViewsInv, [ViewsNext]_viewVars PROVE ViewsInv'
<1> USE DEF ViewsInv
<1>1. CASE Writes /\ ~Finished /\ Observe
  BY <1>1, TablesKeep, ObserveKeeps
<1>2. CASE Opens
  BY <1>2, OpensKeeps
<1>3. CASE Queries
  <2>1. reader.cmd \in {"status", "doctor", "lookup"} /\ reader.next <= Len(Plan(reader.cmd))
    <3>1. reader \in ReaderT
      BY DEF ReaderOK
    <3>2. reader.cmd \in {"status", "doctor", "lookup"} /\ reader.next \in Nat
      BY <1>3, <3>1 DEF ReaderT, Queries
    <3>3. ~(reader.next > Len(Plan(reader.cmd))) /\ Len(Plan(reader.cmd)) \in Nat
      BY <1>3, <3>2, Plans DEF Queries, Finished
    <3> QED
      BY <3>2, <3>3
  <2>2. ReaderOK(reader')
    BY <1>3, <2>1, QueryKeeps DEF Queries
  <2> QED
    BY <1>3, <2>2, ReadingKeeps DEF Queries
<1>4. CASE Closes
  <2>1. ReaderOK(reader')
    BY <1>4, IdleReader DEF Closes
  <2> QED
    BY <1>4, <2>1, ReadingKeeps DEF Closes
<1>5. CASE UNCHANGED viewVars
  BY <1>5, ReadingKeeps
<1> QED
  BY <1>1, <1>2, <1>3, <1>4, <1>5 DEF ViewsNext

LEMMA ViewsStart == ViewsInit => ViewsInv
BY TablesStart, IdleReader DEF ViewsInv, ViewsInit

\* In every state the tables agree with each other and with what the cycles said, and
\* what a command has shown is as far as its queries are.
THEOREM ViewsInvariant == ViewsSpec => []ViewsInv
BY ViewsStart, StepKeeps, PTL DEF ViewsSpec

LEMMA ViewsValues == ViewsInv => ViewsTypeOK
<1>1. ASSUME ViewsInv PROVE ViewsTypeOK
  <2>1. /\ schema \subseteq Latest /\ inserted \in 0 .. MaxRecords
        /\ tick \in 1 .. MaxTicks /\ upsets \in 0 .. MaxUpsets
        /\ DOMAIN batches \subseteq 1 .. inserted /\ DOMAIN receipts \subseteq 1 .. inserted
    BY <1>1 DEF ViewsInv, TablesInv, CountsTyped, RowsTyped
  <2>2. \A r \in DOMAIN batches : batches[r] \in BatchT
    BY <1>1 DEF ViewsInv, TablesInv, RowsTyped
  <2>3. Range(receipts) \cup Range(resyncs) \cup {success} \subseteq Times
    BY <1>1 DEF ViewsInv, TablesInv, CountsTyped, RowsTyped, Range
  <2>4. writer.copy \in Copies /\ stateRow \in StateT /\ said \in StateT
        /\ writer.at \in 0 .. 10 /\ writer.drain \in {"idle", "uploading", "pruned", "stated"}
    BY <1>1 DEF ViewsInv, TablesInv, WriterTyped, WriterT
  <2>5. Range(writer.copy) \subseteq StateT /\ DOMAIN writer.copy \subseteq {"capture", "drain"}
    BY <2>4 DEF Copies, Range
  <2>6. unseen \subseteq InStatus("failed")
    BY <1>1 DEF ViewsInv, TablesInv, UnseenIsFailed, FailedAfter
  <2>7. reader.shown \cup reader.through \subseteq 1 .. inserted /\ reader.asked \in 0 .. MaxRecords
    BY <1>1 DEF ViewsInv, ReaderOK, ReaderT, CapturedIds
  <2> QED
    BY <2>1, <2>2, <2>3, <2>4, <2>5, <2>6, <2>7, Pieces DEF ViewsTypeOK, BatchT, StateT, Times
<1> QED
  BY <1>1

\* Every variable of the database, its writer and its readers keeps to its values.
THEOREM ViewsTypes == ViewsSpec => []ViewsTypeOK
BY ViewsValues, ViewsInvariant, PTL

\* The loops' two halves of daemon_state are each as new as what its loop last said.
THEOREM StateRowNeverStale == ViewsSpec => []StateRowCurrent
<1>1. ViewsInv => StateRowCurrent
  BY DEF ViewsInv, TablesInv
<1> QED
  BY <1>1, ViewsInvariant, PTL

\* What status, doctor and logs put together of several queries was so while they read.
THEOREM FramesHold == ViewsSpec => []FramesTrue
<1>1. ASSUME ViewsInv, reader.cmd # "none" PROVE StatusTrue /\ DoctorTrue /\ LookupTrue
  <2> DEFINE cmd == reader.cmd
             n == reader.next
  <2>1. /\ ReaderOK(reader) /\ n \in 1 .. 7 /\ cmd \in {"status", "doctor", "lookup"}
        /\ cmd = "doctor" => n <= 6
        /\ cmd = "lookup" => n <= 3
        /\ unseen = FailedAfter(success)
    BY <1>1 DEF ViewsInv, ReaderOK, ReaderT, InPlan, TablesInv, UnseenIsFailed
  <2>2. ASSUME NEW what, Gave(what)
        PROVE  /\ reader.whole /\ n > 1 /\ Plan(cmd)[n - 1][2] = what
               /\ n > Len(Plan(cmd)) \/ Begins(Plan(cmd), n)
    BY <1>1, <2>2 DEF Gave, Finished
  <2>3. CASE cmd = "status"
    <3>1. ASSUME NEW what, Gave(what)
          PROVE  /\ reader.whole /\ n \in {3, 5, 7} /\ what = StatusPlan[n - 1][2]
      <4>1. Plan(cmd) = StatusPlan /\ Len(StatusPlan) = 6
        BY <2>3, Plans
      <4> QED
        BY <2>1, <2>2, <3>1, <4>1, StatusQueries
    <3>2. /\ Gave("totals") => n = 3
          /\ Gave("sources") => n = 5
          /\ Gave("bytes") => n = 7
          /\ ~Gave("failures") /\ ~Gave("errors") /\ ~Gave("lookup")
      BY <3>1, StatusQueries
    <3>3. StatusHolds(reader)
      BY <2>1 DEF ReaderOK
    <3> QED
      BY <2>3, <3>1, <3>2, <3>3 DEF StatusTrue, DoctorTrue, LookupTrue, StatusHolds
  <2>4. CASE cmd = "doctor"
    <3>1. ASSUME NEW what, Gave(what)
          PROVE  /\ reader.whole /\ n \in {3, 5, 6} /\ what = DoctorPlan[n - 1][2]
      <4>1. Plan(cmd) = DoctorPlan /\ Len(DoctorPlan) = 5
        BY <2>4, Plans
      <4>2. /\ reader.whole /\ n > 1 /\ DoctorPlan[n - 1][2] = what
            /\ n > 5 \/ Begins(DoctorPlan, n)
        BY <2>2, <3>1, <4>1
      <4>3. n \in 2 .. 6
        BY <2>1, <2>4, <4>2
      <4> HIDE DEF n
      <4> QED
        BY <4>2, <4>3, DoctorQueries
    <3>2. /\ Gave("failures") => n = 3
          /\ Gave("errors") => n = 5
          /\ ~Gave("totals") /\ ~Gave("sources") /\ ~Gave("bytes") /\ ~Gave("lookup")
      BY <3>1, DoctorQueries
    <3>3. DoctorHolds(reader)
      BY <2>1 DEF ReaderOK
    <3> QED
      BY <2>4, <3>1, <3>2, <3>3 DEF StatusTrue, DoctorTrue, LookupTrue, DoctorHolds
  <2>5. CASE cmd = "lookup"
    <3>1. ASSUME NEW what, Gave(what)
          PROVE  /\ reader.whole /\ n = 3 /\ what = LookupPlan[n - 1][2]
      <4>1. Plan(cmd) = LookupPlan /\ Len(LookupPlan) = 2
        BY <2>5, Plans
      <4>2. /\ reader.whole /\ n > 1 /\ LookupPlan[n - 1][2] = what
            /\ n > 2 \/ Begins(LookupPlan, n)
        BY <2>2, <3>1, <4>1
      <4>3. n \in 2 .. 3
        BY <2>1, <2>5, <4>2
      <4> HIDE DEF n
      <4> QED
        BY <4>2, <4>3, LookupQueries
    <3>2. \A what : what # "lookup" => ~Gave(what)
      BY <3>1, LookupQueries
    <3>3. LookupHolds(reader)
      BY <2>1 DEF ReaderOK
    <3> QED
      BY <2>5, <3>1, <3>2, <3>3 DEF StatusTrue, DoctorTrue, LookupTrue, LookupHolds
  <2> QED
    BY <2>1, <2>3, <2>4, <2>5
<1> QED
  BY <1>1, ViewsInvariant, PTL DEF FramesTrue

-----------------------------------------------------------------------------
(* What inspect shows.                                                     *)

AgentNames == {"claude-code", "claude-desktop", "codex", "gemini", "cursor"}

\* The records in their order, and how far each of those who look at them has come.
EntriesTyped ==
  /\ agent \in Agents /\ unasked \in BOOLEAN
  /\ entry \in Seq(Records) /\ Len(entry) <= MaxEntries
  /\ whole \in 0 .. Len(entry) /\ ended \in 0 .. whole /\ upTo \in 0 .. ended
BodiesTaken == body \in Seq(SUBSET Nat) /\ \A n \in DOMAIN body : body[n] \subseteq taken

\* What was captured is what the collector keeps of what it has passed, and whatever is
\* shown of it came out of a capture.
TakenIsKept ==
  /\ taken = {i \in 1 .. upTo : KeepsEntry(entry[i])}
  /\ prompts \subseteq taken \cap WithPrompt
  /\ replies \subseteq taken \cap WithAnswer

\* inspect's count stays what it was of the part it has read.
ScreenIsCount ==
  /\ screen.upto \in 0 .. whole
  /\ screen.counted = {i \in 1 .. screen.upto : Counts(entry[i])}
  /\ screen.prompts = {i \in 1 .. screen.upto : Counts(entry[i]) /\ IsPromptRecord(entry[i])}

ConsentInv == EntriesTyped /\ BodiesTaken /\ TakenIsKept /\ ScreenIsCount

\* The collectors' rule and inspect's differ in the replays of claude-desktop alone.
LEMMA KeptIsCounted ==
  ASSUME NEW r, agent \in AgentNames
  PROVE  /\ KeepsEntry(r) => Counts(r)
         /\ Counts(r) /\ (agent = "claude-desktop" => ~r.replay) => KeepsEntry(r)
BY DEF AgentNames, KeepsEntry, Counts, KeepsDesktop, KeepsClaudeCode

\* A record keeps its author in the form in which it is sent, and the extractors look for
\* the user's words and the assistant's only in records of theirs.
LEMMA SentByAuthor ==
  ASSUME agent \in AgentNames, NEW r \in Records
  PROVE  /\ ExtractPrompt(SentForm(r)) => IsPromptRecord(r)
         /\ ExtractAssistant(SentForm(r)) => ~IsPromptRecord(r)
<1>1. CASE agent \in {"claude-code", "claude-desktop"}
  <2>1. r \in ClaudeRecords
    BY <1>1 DEF Records
  <2>2. "type" \in DOMAIN r
    BY <2>1 DEF ClaudeRecords
  <2>3. SentForm(r).type = r.type
    BY <1>1, <2>2 DEF SentForm
  <2> QED
    BY <1>1, <2>3 DEF ExtractPrompt, ExtractAssistant, ExtractClaudePrompt, IsPromptRecord
<1>2. CASE agent = "codex"
  <2>1. SentForm(r) = r
    BY <1>2 DEF SentForm
  <2> QED
    BY <1>2, <2>1 DEF ExtractPrompt, ExtractAssistant, ExtractCodex, IsPromptRecord
<1>3. CASE agent = "gemini"
  BY <1>3 DEF ExtractPrompt, ExtractAssistant
<1>4. CASE agent = "cursor"
  <2>1. r \in CursorRecords /\ SentForm(r) = TrimRow(r)
    BY <1>4 DEF Records, SentForm
  <2>2. TrimRow(r).key = r.key /\ TrimRow(r).value = r.value /\ TrimRow(r).role = r.role
    BY <2>1 DEF TrimRow, CursorRecords
  <2> QED
    BY <1>4, <2>1, <2>2 DEF ExtractPrompt, ExtractAssistant, ExtractFromBubble, ExtractFromBlob,
       IsPromptRecord, IsCursorPromptRow
<1> QED
  BY <1>1, <1>2, <1>3, <1>4 DEF AgentNames

\* The rules are those of the agent.
LEMMA RulesStay ==
  ASSUME agent' = agent
  PROVE  /\ Records' = Records
         /\ \A r : /\ (KeepsEntry(r) <=> KeepsEntry(r)') /\ (Counts(r) <=> Counts(r)')
                   /\ (IsPromptRecord(r) <=> IsPromptRecord(r)')
                   /\ (ExtractPrompt(SentForm(r)) <=> ExtractPrompt(SentForm(r))')
                   /\ (ExtractAssistant(SentForm(r)) <=> ExtractAssistant(SentForm(r))')
<1>1. Records' = Records
  BY DEF Records, ClaudeRecords
<1>2. ASSUME NEW r
      PROVE  /\ (KeepsEntry(r) <=> KeepsEntry(r)') /\ (Counts(r) <=> Counts(r)')
             /\ (IsPromptRecord(r) <=> IsPromptRecord(r)')
  BY DEF KeepsEntry, Counts, IsPromptRecord
<1>3. ASSUME NEW r PROVE (SentForm(r))' = SentForm(r)
  BY DEF SentForm
<1>4. ASSUME NEW r
      PROVE  /\ (ExtractPrompt(SentForm(r)) <=> ExtractPrompt(SentForm(r))')
             /\ (ExtractAssistant(SentForm(r)) <=> ExtractAssistant(SentForm(r))')
  BY <1>3 DEF ExtractPrompt, ExtractAssistant
<1> QED
  BY <1>1, <1>2, <1>4

\* Every step leaves the records there are as they are, and what is said of them.
LEMMA EntriesGrow ==
  ASSUME ConsentInv, [ConsentNext]_consentVars
  PROVE  /\ EntriesTyped' /\ agent' = agent /\ Len(entry) <= Len(entry')
         /\ \A i \in 1 .. Len(entry) : entry'[i] = entry[i]
         /\ whole <= whole' /\ upTo <= upTo'
<1> USE DEF ConsentInv, EntriesTyped
<1>1. agent' = agent
  BY DEF ConsentNext, StartRecord, EndRecord, Capture, Deliver, ShowLogs, Inspect, InspectFails,
         consentVars
<1>2. Records' = Records
  BY <1>1, RulesStay
<1>3. Len(entry) \in Nat /\ ended \in Nat /\ upTo \in Nat /\ whole \in Nat
  OBVIOUS
<1>4. CASE StartRecord
  <2>1. PICK r \in Records : entry' = Append(entry, r)
    BY <1>4 DEF StartRecord
  <2>2. entry' \in Seq(Records') /\ Len(entry') = Len(entry) + 1
        /\ \A i \in 1 .. Len(entry) : entry'[i] = entry[i]
    BY <1>2, <2>1
  <2>3. Len(entry) < MaxEntries /\ ended = Len(entry) /\ MaxEntries \in Nat
    BY <1>4, ConsentAssumption DEF StartRecord
  <2>4. whole' \in {whole, Len(entry) + 1} /\ ended' \in {ended, Len(entry) + 1}
        /\ (ended' # ended => whole' = Len(entry) + 1) /\ upTo' = upTo /\ unasked' = unasked
    BY <1>4, <2>2 DEF StartRecord
  <2> QED
    BY SMTT(30), <1>1, <1>3, <2>2, <2>3, <2>4
<1>5. CASE EndRecord
  BY <1>1, <1>2, <1>3, <1>5 DEF EndRecord
<1>6. CASE Capture
  <2>1. upTo' \in upTo + 1 .. ended
    BY <1>6 DEF Capture
  <2> QED
    BY <1>1, <1>2, <1>3, <1>6, <2>1 DEF Capture
<1>7. CASE Deliver \/ ShowLogs \/ Inspect \/ InspectFails \/ UNCHANGED consentVars
  <2>1. UNCHANGED <<agent, unasked, entry, whole, ended, upTo>>
    BY <1>7 DEF Deliver, ShowLogs, Inspect, InspectFails, consentVars
  <2> QED
    BY <1>1, <1>2, <1>3, <2>1
<1> QED
  BY <1>4, <1>5, <1>6, <1>7 DEF ConsentNext

\* So that what was said of a record that is there still holds.
LEMMA SayingsStay ==
  ASSUME ConsentInv, [ConsentNext]_consentVars, NEW i \in 1 .. whole
  PROVE  /\ i \in DOMAIN entry /\ i \in DOMAIN entry' /\ i \in 1 .. whole'
         /\ (KeepsEntry(entry[i]) <=> KeepsEntry(entry[i])')
         /\ (Counts(entry[i]) <=> Counts(entry[i])')
         /\ (IsPromptRecord(entry[i]) <=> IsPromptRecord(entry[i])')
         /\ (i \in WithPrompt <=> i \in WithPrompt') /\ (i \in WithAnswer <=> i \in WithAnswer')
<1>1. /\ EntriesTyped /\ EntriesTyped' /\ agent' = agent /\ whole <= whole'
      /\ Len(entry) <= Len(entry') /\ \A j \in 1 .. Len(entry) : entry'[j] = entry[j]
  BY EntriesGrow DEF ConsentInv
<1>2. /\ Len(entry) \in Nat /\ whole \in 0 .. Len(entry) /\ whole' \in 0 .. Len(entry')
      /\ Len(entry') \in Nat /\ DOMAIN entry = 1 .. Len(entry) /\ DOMAIN entry' = 1 .. Len(entry')
  BY <1>1 DEF EntriesTyped
<1>3. i \in DOMAIN entry /\ i \in DOMAIN entry' /\ i \in 1 .. whole' /\ entry'[i] = entry[i]
  BY <1>1, <1>2
<1> DEFINE r == entry[i]
<1>4. /\ (KeepsEntry(r) <=> KeepsEntry(r)') /\ (Counts(r) <=> Counts(r)')
      /\ (IsPromptRecord(r) <=> IsPromptRecord(r)')
      /\ (ExtractPrompt(SentForm(r)) <=> ExtractPrompt(SentForm(r))')
      /\ (ExtractAssistant(SentForm(r)) <=> ExtractAssistant(SentForm(r))')
  <2>1. entry'[i] = entry[i]
    BY <1>3
  <2> QED
    BY <1>1, <2>1, RulesStay
<1> QED
  BY <1>3, <1>4 DEF WithPrompt, WithAnswer

LEMMA FirstIsIn == ASSUME NEW b, NEW giving PROVE FirstOf(b, giving) \subseteq b \cap giving
BY DEF FirstOf

\* The steps that capture nothing and show nothing.
ConsentFrame == UNCHANGED <<upTo, body, taken, prompts, replies>>

LEMMA TakenKeeps ==
  ASSUME ConsentInv, [ConsentNext]_consentVars PROVE (BodiesTaken /\ TakenIsKept)'
<1> DEFINE Kept(i) == /\ i \in prompts => i \in taken /\ i \in WithPrompt
                      /\ i \in replies => i \in taken /\ i \in WithAnswer
<1>1. /\ whole \in Nat /\ ended \in 0 .. whole /\ upTo \in 0 .. ended /\ taken \subseteq 1 .. upTo
      /\ \A i \in 1 .. upTo : i \in 1 .. whole
  BY DEF ConsentInv, EntriesTyped, TakenIsKept
<1>2. \A i \in 1 .. whole : /\ (KeepsEntry(entry[i]) <=> KeepsEntry(entry[i])')
                            /\ (i \in WithPrompt <=> i \in WithPrompt')
                            /\ (i \in WithAnswer <=> i \in WithAnswer')
  BY SayingsStay
<1>3. \A i \in taken : i \in 1 .. whole
  BY <1>1
<1>4. CASE ConsentFrame
  BY <1>1, <1>2, <1>3, <1>4 DEF ConsentFrame, ConsentInv, BodiesTaken, TakenIsKept
<1>5. CASE Capture
  <2>1. PICK last \in upTo + 1 .. ended :
          LET kept == {i \in upTo + 1 .. last : KeepsEntry(entry[i])}
          IN  /\ upTo' = last
              /\ body' = IF kept = {} THEN body ELSE Append(body, kept)
              /\ taken' = taken \cup kept
    BY <1>5 DEF Capture
  <2> DEFINE kept == {i \in upTo + 1 .. last : KeepsEntry(entry[i])}
  <2>2. kept \in SUBSET Nat /\ kept \subseteq taken' /\ taken \subseteq taken'
    BY <1>1, <2>1
  <2>3. taken' = {i \in 1 .. last : KeepsEntry(entry[i])}
    BY <1>1, <2>1 DEF ConsentInv, TakenIsKept
  <2>4. \A i \in 1 .. last : i \in 1 .. whole
    BY <1>1
  <2>5. BodiesTaken'
    <3> HIDE DEF kept
    <3>1. body' = body \/ body' = Append(body, kept)
      BY <2>1 DEF kept
    <3>2. body \in Seq(SUBSET Nat) /\ \A n \in 1 .. Len(body) : body[n] \subseteq taken
      BY DEF ConsentInv, BodiesTaken
    <3>3. CASE body' = body
      BY <2>2, <3>2, <3>3 DEF BodiesTaken
    <3>4. CASE body' = Append(body, kept)
      <4>1. body' \in Seq(SUBSET Nat) /\ DOMAIN body' = 1 .. Len(body) + 1
        BY <2>2, <3>2, <3>4
      <4>2. \A n \in 1 .. Len(body) + 1 :
               body'[n] = IF n = Len(body) + 1 THEN kept ELSE body[n]
        BY <2>2, <3>2, <3>4
      <4>3. ASSUME NEW n \in 1 .. Len(body) + 1 PROVE body'[n] \subseteq taken'
        <5>1. CASE n = Len(body) + 1
          BY <2>2, <4>2, <5>1
        <5>2. CASE n # Len(body) + 1
          <6>1. n \in 1 .. Len(body) /\ Len(body) \in Nat
            BY <3>2, <5>2
          <6>2. body'[n] = body[n] /\ body[n] \subseteq taken
            BY <3>2, <4>2, <5>2, <6>1
          <6> QED
            BY <2>2, <6>2
        <5> QED
          BY <5>1, <5>2
      <4> QED
        BY <4>1, <4>3 DEF BodiesTaken
    <3> QED
      BY <3>1, <3>3, <3>4
  <2>6. prompts' = prompts /\ replies' = replies
    BY <1>5 DEF Capture
  <2>7. TakenIsKept'
    BY <1>2, <1>3, <2>1, <2>2, <2>3, <2>4, <2>6 DEF ConsentInv, TakenIsKept
  <2> QED
    BY <2>5, <2>7
<1>6. CASE Deliver \/ ShowLogs
  <2>1. /\ taken' = taken /\ upTo' = upTo /\ body # << >> /\ body' \in {body, Tail(body)}
        /\ prompts' = prompts \cup FirstOf(Head(body), WithPrompt)
        /\ replies' \in {replies, replies \cup FirstOf(Head(body), WithAnswer)}
    BY <1>6 DEF Deliver, ShowLogs
  <2>2. body' \in Seq(SUBSET Nat) /\ \A n \in DOMAIN body' : body'[n] \subseteq taken
    <3>1. body \in Seq(SUBSET Nat) /\ \A n \in 1 .. Len(body) : body[n] \subseteq taken
      BY DEF ConsentInv, BodiesTaken
    <3>2. /\ Tail(body) \in Seq(SUBSET Nat) /\ DOMAIN Tail(body) = 1 .. Len(body) - 1
          /\ \A n \in 1 .. Len(body) - 1 : Tail(body)[n] = body[n + 1] /\ n + 1 \in 1 .. Len(body)
      BY <2>1, <3>1
    <3>3. \A n \in DOMAIN Tail(body) : Tail(body)[n] \subseteq taken
      BY <3>1, <3>2
    <3>4. DOMAIN body = 1 .. Len(body)
      BY <3>1
    <3> QED
      BY <2>1, <3>1, <3>2, <3>3, <3>4
  <2>3. Head(body) \subseteq taken
    BY <2>1 DEF ConsentInv, BodiesTaken
  <2>4. /\ prompts' \subseteq taken \cap WithPrompt
        /\ replies' \subseteq taken \cap WithAnswer
    BY <2>1, <2>3, FirstIsIn DEF ConsentInv, TakenIsKept
  <2>5. TakenIsKept'
    BY <1>1, <1>2, <1>3, <2>1, <2>4 DEF ConsentInv, TakenIsKept
  <2> QED
    BY <2>1, <2>2, <2>5 DEF BodiesTaken
<1> QED
  BY <1>4, <1>5, <1>6
     DEF ConsentNext, StartRecord, EndRecord, Inspect, InspectFails, consentVars, ConsentFrame

LEMMA ScreenKeeps == ASSUME ConsentInv, [ConsentNext]_consentVars PROVE ScreenIsCount'
<1>1. whole \in Nat /\ whole' \in Nat /\ whole <= whole' /\ screen.upto \in 0 .. whole
  BY EntriesGrow DEF ConsentInv, EntriesTyped, ScreenIsCount
<1>2. \A i \in 1 .. whole : /\ (Counts(entry[i]) <=> Counts(entry[i])')
                            /\ (IsPromptRecord(entry[i]) <=> IsPromptRecord(entry[i])')
  BY SayingsStay
<1>3. CASE screen' = screen
  BY <1>1, <1>2, <1>3 DEF ConsentInv, ScreenIsCount
<1>4. CASE Inspect
  <2>1. /\ screen'.upto = whole /\ whole' = whole
        /\ screen'.counted = {i \in 1 .. whole : Counts(entry[i])}
        /\ screen'.prompts = {i \in 1 .. whole : Counts(entry[i]) /\ IsPromptRecord(entry[i])}
    BY <1>4 DEF Inspect
  <2> QED
    BY <1>1, <1>2, <2>1 DEF ScreenIsCount
<1>5. CASE InspectFails
  <2>1. screen'.upto = 0 /\ screen'.counted = {} /\ screen'.prompts = {}
    BY <1>5 DEF InspectFails, NoScreen
  <2> QED
    BY <1>1, <2>1 DEF ScreenIsCount
<1> QED
  BY <1>3, <1>4, <1>5
     DEF ConsentNext, StartRecord, EndRecord, Capture, Deliver, ShowLogs, consentVars

LEMMA ConsentStart == ConsentInit => ConsentInv
<1> SUFFICES ASSUME ConsentInit PROVE ConsentInv
  OBVIOUS
<1>1. entry = << >> /\ Len(entry) = 0 /\ MaxEntries \in Nat /\ << >> \in Seq(SUBSET Nat)
  BY ConsentAssumption DEF ConsentInit
<1>2. EntriesTyped
  <2>1. entry \in Seq(Records)
    BY <1>1
  <2>2. agent \in Agents /\ unasked \in BOOLEAN /\ whole = 0 /\ ended = 0 /\ upTo = 0
    BY DEF ConsentInit
  <2> QED
    BY <1>1, <2>1, <2>2 DEF EntriesTyped
<1>3. BodiesTaken /\ TakenIsKept
  BY <1>1 DEF ConsentInit, BodiesTaken, TakenIsKept
<1>4. ScreenIsCount
  BY DEF ConsentInit, ScreenIsCount, NoScreen
<1> QED
  BY <1>2, <1>3, <1>4 DEF ConsentInv

LEMMA ConsentStep == ConsentInv /\ [ConsentNext]_consentVars => ConsentInv'
BY EntriesGrow, TakenKeeps, ScreenKeeps DEF ConsentInv

\* In every state of the file and of those who read it, what was captured is what the
\* collector keeps, and inspect's count is of what it has read.
THEOREM ConsentInvariant == ConsentSpec => []ConsentInv
BY ConsentStart, ConsentStep, PTL DEF ConsentSpec

LEMMA ConsentValues == ConsentInv => ConsentTypeOK
<1> SUFFICES ASSUME ConsentInv PROVE ConsentTypeOK
  OBVIOUS
<1>1. /\ agent \in Agents /\ unasked \in BOOLEAN /\ Len(entry) \in 0 .. MaxEntries
      /\ whole \in 0 .. Len(entry) /\ ended \in 0 .. whole /\ upTo \in 0 .. ended
  BY ConsentAssumption DEF ConsentInv, EntriesTyped
<1>2. taken \cup prompts \cup replies \subseteq 1 .. upTo
  BY DEF ConsentInv, TakenIsKept
<1>3. screen.counted \cup screen.prompts \subseteq 1 .. screen.upto
  BY DEF ConsentInv, ScreenIsCount
<1> QED
  BY <1>1, <1>2, <1>3 DEF ConsentTypeOK

\* Every variable of the file, its collector and inspect's screen keeps to its values.
THEOREM ConsentTypes == ConsentSpec => []ConsentTypeOK
BY ConsentValues, ConsentInvariant, PTL

\* What inspect told the user holds of everything that is captured, before or after, and
\* of every prompt and answer shown as such, for all five agents.
THEOREM InspectHolds == ConsentSpec => []InspectIsTrue
<1>1. ASSUME ConsentInv PROVE InspectIsTrue
  <2>1. agent \in AgentNames
    BY <1>1, ConsentAssumption DEF ConsentInv, EntriesTyped, AgentNames
  <2>2. /\ taken = {i \in 1 .. upTo : KeepsEntry(entry[i])}
        /\ screen.counted = {i \in 1 .. screen.upto : Counts(entry[i])}
        /\ screen.prompts = {i \in 1 .. screen.upto : Counts(entry[i]) /\ IsPromptRecord(entry[i])}
    BY <1>1 DEF ConsentInv, TakenIsKept, ScreenIsCount
  <2>3. ShippedIsInspected
    BY <1>1, <2>1, <2>2, KeptIsCounted DEF ShippedIsInspected, ConsentInv, EntriesTyped, ScreenIsCount
  <2>4. ASSUME NEW i \in taken
        PROVE  /\ i \in DOMAIN entry /\ Counts(entry[i])
               /\ i \in prompts => IsPromptRecord(entry[i])
               /\ i \in replies => ~IsPromptRecord(entry[i])
    <3>1. i \in 1 .. upTo /\ KeepsEntry(entry[i])
      BY <2>2
    <3>2. i \in DOMAIN entry /\ entry[i] \in Records
      BY <1>1, <3>1 DEF ConsentInv, EntriesTyped
    <3>3. Counts(entry[i])
      BY <2>1, <3>1, KeptIsCounted
    <3>4. /\ i \in prompts => ExtractPrompt(SentForm(entry[i]))
          /\ i \in replies => ExtractAssistant(SentForm(entry[i]))
      BY <1>1 DEF ConsentInv, TakenIsKept, WithPrompt, WithAnswer
    <3>5. /\ ExtractPrompt(SentForm(entry[i])) => IsPromptRecord(entry[i])
          /\ ExtractAssistant(SentForm(entry[i])) => ~IsPromptRecord(entry[i])
      BY <2>1, <3>2, SentByAuthor
    <3> QED
      BY <3>2, <3>3, <3>4, <3>5
  <2>5. PromptsAreCounted
    <3>1. prompts \subseteq taken /\ replies \subseteq taken
      BY <1>1 DEF ConsentInv, TakenIsKept
    <3> QED
      BY <2>2, <2>4, <3>1 DEF PromptsAreCounted
  <2> QED
    BY <2>3, <2>5 DEF InspectIsTrue
<1> QED
  BY <1>1, ConsentInvariant, PTL

-----------------------------------------------------------------------------
(* The run.  A behaviour of MCDataPath is one of LineCollectors, of        *)
(* RowCollector, of ConsentSurface and of BufferViews, three of which take *)
(* no step.                                                                *)

\* A step of the run is a step of one module, and none of the others.
LEMMA DataSteps ==
  ASSUME [MCNext]_<<lineVars, rowVars, consentVars, viewVars, subject>>
  PROVE  /\ [LineNext]_lineVars /\ [RowNext]_rowVars
         /\ [ConsentNext]_consentVars /\ [ViewsNext]_viewVars
BY DEF MCNext

DataInv == LineTypeOK /\ CapturesTrue /\ RowTypes /\ ConsentInv /\ ViewsInv

\* In a run of the other collectors, inspect and the readers of the database every
\* variable of all of them keeps to its values, for tables, files, retention times and
\* databases of any size, any number of faults and any cut of a read.
THEOREM DataTypes == MCSpec => []DataTypeOK
<1> USE LineAssumption, RowAssumption
<1>1. MCInit => DataInv
  BY LineStart, TypesStart, ConsentStart, ViewsStart DEF MCInit, DataInv, LineInv
<1>2. DataInv /\ [MCNext]_<<lineVars, rowVars, consentVars, viewVars, subject>> => DataInv'
  <2> SUFFICES ASSUME DataInv, [MCNext]_<<lineVars, rowVars, consentVars, viewVars, subject>>
               PROVE  DataInv'
    OBVIOUS
  <2>1. /\ [LineNext]_lineVars /\ [RowNext]_rowVars
        /\ [ConsentNext]_consentVars /\ [ViewsNext]_viewVars
    BY DataSteps
  <2> QED
    BY <2>1, LineTypesStep, TypesStep, ConsentStep, StepKeeps DEF DataInv
<1>3. DataInv => DataTypeOK
  BY TypesSuffice, ConsentValues, ViewsValues DEF DataInv, DataTypeOK
<1> QED
  BY <1>1, <1>2, <1>3, PTL DEF MCSpec

=============================================================================
