------------------------ MODULE ProposalBatchProofs ------------------------
(***************************************************************************)
(* Proofs about the overlap check of ProposalBatch, for batches of any     *)
(* length and offsets of any size.                                         *)
(***************************************************************************)
EXTENDS ProposalBatch, FiniteSetTheorems, TLAPS

Range3 == [start : Nat, end : Nat, index : Nat]

(* Two ranges replace a character in common.                                *)
Intersect(r, s) == \E offset \in Nat :
    /\ r.start <= offset /\ offset < r.end
    /\ s.start <= offset /\ offset < s.end

LEMMA IntersectByBounds ==
    ASSUME NEW r \in Range3, NEW s \in Range3,
           r.start < r.end, s.start < s.end, r.start <= s.start
    PROVE  Intersect(r, s) <=> s.start < r.end
  <1>1. ASSUME Intersect(r, s) PROVE s.start < r.end
    <2>1. PICK offset \in Nat : s.start <= offset /\ offset < r.end
      BY <1>1 DEF Intersect
    <2> QED
      BY <2>1 DEF Range3
  <1>2. ASSUME s.start < r.end PROVE Intersect(r, s)
    <2>1. s.start \in Nat /\ r.start <= s.start /\ s.start < r.end
          /\ s.start <= s.start /\ s.start < s.end
      BY <1>2 DEF Range3
    <2> QED
      BY <2>1 DEF Intersect
  <1> QED
    BY <1>1, <1>2

(* reject_overlapping_replace_ranges looks at neighbours only, and in the    *)
(* order of the starts that finds an overlap whenever there is one: when    *)
(* the neighbours of every range are clear of it, so are all the others.    *)
THEOREM NeighboursSuffice ==
    ASSUME NEW ranges \in Seq(Range3),
           \A i \in 1..Len(ranges) : ranges[i].start < ranges[i].end,
           \A i, j \in 1..Len(ranges) : i < j => ranges[i].start <= ranges[j].start
    PROVE  AdjacentOverlap(ranges) <=>
               \E i, j \in 1..Len(ranges) : i < j /\ Intersect(ranges[i], ranges[j])
  <1>1. \A i \in 1..Len(ranges) : ranges[i] \in Range3
    OBVIOUS
  <1>2. \A i, j \in 1..Len(ranges) :
            i < j => (Intersect(ranges[i], ranges[j]) <=> ranges[j].start < ranges[i].end)
    BY <1>1, IntersectByBounds
  <1>3. ASSUME AdjacentOverlap(ranges)
        PROVE  \E i, j \in 1..Len(ranges) : i < j /\ Intersect(ranges[i], ranges[j])
    <2>1. PICK i \in 1..Len(ranges) - 1 : ranges[i + 1].start < ranges[i].end
      BY <1>3 DEF AdjacentOverlap
    <2>2. i \in 1..Len(ranges) /\ i + 1 \in 1..Len(ranges) /\ i < i + 1
      OBVIOUS
    <2> QED
      BY <1>2, <2>1, <2>2
  <1>4. ASSUME NEW i \in 1..Len(ranges), NEW j \in 1..Len(ranges), i < j,
               Intersect(ranges[i], ranges[j])
        PROVE  AdjacentOverlap(ranges)
    <2>1. ranges[j].start < ranges[i].end
      BY <1>2, <1>4
    <2>2. i \in 1..Len(ranges) - 1 /\ i + 1 \in 1..Len(ranges)
      BY <1>4
    <2>3. ranges[i + 1].start <= ranges[j].start
      <3>1. CASE i + 1 = j
        BY <1>1, <3>1 DEF Range3
      <3>2. CASE i + 1 < j
        BY <2>2, <3>2
      <3> QED
        BY <1>4, <3>1, <3>2
    <2>4. ranges[i + 1].start \in Nat /\ ranges[j].start \in Nat /\ ranges[i].end \in Nat
      BY <1>1, <2>2 DEF Range3
    <2>5. ranges[i + 1].start < ranges[i].end
      BY <2>1, <2>3, <2>4
    <2> QED
      BY <2>2, <2>5 DEF AdjacentOverlap
  <1> QED
    BY <1>3, <1>4

-----------------------------------------------------------------------------
(* The sort.  Precedes is a strict total order on the ranges of a batch.    *)

LEMMA PrecedesIsStrictOrder ==
    ASSUME NEW r \in Range3, NEW s \in Range3
    PROVE  /\ ~Precedes(r, r)
           /\ \A q \in Range3 : Precedes(q, r) /\ Precedes(r, s) => Precedes(q, s)
           /\ r # s => Precedes(r, s) \/ Precedes(s, r)
           /\ r.start > s.start => ~Precedes(r, s)
  BY DEF Precedes, Range3

(* A range has a rank below the number of ranges, and the ranks of ranges    *)
(* are in the order of the ranges.                                          *)
LEMMA RankBounds ==
    ASSUME NEW S \in SUBSET Range3, IsFiniteSet(S), NEW r \in S
    PROVE  Rank(r, S) \in 0..Cardinality(S) - 1
  <1> DEFINE before == {other \in S : Precedes(other, r)}
  <1>1. before \subseteq S \ {r}
    BY PrecedesIsStrictOrder
  <1>2. IsFiniteSet(S \ {r}) /\ Cardinality(S \ {r}) = Cardinality(S) - 1
    BY FS_RemoveElement
  <1>3. IsFiniteSet(before) /\ Cardinality(before) <= Cardinality(S) - 1
    BY <1>1, <1>2, FS_Subset
  <1>4. Cardinality(before) \in Nat /\ Cardinality(S) \in Nat
    BY <1>3, FS_CardinalityType
  <1> QED
    BY <1>3, <1>4 DEF Rank

LEMMA RankIncreases ==
    ASSUME NEW S \in SUBSET Range3, IsFiniteSet(S), NEW r \in S, NEW s \in S, Precedes(r, s)
    PROVE  Rank(r, S) < Rank(s, S)
  <1> DEFINE before(q) == {other \in S : Precedes(other, q)}
  <1>1. before(r) \subseteq before(s)
    BY PrecedesIsStrictOrder
  <1>2. r \in before(s) /\ r \notin before(r)
    BY PrecedesIsStrictOrder
  <1>3. IsFiniteSet(before(s))
    BY FS_Subset
  <1>4. IsFiniteSet(before(r)) /\ Cardinality(before(r)) <= Cardinality(before(s))
        /\ Cardinality(before(r)) # Cardinality(before(s))
    BY <1>1, <1>2, <1>3, FS_Subset
  <1>5. Cardinality(before(r)) \in Nat /\ Cardinality(before(s)) \in Nat
    BY <1>3, <1>4, FS_CardinalityType
  <1> QED
    BY <1>4, <1>5 DEF Rank

(* Every rank is taken: an injection between sets of one size is onto.       *)
LEMMA EveryRankIsTaken ==
    ASSUME NEW S \in SUBSET Range3, IsFiniteSet(S), NEW i \in 1..Cardinality(S)
    PROVE  \E r \in S : Rank(r, S) = i - 1
  <1> DEFINE place == [r \in S |-> Rank(r, S) + 1]
  <1>1. Cardinality(S) \in Nat
    BY FS_CardinalityType
  <1>2. \A r \in S : Rank(r, S) + 1 \in 1..Cardinality(S)
    BY <1>1, RankBounds
  <1>3. \A r, s \in S : r # s => Rank(r, S) + 1 # Rank(s, S) + 1
    <2> SUFFICES ASSUME NEW r \in S, NEW s \in S, r # s
                 PROVE  Rank(r, S) + 1 # Rank(s, S) + 1
      OBVIOUS
    <2>1. Rank(r, S) \in Nat /\ Rank(s, S) \in Nat
      BY <1>1, RankBounds
    <2>2. Rank(r, S) < Rank(s, S) \/ Rank(s, S) < Rank(r, S)
      BY PrecedesIsStrictOrder, RankIncreases
    <2> QED
      BY <2>1, <2>2
  <1>4. place \in Injection(S, 1..Cardinality(S))
    BY <1>2, <1>3 DEF Injection, IsInjective
  <1>5. IsFiniteSet(1..Cardinality(S)) /\ Cardinality(1..Cardinality(S)) = Cardinality(S)
    BY <1>1, FS_Interval
  <1>6. place \in Surjection(S, 1..Cardinality(S))
    BY <1>4, <1>5, FS_Injection
  <1>7. PICK r \in S : place[r] = i
    BY <1>6 DEF Surjection
  <1>8. Rank(r, S) \in Nat
    BY <1>1, RankBounds
  <1> QED
    BY <1>7, <1>8

(* What the overlap check sorts: finitely many ranges, one for each index.   *)
LEMMA RangesOfBatch ==
    ASSUME NEW batch \in Seq(Proposal),
           \A i \in DOMAIN batch : ProposalError(batch[i]) = "OK"
    PROVE  /\ IsFiniteSet(ReplaceRanges(batch))
           /\ ReplaceRanges(batch) \in SUBSET Range3
           /\ \A r \in ReplaceRanges(batch) : r.start < r.end
           /\ \A r, s \in ReplaceRanges(batch) : r.index = s.index => r = s
  <1> DEFINE replacing == {i \in DOMAIN batch : Replaces(batch[i])}
             range(i) == [start |-> batch[i].targetRange.start,
                          end |-> batch[i].targetRange.end, index |-> i]
             rangeAt == [i \in replacing |-> range(i)]
  <1>1. ReplaceRanges(batch) = {range(i) : i \in replacing}
    BY DEF ReplaceRanges
  <1>2. IsFiniteSet(replacing)
    <2>1. DOMAIN batch = 1..Len(batch) /\ Len(batch) \in Nat
      OBVIOUS
    <2>2. IsFiniteSet(DOMAIN batch)
      BY <2>1, FS_Interval
    <2> QED
      BY <2>2, FS_Subset
  <1>3. rangeAt \in Surjection(replacing, ReplaceRanges(batch))
    <2> HIDE DEF replacing, range
    <2> QED
      BY <1>1 DEF Surjection
  <1>4. ASSUME NEW i \in replacing PROVE range(i) \in Range3 /\ range(i).start < range(i).end
    <2>1. batch[i] \in Proposal /\ ProposalError(batch[i]) = "OK" /\ i \in Nat
      OBVIOUS
    <2>2. batch[i].targetRange # NoRange /\ batch[i].targetRange \in TextRange
      BY <1>4, <2>1 DEF Replaces, Proposal
    <2>3. IsValidTargetRange(batch[i].targetRange)
      BY <2>1, <2>2 DEF ProposalError
    <2> QED
      BY <2>1, <2>2, <2>3 DEF TextRange, IsValidTargetRange, Range3
  <1> HIDE DEF replacing
  <1> QED
    BY <1>1, <1>2, <1>3, <1>4, FS_Surjection

LEMMA SortedRangesAreSorted ==
    ASSUME NEW batch \in Seq(Proposal),
           \A i \in DOMAIN batch : ProposalError(batch[i]) = "OK",
           NEW ranges, ranges = ReplaceRanges(batch),
           NEW sorted, sorted = SortedRanges(batch)
    PROVE  /\ sorted \in Seq(Range3) /\ Len(sorted) = Cardinality(ranges)
           /\ \A i \in 1..Len(sorted) : sorted[i] \in ranges
           /\ \A i, j \in 1..Len(sorted) : i # j => sorted[i] # sorted[j]
           /\ \A i, j \in 1..Len(sorted) : i < j => sorted[i].start <= sorted[j].start
           /\ \A r \in ranges : \E i \in 1..Len(sorted) : sorted[i] = r
  <1>1. IsFiniteSet(ranges) /\ ranges \in SUBSET Range3 /\ Cardinality(ranges) \in Nat
    BY RangesOfBatch, FS_CardinalityType
  <1>2. sorted = [i \in 1..Cardinality(ranges) |-> CHOOSE r \in ranges : Rank(r, ranges) = i - 1]
    BY DEF SortedRanges
  <1>3. \A i \in 1..Cardinality(ranges) : sorted[i] \in ranges /\ Rank(sorted[i], ranges) = i - 1
    BY <1>1, <1>2, EveryRankIsTaken
  <1>4. sorted \in Seq(Range3) /\ Len(sorted) = Cardinality(ranges)
    BY <1>1, <1>2, <1>3
  <1>5. \A i, j \in 1..Len(sorted) : i # j => sorted[i] # sorted[j]
    BY <1>1, <1>3, <1>4
  <1>6. ASSUME NEW i \in 1..Len(sorted), NEW j \in 1..Len(sorted), i < j
        PROVE  sorted[i].start <= sorted[j].start
    <2>1. ~Precedes(sorted[j], sorted[i])
      BY <1>1, <1>3, <1>4, <1>6, RankIncreases
    <2>2. sorted[i] \in Range3 /\ sorted[j] \in Range3
      BY <1>1, <1>3, <1>4
    <2> QED
      BY <2>1, <2>2 DEF Precedes, Range3
  <1>7. ASSUME NEW r \in ranges PROVE \E i \in 1..Len(sorted) : sorted[i] = r
    <2>1. Rank(r, ranges) + 1 \in 1..Len(sorted) /\ Rank(r, ranges) \in Nat
      BY <1>1, <1>4, RankBounds
    <2> DEFINE i == Rank(r, ranges) + 1
    <2>2. sorted[i] \in ranges /\ Rank(sorted[i], ranges) = Rank(r, ranges)
      BY <1>3, <1>4, <2>1
    <2>3. sorted[i] = r
      <3>1. sorted[i] # r => Precedes(sorted[i], r) \/ Precedes(r, sorted[i])
        BY <1>1, <2>2, PrecedesIsStrictOrder
      <3>2. ~Precedes(sorted[i], r) /\ ~Precedes(r, sorted[i])
        BY <1>1, <2>1, <2>2, RankIncreases
      <3> QED
        BY <3>1, <3>2
    <2> QED
      BY <2>1, <2>3
  <1> QED
    BY <1>3, <1>4, <1>5, <1>6, <1>7

(* reject_overlapping_replace_ranges finds an overlap exactly when two       *)
(* proposals of the batch replace a character in common.                    *)
THEOREM OverlapCheckIsExact ==
    ASSUME NEW batch \in Seq(Proposal),
           \A i \in DOMAIN batch : ProposalError(batch[i]) = "OK"
    PROVE  AdjacentOverlap(SortedRanges(batch)) <=>
               \E i, j \in DOMAIN batch :
                   /\ i # j /\ Replaces(batch[i]) /\ Replaces(batch[j])
                   /\ Intersect(batch[i].targetRange, batch[j].targetRange)
  <1> DEFINE ranges == ReplaceRanges(batch)
             sorted == SortedRanges(batch)
             range(i) == [start |-> batch[i].targetRange.start,
                          end |-> batch[i].targetRange.end, index |-> i]
  <1>1. \A r \in ranges : r \in Range3 /\ r.start < r.end
    BY RangesOfBatch
  <1>2. ranges = {range(i) : i \in {j \in DOMAIN batch : Replaces(batch[j])}}
    BY DEF ReplaceRanges
  <1>3. \A i, j : Intersect(range(i), range(j)) <=>
                     Intersect(batch[i].targetRange, batch[j].targetRange)
    BY DEF Intersect
  <1>4. \A r, s : Intersect(r, s) => Intersect(s, r)
    BY DEF Intersect
  <1>5. /\ sorted \in Seq(Range3)
        /\ \A i \in 1..Len(sorted) : sorted[i] \in ranges
        /\ \A i, j \in 1..Len(sorted) : i # j => sorted[i] # sorted[j]
        /\ \A i, j \in 1..Len(sorted) : i < j => sorted[i].start <= sorted[j].start
        /\ \A r \in ranges : \E i \in 1..Len(sorted) : sorted[i] = r
    BY SortedRangesAreSorted
  <1> HIDE DEF ranges, sorted
  <1>6. AdjacentOverlap(sorted) <=>
            \E i, j \in 1..Len(sorted) : i < j /\ Intersect(sorted[i], sorted[j])
    BY <1>1, <1>5, NeighboursSuffice
  <1>7. AdjacentOverlap(sorted) <=> \E r, s \in ranges : r # s /\ Intersect(r, s)
    <2>1. ASSUME NEW i \in 1..Len(sorted), NEW j \in 1..Len(sorted), i < j,
                 Intersect(sorted[i], sorted[j])
          PROVE  \E r, s \in ranges : r # s /\ Intersect(r, s)
      <3>1. i # j
        BY <2>1
      <3> QED
        BY <1>5, <2>1, <3>1
    <2>2. ASSUME NEW r \in ranges, NEW s \in ranges, r # s, Intersect(r, s)
          PROVE  \E i, j \in 1..Len(sorted) : i < j /\ Intersect(sorted[i], sorted[j])
      <3>1. PICK i \in 1..Len(sorted) : sorted[i] = r
        BY <1>5
      <3>2. PICK j \in 1..Len(sorted) : sorted[j] = s
        BY <1>5
      <3>3. i < j \/ j < i
        BY <2>2, <3>1, <3>2
      <3> QED
        BY <1>4, <2>2, <3>1, <3>2, <3>3
    <2> QED
      BY <1>6, <2>1, <2>2
  <1>8. ASSUME NEW i \in DOMAIN batch, NEW j \in DOMAIN batch, i # j,
               Replaces(batch[i]), Replaces(batch[j]),
               Intersect(batch[i].targetRange, batch[j].targetRange)
        PROVE  \E r, s \in ranges : r # s /\ Intersect(r, s)
    <2>1. range(i) \in ranges /\ range(j) \in ranges
      BY <1>2, <1>8
    <2>2. range(i) # range(j)
      BY <1>8
    <2>3. Intersect(range(i), range(j))
      BY <1>3, <1>8
    <2> QED
      BY <2>1, <2>2, <2>3
  <1>9. ASSUME NEW r \in ranges, NEW s \in ranges, r # s, Intersect(r, s)
        PROVE  \E i, j \in DOMAIN batch :
                   /\ i # j /\ Replaces(batch[i]) /\ Replaces(batch[j])
                   /\ Intersect(batch[i].targetRange, batch[j].targetRange)
    <2>1. PICK i \in DOMAIN batch : Replaces(batch[i]) /\ r = range(i)
      BY <1>2
    <2>2. PICK j \in DOMAIN batch : Replaces(batch[j]) /\ s = range(j)
      BY <1>2
    <2>3. i # j
      BY <1>9, <2>1, <2>2
    <2>4. Intersect(batch[i].targetRange, batch[j].targetRange)
      BY <1>3, <1>9, <2>1, <2>2
    <2> QED
      BY <2>1, <2>2, <2>3, <2>4
  <1> QED
    BY <1>7, <1>8, <1>9 DEF sorted

-----------------------------------------------------------------------------
(* The batch as a whole.                                                    *)

(* A set of naturals has a least element, by the well-foundedness of < .     *)
LEMMA LeastNatural ==
    ASSUME NEW S \in SUBSET Nat, S # {}
    PROVE  Min(S) \in S
  <1> DEFINE less == {ss \in Nat \X Nat : ss[1] < ss[2]}
  <1>1. IsWellFoundedOn(less, Nat)
    BY NatLessThanWellFounded DEF OpToRel
  <1> HIDE DEF less
  <1>2. PICK n \in S : \A m \in S : ~(<<m, n>> \in less)
    BY <1>1, WFMin
  <1>3. \A m \in S : ~(m < n)
    BY <1>2 DEF less
  <1>4. \A m \in S : n <= m
    BY <1>3
  <1> QED
    BY <1>4 DEF Min

LEMMA BatchErrorCases ==
    ASSUME NEW batch \in Seq(Proposal)
    PROVE  /\ BatchError(batch) = "OK" =>
                  /\ \A i \in DOMAIN batch : ProposalError(batch[i]) = "OK"
                  /\ ~AdjacentOverlap(SortedRanges(batch))
           /\ BatchError(batch) = "OVERLAPPING_ACTION_TARGETS" =>
                  /\ \A i \in DOMAIN batch : ProposalError(batch[i]) = "OK"
                  /\ AdjacentOverlap(SortedRanges(batch))
  <1> DEFINE wrong == {i \in DOMAIN batch : ProposalError(batch[i]) # "OK"}
  <1>1. \A proposal : ProposalError(proposal) # "OVERLAPPING_ACTION_TARGETS"
    BY DEF ProposalError
  <1>2. CASE wrong # {}
    <2>1. Min(wrong) \in wrong
      <3>1. wrong \in SUBSET Nat
        OBVIOUS
      <3> HIDE DEF wrong
      <3> QED
        BY <1>2, <3>1, LeastNatural
    <2>2. BatchError(batch) = ProposalError(batch[Min(wrong)])
      BY <1>2 DEF BatchError
    <2> QED
      BY <1>1, <2>1, <2>2
  <1>3. CASE wrong = {}
    <2>1. BatchError(batch) = IF AdjacentOverlap(SortedRanges(batch))
                                THEN "OVERLAPPING_ACTION_TARGETS" ELSE "OK"
      BY <1>3 DEF BatchError
    <2> QED
      BY <1>3, <2>1
  <1> QED
    BY <1>2, <1>3

(* An accepted batch is well-formed throughout, and of any two ranges it     *)
(* replaces one ends before the other starts.                               *)
THEOREM AcceptedBatchIsSafe ==
    ASSUME NEW batch \in Seq(Proposal), BatchError(batch) = "OK"
    PROVE  /\ \A i \in DOMAIN batch : ProposalError(batch[i]) = "OK"
           /\ \A i, j \in DOMAIN batch :
                  i # j /\ Replaces(batch[i]) /\ Replaces(batch[j]) =>
                      \/ batch[i].targetRange.end <= batch[j].targetRange.start
                      \/ batch[j].targetRange.end <= batch[i].targetRange.start
  <1>1. \A i \in DOMAIN batch : ProposalError(batch[i]) = "OK"
    BY BatchErrorCases
  <1>2. ASSUME NEW i \in DOMAIN batch, NEW j \in DOMAIN batch, i # j,
               Replaces(batch[i]), Replaces(batch[j])
        PROVE  \/ batch[i].targetRange.end <= batch[j].targetRange.start
               \/ batch[j].targetRange.end <= batch[i].targetRange.start
    <2> DEFINE r == batch[i].targetRange
               s == batch[j].targetRange
    <2>1. ~Intersect(r, s)
      BY <1>1, <1>2, BatchErrorCases, OverlapCheckIsExact
    <2>2. /\ batch[i] \in Proposal /\ ProposalError(batch[i]) = "OK"
          /\ batch[j] \in Proposal /\ ProposalError(batch[j]) = "OK"
      BY <1>1
    <2>3. /\ r.start \in Nat /\ r.end \in Nat /\ r.start < r.end
          /\ s.start \in Nat /\ s.end \in Nat /\ s.start < s.end
      BY <1>2, <2>2 DEF Replaces, Proposal, TextRange, ProposalError, IsValidTargetRange
    <2> HIDE DEF r, s
    <2>4. CASE r.start <= s.start
      <3>1. ~(/\ r.start <= s.start /\ s.start < r.end
              /\ s.start <= s.start /\ s.start < s.end)
        BY <2>1, <2>3 DEF Intersect
      <3> QED
        BY <2>3, <2>4, <3>1 DEF r, s
    <2>5. CASE s.start <= r.start
      <3>1. ~(/\ r.start <= r.start /\ r.start < r.end
              /\ s.start <= r.start /\ r.start < s.end)
        BY <2>1, <2>3 DEF Intersect
      <3> QED
        BY <2>3, <2>5, <3>1 DEF r, s
    <2> QED
      BY <2>3, <2>4, <2>5 DEF r, s
  <1> QED
    BY <1>1, <1>2

=============================================================================
