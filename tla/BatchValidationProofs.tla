----------------------- MODULE BatchValidationProofs -----------------------
(***************************************************************************)
(* The properties of the run `batch`, for batches of any length over any   *)
(* offsets: each follows from the theorems about the two validations.      *)
(***************************************************************************)
EXTENDS MCProposalBatch, ProposalBatchProofs

LEMMA BatchIsTyped == Spec => [](batch \in Seq(Proposal))
  <1>1. Wellformed \cup Foreign \cup Malformed \subseteq Proposal
    <2>1. Wellformed \subseteq Proposal
      <3>1. MaxOffset \in Int /\ \A r \in Ranges : r[1] \in Int /\ r[2] \in Int
        BY OffsetAssumption DEF Ranges
      <3>2. \A start, end \in Int :
                Replacement(start, end) \in Proposal /\ Insertion(start, end) \in Proposal
        BY DEF Replacement, Insertion, Proposed, Plain, Over, Proposal, TextRange, Mappings,
               Anchors, Texts, SupportedActionTypes
      <3>3. {Replacement(r[1], r[2]) : r \in Ranges} \subseteq Proposal
        BY <3>1, <3>2
      <3>4. {Insertion(0, 1), Insertion(0, MaxOffset)} \subseteq Proposal
        BY <3>1, <3>2
      <3>5. /\ Proposed("replace_text", NoRange, "dict", "text", "none") \in Proposal
            /\ Proposed("insert_text", Plain(1, 2), "none", "none", "none") \in Proposal
        BY DEF Proposed, Plain, Over, Proposal, TextRange, Mappings, Anchors, Texts,
               SupportedActionTypes
      <3> QED
        BY <3>3, <3>4, <3>5 DEF Wellformed
    <2>2. Foreign \subseteq Proposal
      BY DEF Proposed, Over, Proposal, TextRange, Mappings, Anchors, Texts,
             SupportedActionTypes, Foreign
    <2>3. NoObject \in Proposal
      BY DEF Proposal, Anchors, Texts, SupportedActionTypes, NoObject
    <2>4. Malformed \subseteq Proposal
      BY <2>3
      DEF Proposed, Plain, Over, Proposal, TextRange, Mappings, Anchors, Texts,
          SupportedActionTypes, Malformed, Replacement
    <2> QED
      BY <2>1, <2>2, <2>4
  <1>2. Init => batch \in Seq(Proposal)
    BY DEF Init
  <1>3. batch \in Seq(Proposal) /\ [Next]_batch => (batch \in Seq(Proposal))'
    BY <1>1 DEF Next, Extend
  <1> QED
    BY <1>2, <1>3, PTL DEF Spec

LEMMA ConflictIsIntersection ==
    ASSUME batch \in Seq(Proposal), \A i \in DOMAIN batch : ProposalError(batch[i]) = "OK",
           NEW i \in DOMAIN batch, NEW j \in DOMAIN batch
    PROVE  Conflict(i, j) <=> /\ Replaces(batch[i]) /\ Replaces(batch[j])
                              /\ Intersect(batch[i].targetRange, batch[j].targetRange)
  <1> SUFFICES ASSUME Replaces(batch[i]), Replaces(batch[j])
               PROVE  Characters(batch[i].targetRange) \cap Characters(batch[j].targetRange) # {}
                          <=> Intersect(batch[i].targetRange, batch[j].targetRange)
    BY DEF Conflict
  <1> DEFINE r == batch[i].targetRange
             s == batch[j].targetRange
  <1>1. /\ batch[i] \in Proposal /\ ProposalError(batch[i]) = "OK"
        /\ batch[j] \in Proposal /\ ProposalError(batch[j]) = "OK"
    OBVIOUS
  <1>2. r.start \in Nat /\ r.end \in Nat /\ s.start \in Nat /\ s.end \in Nat
    BY <1>1 DEF Replaces, Proposal, TextRange, ProposalError, IsValidTargetRange
  <1> HIDE DEF r, s
  <1>3. \A offset : /\ offset \in Characters(r) <=>
                          offset \in Nat /\ r.start <= offset /\ offset < r.end
                    /\ offset \in Characters(s) <=>
                          offset \in Nat /\ s.start <= offset /\ offset < s.end
    BY <1>2 DEF Characters
  <1>4. Characters(r) \cap Characters(s) # {} <=> Intersect(r, s)
    BY <1>3 DEF Intersect
  <1> QED
    BY <1>4 DEF r, s

(* An accepted batch replaces no character twice, in whatever order its      *)
(* ranges are listed (normalize_provider_proposal_batch).                   *)
THEOREM AcceptedBatchesAreDisjoint == Spec => []AcceptedIsDisjoint
  <1>1. batch \in Seq(Proposal) => AcceptedIsDisjoint
    BY BatchErrorCases, OverlapCheckIsExact, ConflictIsIntersection DEF AcceptedIsDisjoint
  <1> QED
    BY <1>1, BatchIsTyped, PTL

(* A batch is turned down as overlapping only when two of its proposals do   *)
(* replace a character in common (reject_overlapping_replace_ranges).       *)
THEOREM OverlapsAreReal == Spec => []OverlapIsReal
  <1>1. batch \in Seq(Proposal) => OverlapIsReal
    BY BatchErrorCases, OverlapCheckIsExact, ConflictIsIntersection DEF OverlapIsReal
  <1> QED
    BY <1>1, BatchIsTyped, PTL

(* The action of a proposal that the batch validation passed: a bad target   *)
(* can only be one that is no plain dict, and a bad type cannot be.         *)
LEMMA ActionErrorOfPassed ==
    ASSUME NEW proposal \in Proposal, ProposalError(proposal) = "OK"
    PROVE  LET blank == "blank" \in {proposal.originalTextHash, proposal.resourceRevision}
               plain == \/ proposal.targetAnchor = "dict"
                        \/ /\ proposal.targetRange # NoRange
                           /\ proposal.targetRange.mapping = "dict"
           IN  /\ ActionError(proposal) = "INVALID_FIELD" <=> blank
               /\ ActionError(proposal) = "INVALID_ACTION_TARGET" <=> ~blank /\ ~plain
               /\ ActionError(proposal) = "OK" <=> ~blank /\ plain
  <1>1. proposal.actionType \in SupportedActionTypes
    BY DEF ProposalError
  <1>2. proposal.targetRange # NoRange =>
            /\ proposal.targetRange.start >= 0
            /\ proposal.targetRange.end > proposal.targetRange.start
    BY DEF ProposalError, IsValidTargetRange
  <1>3. HasActionTarget(proposal) <=>
            \/ proposal.targetAnchor = "dict"
            \/ proposal.targetRange # NoRange /\ proposal.targetRange.mapping = "dict"
    BY <1>2 DEF HasActionTarget, IsValidActionRange, IsValidActionAnchor
  <1> QED
    BY <1>1, <1>3 DEF ActionError

(* Of an accepted batch, create_proposed_action turns down exactly the       *)
(* proposals with a blank hash or revision and those without a plain dict   *)
(* for a target.                                                            *)
THEOREM LateRejectionsAreExplained == Spec => []LateRejectionIsExplained
  <1>1. ASSUME batch \in Seq(Proposal), BatchError(batch) = "OK", NEW i \in DOMAIN batch
        PROVE  batch[i] \in Proposal /\ ProposalError(batch[i]) = "OK"
    BY <1>1, BatchErrorCases
  <1>2. batch \in Seq(Proposal) => LateRejectionIsExplained
    BY <1>1, ActionErrorOfPassed DEF LateRejectionIsExplained
  <1> QED
    BY <1>2, BatchIsTyped, PTL

=============================================================================
