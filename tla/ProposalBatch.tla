--------------------------- MODULE ProposalBatch ---------------------------
(***************************************************************************)
(* The validation of a provider's proposal batch before any of its         *)
(* proposals is stored (normalize_provider_proposal_batch in                *)
(* command_service.py), and the validation that the action service repeats *)
(* for each action it is then asked to create.  A batch is a sequence of   *)
(* proposals; a proposal keeps only what the two validations look at.      *)
(***************************************************************************)
EXTENDS Integers, SequencesExt

CONSTANT NoRange  \* the absent targetRange

SupportedActionTypes == {"insert_text", "replace_text"}

(* A mapping that a provider built is a plain dict or one of another type.   *)
Mappings == {"dict", "other"}

(* A range that is no mapping, or whose bounds are no integers, is rejected  *)
(* by both validations like one with end <= start, which stands for it.     *)
TextRange == [start : Int, end : Int, mapping : Mappings]

(* An anchor is absent, a mapping with a non-blank text in it, or neither.   *)
Anchors == {"none", "malformed"} \cup Mappings

(* A text is absent or empty ("none"), not a non-blank string ("blank"), or  *)
(* a proper one ("text").                                                   *)
Texts == {"none", "blank", "text"}

(* Of a proposal that is no object the other fields mean nothing.            *)
Proposal == [isObject         : BOOLEAN,
             actionType       : SupportedActionTypes \cup {"rewrite_document"},
             targetRange      : TextRange \cup {NoRange},
             targetAnchor     : Anchors,
             originalTextHash : Texts,
             resourceRevision : Texts]

-----------------------------------------------------------------------------
(* What command_service.py calls a valid target: any mapping will do.        *)
IsValidTargetRange(range)   == range.start >= 0 /\ range.end > range.start
IsValidTargetAnchor(anchor) == anchor \in Mappings

(* normalize_provider_proposal: the error it raises, "OK" when none.        *)
ProposalError(proposal) ==
    IF ~proposal.isObject
      THEN "INVALID_FIELD"
    ELSE IF proposal.actionType \notin SupportedActionTypes
      THEN "UNSUPPORTED_ACTION_TYPE"
    ELSE IF \/ proposal.targetRange # NoRange /\ ~IsValidTargetRange(proposal.targetRange)
            \/ proposal.targetAnchor # "none" /\ ~IsValidTargetAnchor(proposal.targetAnchor)
            \/ proposal.targetRange = NoRange /\ proposal.targetAnchor = "none"
      THEN "INVALID_ACTION_TARGET"
    ELSE IF proposal.actionType = "replace_text" /\ proposal.originalTextHash # "text"
      THEN "INVALID_FIELD"
    ELSE "OK"

Replaces(proposal) == proposal.actionType = "replace_text" /\ proposal.targetRange # NoRange

(* The (start, end, index) triples of the proposals that replace a range.   *)
ReplaceRanges(batch) ==
    {[start |-> batch[i].targetRange.start, end |-> batch[i].targetRange.end, index |-> i] :
        i \in {j \in DOMAIN batch : Replaces(batch[j])}}

(* The order of tuples.                                                     *)
Precedes(r, s) ==
    \/ r.start < s.start
    \/ r.start = s.start /\ r.end < s.end
    \/ r.start = s.start /\ r.end = s.end /\ r.index < s.index

(* Mutated form: the ranges stay in the order the provider listed them.     *)
UnsortedRanges(batch) ==
    SetToSortSeq(ReplaceRanges(batch), LAMBDA r, s : r.index < s.index)

(* How many ranges precede one.                                             *)
Rank(range, ranges) == Cardinality({other \in ranges : Precedes(other, range)})

(* sorted: the i-th range is the one that i - 1 others precede.             *)
SortedRanges(batch) ==
    LET ranges == ReplaceRanges(batch)
    IN  [i \in 1..Cardinality(ranges) |-> CHOOSE r \in ranges : Rank(r, ranges) = i - 1]

(* Mutated form: the last range is compared with nothing.                   *)
AdjacentOverlapButLast(ranges) ==
    \E i \in 1..Len(ranges) - 2 : ranges[i + 1].start < ranges[i].end

(* reject_overlapping_replace_ranges compares neighbours only.              *)
AdjacentOverlap(ranges) ==
    \E i \in 1..Len(ranges) - 1 : ranges[i + 1].start < ranges[i].end

(* Mutated form: only the first proposal is validated.                      *)
FirstProposalError(batch) ==
    IF batch # <<>> /\ ProposalError(batch[1]) # "OK" THEN ProposalError(batch[1])
    ELSE IF AdjacentOverlap(SortedRanges(batch)) THEN "OVERLAPPING_ACTION_TARGETS"
    ELSE "OK"

(* The error of the first proposal that has one, then the overlap check.    *)
BatchError(batch) ==
    LET wrong == {i \in DOMAIN batch : ProposalError(batch[i]) # "OK"}
    IN  IF wrong # {} THEN ProposalError(batch[Min(wrong)])
        ELSE IF AdjacentOverlap(SortedRanges(batch)) THEN "OVERLAPPING_ACTION_TARGETS"
        ELSE "OK"

(* What action_service.py calls a valid target: it has to be a plain dict.   *)
IsValidActionRange(range) ==
    range.mapping = "dict" /\ range.start >= 0 /\ range.end > range.start
IsValidActionAnchor(anchor) == anchor = "dict"

(* require_action_target takes one of the two, whatever the other is.        *)
HasActionTarget(proposal) ==
    \/ IsValidActionAnchor(proposal.targetAnchor)
    \/ proposal.targetRange # NoRange /\ IsValidActionRange(proposal.targetRange)

(* What create_proposed_action in action_service.py raises for the action   *)
(* that a normalized proposal becomes.  Normalization has filled in an      *)
(* absent hash and an absent revision; a blank one it has passed on.        *)
ActionError(proposal) ==
    IF proposal.resourceRevision = "blank" \/ proposal.originalTextHash = "blank"
      THEN "INVALID_FIELD"
    ELSE IF proposal.actionType \notin SupportedActionTypes
      THEN "UNSUPPORTED_ACTION_TYPE"
    ELSE IF ~HasActionTarget(proposal)
      THEN "INVALID_ACTION_TARGET"
    ELSE "OK"

=============================================================================
