-------------------------- MODULE MCProposalBatch --------------------------
(* Every batch of up to MaxProposals proposals, one longer at each step: all *)
(* the replacements within MaxOffset, insertions that overlap them, anchors, *)
(* targets that are no plain dicts, and a proposal for each way of being     *)
(* malformed.                                                               *)
EXTENDS ProposalBatch

CONSTANTS
    MaxProposals,  \* bound: the longest batch
    MaxOffset      \* bound: the largest text offset of a well-formed proposal

ASSUME OffsetAssumption == MaxOffset \in Nat

VARIABLE batch

Proposed(type, range, anchor, hash, revision) ==
    [isObject |-> TRUE, actionType |-> type, targetRange |-> range, targetAnchor |-> anchor,
     originalTextHash |-> hash, resourceRevision |-> revision]

Over(start, end, mapping)  == [start |-> start, end |-> end, mapping |-> mapping]
Plain(start, end)          == Over(start, end, "dict")

Replacement(start, end) == Proposed("replace_text", Plain(start, end), "none", "text", "none")
Insertion(start, end)   == Proposed("insert_text", Plain(start, end), "none", "text", "none")

Ranges == {r \in (0..MaxOffset) \X (0..MaxOffset) : r[1] < r[2]}

Wellformed ==
    {Replacement(r[1], r[2]) : r \in Ranges}
    \cup {Insertion(0, 1), Insertion(0, MaxOffset),
          Proposed("replace_text", NoRange, "dict", "text", "none"),
          Proposed("insert_text", Plain(1, 2), "none", "none", "none")}

(* Accepted with the batch; only an anchor that is a dict saves the action.  *)
Foreign ==
    {Proposed("insert_text", NoRange, "other", "text", "none"),
     Proposed("replace_text", Over(0, 1, "other"), "none", "text", "none"),
     Proposed("replace_text", Over(0, 1, "other"), "dict", "text", "none")}

NoObject == [isObject |-> FALSE, actionType |-> "replace_text", targetRange |-> NoRange,
             targetAnchor |-> "none", originalTextHash |-> "none", resourceRevision |-> "none"]

Malformed ==
    {NoObject, Replacement(1, 1), Replacement(-1, 1),
     Proposed("rewrite_document", Plain(0, 1), "none", "text", "none"),
     Proposed("replace_text", NoRange, "none", "text", "none"),
     Proposed("replace_text", Plain(0, 1), "malformed", "text", "none"),
     Proposed("replace_text", Plain(0, 1), "none", "none", "none"),
     Proposed("replace_text", Plain(0, 1), "none", "blank", "none"),
     Proposed("insert_text", Plain(0, 1), "none", "blank", "none"),
     Proposed("insert_text", Plain(0, 1), "none", "text", "blank")}

Init == batch = <<>>

Extend(proposal) ==
    /\ Len(batch) < MaxProposals
    /\ batch' = Append(batch, proposal)

Next == \E proposal \in Wellformed \cup Foreign \cup Malformed : Extend(proposal)

Spec == Init /\ [][Next]_batch

-----------------------------------------------------------------------------
Characters(range) == range.start .. range.end - 1

Conflict(i, j) ==
    /\ Replaces(batch[i]) /\ Replaces(batch[j])
    /\ Characters(batch[i].targetRange) \cap Characters(batch[j].targetRange) # {}

(* An accepted batch never replaces a character twice, in whatever order    *)
(* the provider lists its ranges (command_service.py:494).                  *)
AcceptedIsDisjoint ==
    BatchError(batch) = "OK" =>
        \A i, j \in DOMAIN batch : i # j => ~Conflict(i, j)

(* A batch is turned down as overlapping only when two proposals do replace *)
(* a character in common: ranges that touch are fine                        *)
(* (command_service.py:504).                                                *)
OverlapIsReal ==
    BatchError(batch) = "OVERLAPPING_ACTION_TARGETS" =>
        \E i, j \in DOMAIN batch : i # j /\ Conflict(i, j)

(* Where the two validations differ: of an accepted batch the action service *)
(* turns down the proposals with a blank hash or revision, of the others    *)
(* those with no target that is a plain dict, and none besides              *)
(* (command_service.py:439, action_service.py:69-95).                       *)
LateRejectionIsExplained ==
    BatchError(batch) = "OK" =>
        \A i \in DOMAIN batch :
            LET proposal == batch[i]
                blank == "blank" \in {proposal.originalTextHash, proposal.resourceRevision}
                plain == \/ proposal.targetAnchor = "dict"
                         \/ /\ proposal.targetRange # NoRange
                            /\ proposal.targetRange.mapping = "dict"
            IN  /\ ActionError(proposal) = "INVALID_FIELD" <=> blank
                /\ ActionError(proposal) = "INVALID_ACTION_TARGET" <=> ~blank /\ ~plain
                /\ ActionError(proposal) = "OK" <=> ~blank /\ plain

=============================================================================
