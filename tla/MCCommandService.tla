------------------------- MODULE MCCommandService -------------------------
(* A command without defect, one for each thing that may be wrong, and      *)
(* batches that are empty, fine, overlapping, or turned down late, for a    *)
(* blank hash or for a target that is no plain dict.                        *)
EXTENDS CommandService

CONSTANTS c1, c2

MCCommands == {c1, c2}

Platform(quota, audit) == [source |-> "platform", secret |-> FALSE,
                           quota |-> quota, audit |-> audit]
Own(secret) == [source |-> "byo", secret |-> secret, quota |-> "missing", audit |-> "missing"]

Good == [policy |-> "ALLOW", provider |-> TRUE, context |-> "authorized", resource |-> TRUE,
         prompt |-> TRUE, access |-> Platform("allow", "recorded")]

MCInputs ==
    {Good,
     [Good EXCEPT !.policy = "DENY"], [Good EXCEPT !.policy = "raises"],
     [Good EXCEPT !.provider = FALSE], [Good EXCEPT !.prompt = FALSE],
     [Good EXCEPT !.context = "unauthorized"], [Good EXCEPT !.context = "raises"],
     [Good EXCEPT !.resource = FALSE]}
    \cup {[Good EXCEPT !.access = access] :
             access \in {Platform("deny", "recorded"), Platform("missing", "recorded"),
                         Platform("allow", "missing"), Own(TRUE), Own(FALSE)}}

Of(type, start, end) ==
    [isObject |-> TRUE, actionType |-> type,
     targetRange |-> [start |-> start, end |-> end, mapping |-> "dict"],
     targetAnchor |-> "none", originalTextHash |-> "text", resourceRevision |-> "none"]

Apart    == <<Of("replace_text", 2, 3), Of("replace_text", 0, 2)>>
Overlap  == <<Of("replace_text", 1, 3), Of("insert_text", 0, 1), Of("replace_text", 0, 2)>>
Unhashed == <<Of("replace_text", 0, 1),
              [Of("replace_text", 1, 2) EXCEPT !.originalTextHash = "none"]>>
Late     == <<Of("replace_text", 0, 1),
              [Of("insert_text", 1, 2) EXCEPT !.originalTextHash = "blank"]>>
Foreign  == <<Of("replace_text", 0, 1),
              [Of("replace_text", 1, 2) EXCEPT !.targetRange.mapping = "other"]>>

(* The second command publishes two events between the first one's steps:   *)
(* its context is refused.                                                  *)
MCInput     == c1 :> MCInputs @@ c2 :> {[Good EXCEPT !.context = "unauthorized"]}
MCBatches   == c1 :> {<<>>, Apart, Overlap, Unhashed, Late, Foreign} @@ c2 :> {<<>>}
MCMaxStream == c1 :> 3 @@ c2 :> 0

=============================================================================
