--------------------------- MODULE CommandStream ---------------------------
(***************************************************************************)
(* What the session of an assistant command sees of it: the progress up to *)
(* the generation, the response, the creation of actions, and at any point *)
(* after the first an error, which is the end.  CommandService implements  *)
(* this specification.                                                     *)
(***************************************************************************)
CONSTANT Commands

VARIABLES
    said,    \* the last event of each command
    answer   \* what the command's own response says

vars == <<said, answer>>

Init ==
    /\ said = [c \in Commands |-> "nothing"]
    /\ answer = [c \in Commands |-> "NONE"]

Response == {"assistant.delta", "assistant.final"}

(* What may be said after what.                                             *)
Follows(event, last) ==
    \/ event = "context.loading" /\ last = "nothing"
    \/ event = "provider.generating" /\ last = "context.loading"
    \/ event \in Response /\ last \in {"provider.generating"} \cup Response
    \/ event = "action.creating" /\ last \in Response
    \/ event = "error" /\ last \in {"context.loading", "provider.generating",
                                    "action.creating"} \cup Response

Say(c, event) ==
    /\ answer[c] = "NONE"
    /\ Follows(event, said[c])
    /\ said' = [said EXCEPT ![c] = event]

(* A command answers with its last event or after it.  It succeeds after a  *)
(* response or the creation of actions, and fails at any time, but with an  *)
(* error said it can only have failed.                                      *)
Conclude(c) ==
    /\ answer[c] = "NONE"
    /\ \/ /\ answer' = [answer EXCEPT ![c] = "OK"]
          /\ said[c] \in {"action.creating"} \cup Response
          /\ UNCHANGED said
       \/ /\ answer' = [answer EXCEPT ![c] = "FAILED"]
          /\ UNCHANGED said

SayAndGoOn(c) ==
    \E event \in {"context.loading", "provider.generating", "action.creating"} \cup Response :
        Say(c, event) /\ UNCHANGED answer

SayAndFail(c) ==
    \E event \in {"context.loading", "provider.generating", "action.creating", "error"}
                     \cup Response :
        Say(c, event) /\ answer' = [answer EXCEPT ![c] = "FAILED"]

Next == \E c \in Commands : SayAndGoOn(c) \/ SayAndFail(c) \/ Conclude(c)

Spec == Init /\ [][Next]_vars

=============================================================================
