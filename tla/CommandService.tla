--------------------------- MODULE CommandService ---------------------------
(***************************************************************************)
(* CommandService.run_assistant_command: one assistant command through     *)
(* policy, context, prompt, provider access, the provider's stream and the *)
(* creation of the proposed actions, with the session events it publishes  *)
(* on the way.  Commands run concurrently, each in a request thread of its *)
(* own; what they share is the service's event counter.  What policy,      *)
(* context, prompt and access answer to a command is fixed in its input;   *)
(* which publication, stream or creation fails is not.  An error that a    *)
(* dependency raises with a code of its own has here the code that the     *)
(* service would give it, but for EVENT_PUBLISH_FAILED of a provider.      *)
(***************************************************************************)
EXTENDS ProposalBatch

CONSTANTS
    Commands,   \* command requests, each run once
    Inputs,     \* of each command: what it asks and what its dependencies answer
    Batches,    \* of each: the proposal batches of its assistant.final events
    MaxStream   \* bound, of each: provider events of its stream

(* providerAccess: a reference to the user's secret, or the decisions taken *)
(* on the platform's.                                                       *)
Access == [source : {"platform", "byo"},
           secret : BOOLEAN,
           quota  : {"allow", "deny", "missing"},
           audit  : {"recorded", "missing"}]

Input == [policy   : {"ALLOW", "DENY", "raises"},
          provider : BOOLEAN,    \* the registry knows it
          context  : {"authorized", "unauthorized", "raises"},
          resource : BOOLEAN,    \* resourceRef and resourceRevision resolve
          prompt   : BOOLEAN,    \* build_prompt returns
          access   : Access]

ASSUME InputsAssumption == Inputs \in [Commands -> SUBSET Input]
ASSUME StreamAssumption ==
    /\ MaxStream \in [Commands -> Nat]
    /\ DOMAIN Batches = Commands
    /\ \A c \in Commands : Batches[c] \subseteq Seq(Proposal)

VARIABLES
    actionService, \* whether the constructor was given one; it stays so
    pc,            \* where each command is
    input,         \* its input
    pending,       \* the event it publishes and what follows
    final,         \* the batch of the last assistant.final, NoFinal before it
    received,      \* external: provider events of its stream so far
    created,       \* actions the action service stored for it
    answer,        \* what it returned or raised
    stream,        \* external: the events the session has got from it
    counter        \* _event_sequence, one for all commands

vars == <<actionService, pc, input, pending, final, received, created, answer, stream, counter>>

-----------------------------------------------------------------------------
NoInput == [policy |-> "none"]
NoFinal == [none |-> TRUE]
Final(batch) == [proposals |-> batch]

EventTypes == {"context.loading", "provider.generating", "assistant.delta",
               "assistant.final", "action.creating", "error"}
Labels == {"idle", "context", "prompt", "stream", "create", "count", "publish", "done"}
Codes == {"NONE", "OK", "POLICY_BLOCKED", "PROVIDER_UNSUPPORTED", "CONTEXT_UNAVAILABLE",
          "INVALID_FIELD", "PROVIDER_ACCESS_QUOTA_DENIED", "PROVIDER_ACCESS_QUOTA_NOT_READY",
          "PROVIDER_ACCESS_AUDIT_NOT_READY", "PROVIDER_STREAM_FAILED", "EVENT_PUBLISH_FAILED",
          "UNSUPPORTED_ACTION_TYPE", "INVALID_ACTION_TARGET", "OVERLAPPING_ACTION_TARGETS",
          "CREATION_FAILED", "INTERNAL"}

Pending == [type : EventTypes, next : Labels, code : Codes]
NoPending == [type |-> "none", next |-> "idle", code |-> "NONE"]

TypeOK ==
    /\ actionService \in BOOLEAN
    /\ pc \in [Commands -> Labels]
    /\ DOMAIN input = Commands /\ DOMAIN final = Commands /\ received \in [Commands -> Nat]
    /\ \A c \in Commands : input[c] \in Inputs[c] \cup {NoInput}
    /\ pending \in [Commands -> Pending \cup {NoPending}]
    /\ \A c \in Commands : final[c] \in {NoFinal} \cup {Final(batch) : batch \in Batches[c]}
    /\ \A c \in Commands : received[c] <= MaxStream[c]
    /\ created \in [Commands -> Nat]
    /\ answer \in [Commands -> Codes]
    /\ stream \in [Commands -> Seq([type : EventTypes, sequence : Nat])]
    /\ counter \in Nat

Init ==
    /\ actionService \in BOOLEAN
    /\ pc = [c \in Commands |-> "idle"]
    /\ input = [c \in Commands |-> NoInput]
    /\ pending = [c \in Commands |-> NoPending]
    /\ final = [c \in Commands |-> NoFinal]
    /\ received = [c \in Commands |-> 0]
    /\ created = [c \in Commands |-> 0]
    /\ answer = [c \in Commands |-> "NONE"]
    /\ stream = [c \in Commands |-> <<>>]
    /\ counter = 0

-----------------------------------------------------------------------------
(* How a step of a command leaves: with an answer, or by publishing an      *)
(* event and going on at `next`, or answering `code` if that is "done".     *)
(* Mutated form: the return is missing.                                     *)
AnswerNothing(c, code) ==
    /\ pc' = [pc EXCEPT ![c] = "done"]
    /\ answer' = [answer EXCEPT ![c] = "None"]
    /\ UNCHANGED pending

Answer(c, code) ==
    /\ pc' = [pc EXCEPT ![c] = "done"]
    /\ answer' = [answer EXCEPT ![c] = code]
    /\ UNCHANGED pending

Publish(c, type, next, code) ==
    /\ pc' = [pc EXCEPT ![c] = "count"]
    /\ pending' = [pending EXCEPT ![c] = [type |-> type, next |-> next, code |-> code]]
    /\ UNCHANGED answer

Progress(c, stage, next) == Publish(c, stage, next, "NONE")

(* Mutated forms: the error is raised but not published, or published but    *)
(* not raised.                                                              *)
FailSilently(c, code) == Answer(c, code)
FailAndGoOn(c, code) == Publish(c, "error", "stream", "NONE")

(* _publish_error, then the error is raised.                                *)
Fail(c, code) == Publish(c, "error", "done", code)

(* Mutated form: errors are not counted.                                    *)
CountProgressOnly(c) ==
    /\ pc[c] = "count"
    /\ counter' = IF pending[c].type = "error" THEN counter ELSE counter + 1
    /\ pc' = [pc EXCEPT ![c] = "publish"]
    /\ UNCHANGED <<actionService, input, pending, final, received, created, answer, stream>>

(* _session_event counts the event (first step: CPython does not switch     *)
(* threads inside the +=); the number it puts on the event is read after    *)
(* the event id was generated (second step), and may by then be another     *)
(* thread's.                                                                *)
CountEvent(c) ==
    /\ pc[c] = "count"
    /\ counter' = counter + 1
    /\ pc' = [pc EXCEPT ![c] = "publish"]
    /\ UNCHANGED <<actionService, input, pending, final, received, created, answer, stream>>

(* The publisher delivers the event, or raises and may have delivered it:   *)
(* EVENT_PUBLISH_FAILED ends the command wherever it was.                   *)
PublishEvent(c) ==
    LET event == [type |-> pending[c].type, sequence |-> counter]
        Deliver == stream' = [stream EXCEPT ![c] = Append(@, event)]
        Finish(label, code) ==
            /\ pc' = [pc EXCEPT ![c] = label]
            /\ answer' = [answer EXCEPT ![c] = code]
    IN  /\ pc[c] = "publish"
        /\ \/ Deliver /\ Finish(pending[c].next, pending[c].code)
           \/ Deliver /\ Finish("done", "EVENT_PUBLISH_FAILED")
           \/ Finish("done", "EVENT_PUBLISH_FAILED") /\ UNCHANGED stream
        /\ pending' = [pending EXCEPT ![c] = NoPending]
        /\ UNCHANGED <<actionService, input, final, received, created, counter>>

-----------------------------------------------------------------------------
RunAssistantCommand(c, i) ==
    /\ pc[c] = "idle"
    /\ input' = [input EXCEPT ![c] = i]
    /\ \/ i.policy = "raises" /\ Answer(c, "INTERNAL")
       \/ i.policy = "DENY" /\ Answer(c, "POLICY_BLOCKED")
       \/ i.policy = "ALLOW" /\ ~i.provider /\ Answer(c, "PROVIDER_UNSUPPORTED")
       \/ i.policy = "ALLOW" /\ i.provider /\ Progress(c, "context.loading", "context")
    /\ UNCHANGED <<actionService, final, received, created, stream, counter>>

ResolveContext(c) ==
    /\ pc[c] = "context"
    /\ \/ /\ input[c].context = "authorized"
          /\ Progress(c, "provider.generating", "prompt")
       \/ /\ input[c].context # "authorized"
          /\ Fail(c, "CONTEXT_UNAVAILABLE")
    /\ UNCHANGED <<actionService, input, final, received, created, stream, counter>>

(* Mutated form: the audit decision is not looked at.                       *)
AccessErrorWithoutAudit(access) ==
    IF access.source = "byo" THEN IF access.secret THEN "OK" ELSE "INVALID_FIELD"
    ELSE IF access.quota = "deny" THEN "PROVIDER_ACCESS_QUOTA_DENIED"
    ELSE IF access.quota = "missing" THEN "PROVIDER_ACCESS_QUOTA_NOT_READY"
    ELSE "OK"

(* require_provider_access_ready: the error it raises, "OK" when none.      *)
AccessError(access) ==
    IF access.source = "byo" THEN IF access.secret THEN "OK" ELSE "INVALID_FIELD"
    ELSE IF access.quota = "deny" THEN "PROVIDER_ACCESS_QUOTA_DENIED"
    ELSE IF access.quota = "missing" THEN "PROVIDER_ACCESS_QUOTA_NOT_READY"
    ELSE IF access.audit = "missing" THEN "PROVIDER_ACCESS_AUDIT_NOT_READY"
    ELSE "OK"

(* build_prompt is called outside of every try: what it raises is not       *)
(* published.                                                               *)
BuildPrompt(c) ==
    LET error == AccessError(input[c].access)
    IN  /\ pc[c] = "prompt"
        /\ \/ ~input[c].prompt /\ Answer(c, "INTERNAL")
           \/ input[c].prompt /\ error # "OK" /\ Fail(c, error)
           \/ /\ input[c].prompt /\ error = "OK"
              /\ pc' = [pc EXCEPT ![c] = "stream"]
              /\ UNCHANGED <<pending, answer>>
        /\ UNCHANGED <<actionService, input, final, received, created, stream, counter>>

-----------------------------------------------------------------------------
(* The provider's stream: any sequence of deltas and finals, ended by the    *)
(* provider, by an error event or by an exception.                          *)
ReceiveDelta(c) ==
    /\ pc[c] = "stream"
    /\ received[c] < MaxStream[c]
    /\ received' = [received EXCEPT ![c] = @ + 1]
    /\ Progress(c, "assistant.delta", "stream")
    /\ UNCHANGED <<actionService, input, final, created, stream, counter>>

ReceiveFinal(c, batch) ==
    /\ pc[c] = "stream"
    /\ received[c] < MaxStream[c]
    /\ received' = [received EXCEPT ![c] = @ + 1]
    /\ final' = [final EXCEPT ![c] = Final(batch)]
    /\ Progress(c, "assistant.final", "stream")
    /\ UNCHANGED <<actionService, input, created, stream, counter>>

(* The stream breaks off, or brings an error.  What it raises has any code;  *)
(* with that of a failed publication it is not published.                   *)
StreamFails(c) ==
    /\ pc[c] = "stream"
    /\ \/ Fail(c, "PROVIDER_STREAM_FAILED")
       \/ Answer(c, "EVENT_PUBLISH_FAILED")
    /\ UNCHANGED <<actionService, input, final, received, created, stream, counter>>

(* Mutated form: a stream that ends without a final response is fine.       *)
StreamEndsWithoutFinal(c) ==
    /\ pc[c] = "stream"
    /\ \/ final[c] = NoFinal /\ Answer(c, "OK")
       \/ final[c] # NoFinal /\ final[c].proposals = <<>> /\ Answer(c, "OK")
    /\ UNCHANGED <<actionService, input, final, received, created, stream, counter>>

(* The stream is over: nothing to create or nobody to create it, a batch    *)
(* that is turned down, or the creation of its actions.  Without an action  *)
(* service the batch is not even looked at.                                 *)
StreamEnds(c) ==
    LET batch == final[c].proposals
        creating == actionService /\ batch # <<>>
        error == IF input[c].resource THEN BatchError(batch) ELSE "INVALID_FIELD"
    IN  /\ pc[c] = "stream"
        /\ \/ final[c] = NoFinal /\ Fail(c, "PROVIDER_STREAM_FAILED")
           \/ final[c] # NoFinal /\ ~creating /\ Answer(c, "OK")
           \/ final[c] # NoFinal /\ creating /\ error # "OK" /\ Fail(c, error)
           \/ final[c] # NoFinal /\ creating /\ error = "OK"
                  /\ Progress(c, "action.creating", "create")
        /\ UNCHANGED <<actionService, input, final, received, created, stream, counter>>

(* create_proposed_action for the next proposal: stored, turned down, or     *)
(* failed with nothing stored (the encryption, an id collision, the store:  *)
(* CREATION_FAILED stands for the code each of them has, but for the one of *)
(* a failed publication, which is not published here either).               *)
CreateProposedAction(c) ==
    LET batch == final[c].proposals
        proposal == batch[created[c] + 1]
    IN  /\ pc[c] = "create"
        /\ \/ /\ ActionError(proposal) = "OK"
              /\ created' = [created EXCEPT ![c] = @ + 1]
              /\ IF created[c] + 1 = Len(batch)
                   THEN Answer(c, "OK")
                   ELSE UNCHANGED <<pc, answer, pending>>
           \/ /\ ActionError(proposal) # "OK"
              /\ Fail(c, ActionError(proposal))
              /\ UNCHANGED created
           \/ /\ Fail(c, "CREATION_FAILED") \/ Answer(c, "EVENT_PUBLISH_FAILED")
              /\ UNCHANGED created
        /\ UNCHANGED <<actionService, input, final, received, stream, counter>>

-----------------------------------------------------------------------------
Step(c) ==
    \/ \E i \in Inputs[c] : RunAssistantCommand(c, i)
    \/ ResolveContext(c)
    \/ BuildPrompt(c)
    \/ ReceiveDelta(c)
    \/ \E batch \in Batches[c] : ReceiveFinal(c, batch)
    \/ StreamFails(c)
    \/ StreamEnds(c)
    \/ CreateProposedAction(c)
    \/ CountEvent(c)
    \/ PublishEvent(c)

Next == \E c \in Commands : Step(c)

Spec == Init /\ [][Next]_vars

-----------------------------------------------------------------------------
(* Properties.                                                              *)

Types(c) == {stream[c][i].type : i \in DOMAIN stream[c]}

(* The provider generates only for a command that policy allows, whose      *)
(* context is authorized and whose access is paid for and audited, or the   *)
(* user's own (TASKS.md, M11-T4: fail closed).                              *)
GenerationIsAuthorized ==
    \A c \in Commands :
        received[c] > 0 \/ pc[c] = "stream" \/ created[c] > 0 =>
            /\ input[c].policy = "ALLOW" /\ input[c].context = "authorized"
            /\ LET access == input[c].access IN
               \/ access.source = "byo" /\ access.secret
               \/ /\ access.source = "platform"
                  /\ access.quota = "allow" /\ access.audit = "recorded"

(* A command that succeeded showed the user a final response and no error,  *)
(* and stored every action its final response proposed; but for a service   *)
(* without an action service, the constructor's default, whose commands     *)
(* succeed and store none (command_service.py:227).                         *)
SuccessIsComplete ==
    \A c \in Commands :
        answer[c] = "OK" =>
            /\ "assistant.final" \in Types(c) /\ "error" \notin Types(c)
            /\ created[c] = IF actionService THEN Len(final[c].proposals) ELSE 0

(* A command that began to publish and then fails ends its events with an   *)
(* error, unless publishing is what failed, the provider's error says that  *)
(* it is (command_service.py:201), or the prompt could not be built.        *)
FailureIsPublished ==
    \A c \in Commands :
        answer[c] \notin {"NONE", "OK", "EVENT_PUBLISH_FAILED", "INTERNAL"} =>
            stream[c] = <<>> \/ Last(stream[c]).type = "error"

(* As soon as one action of a batch is stored, none of its proposals is      *)
(* malformed and no two of them replace a character in common: the batch is *)
(* validated as a whole first (command_service.py:232).                     *)
OnlySafeBatchesAreStored ==
    \A c \in Commands :
        LET batch == final[c].proposals IN
        created[c] > 0 =>
            /\ \A i \in DOMAIN batch : ProposalError(batch[i]) = "OK"
            /\ \A i, j \in DOMAIN batch :
                   i < j /\ Replaces(batch[i]) /\ Replaces(batch[j]) =>
                       \/ batch[i].targetRange.end <= batch[j].targetRange.start
                       \/ batch[j].targetRange.end <= batch[i].targetRange.start

(* The numbers on a command's events increase, whatever the other commands   *)
(* publish in between.                                                      *)
SequenceIncreases ==
    \A c \in Commands : \A i \in 1..Len(stream[c]) - 1 :
        stream[c][i].sequence < stream[c][i + 1].sequence

(* An unsafe batch is turned down before any of its actions is stored       *)
(* (tests/test_command_service.py:319).                                     *)
RefusedBatchStoresNothing ==
    \A c \in Commands :
        answer[c] \in {"INVALID_FIELD", "INVALID_ACTION_TARGET"} => created[c] = 0

-----------------------------------------------------------------------------
(* What a session sees of a command: CommandStream.                         *)
View == INSTANCE CommandStream WITH
    said   <- [c \in Commands |-> IF stream[c] = <<>> THEN "nothing" ELSE Last(stream[c]).type],
    answer <- [c \in Commands |-> IF answer[c] \in {"NONE", "OK"} THEN answer[c] ELSE "FAILED"]

ImplementsCommandStream == View!Spec

=============================================================================
