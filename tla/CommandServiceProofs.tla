------------------------ MODULE CommandServiceProofs ------------------------
(***************************************************************************)
(* Proofs about CommandService, for any number of commands, any inputs,    *)
(* batches of any length and streams of any length.                        *)
(***************************************************************************)
EXTENDS CommandService, ProposalBatchProofs

-----------------------------------------------------------------------------
(* The invariant.  A command that publishes is on its way to the label its  *)
(* pending event names.                                                     *)

Publishing(c) == pc[c] \in {"count", "publish"}
Going(c) == IF Publishing(c) THEN pending[c].next ELSE pc[c]
Said(c) == IF stream[c] = <<>> THEN "nothing" ELSE Last(stream[c]).type

(* The pending event may follow what was said, and leads where its handler   *)
(* goes on.                                                                 *)
PendingOK(c) ==
    Publishing(c) =>
        LET type == pending[c].type
            next == pending[c].next
        IN  /\ pending[c] \in Pending
            /\ View!Follows(type, Said(c))
            /\ \/ type = "context.loading" /\ next = "context"
               \/ type = "provider.generating" /\ next = "prompt"
               \/ type \in {"assistant.delta", "assistant.final"} /\ next = "stream"
               \/ type = "action.creating" /\ next = "create"
               \/ type = "error" /\ next = "done"
            /\ type # "error" => pending[c].code = "NONE"
            /\ type = "error" => pending[c].code \in Codes \ {"NONE", "OK"}

(* What was said when a command is at a label.                              *)
SaidOK(c) ==
    /\ pc[c] = "idle" => Said(c) = "nothing"
    /\ pc[c] = "context" => Said(c) = "context.loading"
    /\ pc[c] = "prompt" => Said(c) = "provider.generating"
    /\ pc[c] = "stream" => /\ Said(c) \in {"provider.generating"} \cup View!Response
                           /\ final[c] # NoFinal => Said(c) \in View!Response
    /\ pc[c] = "create" => Said(c) = "action.creating"

(* Policy, context and access, each from the step on that looked at it.      *)
Authorized(c) ==
    /\ input[c].policy = "ALLOW" /\ input[c].context = "authorized"
    /\ AccessError(input[c].access) = "OK"

InputOK(c) ==
    /\ pc[c] # "idle" => input[c] \in Inputs[c]
    /\ Going(c) \in {"context", "prompt"} => input[c].policy = "ALLOW"
    /\ Going(c) = "prompt" => input[c].context = "authorized"
    /\ Going(c) \in {"stream", "create"} => Authorized(c)
    /\ received[c] > 0 \/ created[c] > 0 => Authorized(c)

(* The final response: not before the stream, shown when it is over.         *)
FinalOK(c) ==
    /\ Going(c) \in {"idle", "context", "prompt"} => final[c] = NoFinal /\ received[c] = 0
    /\ final[c] # NoFinal /\ "assistant.final" \notin Types(c) =>
           \/ pc[c] = "done"
           \/ Publishing(c) /\ pending[c].type \in {"assistant.final", "error"}

(* Actions are created from an accepted batch, in its order.                 *)
CreatedOK(c) ==
    /\ Going(c) \notin {"create", "done"} => created[c] = 0
    /\ Going(c) = "create" \/ created[c] > 0 =>
           actionService /\ final[c] # NoFinal /\ BatchError(final[c].proposals) = "OK"
    /\ Going(c) = "create" =>
           created[c] < Len(final[c].proposals) /\ "assistant.final" \in Types(c)

AnswerOK(c) ==
    /\ pc[c] # "done" => answer[c] = "NONE"
    /\ "error" \in Types(c) => pc[c] = "done" /\ answer[c] # "OK"
    /\ answer[c] = "OK" => /\ "assistant.final" \in Types(c)
                           /\ created[c] = IF actionService THEN Len(final[c].proposals) ELSE 0
    /\ answer[c] \notin {"NONE", "OK", "EVENT_PUBLISH_FAILED", "INTERNAL"} =>
           stream[c] = <<>> \/ Last(stream[c]).type = "error"

(* The counter is past every number on an event, and at a publication past   *)
(* every number of the command that publishes.                              *)
SequenceOK(c) ==
    /\ \A i \in 1..Len(stream[c]) : stream[c][i].sequence <= counter
    /\ pc[c] = "publish" => \A i \in 1..Len(stream[c]) : stream[c][i].sequence < counter
    /\ \A i \in 1..Len(stream[c]) - 1 : stream[c][i].sequence < stream[c][i + 1].sequence

CommandOK(c) ==
    PendingOK(c) /\ SaidOK(c) /\ InputOK(c) /\ FinalOK(c) /\ CreatedOK(c) /\ AnswerOK(c)
    /\ SequenceOK(c)

CommandInv == TypeOK /\ \A c \in Commands : CommandOK(c)

-----------------------------------------------------------------------------
(* What a step of a command may change: its own part of the state, and the   *)
(* counter, which it only raises.                                           *)
Untouched(d) ==
    /\ pc'[d] = pc[d] /\ input'[d] = input[d] /\ pending'[d] = pending[d]
    /\ final'[d] = final[d] /\ received'[d] = received[d]
    /\ created'[d] = created[d] /\ answer'[d] = answer[d]
    /\ stream'[d] = stream[d] /\ actionService' = actionService

OnlyMoves(c) ==
    /\ counter' \in Nat /\ counter' >= counter
    /\ \A d \in Commands \ {c} : Untouched(d)

(* How Answer moves the command.                                            *)
LEMMA AnswerMoves ==
    ASSUME TypeOK, NEW c \in Commands, NEW code \in Codes, Answer(c, code)
    PROVE  /\ pc' \in [Commands -> Labels] /\ answer' \in [Commands -> Codes]
           /\ pending' = pending
           /\ pc'[c] = "done" /\ answer'[c] = code
           /\ \A d \in Commands \ {c} : pc'[d] = pc[d] /\ answer'[d] = answer[d]
BY DEF TypeOK, Answer, Labels

(* How Publish moves the command.                                           *)
LEMMA PublishMoves ==
    ASSUME TypeOK, NEW c \in Commands, NEW type \in EventTypes, NEW next \in Labels,
           NEW code \in Codes, Publish(c, type, next, code)
    PROVE  /\ pc' \in [Commands -> Labels]
           /\ pending' \in [Commands -> Pending \cup {NoPending}]
           /\ answer' = answer
           /\ pc'[c] = "count"
           /\ pending'[c] = [type |-> type, next |-> next, code |-> code]
           /\ \A d \in Commands \ {c} : pc'[d] = pc[d] /\ pending'[d] = pending[d]
<1>1. [type |-> type, next |-> next, code |-> code] \in Pending
  BY DEF Pending
<1> QED
  BY <1>1 DEF TypeOK, Publish, Labels

(* The errors of the validations are codes.                                  *)
LEMMA ErrorCodes ==
    /\ \A access : AccessError(access) \in Codes \ {"NONE"}
    /\ \A proposal : ProposalError(proposal) \in Codes \ {"NONE"}
    /\ \A proposal : ActionError(proposal) \in Codes \ {"NONE"}
BY DEF AccessError, ProposalError, ActionError, Codes

LEMMA BatchErrorCode ==
    ASSUME NEW batch
    PROVE  BatchError(batch) \in Codes /\ BatchError(batch) # "NONE"
<1>1. {"OK", "OVERLAPPING_ACTION_TARGETS"} \subseteq Codes
  BY DEF Codes
<1>2. \A proposal : ProposalError(proposal) \in Codes /\ ProposalError(proposal) # "NONE"
  BY ErrorCodes
<1> QED
  BY <1>1, <1>2 DEF BatchError

(* The elements of a sequence.                                              *)
LEMMA SequenceElements ==
    ASSUME NEW S, NEW s \in Seq(S)
    PROVE  /\ Len(s) \in Nat /\ DOMAIN s = 1..Len(s)
           /\ \A i \in 1..Len(s) : s[i] \in S
OBVIOUS

LEMMA AppendIsTyped ==
    ASSUME NEW S, NEW s \in Seq(S), NEW e \in S
    PROVE  /\ Append(s, e) \in Seq(S) /\ Len(Append(s, e)) = Len(s) + 1
           /\ \A i \in 1..Len(s) : Append(s, e)[i] = s[i]
           /\ Append(s, e)[Len(s) + 1] = e
OBVIOUS

(* The types of what was said: those of the event type alone.                *)
LEMMA TypesAreEventTypes ==
    ASSUME TypeOK, NEW c \in Commands
    PROVE  /\ Types(c) \subseteq EventTypes
           /\ Said(c) \in EventTypes \cup {"nothing"}
           /\ Said(c) = "nothing" <=> stream[c] = <<>>
           /\ Said(c) # "nothing" => Said(c) \in Types(c)
<1>1. stream[c] \in Seq([type : EventTypes, sequence : Nat])
  BY DEF TypeOK
<1>2. Types(c) \subseteq EventTypes
  <2>1. \A i \in DOMAIN stream[c] : stream[c][i] \in [type : EventTypes, sequence : Nat]
    BY <1>1, SequenceElements
  <2> QED
    BY <2>1 DEF Types
<1>3. CASE stream[c] = <<>>
  BY <1>2, <1>3 DEF Said
<1>4. CASE stream[c] # <<>>
  <2>1. Len(stream[c]) \in DOMAIN stream[c]
    BY <1>1, <1>4
  <2>2. Said(c) = stream[c][Len(stream[c])].type
    BY <1>4 DEF Said, Last
  <2>3. Said(c) \in Types(c)
    BY <2>1, <2>2 DEF Types
  <2>4. "nothing" \notin EventTypes
    BY DEF EventTypes
  <2> QED
    BY <1>2, <1>4, <2>3, <2>4
<1> QED
  BY <1>2, <1>3, <1>4

-----------------------------------------------------------------------------
(* A command that answers without publishing keeps the invariant, when its   *)
(* answer is right.                                                         *)
LEMMA AnswerKeeps ==
    ASSUME CommandInv, NEW c \in Commands, NEW code \in Codes \ {"NONE"},
           pc[c] \notin {"count", "publish", "done"},
           Answer(c, code), UNCHANGED <<actionService, final, received, stream, counter>>,
           input'[c] \in Inputs[c],
           received[c] > 0 \/ created'[c] > 0 => Authorized(c)',
           created'[c] > 0 =>
               actionService /\ final[c] # NoFinal /\ BatchError(final[c].proposals) = "OK",
           code = "OK" =>
               /\ "assistant.final" \in Types(c)
               /\ created'[c] = IF actionService THEN Len(final[c].proposals) ELSE 0,
           code \notin {"OK", "INTERNAL", "EVENT_PUBLISH_FAILED"} => stream[c] = <<>>
    PROVE  CommandOK(c)'
<1>1. /\ pc'[c] = "done" /\ answer'[c] = code /\ pending' = pending
      /\ final' = final /\ received' = received /\ stream' = stream /\ counter' = counter
      /\ actionService' = actionService
  BY AnswerMoves DEF CommandInv
<1>2. TypeOK /\ CommandOK(c)
  BY DEF CommandInv
<1>3. ~Publishing(c)' /\ Going(c)' = "done" /\ Said(c)' = Said(c) /\ Types(c)' = Types(c)
  BY <1>1 DEF Publishing, Going, Said, Types
<1>4. PendingOK(c)' /\ SaidOK(c)'
  BY <1>1, <1>3 DEF PendingOK, SaidOK
<1>5. InputOK(c)' /\ FinalOK(c)' /\ CreatedOK(c)'
  BY <1>1, <1>2, <1>3 DEF InputOK, FinalOK, CreatedOK
<1>6. AnswerOK(c)'
  <2>1. "error" \notin Types(c)
    BY <1>2 DEF CommandOK, AnswerOK
  <2> QED
    BY <1>1, <1>2, <1>3, <2>1 DEF AnswerOK
<1>7. SequenceOK(c)'
  BY <1>1, <1>2 DEF SequenceOK, CommandOK
<1> QED
  BY <1>4, <1>5, <1>6, <1>7 DEF CommandOK

(* So does one that sets out to publish an event that may follow, when what  *)
(* its handler looked at is right for the label it goes to.                 *)
LEMMA PublishKeeps ==
    ASSUME CommandInv, NEW c \in Commands, NEW type \in EventTypes, NEW next \in Labels,
           NEW code \in Codes,
           pc[c] \notin {"count", "publish", "done"},
           Publish(c, type, next, code), UNCHANGED <<actionService, created, stream, counter>>,
           View!Follows(type, Said(c)),
           \/ type = "context.loading" /\ next = "context"
           \/ type = "provider.generating" /\ next = "prompt"
           \/ type \in {"assistant.delta", "assistant.final"} /\ next = "stream"
           \/ type = "action.creating" /\ next = "create"
           \/ type = "error" /\ next = "done",
           type # "error" => code = "NONE",
           type = "error" => code # "NONE" /\ code # "OK",
           input'[c] \in Inputs[c],
           next # "done" => input'[c].policy = "ALLOW",
           next \notin {"context", "done"} => input'[c].context = "authorized",
           next \in {"stream", "create"} \/ received'[c] > 0 \/ created[c] > 0 => Authorized(c)',
           next \in {"context", "prompt"} => final'[c] = NoFinal /\ received'[c] = 0,
           final'[c] # NoFinal /\ "assistant.final" \notin Types(c) =>
               type \in {"assistant.final", "error"},
           next \notin {"create", "done"} => created[c] = 0,
           next = "create" \/ created[c] > 0 =>
               actionService /\ final'[c] # NoFinal /\ BatchError(final'[c].proposals) = "OK",
           next = "create" =>
               created[c] < Len(final'[c].proposals) /\ "assistant.final" \in Types(c)
    PROVE  CommandOK(c)'
<1>1. /\ pc'[c] = "count" /\ answer' = answer
      /\ pending'[c] = [type |-> type, next |-> next, code |-> code]
      /\ stream' = stream /\ counter' = counter /\ created' = created
      /\ pending'[c] \in Pending /\ actionService' = actionService
  BY PublishMoves DEF CommandInv, Pending
<1>2. TypeOK /\ CommandOK(c)
  BY DEF CommandInv
<1>3. Publishing(c)' /\ Going(c)' = next /\ Said(c)' = Said(c) /\ Types(c)' = Types(c)
  BY <1>1 DEF Publishing, Going, Said, Types
<1>4. PendingOK(c)'
  BY <1>1, <1>3 DEF PendingOK, View!Follows, View!Response
<1>5. SaidOK(c)'
  BY <1>1 DEF SaidOK
<1>6. InputOK(c)'
  BY <1>1, <1>3 DEF InputOK
<1>7. FinalOK(c)'
  BY <1>1, <1>3 DEF FinalOK
<1>8. CreatedOK(c)'
  BY <1>1, <1>3 DEF CreatedOK
<1>9. AnswerOK(c)'
  <2>1. "error" \notin Types(c) /\ answer[c] = "NONE"
    BY <1>2 DEF CommandOK, AnswerOK
  <2> QED
    BY <1>1, <1>3, <2>1 DEF AnswerOK
<1>10. SequenceOK(c)'
  BY <1>1, <1>2 DEF SequenceOK, CommandOK
<1> QED
  BY <1>4, <1>5, <1>6, <1>7, <1>8, <1>9, <1>10 DEF CommandOK

-----------------------------------------------------------------------------
(* A command that is not touched keeps the invariant: a counter that grows   *)
(* does it no harm.                                                         *)
LEMMA UntouchedKeeps ==
    ASSUME CommandInv, NEW d \in Commands, Untouched(d), counter' \in Nat, counter' >= counter
    PROVE  CommandOK(d)'
<1>1. /\ pc'[d] = pc[d] /\ input'[d] = input[d] /\ pending'[d] = pending[d]
      /\ final'[d] = final[d] /\ received'[d] = received[d]
      /\ created'[d] = created[d] /\ answer'[d] = answer[d]
      /\ stream'[d] = stream[d] /\ actionService' = actionService
  BY DEF Untouched
<1>2. CommandOK(d) /\ TypeOK
  BY DEF CommandInv
<1>3. /\ Publishing(d)' = Publishing(d) /\ Going(d)' = Going(d)
      /\ Said(d)' = Said(d) /\ Types(d)' = Types(d) /\ Authorized(d)' = Authorized(d)
  BY <1>1 DEF Publishing, Going, Said, Types, Authorized
<1>4. PendingOK(d)' /\ SaidOK(d)'
  BY <1>1, <1>2, <1>3 DEF CommandOK, PendingOK, SaidOK, View!Follows, View!Response
<1>5. InputOK(d)' /\ FinalOK(d)' /\ CreatedOK(d)'
  BY <1>1, <1>2, <1>3 DEF CommandOK, InputOK, FinalOK, CreatedOK
<1>6. AnswerOK(d)'
  BY <1>1, <1>2, <1>3 DEF CommandOK, AnswerOK
<1>7. SequenceOK(d)'
  <2>1. stream[d] \in Seq([type : EventTypes, sequence : Nat])
    BY <1>2 DEF TypeOK
  <2>2. \A i \in 1..Len(stream[d]) : stream[d][i].sequence \in Nat
    <3>1. \A i \in 1..Len(stream[d]) : stream[d][i] \in [type : EventTypes, sequence : Nat]
      BY <2>1, SequenceElements
    <3> QED
      BY <3>1
  <2>3. counter \in Nat /\ counter' \in Nat /\ counter' >= counter
    BY <1>2 DEF TypeOK
  <2> QED
    BY <1>1, <1>2, <2>2, <2>3 DEF CommandOK, SequenceOK
<1> QED
  BY <1>4, <1>5, <1>6, <1>7 DEF CommandOK

(* The changes that steps make, one variable at a time.                      *)
MovesLabel(c) == UNCHANGED pc \/ \E label \in Labels : pc' = [pc EXCEPT ![c] = label]
MovesAnswer(c) == UNCHANGED answer \/ \E code \in Codes : answer' = [answer EXCEPT ![c] = code]
MovesPending(c) ==
    \/ UNCHANGED pending
    \/ \E event \in Pending \cup {NoPending} : pending' = [pending EXCEPT ![c] = event]
MovesInput(c) == UNCHANGED input \/ \E i \in Inputs[c] : input' = [input EXCEPT ![c] = i]
MovesFinal(c) ==
    UNCHANGED final \/ \E batch \in Batches[c] : final' = [final EXCEPT ![c] = Final(batch)]
MovesReceived(c) ==
    \/ UNCHANGED received
    \/ received[c] < MaxStream[c] /\ received' = [received EXCEPT ![c] = @ + 1]
MovesCreated(c) == UNCHANGED created \/ created' = [created EXCEPT ![c] = @ + 1]
MovesStream(c) ==
    \/ UNCHANGED stream
    \/ \E event \in [type : EventTypes, sequence : Nat] :
          stream' = [stream EXCEPT ![c] = Append(@, event)]

Leaves(c) == MovesLabel(c) /\ MovesAnswer(c) /\ MovesPending(c)

Moves(c) ==
    /\ Leaves(c)
    /\ MovesInput(c) /\ MovesFinal(c) /\ MovesReceived(c) /\ MovesCreated(c)
    /\ MovesStream(c) /\ counter' \in {counter, counter + 1}
    /\ UNCHANGED actionService

(* Such changes keep the types, and the other commands as they are.          *)
LEMMA MovesAreTyped ==
    ASSUME TypeOK, NEW c \in Commands, Moves(c)
    PROVE  TypeOK' /\ OnlyMoves(c)
<1>1. /\ pc' \in [Commands -> Labels]
      /\ \A d \in Commands \ {c} : pc'[d] = pc[d]
  BY DEF TypeOK, Moves, Leaves, MovesLabel
<1>2. /\ answer' \in [Commands -> Codes]
      /\ \A d \in Commands \ {c} : answer'[d] = answer[d]
  BY DEF TypeOK, Moves, Leaves, MovesAnswer
<1>3. /\ pending' \in [Commands -> Pending \cup {NoPending}]
      /\ \A d \in Commands \ {c} : pending'[d] = pending[d]
  BY DEF TypeOK, Moves, Leaves, MovesPending
<1>4. /\ DOMAIN input' = Commands /\ \A d \in Commands : input'[d] \in Inputs[d] \cup {NoInput}
      /\ \A d \in Commands \ {c} : input'[d] = input[d]
  BY DEF TypeOK, Moves, MovesInput
<1>5. /\ DOMAIN final' = Commands
      /\ \A d \in Commands : final'[d] \in {NoFinal} \cup {Final(batch) : batch \in Batches[d]}
      /\ \A d \in Commands \ {c} : final'[d] = final[d]
  BY DEF TypeOK, Moves, MovesFinal
<1>6. /\ received' \in [Commands -> Nat] /\ \A d \in Commands : received'[d] <= MaxStream[d]
      /\ \A d \in Commands \ {c} : received'[d] = received[d]
  <2>1. /\ received \in [Commands -> Nat] /\ \A d \in Commands : received[d] <= MaxStream[d]
        /\ \A d \in Commands : MaxStream[d] \in Nat
    BY StreamAssumption DEF TypeOK
  <2>2. MovesReceived(c)
    BY DEF Moves
  <2>3. received[c] \in Nat /\ received[c] + 1 \in Nat
    BY <2>1
  <2>4. CASE received[c] < MaxStream[c] /\ received' = [received EXCEPT ![c] = @ + 1]
    <3>1. /\ received' \in [Commands -> Nat] /\ received'[c] = received[c] + 1
          /\ \A d \in Commands \ {c} : received'[d] = received[d]
      BY <2>1, <2>3, <2>4
    <3>2. received'[c] <= MaxStream[c]
      BY <2>1, <2>4, <3>1
    <3> QED
      BY <2>1, <3>1, <3>2
  <2> QED
    BY <2>1, <2>2, <2>4 DEF MovesReceived
<1>7. /\ created' \in [Commands -> Nat]
      /\ \A d \in Commands \ {c} : created'[d] = created[d]
  <2>1. created \in [Commands -> Nat] /\ MovesCreated(c)
    BY DEF TypeOK, Moves
  <2>2. created[c] + 1 \in Nat
    BY <2>1
  <2> QED
    BY <2>1, <2>2 DEF MovesCreated
<1>8. /\ stream' \in [Commands -> Seq([type : EventTypes, sequence : Nat])]
      /\ \A d \in Commands \ {c} : stream'[d] = stream[d]
  <2>1. stream[c] \in Seq([type : EventTypes, sequence : Nat])
    BY DEF TypeOK
  <2>2. \A event \in [type : EventTypes, sequence : Nat] :
           Append(stream[c], event) \in Seq([type : EventTypes, sequence : Nat])
    BY <2>1, AppendIsTyped
  <2> QED
    BY <2>2 DEF TypeOK, Moves, MovesStream
<1>9. counter' \in Nat /\ counter' >= counter
  BY DEF TypeOK, Moves
<1>10. actionService' = actionService /\ actionService' \in BOOLEAN
  BY DEF TypeOK, Moves
<1> QED
  BY <1>1, <1>2, <1>3, <1>4, <1>5, <1>6, <1>7, <1>8, <1>9, <1>10 DEF TypeOK, OnlyMoves, Untouched

(* Answering and publishing leave in this way.                               *)
LEMMA LeavingMoves ==
    ASSUME NEW c \in Commands
    PROVE  /\ \A code \in Codes : Answer(c, code) => Leaves(c)
           /\ \A type \in EventTypes, next \in Labels, code \in Codes :
                  Publish(c, type, next, code) => Leaves(c)
<1>1. \A type \in EventTypes, next \in Labels, code \in Codes :
         [type |-> type, next |-> next, code |-> code] \in Pending
  BY DEF Pending
<1>2. {"done", "count"} \subseteq Labels
  BY DEF Labels
<1> QED
  BY <1>1, <1>2 DEF Answer, Publish, Leaves, MovesLabel, MovesAnswer, MovesPending

(* Every step of a command makes such changes.                               *)
LEMMA StepMoves ==
    ASSUME CommandInv, NEW c \in Commands, Step(c)
    PROVE  Moves(c)
<1>0. /\ {"context.loading", "provider.generating", "assistant.delta", "assistant.final",
          "action.creating", "error"} \subseteq EventTypes
      /\ {"context", "prompt", "stream", "create", "publish", "done"} \subseteq Labels
      /\ {"NONE", "OK", "INTERNAL", "POLICY_BLOCKED", "PROVIDER_UNSUPPORTED",
          "CONTEXT_UNAVAILABLE", "PROVIDER_STREAM_FAILED", "INVALID_FIELD",
          "CREATION_FAILED", "EVENT_PUBLISH_FAILED"} \subseteq Codes
  BY DEF EventTypes, Labels, Codes
<1>a. (UNCHANGED input => MovesInput(c)) /\ (UNCHANGED final => MovesFinal(c))
      /\ (UNCHANGED received => MovesReceived(c)) /\ (UNCHANGED created => MovesCreated(c))
      /\ (UNCHANGED stream => MovesStream(c))
      /\ (UNCHANGED pc => MovesLabel(c)) /\ (UNCHANGED answer => MovesAnswer(c))
      /\ (UNCHANGED pending => MovesPending(c))
  BY DEF MovesInput, MovesFinal, MovesReceived, MovesCreated, MovesStream,
         MovesLabel, MovesAnswer, MovesPending
<1>1. ASSUME NEW i \in Inputs[c], RunAssistantCommand(c, i)
      PROVE  Moves(c)
  <2>1. Leaves(c)
    BY <1>0, <1>1, LeavingMoves DEF RunAssistantCommand, Progress
  <2> QED
    BY <1>1, <1>a, <2>1 DEF Moves, RunAssistantCommand, MovesInput
<1>2. ASSUME ResolveContext(c)
      PROVE  Moves(c)
  <2>1. Leaves(c)
    BY <1>0, <1>2, LeavingMoves DEF ResolveContext, Progress, Fail
  <2> QED
    BY <1>2, <1>a, <2>1 DEF Moves, ResolveContext
<1>3. ASSUME BuildPrompt(c)
      PROVE  Moves(c)
  <2>1. Leaves(c)
    BY <1>0, <1>3, <1>a, LeavingMoves, ErrorCodes DEF BuildPrompt, Fail, Leaves, MovesLabel
  <2> QED
    BY <1>3, <1>a, <2>1 DEF Moves, BuildPrompt
<1>4. ASSUME ReceiveDelta(c)
      PROVE  Moves(c)
  <2>1. Leaves(c)
    BY <1>0, <1>4, LeavingMoves DEF ReceiveDelta, Progress
  <2> QED
    BY <1>4, <1>a, <2>1 DEF Moves, ReceiveDelta, MovesReceived
<1>5. ASSUME NEW batch \in Batches[c], ReceiveFinal(c, batch)
      PROVE  Moves(c)
  <2>1. Leaves(c)
    BY <1>0, <1>5, LeavingMoves DEF ReceiveFinal, Progress
  <2> QED
    BY <1>5, <1>a, <2>1 DEF Moves, ReceiveFinal, MovesReceived, MovesFinal
<1>6. ASSUME StreamFails(c)
      PROVE  Moves(c)
  <2>1. Leaves(c)
    BY <1>0, <1>6, LeavingMoves DEF StreamFails, Fail
  <2> QED
    BY <1>6, <1>a, <2>1 DEF Moves, StreamFails
<1>7. ASSUME StreamEnds(c)
      PROVE  Moves(c)
  <2>1. Leaves(c)
    <3> DEFINE error == IF input[c].resource THEN BatchError(final[c].proposals)
                        ELSE "INVALID_FIELD"
    <3>1. error \in Codes
      <4>1. BatchError(final[c].proposals) \in Codes
        BY BatchErrorCode
      <4>2. "INVALID_FIELD" \in Codes
        BY <1>0
      <4> QED
        BY <4>1, <4>2, Zenon
    <3>2. \/ Fail(c, "PROVIDER_STREAM_FAILED") \/ Answer(c, "OK")
          \/ Fail(c, error) \/ Progress(c, "action.creating", "create")
      BY <1>7 DEF StreamEnds
    <3> HIDE DEF error
    <3> QED
      BY <1>0, <3>1, <3>2, LeavingMoves DEF Fail, Progress
  <2> QED
    BY <1>7, <1>a, <2>1 DEF Moves, StreamEnds
<1>8. ASSUME CreateProposedAction(c)
      PROVE  Moves(c)
  <2>1. Leaves(c)
    BY <1>0, <1>8, <1>a, LeavingMoves, ErrorCodes DEF CreateProposedAction, Fail, Leaves
  <2>2. MovesCreated(c)
    BY <1>8 DEF CreateProposedAction, MovesCreated
  <2> QED
    BY <1>8, <1>a, <2>1, <2>2 DEF Moves, CreateProposedAction
<1>9. ASSUME CountEvent(c)
      PROVE  Moves(c)
  BY <1>0, <1>9, <1>a DEF CountEvent, Moves, Leaves, MovesLabel
<1>10. ASSUME PublishEvent(c)
       PROVE  Moves(c)
  <2>1. pending[c] \in Pending
    BY <1>10 DEF CommandInv, CommandOK, PendingOK, Publishing, PublishEvent
  <2>2. pending[c].next \in Labels /\ pending[c].code \in Codes
        /\ [type |-> pending[c].type, sequence |-> counter] \in [type : EventTypes, sequence : Nat]
    BY <2>1 DEF Pending, CommandInv, TypeOK
  <2>3. MovesStream(c)
    BY <1>10, <2>2 DEF PublishEvent, MovesStream
  <2>4. Leaves(c)
    BY <1>0, <1>10, <2>2 DEF PublishEvent, Leaves, MovesLabel, MovesAnswer, MovesPending
  <2> QED
    BY <1>10, <1>a, <2>3, <2>4 DEF Moves, PublishEvent
<1> QED
  BY <1>1, <1>2, <1>3, <1>4, <1>5, <1>6, <1>7, <1>8, <1>9, <1>10 DEF Step

-----------------------------------------------------------------------------
(* Each step keeps the invariant of its command.                             *)
LEMMA ContextKeeps ==
    ASSUME CommandInv, NEW c \in Commands,
           \/ \E i \in Inputs[c] : RunAssistantCommand(c, i)
           \/ ResolveContext(c)
    PROVE  CommandOK(c)'
<1>1. TypeOK /\ CommandOK(c)
  BY DEF CommandInv
<1>2. /\ {"context.loading", "provider.generating", "error"} \subseteq EventTypes
      /\ {"context", "prompt", "done"} \subseteq Labels
      /\ {"NONE", "INTERNAL", "POLICY_BLOCKED", "PROVIDER_UNSUPPORTED",
          "CONTEXT_UNAVAILABLE"} \subseteq Codes
  BY DEF EventTypes, Labels, Codes
<1>3. ASSUME NEW i \in Inputs[c], RunAssistantCommand(c, i)
      PROVE  CommandOK(c)'
  <2>1. pc[c] = "idle" /\ Going(c) = "idle"
    BY <1>3 DEF RunAssistantCommand, Going, Publishing
  <2>2. /\ Said(c) = "nothing" /\ stream[c] = <<>>
        /\ final[c] = NoFinal /\ received[c] = 0 /\ created[c] = 0
    BY <1>1, <2>1, TypesAreEventTypes DEF CommandOK, SaidOK, FinalOK, CreatedOK
  <2>3. /\ input'[c] = i /\ input'[c] \in Inputs[c]
        /\ UNCHANGED <<actionService, final, received, created, stream, counter>>
    BY <1>1, <1>3 DEF RunAssistantCommand, TypeOK
  <2>4. ASSUME NEW code \in {"INTERNAL", "POLICY_BLOCKED", "PROVIDER_UNSUPPORTED"},
               Answer(c, code)
        PROVE  CommandOK(c)'
    BY <1>2, <2>1, <2>2, <2>3, <2>4, AnswerKeeps
  <2>5. CASE i.policy = "ALLOW" /\ Publish(c, "context.loading", "context", "NONE")
    <3>1. View!Follows("context.loading", Said(c))
      BY <2>2 DEF View!Follows
    <3> QED
      BY <1>2, <2>1, <2>2, <2>3, <2>5, <3>1, PublishKeeps
  <2> QED
    BY <1>3, <2>4, <2>5 DEF RunAssistantCommand, Progress
<1>4. ASSUME ResolveContext(c)
      PROVE  CommandOK(c)'
  <2>1. pc[c] = "context" /\ Going(c) = "context"
    BY <1>4 DEF ResolveContext, Going, Publishing
  <2>2. /\ Said(c) = "context.loading" /\ created[c] = 0
        /\ final[c] = NoFinal /\ received[c] = 0
        /\ input[c] \in Inputs[c] /\ input[c].policy = "ALLOW"
    BY <1>1, <2>1 DEF CommandOK, SaidOK, FinalOK, CreatedOK, InputOK
  <2>3. UNCHANGED <<actionService, input, final, received, created, stream, counter>>
    BY <1>4 DEF ResolveContext
  <2>4. CASE input[c].context = "authorized" /\ Publish(c, "provider.generating", "prompt", "NONE")
    <3>1. View!Follows("provider.generating", Said(c))
      BY <2>2 DEF View!Follows
    <3> QED
      BY <1>2, <2>1, <2>2, <2>3, <2>4, <3>1, PublishKeeps
  <2>5. CASE Publish(c, "error", "done", "CONTEXT_UNAVAILABLE")
    <3>1. View!Follows("error", Said(c))
      BY <2>2 DEF View!Follows
    <3> QED
      BY <1>2, <2>1, <2>2, <2>3, <2>5, <3>1, PublishKeeps
  <2> QED
    BY <1>4, <2>4, <2>5 DEF ResolveContext, Progress, Fail
<1> QED
  BY <1>3, <1>4

LEMMA PromptKeeps ==
    ASSUME CommandInv, NEW c \in Commands, BuildPrompt(c)
    PROVE  CommandOK(c)'
<1> DEFINE error == AccessError(input[c].access)
<1>1. TypeOK /\ CommandOK(c)
  BY DEF CommandInv
<1>2. /\ "error" \in EventTypes /\ "done" \in Labels /\ "INTERNAL" \in Codes
      /\ error \in Codes \ {"NONE"}
  BY ErrorCodes DEF EventTypes, Labels, Codes
<1>3. pc[c] = "prompt" /\ Going(c) = "prompt"
  BY DEF BuildPrompt, Going, Publishing
<1>4. /\ Said(c) = "provider.generating" /\ created[c] = 0
      /\ final[c] = NoFinal /\ received[c] = 0
      /\ input[c] \in Inputs[c] /\ input[c].policy = "ALLOW"
      /\ input[c].context = "authorized"
  BY <1>1, <1>3 DEF CommandOK, SaidOK, FinalOK, CreatedOK, InputOK
<1>5. UNCHANGED <<actionService, input, final, received, created, stream, counter>>
  BY DEF BuildPrompt
<1>6. CASE Answer(c, "INTERNAL")
  BY <1>2, <1>3, <1>4, <1>5, <1>6, AnswerKeeps
<1>7. CASE error # "OK" /\ Publish(c, "error", "done", error)
  <2>1. View!Follows("error", Said(c))
    BY <1>4 DEF View!Follows
  <2> HIDE DEF error
  <2> QED
    BY <1>2, <1>3, <1>4, <1>5, <1>7, <2>1, PublishKeeps
<1>8. CASE /\ error = "OK" /\ pc' = [pc EXCEPT ![c] = "stream"]
           /\ UNCHANGED <<pending, answer>>
  <2>1. pc'[c] = "stream"
    BY <1>1, <1>8 DEF TypeOK
  <2>2. /\ ~Publishing(c)' /\ Going(c)' = "stream" /\ Said(c)' = Said(c)
        /\ Types(c)' = Types(c) /\ Authorized(c)' /\ answer'[c] = answer[c]
    BY <1>4, <1>5, <1>8, <2>1 DEF Publishing, Going, Said, Types, Authorized
  <2>3. PendingOK(c)' /\ SaidOK(c)'
    BY <1>4, <1>5, <2>1, <2>2 DEF PendingOK, SaidOK
  <2>4. InputOK(c)' /\ FinalOK(c)' /\ CreatedOK(c)'
    BY <1>4, <1>5, <2>1, <2>2 DEF InputOK, FinalOK, CreatedOK
  <2>5. AnswerOK(c)'
    BY <1>1, <1>3, <1>5, <2>1, <2>2 DEF CommandOK, AnswerOK
  <2>6. SequenceOK(c)'
    BY <1>1, <1>5, <2>1 DEF CommandOK, SequenceOK
  <2> QED
    BY <2>3, <2>4, <2>5, <2>6 DEF CommandOK
<1> QED
  BY <1>6, <1>7, <1>8 DEF BuildPrompt, Fail

(* What is known of a command at its stream.                                 *)
LEMMA AtStream ==
    ASSUME CommandInv, NEW c \in Commands, pc[c] = "stream"
    PROVE  /\ Going(c) = "stream" /\ created[c] = 0
           /\ input[c] \in Inputs[c] /\ Authorized(c)
           /\ Said(c) \in {"provider.generating"} \cup View!Response
           /\ final[c] # NoFinal => /\ Said(c) \in View!Response
                                   /\ "assistant.final" \in Types(c)
           /\ View!Follows("error", Said(c))
<1>1. CommandOK(c)
  BY DEF CommandInv
<1>2. Going(c) = "stream" /\ ~Publishing(c)
  BY DEF Going, Publishing
<1> QED
  BY <1>1, <1>2 DEF CommandOK, SaidOK, InputOK, FinalOK, CreatedOK, View!Follows

LEMMA StreamKeeps ==
    ASSUME CommandInv, NEW c \in Commands,
           \/ ReceiveDelta(c)
           \/ \E batch \in Batches[c] : ReceiveFinal(c, batch)
           \/ StreamFails(c)
    PROVE  CommandOK(c)'
<1>1. TypeOK
  BY DEF CommandInv
<1>2. /\ {"assistant.delta", "assistant.final", "error"} \subseteq EventTypes
      /\ {"stream", "done"} \subseteq Labels
      /\ {"NONE", "PROVIDER_STREAM_FAILED", "EVENT_PUBLISH_FAILED"} \subseteq Codes
  BY DEF EventTypes, Labels, Codes
<1>3. pc[c] = "stream"
  BY DEF ReceiveDelta, ReceiveFinal, StreamFails
<1>4. UNCHANGED <<actionService, input, created, stream, counter>>
  BY DEF ReceiveDelta, ReceiveFinal, StreamFails
<1>5. input'[c] \in Inputs[c] /\ Authorized(c)'
      /\ input'[c].policy = "ALLOW" /\ input'[c].context = "authorized"
  BY <1>3, <1>4, AtStream DEF Authorized
<1>6. ASSUME ReceiveDelta(c)
      PROVE  CommandOK(c)'
  <2>1. View!Follows("assistant.delta", Said(c))
    BY <1>3, AtStream DEF View!Follows, View!Response
  <2>2. final' = final /\ Publish(c, "assistant.delta", "stream", "NONE")
    BY <1>6 DEF ReceiveDelta, Progress
  <2>3. final'[c] # NoFinal => "assistant.final" \in Types(c)
    BY <1>3, <2>2, AtStream
  <2> QED
    BY <1>2, <1>3, <1>4, <1>5, <2>1, <2>2, <2>3, AtStream, PublishKeeps
<1>7. ASSUME NEW batch \in Batches[c], ReceiveFinal(c, batch)
      PROVE  CommandOK(c)'
  <2>1. View!Follows("assistant.final", Said(c))
    BY <1>3, AtStream DEF View!Follows, View!Response
  <2>2. Publish(c, "assistant.final", "stream", "NONE")
    BY <1>7 DEF ReceiveFinal, Progress
  <2> QED
    BY <1>2, <1>3, <1>4, <1>5, <2>1, <2>2, AtStream, PublishKeeps
<1>8. ASSUME StreamFails(c)
      PROVE  CommandOK(c)'
  <2>1. UNCHANGED <<actionService, input, final, received, created, stream, counter>>
    BY <1>8 DEF StreamFails
  <2>2. CASE Publish(c, "error", "done", "PROVIDER_STREAM_FAILED")
    BY <1>2, <1>3, <1>4, <1>5, <2>1, <2>2, AtStream, PublishKeeps
  <2>3. CASE Answer(c, "EVENT_PUBLISH_FAILED")
    BY <1>2, <1>3, <1>5, <2>1, <2>3, AtStream, AnswerKeeps
  <2> QED
    BY <1>8, <2>2, <2>3 DEF StreamFails, Fail
<1> QED
  BY <1>6, <1>7, <1>8

LEMMA StreamEndKeeps ==
    ASSUME CommandInv, NEW c \in Commands, StreamEnds(c)
    PROVE  CommandOK(c)'
<1> DEFINE batch == final[c].proposals
           creating == actionService /\ batch # <<>>
           error == IF input[c].resource THEN BatchError(batch) ELSE "INVALID_FIELD"
<1>1. TypeOK
  BY DEF CommandInv
<1>2. /\ {"action.creating", "error"} \subseteq EventTypes
      /\ {"create", "done"} \subseteq Labels
      /\ {"NONE", "OK", "INVALID_FIELD", "PROVIDER_STREAM_FAILED"} \subseteq Codes
  BY DEF EventTypes, Labels, Codes
<1>3. pc[c] = "stream"
  BY DEF StreamEnds
<1>4. UNCHANGED <<actionService, input, final, received, created, stream, counter>>
  BY DEF StreamEnds
<1>5. input'[c] \in Inputs[c] /\ Authorized(c)'
      /\ input'[c].policy = "ALLOW" /\ input'[c].context = "authorized"
  BY <1>3, <1>4, AtStream DEF Authorized
<1>6. ASSUME NEW code \in Codes, code # "NONE", code # "OK", Fail(c, code)
      PROVE  CommandOK(c)'
  <2>1. Publish(c, "error", "done", code)
    BY <1>6 DEF Fail
  <2> QED
    BY <1>2, <1>3, <1>4, <1>5, <1>6, <2>1, AtStream, PublishKeeps
<1>7. CASE final[c] # NoFinal /\ ~creating /\ Answer(c, "OK")
  <2>1. created'[c] = 0 /\ (actionService => Len(final[c].proposals) = 0)
    BY <1>3, <1>4, <1>7, AtStream
  <2>2. created'[c] = IF actionService THEN Len(final[c].proposals) ELSE 0
    BY <2>1
  <2> QED
    BY <1>2, <1>3, <1>4, <1>5, <1>7, <2>1, <2>2, AtStream, AnswerKeeps
<1>8. CASE /\ final[c] # NoFinal /\ creating /\ error = "OK"
           /\ Publish(c, "action.creating", "create", "NONE")
  <2>1. View!Follows("action.creating", Said(c))
    BY <1>3, <1>8, AtStream DEF View!Follows
  <2>2. BatchError(batch) = "OK"
    BY <1>8
  <2>3. created[c] < Len(batch)
    <3>1. final[c] \in {Final(b) : b \in Batches[c]}
      BY <1>1, <1>8 DEF TypeOK
    <3>2. batch \in Seq(Proposal)
      BY <3>1, StreamAssumption DEF Final
    <3> HIDE DEF batch
    <3>3. Len(batch) > 0
      BY <1>8, <3>2
    <3> QED
      BY <1>3, <3>3, AtStream
  <2> QED
    BY <1>2, <1>3, <1>4, <1>5, <1>8, <2>1, <2>2, <2>3, AtStream, PublishKeeps
<1>9. error \in Codes /\ error # "NONE"
  <2>1. BatchError(batch) \in Codes /\ BatchError(batch) # "NONE"
    BY BatchErrorCode
  <2> QED
    BY <1>2, <2>1, Zenon
<1>10. \/ Fail(c, "PROVIDER_STREAM_FAILED")
       \/ final[c] # NoFinal /\ ~creating /\ Answer(c, "OK")
       \/ error # "OK" /\ Fail(c, error)
       \/ /\ final[c] # NoFinal /\ creating /\ error = "OK"
          /\ Publish(c, "action.creating", "create", "NONE")
  BY DEF StreamEnds, Progress
<1> HIDE DEF error, batch, creating
<1> QED
  BY <1>2, <1>6, <1>7, <1>8, <1>9, <1>10

LEMMA CreateKeeps ==
    ASSUME CommandInv, NEW c \in Commands, CreateProposedAction(c)
    PROVE  CommandOK(c)'
<1> DEFINE batch == final[c].proposals
           error == ActionError(batch[created[c] + 1])
<1>1. TypeOK /\ CommandOK(c)
  BY DEF CommandInv
<1>2. /\ "error" \in EventTypes /\ "done" \in Labels
      /\ {"NONE", "OK", "CREATION_FAILED", "EVENT_PUBLISH_FAILED"} \subseteq Codes
  BY DEF EventTypes, Labels, Codes
<1>3. pc[c] = "create" /\ Going(c) = "create" /\ ~Publishing(c)
  BY DEF CreateProposedAction, Going, Publishing
<1>4. UNCHANGED <<actionService, input, final, received, stream, counter>>
  BY DEF CreateProposedAction
<1>5. /\ Said(c) = "action.creating" /\ input[c] \in Inputs[c] /\ Authorized(c)
      /\ actionService /\ final[c] # NoFinal /\ BatchError(batch) = "OK"
      /\ created[c] < Len(batch) /\ "assistant.final" \in Types(c)
      /\ View!Follows("error", Said(c))
  BY <1>1, <1>3 DEF CommandOK, SaidOK, InputOK, CreatedOK, View!Follows
<1>6. input'[c] \in Inputs[c] /\ Authorized(c)'
      /\ input'[c].policy = "ALLOW" /\ input'[c].context = "authorized"
  BY <1>4, <1>5 DEF Authorized
<1>7. ASSUME NEW code \in Codes, code # "NONE", code # "OK", Fail(c, code), UNCHANGED created
      PROVE  CommandOK(c)'
  <2>1. Publish(c, "error", "done", code)
    BY <1>7 DEF Fail
  <2> QED
    BY <1>2, <1>3, <1>4, <1>5, <1>6, <1>7, <2>1, PublishKeeps
<1>8. /\ created[c] \in Nat /\ Len(batch) \in Nat /\ created \in [Commands -> Nat]
  <2>1. final[c] \in {Final(b) : b \in Batches[c]}
    BY <1>1, <1>5 DEF TypeOK
  <2>2. batch \in Seq(Proposal)
    BY <2>1, StreamAssumption DEF Final
  <2> HIDE DEF batch
  <2> QED
    BY <1>1, <2>2 DEF TypeOK
<1>9. CASE /\ created' = [created EXCEPT ![c] = @ + 1]
           /\ created[c] + 1 = Len(batch) /\ Answer(c, "OK")
  <2>1. created'[c] = IF actionService THEN Len(final[c].proposals) ELSE 0
    BY <1>5, <1>8, <1>9
  <2> QED
    BY <1>2, <1>3, <1>4, <1>5, <1>6, <1>9, <2>1, AnswerKeeps
<1>10. CASE /\ created' = [created EXCEPT ![c] = @ + 1]
            /\ created[c] + 1 # Len(batch) /\ UNCHANGED <<pc, answer, pending>>
  <2>1. created'[c] = created[c] + 1 /\ created'[c] < Len(batch)
    BY <1>5, <1>8, <1>10
  <2>2. /\ ~Publishing(c)' /\ Going(c)' = "create" /\ Said(c)' = Said(c)
        /\ Types(c)' = Types(c) /\ answer' = answer /\ pc'[c] = "create"
    BY <1>3, <1>4, <1>10 DEF Publishing, Going, Said, Types
  <2>3. PendingOK(c)' /\ SaidOK(c)'
    BY <1>5, <2>2 DEF PendingOK, SaidOK
  <2>4. InputOK(c)' /\ FinalOK(c)' /\ CreatedOK(c)'
    BY <1>4, <1>5, <1>6, <2>1, <2>2 DEF InputOK, FinalOK, CreatedOK
  <2>5. AnswerOK(c)'
    BY <1>1, <1>3, <1>4, <2>2 DEF CommandOK, AnswerOK
  <2>6. SequenceOK(c)'
    BY <1>1, <1>4, <2>2 DEF CommandOK, SequenceOK
  <2> QED
    BY <2>3, <2>4, <2>5, <2>6 DEF CommandOK
<1>11. error \in Codes /\ error # "NONE"
  BY ErrorCodes
<1>12. \/ /\ created' = [created EXCEPT ![c] = @ + 1]
          /\ created[c] + 1 = Len(batch) /\ Answer(c, "OK")
       \/ /\ created' = [created EXCEPT ![c] = @ + 1]
          /\ created[c] + 1 # Len(batch) /\ UNCHANGED <<pc, answer, pending>>
       \/ error # "OK" /\ Fail(c, error) /\ UNCHANGED created
       \/ Fail(c, "CREATION_FAILED") /\ UNCHANGED created
       \/ Answer(c, "EVENT_PUBLISH_FAILED") /\ UNCHANGED created
  BY DEF CreateProposedAction
<1>13. CASE Answer(c, "EVENT_PUBLISH_FAILED") /\ UNCHANGED created
  BY <1>2, <1>3, <1>4, <1>5, <1>6, <1>13, AnswerKeeps
<1> HIDE DEF error, batch
<1> QED
  BY <1>2, <1>7, <1>9, <1>10, <1>11, <1>12, <1>13

LEMMA CountKeeps ==
    ASSUME CommandInv, NEW c \in Commands, CountEvent(c)
    PROVE  CommandOK(c)'
<1>1. TypeOK /\ CommandOK(c)
  BY DEF CommandInv
<1>2. /\ pc[c] = "count" /\ pc'[c] = "publish" /\ counter' = counter + 1
      /\ UNCHANGED <<actionService, input, pending, final, received, created, answer, stream>>
  BY <1>1 DEF CountEvent, TypeOK
<1>3. /\ Publishing(c) /\ Publishing(c)' /\ Going(c)' = Going(c) /\ Said(c)' = Said(c)
      /\ Types(c)' = Types(c) /\ Authorized(c)' = Authorized(c)
  BY <1>2 DEF Publishing, Going, Said, Types, Authorized
<1>4. PendingOK(c)' /\ SaidOK(c)'
  BY <1>1, <1>2, <1>3 DEF CommandOK, PendingOK, SaidOK, View!Follows, View!Response
<1>5. InputOK(c)' /\ FinalOK(c)' /\ CreatedOK(c)'
  BY <1>1, <1>2, <1>3 DEF CommandOK, InputOK, FinalOK, CreatedOK
<1>6. AnswerOK(c)'
  BY <1>1, <1>2, <1>3 DEF CommandOK, AnswerOK
<1>7. SequenceOK(c)'
  <2>1. \A i \in 1..Len(stream[c]) : stream[c][i].sequence \in Nat
    <3>1. stream[c] \in Seq([type : EventTypes, sequence : Nat])
      BY <1>1 DEF TypeOK
    <3>2. \A i \in 1..Len(stream[c]) : stream[c][i] \in [type : EventTypes, sequence : Nat]
      BY <3>1, SequenceElements
    <3> QED
      BY <3>2
  <2>2. counter \in Nat
    BY <1>1 DEF TypeOK
  <2> QED
    BY <1>1, <1>2, <2>1, <2>2 DEF CommandOK, SequenceOK
<1> QED
  BY <1>4, <1>5, <1>6, <1>7 DEF CommandOK

(* What a delivery makes of the command's events.                            *)
LEMMA Delivery ==
    ASSUME TypeOK, NEW c \in Commands, NEW type \in EventTypes,
           stream' = [stream EXCEPT ![c] = Append(@, [type |-> type, sequence |-> counter])]
    PROVE  /\ Said(c)' = type /\ Types(c)' = Types(c) \cup {type}
           /\ stream'[c] # <<>> /\ Last(stream'[c]).type = type
           /\ Len(stream[c]) \in Nat /\ Len(stream'[c]) = Len(stream[c]) + 1
           /\ \A i \in 1..Len(stream[c]) : stream'[c][i] = stream[c][i]
           /\ stream'[c][Len(stream[c]) + 1].sequence = counter
<1> DEFINE old == stream[c]
           event == [type |-> type, sequence |-> counter]
           new == Append(old, event)
<1>1. /\ old \in Seq([type : EventTypes, sequence : Nat])
      /\ event \in [type : EventTypes, sequence : Nat]
      /\ stream'[c] = new
  BY DEF TypeOK
<1> HIDE DEF old, event
<1>2. /\ new \in Seq([type : EventTypes, sequence : Nat]) /\ Len(new) = Len(old) + 1
      /\ \A i \in 1..Len(old) : new[i] = old[i]
      /\ new[Len(old) + 1] = event
      /\ Len(old) \in Nat /\ DOMAIN old = 1..Len(old) /\ DOMAIN new = 1..Len(new)
  BY <1>1, AppendIsTyped, SequenceElements
<1> HIDE DEF new
<1>3. new # <<>> /\ Last(new) = event
  BY <1>2 DEF Last
<1>4. event.type = type /\ event.sequence = counter
  BY DEF event
<1>5. {new[i].type : i \in DOMAIN new} = {old[i].type : i \in DOMAIN old} \cup {type}
  <2>1. DOMAIN new = DOMAIN old \cup {Len(old) + 1}
    BY <1>2
  <2> QED
    BY <1>2, <1>4, <2>1
<1> QED
  BY <1>1, <1>2, <1>3, <1>4, <1>5 DEF Said, Types, old

LEMMA PublicationKeeps ==
    ASSUME CommandInv, NEW c \in Commands, PublishEvent(c)
    PROVE  CommandOK(c)'
<1> DEFINE type == pending[c].type
           next == pending[c].next
<1>1. TypeOK /\ CommandOK(c)
  BY DEF CommandInv
<1>2. /\ pc[c] = "publish" /\ Publishing(c) /\ Going(c) = next
      /\ UNCHANGED <<actionService, input, final, received, created, counter>>
  BY DEF PublishEvent, Publishing, Going
<1>3. /\ pending[c] \in Pending /\ View!Follows(type, Said(c))
      /\ \/ type = "context.loading" /\ next = "context"
         \/ type = "provider.generating" /\ next = "prompt"
         \/ type \in {"assistant.delta", "assistant.final"} /\ next = "stream"
         \/ type = "action.creating" /\ next = "create"
         \/ type = "error" /\ next = "done"
      /\ type # "error" => pending[c].code = "NONE"
      /\ type = "error" => pending[c].code \in Codes \ {"NONE", "OK"}
  BY <1>1, <1>2 DEF CommandOK, PendingOK
<1>4. /\ input[c] \in Inputs[c] /\ answer[c] = "NONE"
      /\ type \in EventTypes /\ "error" \notin Types(c)
      /\ received[c] > 0 \/ created[c] > 0 => Authorized(c)
      /\ created[c] > 0 =>
             actionService /\ final[c] # NoFinal /\ BatchError(final[c].proposals) = "OK"
  BY <1>1, <1>2, <1>3 DEF CommandOK, InputOK, AnswerOK, CreatedOK, Pending
<1>5. Authorized(c)' = Authorized(c)
  BY <1>2 DEF Authorized
<1> DEFINE Deliver == stream' = [stream EXCEPT ![c] = Append(@, [type |-> type, sequence |-> counter])]
<1>6. ASSUME Deliver \/ UNCHANGED stream
      PROVE  /\ \A i \in 1..Len(stream'[c]) : stream'[c][i].sequence <= counter
             /\ \A i \in 1..Len(stream'[c]) - 1 :
                    stream'[c][i].sequence < stream'[c][i + 1].sequence
  <2>1. /\ \A i \in 1..Len(stream[c]) : stream[c][i].sequence < counter
        /\ \A i \in 1..Len(stream[c]) : stream[c][i].sequence <= counter
        /\ \A i \in 1..Len(stream[c]) - 1 : stream[c][i].sequence < stream[c][i + 1].sequence
        /\ counter \in Nat
    BY <1>1, <1>2 DEF CommandOK, SequenceOK, TypeOK
  <2>2. CASE Deliver
    <3>1. /\ Len(stream[c]) \in Nat /\ Len(stream'[c]) = Len(stream[c]) + 1
          /\ \A i \in 1..Len(stream[c]) : stream'[c][i] = stream[c][i]
          /\ stream'[c][Len(stream[c]) + 1].sequence = counter
      BY <1>1, <1>4, <2>2, Delivery
    <3>2. ASSUME NEW i \in 1..Len(stream'[c]) - 1
          PROVE  stream'[c][i].sequence < stream'[c][i + 1].sequence
      <4>1. i \in 1..Len(stream[c])
        BY <3>1
      <4>2. CASE i = Len(stream[c])
        BY <2>1, <3>1, <4>1, <4>2
      <4>3. CASE i # Len(stream[c])
        <5>1. i \in 1..Len(stream[c]) - 1 /\ i + 1 \in 1..Len(stream[c])
          BY <3>1, <4>1, <4>3
        <5> QED
          BY <2>1, <3>1, <4>1, <5>1
      <4> QED
        BY <4>2, <4>3
    <3>3. ASSUME NEW i \in 1..Len(stream'[c])
          PROVE  stream'[c][i].sequence <= counter
      <4>1. CASE i = Len(stream[c]) + 1
        BY <2>1, <3>1, <4>1
      <4>2. CASE i \in 1..Len(stream[c])
        BY <2>1, <3>1, <4>2
      <4> QED
        BY <3>1, <4>1, <4>2
    <3> QED
      BY <3>2, <3>3
  <2>3. CASE UNCHANGED stream
    BY <2>1, <2>3
  <2> QED
    BY <1>6, <2>2, <2>3
<1>7. CASE /\ Deliver
           /\ pc' = [pc EXCEPT ![c] = next]
           /\ answer' = [answer EXCEPT ![c] = pending[c].code]
  <2>1. /\ Said(c)' = type /\ Types(c)' = Types(c) \cup {type}
        /\ stream'[c] # <<>> /\ Last(stream'[c]).type = type
    BY <1>1, <1>4, <1>7, Delivery
  <2>2. pc'[c] = next /\ answer'[c] = pending[c].code
    BY <1>1, <1>7 DEF TypeOK
  <2>3. ~Publishing(c)' /\ Going(c)' = next
    BY <1>3, <2>2 DEF Publishing, Going
  <2>4. PendingOK(c)' /\ SaidOK(c)'
    <3>1. type \in {"assistant.delta", "assistant.final"} => Said(c)' \in View!Response
      BY <2>1 DEF View!Response
    <3> QED
      BY <1>3, <2>1, <2>2, <2>3, <3>1 DEF PendingOK, SaidOK
  <2>5. InputOK(c)'
    BY <1>1, <1>2, <1>4, <1>5, <2>2, <2>3 DEF CommandOK, InputOK
  <2>6. FinalOK(c)'
    BY <1>1, <1>2, <1>3, <2>1, <2>2, <2>3 DEF CommandOK, FinalOK
  <2>7. CreatedOK(c)'
    BY <1>1, <1>2, <2>1, <2>2, <2>3 DEF CommandOK, CreatedOK
  <2>8. AnswerOK(c)'
    BY <1>3, <1>4, <2>1, <2>2 DEF AnswerOK
  <2>9. SequenceOK(c)'
    BY <1>2, <1>3, <1>6, <1>7, <2>2 DEF SequenceOK
  <2> QED
    BY <2>4, <2>5, <2>6, <2>7, <2>8, <2>9 DEF CommandOK
<1>8. CASE /\ Deliver \/ UNCHANGED stream
           /\ pc' = [pc EXCEPT ![c] = "done"]
           /\ answer' = [answer EXCEPT ![c] = "EVENT_PUBLISH_FAILED"]
  <2>1. pc'[c] = "done" /\ answer'[c] = "EVENT_PUBLISH_FAILED"
    BY <1>1, <1>8 DEF TypeOK
  <2>2. ~Publishing(c)' /\ Going(c)' = "done"
    BY <2>1 DEF Publishing, Going
  <2>3. PendingOK(c)' /\ SaidOK(c)'
    BY <2>1, <2>2 DEF PendingOK, SaidOK
  <2>4. InputOK(c)' /\ FinalOK(c)' /\ CreatedOK(c)'
    BY <1>2, <1>4, <1>5, <2>1, <2>2 DEF InputOK, FinalOK, CreatedOK
  <2>5. AnswerOK(c)'
    BY <2>1 DEF AnswerOK
  <2>6. SequenceOK(c)'
    BY <1>2, <1>6, <1>8, <2>1 DEF SequenceOK
  <2> QED
    BY <2>3, <2>4, <2>5, <2>6 DEF CommandOK
<1> QED
  BY <1>7, <1>8 DEF PublishEvent

-----------------------------------------------------------------------------
LEMMA InitCommandInv == Init => CommandInv
<1> SUFFICES ASSUME Init
             PROVE  CommandInv
  OBVIOUS
<1>1. "idle" \in Labels /\ "NONE" \in Codes
  BY DEF Labels, Codes
<1>2. TypeOK
  BY <1>1, StreamAssumption DEF Init, TypeOK
<1>3. ASSUME NEW c \in Commands
      PROVE  CommandOK(c)
  <2>1. /\ pc[c] = "idle" /\ final[c] = NoFinal /\ received[c] = 0 /\ created[c] = 0
        /\ answer[c] = "NONE" /\ stream[c] = <<>>
    BY DEF Init
  <2>2. ~Publishing(c) /\ Going(c) = "idle" /\ Said(c) = "nothing" /\ Types(c) = {}
    BY <2>1 DEF Publishing, Going, Said, Types
  <2>3. Len(stream[c]) = 0
    BY <2>1
  <2> QED
    BY <2>1, <2>2, <2>3 DEF CommandOK, PendingOK, SaidOK, InputOK, FinalOK, CreatedOK,
                            AnswerOK, SequenceOK
<1> QED
  BY <1>2, <1>3 DEF CommandInv

LEMMA CommandInvInductive == CommandInv /\ [Next]_vars => CommandInv'
<1> SUFFICES ASSUME CommandInv, [Next]_vars
             PROVE  CommandInv'
  OBVIOUS
<1>1. ASSUME NEW c \in Commands, Step(c)
      PROVE  CommandInv'
  <2>1. TypeOK' /\ OnlyMoves(c)
    BY <1>1, StepMoves, MovesAreTyped DEF CommandInv
  <2>2. CommandOK(c)'
    BY <1>1, ContextKeeps, PromptKeeps, StreamKeeps, StreamEndKeeps, CreateKeeps,
       CountKeeps, PublicationKeeps DEF Step
  <2>3. \A d \in Commands \ {c} : CommandOK(d)'
    BY <2>1, UntouchedKeeps DEF OnlyMoves
  <2> QED
    BY <2>1, <2>2, <2>3 DEF CommandInv
<1>2. CASE UNCHANGED vars
  <2>1. TypeOK'
    BY <1>2 DEF vars, CommandInv, TypeOK
  <2>2. ASSUME NEW d \in Commands
        PROVE  CommandOK(d)'
    <3>1. Untouched(d) /\ counter' \in Nat /\ counter' >= counter
      BY <1>2 DEF vars, Untouched, CommandInv, TypeOK
    <3> QED
      BY <3>1, UntouchedKeeps
  <2> QED
    BY <2>1, <2>2 DEF CommandInv
<1> QED
  BY <1>1, <1>2 DEF Next

-----------------------------------------------------------------------------
(* Every command keeps its part of the invariant, however the commands'      *)
(* steps interleave.                                                        *)
LEMMA CommandInvAlways == Spec => []CommandInv
<1> QED
  BY InitCommandInv, CommandInvInductive, PTL DEF Spec

(* The state of run_assistant_command has its types.                         *)
THEOREM CommandTypes == Spec => []TypeOK
<1>1. CommandInv => TypeOK
  BY DEF CommandInv
<1> QED
  BY <1>1, CommandInvAlways, PTL

(* GenerationIsAuthorized: the provider generates, and actions are stored,    *)
(* only after policy, context and access were looked at and granted.        *)
THEOREM NoUnauthorizedGeneration == Spec => []GenerationIsAuthorized
<1>1. CommandInv => GenerationIsAuthorized
  <2> SUFFICES ASSUME CommandInv, NEW c \in Commands,
                      received[c] > 0 \/ pc[c] = "stream" \/ created[c] > 0
               PROVE  /\ input[c].policy = "ALLOW" /\ input[c].context = "authorized"
                      /\ LET access == input[c].access IN
                         \/ access.source = "byo" /\ access.secret
                         \/ /\ access.source = "platform"
                            /\ access.quota = "allow" /\ access.audit = "recorded"
    BY DEF GenerationIsAuthorized
  <2>1. CommandOK(c)
    BY DEF CommandInv
  <2>2. pc[c] = "stream" => Going(c) = "stream"
    BY DEF Going, Publishing
  <2>3. Authorized(c)
    BY <2>1, <2>2 DEF CommandOK, InputOK
  <2>4. pc[c] # "idle"
    <3>1. pc[c] = "idle" => Going(c) = "idle"
      BY DEF Going, Publishing
    <3>2. pc[c] = "idle" => created[c] = 0 /\ received[c] = 0
      BY <2>1, <3>1 DEF CommandOK, FinalOK, CreatedOK
    <3> QED
      BY <3>2
  <2>5. input[c].access \in Access
    <3>1. input[c] \in Inputs[c] /\ Inputs[c] \subseteq Input
      BY <2>1, <2>4, InputsAssumption DEF CommandOK, InputOK
    <3> QED
      BY <3>1 DEF Input
  <2>6. AccessError(input[c].access) = "OK"
    BY <2>3 DEF Authorized
  <2> QED
    BY <2>3, <2>5, <2>6 DEF Authorized, AccessError, Access
<1> QED
  BY <1>1, CommandInvAlways, PTL

(* SuccessIsComplete: a command that answers OK has shown a final response,   *)
(* no error, and stored all that the response proposed, or nothing when the *)
(* service was built without an action service.                             *)
THEOREM CommandSuccess == Spec => []SuccessIsComplete
<1>1. CommandInv => SuccessIsComplete
  BY DEF CommandInv, CommandOK, AnswerOK, SuccessIsComplete
<1> QED
  BY <1>1, CommandInvAlways, PTL

(* FailureIsPublished: a failure after the first event is the last event.     *)
THEOREM CommandFailure == Spec => []FailureIsPublished
<1>1. CommandInv => FailureIsPublished
  BY DEF CommandInv, CommandOK, AnswerOK, FailureIsPublished
<1> QED
  BY <1>1, CommandInvAlways, PTL

(* SequenceIncreases: the shared counter numbers a command's events in order. *)
THEOREM CommandSequence == Spec => []SequenceIncreases
<1>1. CommandInv => SequenceIncreases
  BY DEF CommandInv, CommandOK, SequenceOK, SequenceIncreases
<1> QED
  BY <1>1, CommandInvAlways, PTL

(* OnlySafeBatchesAreStored: no action of a batch is stored before the batch  *)
(* as a whole has been found well formed and free of overlaps.              *)
THEOREM CommandBatches == Spec => []OnlySafeBatchesAreStored
<1>1. CommandInv => OnlySafeBatchesAreStored
  <2> SUFFICES ASSUME CommandInv, NEW c \in Commands, created[c] > 0
               PROVE  LET batch == final[c].proposals IN
                      /\ \A i \in DOMAIN batch : ProposalError(batch[i]) = "OK"
                      /\ \A i, j \in DOMAIN batch :
                             i < j /\ Replaces(batch[i]) /\ Replaces(batch[j]) =>
                                 \/ batch[i].targetRange.end <= batch[j].targetRange.start
                                 \/ batch[j].targetRange.end <= batch[i].targetRange.start
    BY DEF OnlySafeBatchesAreStored
  <2> DEFINE batch == final[c].proposals
  <2>1. final[c] # NoFinal /\ BatchError(batch) = "OK"
    BY DEF CommandInv, CommandOK, CreatedOK
  <2>2. batch \in Seq(Proposal)
    <3>1. final[c] \in {Final(b) : b \in Batches[c]}
      BY <2>1 DEF CommandInv, TypeOK
    <3> QED
      BY <3>1, StreamAssumption DEF Final
  <2> HIDE DEF batch
  <2>3. DOMAIN batch \subseteq Nat
    BY <2>2, SequenceElements
  <2>4. /\ \A i \in DOMAIN batch : ProposalError(batch[i]) = "OK"
        /\ \A i, j \in DOMAIN batch :
               i # j /\ Replaces(batch[i]) /\ Replaces(batch[j]) =>
                   \/ batch[i].targetRange.end <= batch[j].targetRange.start
                   \/ batch[j].targetRange.end <= batch[i].targetRange.start
    BY <2>1, <2>2, AcceptedBatchIsSafe
  <2>5. \A i, j \in DOMAIN batch : i < j => i # j
    BY <2>3
  <2> QED
    BY <2>4, <2>5 DEF batch
<1> QED
  BY <1>1, CommandInvAlways, PTL

-----------------------------------------------------------------------------
(* The refinement.  What the session sees of a command.                      *)
Answered(c) == IF answer[c] \in {"NONE", "OK"} THEN answer[c] ELSE "FAILED"
Saids == [c \in Commands |-> Said(c)]
Answereds == [c \in Commands |-> Answered(c)]

(* A step of a command changes its entry of the view only.                   *)
LEMMA ViewMoves ==
    ASSUME NEW c \in Commands, OnlyMoves(c)
    PROVE  /\ Saids' = [Saids EXCEPT ![c] = Said(c)']
           /\ Answereds' = [Answereds EXCEPT ![c] = Answered(c)']
<1>1. \A d \in Commands \ {c} : Said(d)' = Said(d) /\ Answered(d)' = Answered(d)
  BY DEF OnlyMoves, Untouched, Said, Answered
<1> QED
  BY <1>1 DEF Saids, Answereds

(* What the command's own step says, or answers, is a step of CommandStream. *)
LEMMA StepIsSaid ==
    ASSUME CommandInv, NEW c \in Commands, Step(c)
    PROVE  \/ Said(c)' = Said(c) /\ Answered(c)' = Answered(c)
           \/ /\ Answered(c) = "NONE" /\ Said(c)' = Said(c)
              /\ \/ Answered(c)' = "FAILED"
                 \/ /\ Answered(c)' = "OK"
                    /\ Said(c) \in {"action.creating"} \cup View!Response
           \/ /\ Answered(c) = "NONE" /\ View!Follows(Said(c)', Said(c))
              /\ \/ Answered(c)' = "FAILED"
                 \/ Answered(c)' = "NONE" /\ Said(c)' # "error"
<1>1. TypeOK /\ CommandOK(c)
  BY DEF CommandInv
<1>2. pc[c] # "done" => answer[c] = "NONE" /\ Answered(c) = "NONE"
  BY <1>1 DEF CommandOK, AnswerOK, Answered
<1>3. UNCHANGED stream => Said(c)' = Said(c)
  BY DEF Said
<1>4. UNCHANGED answer => Answered(c)' = Answered(c)
  BY DEF Answered
<1>5. \A code \in Codes : Answer(c, code) =>
         /\ code \notin {"NONE", "OK"} => Answered(c)' = "FAILED"
         /\ code = "OK" => Answered(c)' = "OK"
  BY <1>1 DEF TypeOK, Answer, Answered
<1>6. \A type, next, code : Publish(c, type, next, code) => Answered(c)' = Answered(c)
  BY <1>4 DEF Publish
<1>7. {"OK", "INTERNAL", "POLICY_BLOCKED", "PROVIDER_UNSUPPORTED", "EVENT_PUBLISH_FAILED"}
         \subseteq Codes
  BY DEF Codes
<1>8. ASSUME NEW i \in Inputs[c], RunAssistantCommand(c, i)
      PROVE  \/ Said(c)' = Said(c) /\ Answered(c)' = Answered(c)
             \/ Answered(c) = "NONE" /\ Said(c)' = Said(c) /\ Answered(c)' = "FAILED"
  BY <1>2, <1>3, <1>5, <1>6, <1>7, <1>8 DEF RunAssistantCommand, Progress
<1>9. ASSUME ResolveContext(c)
      PROVE  Said(c)' = Said(c) /\ Answered(c)' = Answered(c)
  BY <1>3, <1>6, <1>9 DEF ResolveContext, Progress, Fail
<1>10. ASSUME BuildPrompt(c)
       PROVE  \/ Said(c)' = Said(c) /\ Answered(c)' = Answered(c)
              \/ Answered(c) = "NONE" /\ Said(c)' = Said(c) /\ Answered(c)' = "FAILED"
  BY <1>2, <1>3, <1>4, <1>5, <1>6, <1>7, <1>10 DEF BuildPrompt, Fail
<1>11. ASSUME ReceiveDelta(c) \/ (\E batch \in Batches[c] : ReceiveFinal(c, batch)) \/ StreamFails(c)
       PROVE  \/ Said(c)' = Said(c) /\ Answered(c)' = Answered(c)
              \/ Answered(c) = "NONE" /\ Said(c)' = Said(c) /\ Answered(c)' = "FAILED"
  BY <1>2, <1>3, <1>5, <1>6, <1>7, <1>11
     DEF ReceiveDelta, ReceiveFinal, StreamFails, Progress, Fail
<1>12. ASSUME StreamEnds(c)
       PROVE  \/ Said(c)' = Said(c) /\ Answered(c)' = Answered(c)
              \/ /\ Answered(c) = "NONE" /\ Said(c)' = Said(c) /\ Answered(c)' = "OK"
                 /\ Said(c) \in View!Response
  <2>1. pc[c] = "stream" /\ UNCHANGED stream
    BY <1>12, Zenon DEF StreamEnds
  <2>2. \/ final[c] # NoFinal /\ Answer(c, "OK")
        \/ \E type, next, code : Publish(c, type, next, code)
    BY <1>12 DEF StreamEnds, Progress, Fail
  <2>3. CASE final[c] # NoFinal /\ Answer(c, "OK")
    BY <1>2, <1>3, <1>5, <1>7, <2>1, <2>3, AtStream
  <2>4. CASE \E type, next, code : Publish(c, type, next, code)
    BY <1>3, <1>6, <2>1, <2>4
  <2> QED
    BY <2>2, <2>3, <2>4
<1>13. ASSUME CreateProposedAction(c)
       PROVE  \/ Said(c)' = Said(c) /\ Answered(c)' = Answered(c)
              \/ Answered(c) = "NONE" /\ Said(c)' = Said(c) /\ Answered(c)' = "FAILED"
              \/ /\ Answered(c) = "NONE" /\ Said(c)' = Said(c) /\ Answered(c)' = "OK"
                 /\ Said(c) = "action.creating"
  <2>1. pc[c] = "create" /\ UNCHANGED stream
    BY <1>13 DEF CreateProposedAction
  <2>2. \/ Answer(c, "OK") \/ Answer(c, "EVENT_PUBLISH_FAILED") \/ UNCHANGED answer
        \/ \E type, next, code : Publish(c, type, next, code)
    BY <1>13 DEF CreateProposedAction, Fail
  <2>3. Said(c) = "action.creating" /\ Answered(c) = "NONE" /\ Said(c)' = Said(c)
    BY <1>1, <1>2, <1>3, <2>1 DEF CommandOK, SaidOK
  <2> QED
    BY <1>4, <1>5, <1>6, <1>7, <2>2, <2>3
<1>14. ASSUME CountEvent(c)
       PROVE  Said(c)' = Said(c) /\ Answered(c)' = Answered(c)
  BY <1>3, <1>4, <1>14 DEF CountEvent
<1>15. ASSUME PublishEvent(c)
       PROVE  /\ Answered(c) = "NONE"
              /\ \/ Said(c)' = Said(c) /\ Answered(c)' = "FAILED"
                 \/ /\ View!Follows(Said(c)', Said(c))
                    /\ \/ Answered(c)' = "FAILED"
                       \/ Answered(c)' = "NONE" /\ Said(c)' # "error"
  <2> DEFINE type == pending[c].type
             Deliver == stream' = [stream EXCEPT ![c] = Append(@, [type |-> type, sequence |-> counter])]
  <2>1. pc[c] = "publish" /\ Publishing(c)
    BY <1>15 DEF PublishEvent, Publishing
  <2>2. /\ type \in EventTypes /\ View!Follows(type, Said(c))
        /\ type # "error" => pending[c].code = "NONE"
        /\ type = "error" => pending[c].code \in Codes \ {"NONE", "OK"}
    BY <1>1, <2>1 DEF CommandOK, PendingOK, Pending
  <2>3. Deliver => Said(c)' = type
    BY <1>1, <2>2, Delivery
  <2>4. CASE Deliver /\ answer' = [answer EXCEPT ![c] = pending[c].code]
    <3>1. answer'[c] = pending[c].code
      BY <1>1, <2>4 DEF TypeOK
    <3> HIDE DEF type
    <3> QED
      BY <1>2, <2>1, <2>2, <2>3, <2>4, <3>1 DEF Answered
  <2>5. CASE /\ Deliver \/ UNCHANGED stream
             /\ answer' = [answer EXCEPT ![c] = "EVENT_PUBLISH_FAILED"]
    <3>1. answer'[c] = "EVENT_PUBLISH_FAILED"
      BY <1>1, <2>5 DEF TypeOK
    <3>2. Answered(c)' = "FAILED"
      BY <3>1 DEF Answered
    <3> QED
      BY <1>2, <1>3, <2>1, <2>2, <2>3, <2>5, <3>2
  <2> QED
    BY <1>15, <2>4, <2>5 DEF PublishEvent
<1> QED
  BY <1>8, <1>9, <1>10, <1>11, <1>12, <1>13, <1>14, <1>15 DEF Step

(* ImplementsCommandStream: commands implement CommandStream.                *)
THEOREM CommandRefinement == Spec => ImplementsCommandStream
<1>1. Init => View!Init
  BY DEF Init, View!Init
<1>2. CommandInv /\ [Next]_vars => [View!Next]_View!vars
  <2> SUFFICES ASSUME CommandInv, [Next]_vars
               PROVE  [View!Next]_View!vars
    OBVIOUS
  <2>1. View!vars = <<Saids, Answereds>>
    BY DEF View!vars, Saids, Answereds, Said, Answered
  <2>2. ASSUME NEW c \in Commands, Step(c)
        PROVE  [View!Next]_View!vars
    <3>1. /\ Saids' = [Saids EXCEPT ![c] = Said(c)']
          /\ Answereds' = [Answereds EXCEPT ![c] = Answered(c)']
      BY <2>2, StepMoves, MovesAreTyped, ViewMoves DEF CommandInv
    <3>2. CASE Said(c)' = Said(c) /\ Answered(c)' = Answered(c)
      <4>1. Saids' = Saids /\ Answereds' = Answereds
        BY <3>1, <3>2 DEF Saids, Answereds
      <4> QED
        BY <4>1 DEF View!vars, Saids, Answereds, Said, Answered
    <3>3. CASE /\ Answered(c) = "NONE" /\ Said(c)' = Said(c)
               /\ \/ Answered(c)' = "FAILED"
                  \/ /\ Answered(c)' = "OK"
                     /\ Said(c) \in {"action.creating"} \cup View!Response
      <4>1. Saids' = Saids /\ Saids[c] = Said(c) /\ Answereds[c] = "NONE"
        BY <3>1, <3>3 DEF Saids, Answereds
      <4>2. View!Conclude(c)
        BY <3>1, <3>3, <4>1 DEF View!Conclude, Saids, Answereds, Said, Answered
      <4> QED
        BY <4>2 DEF View!Next
    <3>4. CASE /\ Answered(c) = "NONE" /\ View!Follows(Said(c)', Said(c))
               /\ \/ Answered(c)' = "FAILED"
                  \/ Answered(c)' = "NONE" /\ Said(c)' # "error"
      <4>0. PICK event : event = Said(c)'
        OBVIOUS
      <4>1. /\ Saids[c] = Said(c) /\ Answereds[c] = "NONE"
            /\ View!Follows(event, Saids[c])
        BY <3>4, <4>0 DEF Saids, Answereds
      <4>2. event \in {"context.loading", "provider.generating", "action.creating", "error"}
                        \cup View!Response
        BY <4>1 DEF View!Follows
      <4>3. View!Say(c, event)
        BY <3>1, <4>0, <4>1 DEF View!Say, Saids, Answereds, Said, Answered
      <4>4. CASE Answered(c)' = "FAILED"
        <5>1. Answereds' = [Answereds EXCEPT ![c] = "FAILED"]
          BY <3>1, <4>4
        <5>2. View!SayAndFail(c)
          BY <4>2, <4>3, <5>1 DEF View!SayAndFail, Answereds, Answered
        <5> QED
          BY <5>2 DEF View!Next
      <4>5. CASE Answered(c)' = "NONE" /\ event # "error"
        <5>1. Answereds' = Answereds
          BY <3>1, <4>1, <4>5 DEF Answereds
        <5>2. event \in {"context.loading", "provider.generating", "action.creating"}
                          \cup View!Response
          BY <4>2, <4>5
        <5>3. View!SayAndGoOn(c)
          BY <4>3, <5>1, <5>2 DEF View!SayAndGoOn, Answereds, Answered
        <5> QED
          BY <5>3 DEF View!Next
      <4> QED
        BY <3>4, <4>0, <4>4, <4>5
    <3> QED
      BY <2>2, <3>2, <3>3, <3>4, StepIsSaid
  <2>3. CASE UNCHANGED vars
    BY <2>3 DEF vars, View!vars
  <2> QED
    BY <2>2, <2>3 DEF Next
<1> QED
  BY <1>1, <1>2, CommandInvAlways, PTL DEF Spec, ImplementsCommandStream, View!Spec

=============================================================================
