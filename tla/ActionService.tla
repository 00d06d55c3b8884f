--------------------------- MODULE ActionService ---------------------------
(***************************************************************************)
(* ActionService: the lifecycle of proposed actions.  The HTTP runtime     *)
(* runs every request in a thread of its own (ThreadingHTTPServer, one     *)
(* asyncio.run per request), so requests interleave between any two calls  *)
(* to the store, the clock or a dependency; each step below is one such    *)
(* call with the pure code around it.  The store survives a crash of the   *)
(* process (JsonFileActionStore); the requests in flight do not.           *)
(***************************************************************************)
EXTENDS ActionStore

CONSTANTS
    Threads,    \* request threads
    Actions,    \* action ids
    NoResource, \* of a request that names no resource
    Requests,   \* the requests clients send
    TTLs,       \* lifetimes a create request resolves to (milliseconds)
    MaxNow,     \* bound: the clock stops here
    MaxFaults   \* bound: crashes and unexpected exceptions

Operations == {"create", "list", "get", "approve", "reject", "apply"}

(* For a create request, id is the one its id_generator call returns.       *)
Request == [op       : Operations,
            id       : Actions,
            key      : Keys \cup {NoKey},
            user     : Users,
            session  : Sessions,
            resource : Resources \cup {NoResource}]

ASSUME RequestsAssumption ==
    /\ Requests \subseteq Request
    /\ \A r \in Requests : r.op = "apply" => r.key \in Keys
ASSUME TimeAssumption == TTLs \subseteq Nat /\ MaxNow \in Nat /\ MaxFaults \in Nat

VARIABLES
    now,        \* the clock, in milliseconds
    store,      \* action_store: id -> record
    pc,         \* where each request is in its handler
    request,    \* the request each thread serves
    seen,       \* the handler's local `action`
    event,      \* the status change the handler publishes
    reply,      \* what the handler returns or raises
    writes,     \* external: provider mutations made for each action
    announced,  \* external: statuses whose event reached the publisher
    lost,       \* statuses whose event never did
    faults

vars == <<now, store, pc, request, seen, event, reply,
          writes, announced, lost, faults>>

-----------------------------------------------------------------------------
(* apply_action's stages between the reservation and the completion.        *)
Applying == {"consent", "token", "target", "decrypt", "write",
             "applied", "writeFailed"}
Labels == {"idle", "collision", "insert", "expiry", "approve", "reject",
           "reserve", "publish", "reply"} \cup Applying

NoRequest == [op |-> "none"]
NoEvent   == [fate |-> "none"]
NoReply   == [code |-> "NONE", shown |-> {}, reported |-> FALSE]

Event == [previous : Statuses \cup {"NONE"}, status : Statuses, reason : Reasons,
          reports : BOOLEAN, fate : {"pending", "published", "failed"}]

Codes == {"NONE", "OK", "ACTION_NOT_FOUND", "ACTION_FORBIDDEN",
          "INVALID_FIELD", "ACTION_ID_COLLISION", "ENCRYPTION_FAILED",
          "ACTION_NOT_APPROVABLE", "ACTION_NOT_APPROVED",
          "ACTION_APPLY_IN_PROGRESS", "ACTION_NOT_APPLIABLE",
          "CONSENT_CHECK_FAILED", "TOKEN_STATUS_CHECK_FAILED",
          "TARGET_VALIDATION_FAILED", "ACTION_PAYLOAD_DECRYPT_FAILED",
          "PROVIDER_WRITE_FAILED", "INTERNAL_ERROR"}

TypeOK ==
    /\ now \in Nat
    /\ store \in [Actions -> Record]
    /\ pc \in [Threads -> Labels]
    /\ request \in [Threads -> Requests \cup {NoRequest}]
    /\ seen \in [Threads -> Record]
    /\ event \in [Threads -> Event \cup {NoEvent}]
    /\ reply \in [Threads -> [code : Codes, reported : BOOLEAN,
                              shown : SUBSET [id : Actions, status : Statuses]]]
    /\ writes \in [Actions -> Nat]
    /\ announced \in [Actions -> SUBSET Statuses]
    /\ lost \in [Actions -> SUBSET Statuses]
    /\ faults \in Nat

Init ==
    /\ now = 0
    /\ store = [a \in Actions |-> Absent]
    /\ pc = [t \in Threads |-> "idle"]
    /\ request = [t \in Threads |-> NoRequest]
    /\ seen = [t \in Threads |-> Absent]
    /\ event = [t \in Threads |-> NoEvent]
    /\ reply = [t \in Threads |-> NoReply]
    /\ writes = [a \in Actions |-> 0]
    /\ announced = [a \in Actions |-> {}]
    /\ lost = [a \in Actions |-> {}]
    /\ faults = 0

-----------------------------------------------------------------------------
(* How a handler's step leaves: to its next step, with a value or an error, *)
(* or by publishing first.                                                  *)

Id(t)  == request[t].id
Key(t) == request[t].key
Current(t) == store[Id(t)]

Continue(t, label) ==
    /\ pc' = [pc EXCEPT ![t] = label]
    /\ UNCHANGED <<event, reply>>

Return(t, code, shown) ==
    /\ pc' = [pc EXCEPT ![t] = "reply"]
    /\ seen' = [seen EXCEPT ![t] = Absent]
    /\ reply' = [reply EXCEPT ![t] = [code |-> code, shown |-> shown, reported |-> FALSE]]
    /\ UNCHANGED event

(* Mutated forms of StatusEvent: the two statuses swapped; every failure     *)
(* dropped.                                                                 *)
StatusEventSwapped(previous, status, reason, reports) ==
    [previous |-> status, status |-> previous, reason |-> reason,
     reports |-> reports, fate |-> "pending"]

StatusEventUnreported(previous, status, reason, reports) ==
    [previous |-> previous, status |-> status, reason |-> reason,
     reports |-> FALSE, fate |-> "pending"]

(* The event of a status change the store now holds.  `reports` is FALSE     *)
(* where the caller drops the failure that publishing it may return.        *)
StatusEvent(previous, status, reason, reports) ==
    [previous |-> previous, status |-> status, reason |-> reason,
     reports |-> reports, fate |-> "pending"]

PublishThenReturn(t, change, code, shown) ==
    /\ pc' = [pc EXCEPT ![t] = "publish"]
    /\ seen' = [seen EXCEPT ![t] = Absent]
    /\ event' = [event EXCEPT ![t] = change]
    /\ reply' = [reply EXCEPT ![t] = [code |-> code, shown |-> shown, reported |-> FALSE]]

Put(id, record) == store' = [store EXCEPT ![id] = record]

(* What a reply shows of a record: the record's own status, or the          *)
(* applyResult that terminal_result prefers.                                *)
View(id, record)   == {[id |-> id, status |-> record.status]}
Result(id, record) == {[id |-> id, status |-> IF record.applyResult = "NONE"
                                                THEN record.status ELSE record.applyResult]}

external == <<writes, announced, lost>>

-----------------------------------------------------------------------------
(* Mutated form: the session is not compared.                               *)
DenialIgnoringSession(r, record) ==
    IF ~Exists(record) THEN "ACTION_NOT_FOUND"
    ELSE IF record.user # r.user \/ r.resource \notin {record.resource, NoResource}
      THEN "ACTION_FORBIDDEN"
    ELSE IF r.resource = NoResource /\ r.op # "get" THEN "INVALID_FIELD"
    ELSE "OK"

(* _get_authorized_action: owner, then session, then resource, which only   *)
(* get_action may leave out.                                                *)
Denial(r, record) ==
    IF ~Exists(record) THEN "ACTION_NOT_FOUND"
    ELSE IF record.user # r.user \/ record.session # r.session
      THEN "ACTION_FORBIDDEN"
    ELSE IF r.resource = NoResource
      THEN IF r.op = "get" THEN "OK" ELSE "INVALID_FIELD"
    ELSE IF record.resource # r.resource
      THEN "ACTION_FORBIDDEN"
    ELSE "OK"

Receive(t, r, ops) ==
    /\ pc[t] = "idle"
    /\ r.op \in ops
    /\ request' = [request EXCEPT ![t] = r]
    /\ UNCHANGED <<now, store, external, faults>>

ReceiveAuthorized(t, r, op) ==
    /\ Receive(t, r, {op})
    /\ Denial(r, store[r.id]) = "OK"

Refuse(t, r) ==
    /\ Receive(t, r, {"get", "approve", "reject", "apply"})
    /\ Denial(r, store[r.id]) # "OK"
    /\ Return(t, Denial(r, store[r.id]), {})

(* create_proposed_action validates its fields (the resource stands for     *)
(* them) only after the payload was encrypted, which may raise first.       *)
RefuseCreate(t, r) ==
    /\ Receive(t, r, {"create"})
    /\ r.resource = NoResource
    /\ \E code \in {"INVALID_FIELD", "ENCRYPTION_FAILED"} : Return(t, code, {})

(* list_actions filters by owner and session, never by resource.            *)
ListActions(t, r) ==
    /\ Receive(t, r, {"list"})
    /\ LET listed == {a \in Actions : /\ Exists(store[a])
                                      /\ store[a].user = r.user
                                      /\ store[a].session = r.session}
       IN  Return(t, "OK", UNION {View(a, store[a]) : a \in listed})

GetAction(t, r) ==
    /\ ReceiveAuthorized(t, r, "get")
    /\ Return(t, "OK", View(r.id, store[r.id]))

(* create_proposed_action: the expiry is fixed before the payload is         *)
(* encrypted (an await); the encryption may raise.                          *)
CreateProposedAction(t, r, ttl) ==
    /\ Receive(t, r, {"create"})
    /\ r.resource # NoResource
    /\ seen' = [seen EXCEPT ![t] = [Absent EXCEPT !.user = r.user, !.session = r.session,
                     !.resource = r.resource, !.expiresAt = now + ttl,
                     !.status = "PROPOSED"]]
    /\ Continue(t, "collision")

(* apply_action, approve_action and reject_action up to their first await:   *)
(* the decisions taken on the record that was read.                         *)
ApproveAction(t, r) ==
    /\ ReceiveAuthorized(t, r, "approve")
    /\ LET action == store[r.id] IN
       \/ /\ action.status \in NonTerminalStatuses
          /\ seen' = [seen EXCEPT ![t] = action]
          /\ Continue(t, "expiry")
       \/ /\ action.status = "EXPIRED"
          /\ Return(t, "OK", View(r.id, action))
       \/ /\ action.status \in TerminalStatuses \ {"EXPIRED"}
          /\ Return(t, "ACTION_NOT_APPROVABLE", {})

RejectAction(t, r) ==
    /\ ReceiveAuthorized(t, r, "reject")
    /\ LET action == store[r.id] IN
       \/ /\ action.status \in NonTerminalStatuses
          /\ seen' = [seen EXCEPT ![t] = action]
          /\ Continue(t, "expiry")
       \/ /\ action.status \in TerminalStatuses
          /\ Return(t, "OK", View(r.id, action))

ApplyAction(t, r) ==
    /\ ReceiveAuthorized(t, r, "apply")
    /\ LET action == store[r.id] IN
       \/ /\ Replayable(action, r.key) \/ action.status \in TerminalStatuses
          /\ Return(t, "OK", Result(r.id, action))
       \/ /\ ~Replayable(action, r.key)
          /\ action.status = "APPROVED"
          /\ seen' = [seen EXCEPT ![t] = action]
          /\ Continue(t, "expiry")
       \/ /\ ~Replayable(action, r.key)
          /\ action.status = "PROPOSED"
          /\ Return(t, "ACTION_NOT_APPROVED", {})

-----------------------------------------------------------------------------
(* The rest of create_proposed_action: encrypt raises or returns and the id *)
(* is looked up, then the record is inserted.                               *)
CheckCollision(t) ==
    /\ pc[t] = "collision"
    /\ \/ Exists(Current(t)) /\ Return(t, "ACTION_ID_COLLISION", {})
       \/ ~Exists(Current(t)) /\ Continue(t, "insert") /\ UNCHANGED seen
       \/ Return(t, "ENCRYPTION_FAILED", {})
    /\ UNCHANGED <<now, store, request, external, faults>>

(* Mutated form: the store's create trusts the look-up.                     *)
InsertUnchecked(t) ==
    /\ pc[t] = "insert"
    /\ Put(Id(t), seen[t])
    /\ PublishThenReturn(t, StatusEvent("NONE", "PROPOSED", "NONE", TRUE),
                               "OK", View(Id(t), seen[t]))
    /\ UNCHANGED <<now, request, external, faults>>

Insert(t) ==
    /\ pc[t] = "insert"
    /\ \/ /\ ~Exists(Current(t))
          /\ Put(Id(t), seen[t])
          /\ PublishThenReturn(t, StatusEvent("NONE", "PROPOSED", "NONE", TRUE),
                               "OK", View(Id(t), seen[t]))
       \/ /\ Exists(Current(t))
          /\ Return(t, "INTERNAL_ERROR", {})
          /\ UNCHANGED store
    /\ UNCHANGED <<now, request, external, faults>>

(* _expire_action_if_needed for a non-terminal `action`.  The clock never   *)
(* goes back and expiresAt never changes, so the check and the transition   *)
(* it leads to are one step, taken when the transition is.                  *)
Expiry(t) ==
    /\ pc[t] = "expiry"
    /\ IsExpired(seen[t], now)
    /\ LET current == Current(t)
           key     == IF request[t].op = "apply" THEN Key(t) ELSE current.idempotencyKey
           expired == [current EXCEPT !.status = "EXPIRED", !.reasonCode = "ACTION_EXPIRED",
                                      !.idempotencyKey = key]
           result  == Transition(current, NonTerminalStatuses, FALSE, expired)
       IN  /\ Put(Id(t), result.action)
           /\ \/ /\ result.kind = "UPDATED"
                 /\ PublishThenReturn(t, StatusEvent(seen[t].status, "EXPIRED", "ACTION_EXPIRED", FALSE),
                                      "OK", Result(Id(t), result.action))
              \/ /\ result.kind = "STATUS_MISMATCH"
                 /\ Return(t, "OK", IF request[t].op = "apply" THEN Result(Id(t), current)
                                                              ELSE View(Id(t), current))
    /\ UNCHANGED <<now, request, external, faults>>

(* Mutated form: the clock is not looked at.                                *)
NotExpiredUnchecked(t) ==
    /\ pc[t] = "expiry"
    /\ Continue(t, IF request[t].op = "apply" THEN "reserve" ELSE request[t].op)
    /\ UNCHANGED <<now, store, request, seen, external, faults>>

NotExpired(t) ==
    /\ pc[t] = "expiry"
    /\ ~IsExpired(seen[t], now)
    /\ \/ /\ request[t].op = "approve" /\ seen[t].status = "APPROVED"
          /\ Return(t, "OK", View(Id(t), seen[t]))
       \/ /\ request[t].op = "approve" /\ seen[t].status = "PROPOSED"
          /\ Continue(t, "approve") /\ UNCHANGED seen
       \/ /\ request[t].op = "reject"
          /\ Continue(t, "reject") /\ UNCHANGED seen
       \/ /\ request[t].op = "apply"
          /\ Continue(t, "reserve") /\ UNCHANGED seen
    /\ UNCHANGED <<now, store, request, external, faults>>

(* Mutated form: a lost compare-and-set is tried again until it succeeds.    *)
ApproveRetrying(t) ==
    /\ pc[t] = "approve"
    /\ Current(t).status = "PROPOSED"
    /\ Put(Id(t), [Current(t) EXCEPT !.status = "APPROVED"])
    /\ PublishThenReturn(t, StatusEvent(seen[t].status, "APPROVED", "NONE", TRUE),
                         "OK", View(Id(t), [Current(t) EXCEPT !.status = "APPROVED"]))
    /\ UNCHANGED <<now, request, external, faults>>

Approve(t) ==
    /\ pc[t] = "approve"
    /\ LET result == Transition(Current(t), {"PROPOSED"}, FALSE,
                                [Current(t) EXCEPT !.status = "APPROVED"])
       IN  /\ Put(Id(t), result.action)
           /\ \/ /\ result.kind = "UPDATED"
                 /\ PublishThenReturn(t, StatusEvent(seen[t].status, "APPROVED", "NONE", TRUE),
                                      "OK", View(Id(t), result.action))
              \/ /\ result.kind = "STATUS_MISMATCH"
                 /\ Return(t, "ACTION_NOT_APPROVABLE", {})
    /\ UNCHANGED <<now, request, external, faults>>

Reject(t) ==
    /\ pc[t] = "reject"
    /\ LET result == Transition(Current(t), NonTerminalStatuses, TRUE,
                                [Current(t) EXCEPT !.status = "REJECTED",
                                                   !.reasonCode = "USER_REJECTED"])
       IN  /\ Put(Id(t), result.action)
           /\ \/ /\ result.kind = "UPDATED"
                 /\ PublishThenReturn(t, StatusEvent(seen[t].status, "REJECTED", "USER_REJECTED", TRUE),
                                      "OK", View(Id(t), result.action))
              \/ /\ result.kind = "APPLY_IN_PROGRESS"
                 /\ Return(t, "ACTION_APPLY_IN_PROGRESS", {})
              \/ /\ result.kind = "STATUS_MISMATCH"
                 /\ Return(t, "OK", View(Id(t), result.action))
    /\ UNCHANGED <<now, request, external, faults>>

-----------------------------------------------------------------------------
(* apply_action from the reservation on.                                    *)
Reserve(t) ==
    /\ pc[t] = "reserve"
    /\ LET result == ReserveApply(Current(t), Key(t))
       IN  /\ Put(Id(t), result.action)
           /\ \/ /\ result.kind = "RESERVED"
                 /\ Continue(t, "consent") /\ UNCHANGED seen
              \/ /\ result.kind = "REPLAY"
                 /\ Return(t, "OK", Result(Id(t), result.action))
              \/ /\ result.kind \in {"IN_PROGRESS", "IN_PROGRESS_DIFFERENT_KEY"}
                 /\ Return(t, "ACTION_APPLY_IN_PROGRESS", {})
              \/ /\ result.kind = "NOT_APPROVED"
                 /\ Return(t, "ACTION_NOT_APPLIABLE", {})
    /\ UNCHANGED <<now, request, external, faults>>

(* _complete_reserved_apply, then the event, then `code` with `shown` a     *)
(* result or nothing.  A completion that finds another key's lock returns   *)
(* what the store holds when that is terminal and raises otherwise.         *)
CompleteReserved(t, status, reason, code) ==
    LET patched == [Current(t) EXCEPT !.status = status, !.reasonCode = reason,
                        !.idempotencyKey = Key(t), !.applyResult = status]
        completed == CompleteApply(Current(t), Key(t), patched)
    IN  /\ Put(Id(t), completed)
        /\ IF completed.status \in TerminalStatuses
             THEN PublishThenReturn(t,
                      StatusEvent(seen[t].status, completed.status, completed.reasonCode, TRUE),
                      code, IF code = "OK" THEN Result(Id(t), completed) ELSE {})
             ELSE Return(t, "ACTION_NOT_APPLIABLE", {})
        /\ UNCHANGED <<now, request, external, faults>>

Pass(t, label) ==
    /\ Continue(t, label)
    /\ UNCHANGED <<now, store, request, seen, external, faults>>

(* The dependency answers: allowed, refused, or an exception.               *)
ValidateConsent(t) ==
    /\ pc[t] = "consent"
    /\ \/ Pass(t, "token")
       \/ CompleteReserved(t, "CONFLICTED", "CONSENT_REQUIRED", "OK")
       \/ CompleteReserved(t, "FAILED", "CONSENT_CHECK_FAILED", "CONSENT_CHECK_FAILED")

ValidateToken(t) ==
    /\ pc[t] = "token"
    /\ \/ Pass(t, "target")
       \/ CompleteReserved(t, "FAILED", "RECONNECT_REQUIRED", "OK")
       \/ CompleteReserved(t, "FAILED", "TOKEN_STATUS_CHECK_FAILED", "TOKEN_STATUS_CHECK_FAILED")

ValidateTarget(t) ==
    /\ pc[t] = "target"
    /\ \/ Pass(t, "decrypt")
       \/ CompleteReserved(t, "CONFLICTED", "TARGET_CONFLICT", "OK")
       \/ CompleteReserved(t, "FAILED", "TARGET_VALIDATION_FAILED", "TARGET_VALIDATION_FAILED")

(* Mutated form: the outcome is recorded before the mutation is made.        *)
DecryptThenComplete(t) ==
    /\ pc[t] = "decrypt"
    /\ Pass(t, "applied")

DecryptPayload(t) ==
    /\ pc[t] = "decrypt"
    /\ \/ Pass(t, "write")
       \/ CompleteReserved(t, "FAILED", "ACTION_PAYLOAD_DECRYPT_FAILED",
                           "ACTION_PAYLOAD_DECRYPT_FAILED")

(* connector.apply_action: a normal return means the mutation was made; an  *)
(* exception leaves open whether it was.                                    *)
ConnectorApply(t) ==
    /\ pc[t] = "write"
    /\ \/ /\ writes' = [writes EXCEPT ![Id(t)] = @ + 1]
          /\ \E label \in {"applied", "writeFailed"} : Continue(t, label)
       \/ Continue(t, "writeFailed") /\ UNCHANGED writes
    /\ UNCHANGED <<now, store, request, seen, announced, lost, faults>>

(* The two completions that follow the mutation call complete_apply with    *)
(* their own patch: a failed write records neither applyResult nor key.     *)
CompleteWrite(t, patched, reason, code) ==
    LET completed == CompleteApply(Current(t), Key(t), patched)
    IN  /\ Put(Id(t), completed)
        /\ PublishThenReturn(t, StatusEvent(seen[t].status, completed.status, reason, TRUE), code,
                             IF code = "OK" THEN Result(Id(t), completed) ELSE {})
        /\ UNCHANGED <<now, request, external, faults>>

CompleteApplied(t) ==
    /\ pc[t] = "applied"
    /\ CompleteWrite(t, [Current(t) EXCEPT !.status = "APPLIED",
                              !.reasonCode = "APPLY_SUCCEEDED",
                              !.idempotencyKey = Key(t), !.applyResult = "APPLIED"],
                     "APPLY_SUCCEEDED", "OK")

CompleteWriteFailed(t) ==
    /\ pc[t] = "writeFailed"
    /\ CompleteWrite(t, [Current(t) EXCEPT !.status = "FAILED",
                              !.reasonCode = "PROVIDER_WRITE_FAILED"],
                     "PROVIDER_WRITE_FAILED", "PROVIDER_WRITE_FAILED")

-----------------------------------------------------------------------------
(* _publish_event: the publisher's exceptions are swallowed and become a    *)
(* failure the caller attaches to its reply.  A publisher that raises may   *)
(* have delivered the event all the same.                                   *)
Publish(t) ==
    LET status == event[t].status
        Fate(fate) == event' = [event EXCEPT ![t].fate = fate]
        Deliver == announced' = [announced EXCEPT ![Id(t)] = @ \cup {status}]
        Drop == lost' = [lost EXCEPT ![Id(t)] = @ \cup {status}]
        Report == reply' = [reply EXCEPT ![t].reported = event[t].reports]
    IN  /\ pc[t] = "publish"
        /\ pc' = [pc EXCEPT ![t] = "reply"]
        /\ \/ Fate("published") /\ Deliver /\ UNCHANGED <<lost, reply>>
           \/ Fate("failed") /\ Report /\ Deliver /\ UNCHANGED lost
           \/ Fate("failed") /\ Report /\ Drop /\ UNCHANGED announced
        /\ UNCHANGED <<now, store, request, seen, writes, faults>>

(* The response reaches the client and the thread ends.                     *)
Respond(t) ==
    /\ pc[t] = "reply"
    /\ pc' = [pc EXCEPT ![t] = "idle"]
    /\ request' = [request EXCEPT ![t] = NoRequest]
    /\ event' = [event EXCEPT ![t] = NoEvent]
    /\ reply' = [reply EXCEPT ![t] = NoReply]
    /\ UNCHANGED <<now, store, seen, external, faults>>

-----------------------------------------------------------------------------
(* An exception no handler catches (the store cannot read or write its      *)
(* file, a dependency returns something that is not the dictionary the code *)
(* indexes): the request ends with a 500 and what it stored stays.          *)
Abort(t) ==
    /\ pc[t] \notin {"idle", "publish", "reply"}
    /\ faults < MaxFaults
    /\ faults' = faults + 1
    /\ Return(t, "INTERNAL_ERROR", {})
    /\ UNCHANGED <<now, store, request, external>>

(* The process dies: requests, their replies and unpublished events are     *)
(* gone, the file is not.                                                   *)
Crash ==
    /\ faults < MaxFaults
    /\ \E t \in Threads : pc[t] # "idle"
    /\ faults' = faults + 1
    /\ pc' = [t \in Threads |-> "idle"]
    /\ request' = [t \in Threads |-> NoRequest]
    /\ seen' = [t \in Threads |-> Absent]
    /\ event' = [t \in Threads |-> NoEvent]
    /\ reply' = [t \in Threads |-> NoReply]
    /\ lost' = [a \in Actions |-> lost[a] \cup
                  {event[t].status : t \in {u \in Threads : pc[u] = "publish" /\ Id(u) = a}}]
    /\ UNCHANGED <<now, store, writes, announced>>

Tick ==
    /\ now < MaxNow
    /\ now' = now + 1
    /\ UNCHANGED <<store, pc, request, seen, event, reply, external, faults>>

-----------------------------------------------------------------------------
Handle(t, r) ==
    \/ Refuse(t, r)
    \/ RefuseCreate(t, r)
    \/ ListActions(t, r)
    \/ GetAction(t, r)
    \/ \E ttl \in TTLs : CreateProposedAction(t, r, ttl)
    \/ ApproveAction(t, r)
    \/ RejectAction(t, r)
    \/ ApplyAction(t, r)

Accept(t) == \E r \in Requests : Handle(t, r)

Work(t) ==
    \/ CheckCollision(t)
    \/ Insert(t)
    \/ Expiry(t)
    \/ NotExpired(t)
    \/ Approve(t)
    \/ Reject(t)
    \/ Reserve(t)
    \/ ValidateConsent(t)
    \/ ValidateToken(t)
    \/ ValidateTarget(t)
    \/ DecryptPayload(t)
    \/ ConnectorApply(t)
    \/ CompleteApplied(t)
    \/ CompleteWriteFailed(t)
    \/ Publish(t)
    \/ Respond(t)

Next ==
    \/ \E t \in Threads : Accept(t) \/ Work(t) \/ Abort(t)
    \/ Crash
    \/ Tick

Spec == Init /\ [][Next]_vars

-----------------------------------------------------------------------------
(* Properties.                                                              *)

Working(t, a) == pc[t] \in Applying /\ Id(t) = a

(* An action is mutated in the provider's document at most once, however    *)
(* many apply requests, keys, retries and crashes there are                 *)
(* (action_service.py:204 reserves before connector.apply_action at 323).   *)
AtMostOneWrite == \A a \in Actions : writes[a] <= 1

(* The reservation belongs to one running request and to its key; it is     *)
(* left without an owner only by a crash or an unexpected exception.        *)
LockHasOneOwner ==
    \A a \in Actions :
        /\ \A t, u \in Threads : Working(t, a) /\ Working(u, a) => t = u
        /\ \A t \in Threads : Working(t, a) => store[a].applyLock = Key(t)
        /\ Locked(store[a]) /\ faults = 0 => \E t \in Threads : Working(t, a)

(* What the store says of an action agrees with what happened to the        *)
(* document.  Only PROVIDER_WRITE_FAILED, and an expiry that overtook a      *)
(* reservation still held, leave it open.                                   *)
OutcomeMatchesDocument ==
    \A a \in Actions :
        LET record == store[a] IN
        /\ record.status = "APPLIED" => writes[a] = 1
        /\ record.status \in {"ABSENT", "PROPOSED", "REJECTED", "CONFLICTED"} => writes[a] = 0
        /\ record.status = "FAILED" /\ record.reasonCode # "PROVIDER_WRITE_FAILED"
               => writes[a] = 0
        /\ record.status \in {"APPROVED", "EXPIRED"} /\ ~Locked(record) => writes[a] = 0

(* A stored applyResult is replayed to every later request with its key, so *)
(* it must be the action's final status, under the key that produced it.    *)
ReplayIsFinal ==
    \A a \in Actions :
        LET record == store[a] IN
        record.applyResult # "NONE" =>
            /\ record.status = record.applyResult
            /\ record.idempotencyKey # NoKey
            /\ ~Locked(record)

(* A client told that its action was applied can rely on it: the mutation    *)
(* was made and no other request changed the outcome before the answer.     *)
NoFalseSuccess ==
    \A t \in Threads : \A shown \in reply[t].shown :
        shown.status = "APPLIED" =>
            store[shown.id].status = "APPLIED" /\ writes[shown.id] = 1

(* No status change is silent: an action's current status has been          *)
(* published, is about to be, or is known to be lost.                       *)
EveryChangeAnnounced ==
    \A a \in Actions :
        Exists(store[a]) =>
            \/ store[a].status \in announced[a] \cup lost[a]
            \/ \E t \in Threads : pc[t] = "publish" /\ Id(t) = a
                                  /\ event[t].status = store[a].status

(* No status is announced twice, though many requests race to the same      *)
(* transition: the one whose compare-and-set succeeded publishes.           *)
NoDuplicateEvents ==
    \A t \in Threads :
        pc[t] = "publish" =>
            /\ event[t].status \notin announced[Id(t)] \cup lost[Id(t)]
            /\ \A u \in Threads \ {t} :
                   pc[u] = "publish" /\ Id(u) = Id(t) => event[u].status # event[t].status

(* The previous status an event names is one the action really had: the      *)
(* handler read it long before, but it did read it, and the change to it    *)
(* has been announced, lost, or waits in another thread                     *)
(* (action_service.py:352).                                                 *)
PreviousStatusWasTrue ==
    \A t \in Threads :
        LET previous == event[t].previous IN
        pc[t] = "publish" /\ previous # "NONE" =>
            \/ previous \in announced[Id(t)] \cup lost[Id(t)]
            \/ \E u \in Threads \ {t} : pc[u] = "publish" /\ Id(u) = Id(t)
                                        /\ event[u].status = previous

(* A failed publication is reported with the answer; the expiry path, which  *)
(* drops the failure (action_service.py:471), is left out here.             *)
FailuresReported ==
    \A t \in Threads :
        event[t].fate = "failed" /\ event[t].status # "EXPIRED" => reply[t].reported

(* The same for every path, as TASKS.md:54 has it.                          *)
EveryFailureReported ==
    \A t \in Threads : event[t].fate = "failed" => reply[t].reported

(* An action reported EXPIRED was not mutated                               *)
(* (tests/test_action_service.py:130).                                      *)
ExpiredMeansNoMutation ==
    \A a \in Actions : store[a].status = "EXPIRED" => writes[a] = 0

(* Repeating an approval is answered like the first (TASKS.md:22): only a    *)
(* terminal action cannot be approved.                                      *)
RepeatedApprovalSucceeds ==
    \A t \in Threads :
        reply[t].code = "ACTION_NOT_APPROVABLE" => store[Id(t)].status \in TerminalStatuses

(* A terminal status never changes, but for the completion of an apply that *)
(* was already reserved when the action expired.                            *)
TerminalIsFinal ==
    [][\A a \in Actions :
          store[a].status \in TerminalStatuses /\ store'[a].status # store[a].status =>
              /\ store[a].status = "EXPIRED" /\ Locked(store[a])
              /\ store'[a].status \in {"APPLIED", "CONFLICTED", "FAILED"}
              /\ ~Locked(store'[a])]_vars

(* An action keeps the owner, session, resource and expiry it was proposed  *)
(* with: no later proposal takes over its id.                               *)
ProposalIsKept ==
    [][\A a \in Actions :
          Exists(store[a]) =>
              /\ Exists(store'[a])
              /\ store'[a].user = store[a].user
              /\ store'[a].session = store[a].session
              /\ store'[a].resource = store[a].resource
              /\ store'[a].expiresAt = store[a].expiresAt]_vars

Owns(r, record) == r.user = record.user /\ r.session = record.session

(* A request changes, mutates and reveals only actions of its own user and  *)
(* session and, where it decides or applies, its own resource.              *)
OwnActionsOnly ==
    /\ \A t \in Threads : \A shown \in reply[t].shown : Owns(request[t], store[shown.id])
    /\ \A t \in Threads : pc[t] \in Applying \cup {"expiry", "approve", "reject", "reserve"} =>
           Owns(request[t], Current(t)) /\ request[t].resource = Current(t).resource

(* An action never stays reserved, unless a fault took the owner away.      *)
LocksAreReleased ==
    \A a \in Actions : Locked(store[a]) ~> (~Locked(store[a]) \/ faults > 0)

-----------------------------------------------------------------------------
(* The service implements the lifecycle it promises.                        *)
Lifecycle == INSTANCE ActionLifecycle WITH
    status    <- [a \in Actions |-> store[a].status],
    reserved  <- [a \in Actions |-> Locked(store[a])],
    mutations <- writes

ImplementsLifecycle == Lifecycle!Spec

=============================================================================
