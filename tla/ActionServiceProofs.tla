------------------------ MODULE ActionServiceProofs ------------------------
(***************************************************************************)
(* Proofs about ActionService, for any number of threads, actions, keys,   *)
(* owners and faults.                                                      *)
(***************************************************************************)
EXTENDS ActionService, TLAPS

-----------------------------------------------------------------------------
(* The records.                                                             *)

LEMMA AbsentIsRecord == Absent \in Record
  BY ScopeAssumption
  DEF Absent, Record, Reasons, Statuses, NonTerminalStatuses, TerminalStatuses

(* A store operation returns a record: the current one or the patched one.  *)
LEMMA TransitionIsRecord ==
    ASSUME NEW current \in Record, NEW patched \in Record,
           NEW allowed, NEW lockAware \in BOOLEAN
    PROVE  /\ Transition(current, allowed, lockAware, patched).action \in {current, patched}
           /\ Transition(current, allowed, lockAware, patched).kind = "UPDATED"
                 => Transition(current, allowed, lockAware, patched).action = patched
           /\ Transition(current, allowed, lockAware, patched).kind # "UPDATED"
                 => Transition(current, allowed, lockAware, patched).action = current
  BY DEF Transition

-----------------------------------------------------------------------------
(* Type correctness.  TypeOK is not inductive alone: a step reads the local *)
(* state that the step before it left, so what each label guarantees of the *)
(* thread's locals goes into the invariant.                                 *)

Deciding == {"expiry", "approve", "reject", "reserve"} \cup Applying

LocalsOK(t) ==
    /\ pc[t] # "idle" => request[t] \in Requests
    /\ pc[t] \in {"reserve"} \cup Applying => request[t].key \in Keys
    /\ pc[t] = "publish" => event[t] \in Event
    /\ pc[t] \in {"collision", "insert"} \cup Deciding => seen[t].status \in Statuses
    /\ pc[t] \in Deciding => store[request[t].id].status \in Statuses

TypeInv == TypeOK /\ \A t \in Threads : LocalsOK(t)

LEMMA InitTypeInv == Init => TypeInv
  <1> SUFFICES ASSUME Init PROVE TypeInv
    OBVIOUS
  <1>1. TypeOK
    BY AbsentIsRecord DEF Init, TypeOK, Labels, NoReply, Codes
  <1>2. \A t \in Threads : LocalsOK(t)
    BY DEF Init, LocalsOK, Deciding, Applying
  <1> QED
    BY <1>1, <1>2 DEF TypeInv

(* A step of t touches no other thread's locals, and no stored action       *)
(* becomes absent: what remains to show is t's own part.                    *)
LEMMA OtherThreadsKeepLocals ==
    ASSUME TypeInv, NEW t \in Threads, TypeOK', LocalsOK(t)',
           \A u \in Threads \ {t} : /\ pc'[u] = pc[u] /\ request'[u] = request[u]
                                    /\ seen'[u] = seen[u] /\ event'[u] = event[u],
           \A a \in Actions : store[a].status \in Statuses => store'[a].status \in Statuses
    PROVE  TypeInv'
  <1> SUFFICES ASSUME NEW u \in Threads, u # t PROVE LocalsOK(u)'
    BY DEF TypeInv
  <1>1. pc[u] # "idle" => request[u].id \in Actions
    BY RequestsAssumption DEF TypeInv, LocalsOK, Request
  <1>2. pc[u] \in Deciding => pc[u] # "idle"
    BY DEF Deciding, Applying
  <1> QED
    BY <1>1, <1>2 DEF TypeInv, LocalsOK

ShownType == SUBSET [id : Actions, status : Statuses]

LEMMA ShownIsTyped ==
    ASSUME NEW id \in Actions, NEW record \in Record, record.status \in Statuses
    PROVE  View(id, record) \in ShownType /\ Result(id, record) \in ShownType
  BY DEF View, Result, ShownType, Record, Statuses

(* What a step of t leaves well-typed besides pc, seen, event and reply.    *)
StepFrame(t) ==
    /\ now' \in Nat
    /\ store' \in [Actions -> Record]
    /\ \A a \in Actions : store[a].status \in Statuses => store'[a].status \in Statuses
    /\ request' \in [Threads -> Requests \cup {NoRequest}]
    /\ request'[t] \in Requests
    /\ \A u \in Threads \ {t} : request'[u] = request[u]
    /\ writes' \in [Actions -> Nat]
    /\ announced' \in [Actions -> SUBSET Statuses]
    /\ lost' \in [Actions -> SUBSET Statuses]
    /\ faults' \in Nat

LEMMA ReturnType ==
    ASSUME TypeInv, NEW t \in Threads, StepFrame(t),
           NEW code \in Codes, NEW shown \in ShownType, Return(t, code, shown)
    PROVE  TypeInv'
  <1>1. TypeOK'
    BY AbsentIsRecord DEF StepFrame, TypeInv, TypeOK, Return, Labels, ShownType
  <1>2. LocalsOK(t)'
    BY DEF StepFrame, TypeInv, TypeOK, Return, LocalsOK, Deciding, Applying
  <1> QED
    BY <1>1, <1>2, OtherThreadsKeepLocals DEF StepFrame, TypeInv, TypeOK, Return

LEMMA PublishThenReturnType ==
    ASSUME TypeInv, NEW t \in Threads, StepFrame(t), NEW change \in Event,
           NEW code \in Codes, NEW shown \in ShownType,
           PublishThenReturn(t, change, code, shown)
    PROVE  TypeInv'
  <1>1. TypeOK'
    BY AbsentIsRecord DEF StepFrame, TypeInv, TypeOK, PublishThenReturn, Labels, ShownType
  <1>2. LocalsOK(t)'
    BY DEF StepFrame, TypeInv, TypeOK, PublishThenReturn, LocalsOK, Deciding, Applying
  <1> QED
    BY <1>1, <1>2, OtherThreadsKeepLocals DEF StepFrame, TypeInv, TypeOK, PublishThenReturn

LEMMA ContinueType ==
    ASSUME TypeInv, NEW t \in Threads, StepFrame(t),
           NEW label \in {"collision", "insert"} \cup Deciding, Continue(t, label),
           NEW record \in Record, record.status \in Statuses,
           seen' = [seen EXCEPT ![t] = record],
           label \in Deciding => store'[request'[t].id].status \in Statuses,
           label \in {"reserve"} \cup Applying => request'[t].key \in Keys
    PROVE  TypeInv'
  <1>1. TypeOK'
    BY DEF StepFrame, TypeInv, TypeOK, Continue, Labels, Deciding
  <1>2. LocalsOK(t)'
    BY DEF StepFrame, TypeInv, TypeOK, Continue, LocalsOK, Deciding, Applying
  <1> QED
    BY <1>1, <1>2, OtherThreadsKeepLocals DEF StepFrame, TypeInv, TypeOK, Continue

LEMMA StatusEventType ==
    ASSUME NEW previous \in Statuses \cup {"NONE"}, NEW status \in Statuses,
           NEW reason \in Reasons, NEW reports \in BOOLEAN
    PROVE  StatusEvent(previous, status, reason, reports) \in Event
  BY DEF StatusEvent, Event

LEMMA PutFrame ==
    ASSUME TypeInv, NEW t \in Threads, NEW record \in Record, NEW id \in Actions,
           store[id].status \in Statuses => record.status \in Statuses,
           Put(id, record), request' = request, request[t] \in Requests,
           UNCHANGED <<now, external, faults>>
    PROVE  StepFrame(t) /\ store'[id] = record
  BY DEF TypeInv, TypeOK, Put, StepFrame, external

LEMMA SameFrame ==
    ASSUME TypeInv, NEW t \in Threads, request' = request, request[t] \in Requests,
           UNCHANGED <<now, store, external, faults>>
    PROVE  StepFrame(t)
  BY DEF TypeInv, TypeOK, StepFrame, external

LEMMA AcceptType ==
    ASSUME TypeInv, NEW t \in Threads, Accept(t)
    PROVE  TypeInv'
  <1> PICK r \in Requests :
        \/ Refuse(t, r)
        \/ RefuseCreate(t, r)
        \/ ListActions(t, r)
        \/ GetAction(t, r)
        \/ \E ttl \in TTLs : CreateProposedAction(t, r, ttl)
        \/ ApproveAction(t, r)
        \/ RejectAction(t, r)
        \/ ApplyAction(t, r)
    BY DEF Accept, Handle
  <1>r. r \in Request /\ r.id \in Actions /\ r.op \in Operations
    BY RequestsAssumption DEF Request
  <1>f. \A ops : Receive(t, r, ops) => StepFrame(t) /\ request'[t] = r /\ store' = store
    BY DEF TypeInv, TypeOK, Receive, StepFrame, external
  <1>s. store[r.id] \in Record
    BY <1>r DEF TypeInv, TypeOK
  <1>e. Denial(r, store[r.id]) = "OK" => store[r.id].status \in Statuses
    BY <1>s DEF Denial, Exists, Record
  <1>v. store[r.id].status \in Statuses =>
            View(r.id, store[r.id]) \in ShownType /\ Result(r.id, store[r.id]) \in ShownType
    BY <1>r, <1>s, ShownIsTyped
  <1>n. {} \in ShownType /\ {"OK", "ACTION_NOT_APPROVABLE", "ACTION_NOT_APPROVED"} \subseteq Codes
    BY DEF ShownType, Codes
  <1>d. "expiry" \in {"collision", "insert"} \cup Deciding
        /\ "expiry" \notin {"reserve"} \cup Applying
    BY DEF Deciding, Applying
  <1>1. CASE Refuse(t, r)
    <2>1. Denial(r, store[r.id]) \in Codes
      BY DEF Denial, Codes
    <2> QED
      BY <1>1, <1>f, <1>n, <2>1, ReturnType DEF Refuse
  <1>8. CASE RefuseCreate(t, r)
    <2>1. {"INVALID_FIELD", "ENCRYPTION_FAILED"} \subseteq Codes
      BY DEF Codes
    <2> QED
      BY <1>8, <1>f, <1>n, <2>1, ReturnType DEF RefuseCreate
  <1>2. CASE ListActions(t, r)
    <2> DEFINE listed == {a \in Actions : /\ Exists(store[a])
                                          /\ store[a].user = r.user
                                          /\ store[a].session = r.session}
    <2>1. \A a \in listed : View(a, store[a]) \in ShownType
      BY ShownIsTyped DEF TypeInv, TypeOK, Exists, Record
    <2>2. UNION {View(a, store[a]) : a \in listed} \in ShownType
      BY <2>1 DEF ShownType
    <2> QED
      BY <1>2, <1>f, <1>n, <2>2, ReturnType DEF ListActions
  <1>3. CASE GetAction(t, r)
    BY <1>3, <1>f, <1>n, <1>e, <1>v, ReturnType DEF GetAction, ReceiveAuthorized
  <1>4. ASSUME NEW ttl \in TTLs, CreateProposedAction(t, r, ttl) PROVE TypeInv'
    <2> DEFINE draft == [Absent EXCEPT !.user = r.user, !.session = r.session,
                             !.resource = r.resource, !.expiresAt = now + ttl,
                             !.status = "PROPOSED"]
    <2>1. r.resource \in Resources /\ r.user \in Users /\ r.session \in Sessions
      BY <1>4, <1>r, RequestsAssumption DEF CreateProposedAction, Request
    <2>2. now + ttl \in Nat
      BY TimeAssumption DEF TypeInv, TypeOK
    <2>3. draft \in Record /\ draft.status \in Statuses
      BY <2>1, <2>2, AbsentIsRecord DEF Record, Statuses, NonTerminalStatuses
    <2>4. "collision" \notin Deciding
      BY DEF Deciding, Applying
    <2> QED
      BY <1>4, <1>f, <2>3, <2>4, ContinueType DEF CreateProposedAction, Deciding
  <1>5. CASE ApproveAction(t, r)
    BY <1>5, <1>f, <1>s, <1>e, <1>v, <1>n, <1>d, ReturnType, ContinueType
    DEF ApproveAction, ReceiveAuthorized
  <1>6. CASE RejectAction(t, r)
    BY <1>6, <1>f, <1>s, <1>e, <1>v, <1>n, <1>d, ReturnType, ContinueType
    DEF RejectAction, ReceiveAuthorized
  <1>7. CASE ApplyAction(t, r)
    BY <1>7, <1>f, <1>s, <1>e, <1>v, <1>n, <1>d, ReturnType, ContinueType
    DEF ApplyAction, ReceiveAuthorized
  <1> QED
    BY <1>1, <1>2, <1>3, <1>4, <1>5, <1>6, <1>7, <1>8

(* The three ways a completion leaves.                                      *)
LEMMA CompleteApplyType ==
    ASSUME NEW current \in Record, NEW key, NEW patched \in Record
    PROVE  /\ CompleteApply(current, key, patched) \in Record
           /\ CompleteApply(current, key, patched).status \in {current.status, patched.status}
           /\ CompleteApply(current, key, patched).reasonCode \in Reasons
  BY DEF CompleteApply, Record

LEMMA CompleteReservedType ==
    ASSUME TypeInv, NEW t \in Threads, pc[t] \in Applying,
           NEW status \in TerminalStatuses, NEW reason \in Reasons, NEW code \in Codes,
           CompleteReserved(t, status, reason, code)
    PROVE  TypeInv'
  <1> DEFINE patched == [Current(t) EXCEPT !.status = status, !.reasonCode = reason,
                             !.idempotencyKey = Key(t), !.applyResult = status]
             completed == CompleteApply(Current(t), Key(t), patched)
             change == StatusEvent(seen[t].status, completed.status, completed.reasonCode, TRUE)
             shown == IF code = "OK" THEN Result(Id(t), completed) ELSE {}
  <1>1. /\ Id(t) \in Actions /\ Key(t) \in Keys /\ request[t] \in Requests
        /\ Current(t) \in Record /\ Current(t).status \in Statuses
        /\ seen[t].status \in Statuses
    BY RequestsAssumption
    DEF TypeInv, TypeOK, LocalsOK, Id, Key, Current, Applying, Deciding, Request
  <1>2. patched \in Record /\ patched.status \in Statuses
    BY <1>1 DEF Record, Statuses
  <1>3. /\ completed \in Record /\ completed.status \in Statuses
        /\ completed.reasonCode \in Reasons
    <2> HIDE DEF patched
    <2> QED
      BY <1>1, <1>2, CompleteApplyType
  <1>4. StepFrame(t)
    BY <1>1, <1>3, PutFrame DEF CompleteReserved
  <1>5. change \in Event /\ shown \in ShownType /\ {} \in ShownType
    BY <1>1, <1>3, StatusEventType, ShownIsTyped DEF ShownType
  <1>6. \/ PublishThenReturn(t, change, code, shown)
        \/ Return(t, "ACTION_NOT_APPLIABLE", {})
    BY DEF CompleteReserved
  <1>7. "ACTION_NOT_APPLIABLE" \in Codes
    BY DEF Codes
  <1> QED
    BY <1>4, <1>5, <1>6, <1>7, PublishThenReturnType, ReturnType

LEMMA CompleteWriteType ==
    ASSUME TypeInv, NEW t \in Threads, pc[t] \in Applying,
           NEW patched \in Record, patched.status \in Statuses,
           NEW reason \in Reasons, NEW code \in Codes,
           CompleteWrite(t, patched, reason, code)
    PROVE  TypeInv'
  <1> DEFINE completed == CompleteApply(Current(t), Key(t), patched)
             change == StatusEvent(seen[t].status, completed.status, reason, TRUE)
             shown == IF code = "OK" THEN Result(Id(t), completed) ELSE {}
  <1>1. /\ Id(t) \in Actions /\ request[t] \in Requests
        /\ Current(t) \in Record /\ Current(t).status \in Statuses
        /\ seen[t].status \in Statuses
    BY RequestsAssumption
    DEF TypeInv, TypeOK, LocalsOK, Id, Current, Applying, Deciding, Request
  <1>3. completed \in Record /\ completed.status \in Statuses
    BY <1>1, CompleteApplyType
  <1>4. StepFrame(t)
    BY <1>1, <1>3, PutFrame DEF CompleteWrite
  <1>5. change \in Event /\ shown \in ShownType
    BY <1>1, <1>3, StatusEventType, ShownIsTyped DEF ShownType
  <1> QED
    BY <1>4, <1>5, PublishThenReturnType DEF CompleteWrite

LEMMA PassType ==
    ASSUME TypeInv, NEW t \in Threads, pc[t] \in Applying, NEW label \in Applying, Pass(t, label)
    PROVE  TypeInv'
  <1>1. /\ request[t] \in Requests /\ request'[t] = request[t]
        /\ seen[t] \in Record /\ seen[t].status \in Statuses
        /\ seen' = [seen EXCEPT ![t] = seen[t]]
        /\ store'[request'[t].id].status \in Statuses /\ request'[t].key \in Keys
    BY DEF TypeInv, TypeOK, LocalsOK, Applying, Deciding, Pass
  <1>2. StepFrame(t)
    BY <1>1, SameFrame DEF Pass
  <1> QED
    BY <1>1, <1>2, ContinueType DEF Pass, Deciding

LEMMA WorkType ==
    ASSUME TypeInv, NEW t \in Threads, Work(t)
    PROVE  TypeInv'
  <1>b. Work(t) => pc[t] # "idle"
    BY DEF Work, CheckCollision, Insert, Expiry, NotExpired, Approve, Reject, Reserve,
           ValidateConsent, ValidateToken, ValidateTarget, DecryptPayload, ConnectorApply,
           CompleteApplied, CompleteWriteFailed, Publish, Respond
  <1>t. /\ request[t] \in Requests /\ Id(t) \in Actions
        /\ Key(t) \in Keys \cup {NoKey} /\ request[t].op \in Operations
        /\ request[t].op = "apply" => Key(t) \in Keys
        /\ Current(t) \in Record /\ seen[t] \in Record
        /\ seen' = seen => seen' = [seen EXCEPT ![t] = seen[t]]
    BY <1>b, RequestsAssumption DEF TypeInv, TypeOK, LocalsOK, Id, Key, Current, Request
  <1>d. /\ pc[t] \in {"collision", "insert"} \cup Deciding => seen[t].status \in Statuses
        /\ pc[t] \in Deciding => Current(t).status \in Statuses
    BY DEF TypeInv, LocalsOK, Current, Id
  <1>c. {"OK", "ACTION_ID_COLLISION", "ENCRYPTION_FAILED", "INTERNAL_ERROR",
         "ACTION_NOT_APPROVABLE", "ACTION_NOT_APPLIABLE", "ACTION_APPLY_IN_PROGRESS"}
           \subseteq Codes /\ {} \in ShownType
    BY DEF Codes, ShownType
  <1>v. /\ Current(t).status \in Statuses => View(Id(t), Current(t)) \in ShownType
                                            /\ Result(Id(t), Current(t)) \in ShownType
        /\ seen[t].status \in Statuses => View(Id(t), seen[t]) \in ShownType
    BY <1>t, ShownIsTyped
  <1>u. UNCHANGED <<now, store, request, external, faults>> => StepFrame(t)
    BY <1>t, SameFrame
  <1>1. CASE CheckCollision(t)
    BY <1>1, <1>t, <1>d, <1>c, <1>u, ReturnType, ContinueType
    DEF CheckCollision, Deciding, Applying
  <1>2. CASE Insert(t)
    <2>1. StatusEvent("NONE", "PROPOSED", "NONE", TRUE) \in Event
      BY StatusEventType DEF Statuses, NonTerminalStatuses, Reasons
    <2>2. Put(Id(t), seen[t]) => StepFrame(t)
      BY <1>2, <1>t, <1>d, PutFrame DEF Insert
    <2>3. CASE ~Exists(Current(t))
      BY <2>1, <2>2, <2>3, <1>2, <1>t, <1>d, <1>c, <1>v, PublishThenReturnType DEF Insert
    <2>4. CASE Exists(Current(t))
      BY <2>4, <1>2, <1>c, <1>u, ReturnType DEF Insert
    <2> QED
      BY <2>3, <2>4
  <1>3. CASE Expiry(t)
    <2> DEFINE key == IF request[t].op = "apply" THEN Key(t) ELSE Current(t).idempotencyKey
               expired == [Current(t) EXCEPT !.status = "EXPIRED", !.reasonCode = "ACTION_EXPIRED",
                                             !.idempotencyKey = key]
               result == Transition(Current(t), NonTerminalStatuses, FALSE, expired)
    <2>1. Current(t).status \in Statuses /\ seen[t].status \in Statuses
      BY <1>3, <1>d DEF Expiry, Deciding
    <2>a. key \in Keys \cup {NoKey}
      BY <1>t DEF Record
    <2>2. expired \in Record /\ expired.status \in Statuses
      <3> HIDE DEF key
      <3> QED
        BY <1>t, <2>a DEF Record, Statuses, TerminalStatuses, Reasons
    <2>3. result.action \in {Current(t), expired}
      BY <1>t, <2>2, TransitionIsRecord
    <2>4. StepFrame(t)
      BY <1>3, <1>t, <2>1, <2>2, <2>3, PutFrame DEF Expiry
    <2>5. StatusEvent(seen[t].status, "EXPIRED", "ACTION_EXPIRED", FALSE) \in Event
      BY <2>1, StatusEventType DEF Statuses, TerminalStatuses, Reasons
    <2>6. Result(Id(t), result.action) \in ShownType
      BY <1>t, <2>1, <2>2, <2>3, ShownIsTyped
    <2> QED
      BY <1>3, <1>c, <1>v, <2>1, <2>4, <2>5, <2>6, ReturnType, PublishThenReturnType DEF Expiry
  <1>4. CASE NotExpired(t)
    BY <1>4, <1>t, <1>d, <1>c, <1>u, <1>v, ReturnType, ContinueType
    DEF NotExpired, Deciding, Applying, Current, Id, Key
  <1>5. CASE Approve(t)
    <2> DEFINE approved == [Current(t) EXCEPT !.status = "APPROVED"]
               result == Transition(Current(t), {"PROPOSED"}, FALSE, approved)
    <2>1. Current(t).status \in Statuses /\ seen[t].status \in Statuses
      BY <1>5, <1>d DEF Approve, Deciding
    <2>2. approved \in Record /\ approved.status \in Statuses
      BY <1>t DEF Record, Statuses, NonTerminalStatuses
    <2>3. result.action \in {Current(t), approved}
      BY <1>t, <2>2, TransitionIsRecord
    <2>4. StepFrame(t)
      BY <1>5, <1>t, <2>1, <2>2, <2>3, PutFrame DEF Approve
    <2>5. StatusEvent(seen[t].status, "APPROVED", "NONE", TRUE) \in Event
      BY <2>1, StatusEventType DEF Statuses, NonTerminalStatuses, Reasons
    <2>6. View(Id(t), result.action) \in ShownType
      BY <1>t, <2>1, <2>2, <2>3, ShownIsTyped
    <2> QED
      BY <1>5, <1>c, <2>4, <2>5, <2>6, ReturnType, PublishThenReturnType DEF Approve
  <1>6. CASE Reject(t)
    <2> DEFINE rejected == [Current(t) EXCEPT !.status = "REJECTED",
                                              !.reasonCode = "USER_REJECTED"]
               result == Transition(Current(t), NonTerminalStatuses, TRUE, rejected)
    <2>1. Current(t).status \in Statuses /\ seen[t].status \in Statuses
      BY <1>6, <1>d DEF Reject, Deciding
    <2>2. rejected \in Record /\ rejected.status \in Statuses
      BY <1>t DEF Record, Statuses, TerminalStatuses, Reasons
    <2>3. result.action \in {Current(t), rejected}
      BY <1>t, <2>2, TransitionIsRecord
    <2>4. StepFrame(t)
      BY <1>6, <1>t, <2>1, <2>2, <2>3, PutFrame DEF Reject
    <2>5. StatusEvent(seen[t].status, "REJECTED", "USER_REJECTED", TRUE) \in Event
      BY <2>1, StatusEventType DEF Statuses, TerminalStatuses, Reasons
    <2>6. View(Id(t), result.action) \in ShownType
      BY <1>t, <2>1, <2>2, <2>3, ShownIsTyped
    <2> QED
      BY <1>6, <1>c, <2>4, <2>5, <2>6, ReturnType, PublishThenReturnType DEF Reject
  <1>7. CASE Reserve(t)
    <2> DEFINE result == ReserveApply(Current(t), Key(t))
    <2>1. Current(t).status \in Statuses /\ seen[t].status \in Statuses /\ Key(t) \in Keys
      BY <1>7, <1>d DEF Reserve, Deciding, TypeInv, LocalsOK, Key
    <2>2. result.action \in Record /\ result.action.status = Current(t).status
      BY <1>t, <2>1 DEF ReserveApply, Record
    <2>3. StepFrame(t) /\ store'[Id(t)] = result.action
      BY <1>7, <1>t, <2>1, <2>2, PutFrame DEF Reserve
    <2>4. Result(Id(t), result.action) \in ShownType
      BY <1>t, <2>1, <2>2, ShownIsTyped
    <2>5. request'[t].id = Id(t) /\ request'[t].key = Key(t)
      BY <1>7 DEF Reserve, Id, Key
    <2> QED
      BY <1>7, <1>t, <1>c, <2>1, <2>2, <2>3, <2>4, <2>5, ReturnType, ContinueType
      DEF Reserve, Deciding, Applying
  <1>r. \A s \in {"CONFLICTED", "FAILED"} : s \in TerminalStatuses
    BY DEF TerminalStatuses
  <1>8. CASE ValidateConsent(t)
    BY <1>8, <1>r, PassType, CompleteReservedType DEF ValidateConsent, Applying, Reasons, Codes
  <1>9. CASE ValidateToken(t)
    BY <1>9, <1>r, PassType, CompleteReservedType DEF ValidateToken, Applying, Reasons, Codes
  <1>10. CASE ValidateTarget(t)
    BY <1>10, <1>r, PassType, CompleteReservedType DEF ValidateTarget, Applying, Reasons, Codes
  <1>11. CASE DecryptPayload(t)
    BY <1>11, <1>r, PassType, CompleteReservedType DEF DecryptPayload, Applying, Reasons, Codes
  <1>12. CASE ConnectorApply(t)
    <2>1. PICK label \in {"applied", "writeFailed"} : Continue(t, label)
      BY <1>12 DEF ConnectorApply
    <2>2. StepFrame(t)
      BY <1>12, <1>t DEF ConnectorApply, StepFrame, TypeInv, TypeOK
    <2>3. Key(t) \in Keys /\ seen[t].status \in Statuses /\ Current(t).status \in Statuses
      BY <1>12, <1>d DEF ConnectorApply, TypeInv, LocalsOK, Key, Applying, Deciding
    <2>4. request' = request /\ store' = store /\ seen' = seen
      BY <1>12 DEF ConnectorApply
    <2> QED
      BY <2>1, <2>2, <2>3, <2>4, <1>t, ContinueType DEF Deciding, Applying, Key, Current, Id
  <1>13. CASE CompleteApplied(t)
    <2>1. pc[t] \in Applying /\ Key(t) \in Keys
      BY <1>13 DEF CompleteApplied, TypeInv, LocalsOK, Key, Applying
    <2> DEFINE applied == [Current(t) EXCEPT !.status = "APPLIED",
                              !.reasonCode = "APPLY_SUCCEEDED",
                              !.idempotencyKey = Key(t), !.applyResult = "APPLIED"]
    <2>2. applied \in Record /\ applied.status \in Statuses
      BY <2>1, <1>t DEF Record, Statuses, TerminalStatuses, Reasons
    <2> QED
      BY <1>13, <2>1, <2>2, <1>c, CompleteWriteType DEF CompleteApplied, Reasons
  <1>14. CASE CompleteWriteFailed(t)
    <2> DEFINE failed == [Current(t) EXCEPT !.status = "FAILED",
                              !.reasonCode = "PROVIDER_WRITE_FAILED"]
    <2>1. failed \in Record /\ failed.status \in Statuses
      BY <1>t DEF Record, Statuses, TerminalStatuses, Reasons
    <2> QED
      BY <1>14, <2>1, CompleteWriteType DEF CompleteWriteFailed, Applying, Reasons, Codes
  <1>15. CASE Publish(t)
    <2>1. event[t] \in Event
      BY <1>15 DEF Publish, TypeInv, LocalsOK
    <2>p. PICK fate \in {"published", "failed"} : event' = [event EXCEPT ![t].fate = fate]
      BY <1>15 DEF Publish
    <2>a. event' \in [Threads -> Event \cup {NoEvent}] /\ event'[t] \in Event
      BY <2>p, <2>1 DEF TypeInv, TypeOK, Event
    <2>b. reply' = reply \/ reply' = [reply EXCEPT ![t].reported = event[t].reports]
      BY <1>15 DEF Publish
    <2>c. reply' \in [Threads -> [code : Codes, reported : BOOLEAN,
                                  shown : SUBSET [id : Actions, status : Statuses]]]
      BY <2>1, <2>b DEF TypeInv, TypeOK, Event
    <2>d. /\ announced' \in [Actions -> SUBSET Statuses]
          /\ lost' \in [Actions -> SUBSET Statuses]
      <3>1. event[t].status \in Statuses
        BY <2>1 DEF Event
      <3>2. \/ announced' = announced
            \/ announced' = [announced EXCEPT ![Id(t)] = @ \cup {event[t].status}]
        BY <1>15 DEF Publish
      <3>3. lost' = lost \/ lost' = [lost EXCEPT ![Id(t)] = @ \cup {event[t].status}]
        BY <1>15 DEF Publish
      <3> QED
        BY <1>t, <3>1, <3>2, <3>3 DEF TypeInv, TypeOK
    <2>2. TypeOK'
      BY <1>15, <2>a, <2>c, <2>d DEF Publish, TypeInv, TypeOK, Labels
    <2>3. LocalsOK(t)'
      BY <1>15, <1>t DEF Publish, TypeInv, TypeOK, LocalsOK, Deciding, Applying
    <2> QED
      BY <1>15, <2>2, <2>3, OtherThreadsKeepLocals DEF Publish, TypeInv, TypeOK
  <1>16. CASE Respond(t)
    <2>1. TypeOK'
      BY <1>16 DEF Respond, TypeInv, TypeOK, NoReply, Codes, Labels, external
    <2>2. LocalsOK(t)'
      BY <1>16 DEF Respond, TypeInv, TypeOK, LocalsOK, Deciding, Applying
    <2> QED
      BY <1>16, <2>1, <2>2, OtherThreadsKeepLocals DEF Respond, TypeInv, TypeOK
  <1> QED
    BY <1>1, <1>2, <1>3, <1>4, <1>5, <1>6, <1>7, <1>8, <1>9, <1>10, <1>11, <1>12,
       <1>13, <1>14, <1>15, <1>16 DEF Work

LEMMA NextType == TypeInv /\ [Next]_vars => TypeInv'
  <1> SUFFICES ASSUME TypeInv, [Next]_vars PROVE TypeInv'
    OBVIOUS
  <1>1. ASSUME NEW t \in Threads, Accept(t) PROVE TypeInv'
    BY <1>1, AcceptType
  <1>2. ASSUME NEW t \in Threads, Work(t) PROVE TypeInv'
    BY <1>2, WorkType
  <1>3. ASSUME NEW t \in Threads, Abort(t) PROVE TypeInv'
    <2>1. StepFrame(t)
      BY <1>3 DEF Abort, StepFrame, TypeInv, TypeOK, LocalsOK, external
    <2>2. "INTERNAL_ERROR" \in Codes /\ {} \in ShownType
      BY DEF Codes, ShownType
    <2> QED
      BY <1>3, <2>1, <2>2, ReturnType DEF Abort
  <1>4. CASE Crash
    <2>1. ASSUME NEW a \in Actions
          PROVE  {event[t].status : t \in {u \in Threads : pc[u] = "publish" /\ Id(u) = a}}
                   \subseteq Statuses
      BY DEF TypeInv, LocalsOK, Event
    <2>2. lost' \in [Actions -> SUBSET Statuses]
      BY <1>4, <2>1 DEF Crash, TypeInv, TypeOK
    <2>3. TypeOK'
      BY <1>4, <2>2, AbsentIsRecord DEF Crash, TypeInv, TypeOK, Labels, NoReply, Codes
    <2>4. \A t \in Threads : LocalsOK(t)'
      BY <1>4 DEF Crash, LocalsOK, Deciding, Applying
    <2> QED
      BY <2>3, <2>4 DEF TypeInv
  <1>5. CASE Tick
    BY <1>5 DEF Tick, external, TypeInv, TypeOK, LocalsOK
  <1>6. CASE UNCHANGED vars
    BY <1>6 DEF vars, TypeInv, TypeOK, LocalsOK
  <1> QED
    BY <1>1, <1>2, <1>3, <1>4, <1>5, <1>6 DEF Next

(* Type correctness of the service: every variable keeps the shape the code  *)
(* gives it, in every reachable state.                                      *)
THEOREM TypeCorrect == Spec => []TypeOK
  <1>1. Spec => []TypeInv
    BY InitTypeInv, NextType, PTL DEF Spec
  <1>2. TypeInv => TypeOK
    BY DEF TypeInv
  <1> QED
    BY <1>1, <1>2, PTL

-----------------------------------------------------------------------------
(* The reservation.  RecordOK is what holds of a stored action and the      *)
(* number of its mutations whatever the threads do; OwnerOK what a thread   *)
(* between its reservation and its completion relies on.                    *)

RecordOK(record, mutations) ==
    /\ mutations \in {0, 1}
    /\ Locked(record) => record.status \in {"APPROVED", "EXPIRED"}
    /\ record.applyResult # "NONE" =>
          /\ record.status = record.applyResult
          /\ record.idempotencyKey # NoKey
          /\ ~Locked(record)
    /\ record.status = "APPLIED" => mutations = 1
    /\ record.status \in {"ABSENT", "PROPOSED", "REJECTED", "CONFLICTED"} => mutations = 0
    /\ record.status = "FAILED" /\ record.reasonCode # "PROVIDER_WRITE_FAILED" => mutations = 0
    /\ record.status \in {"APPROVED", "EXPIRED"} /\ ~Locked(record) => mutations = 0

BeforeWrite == {"consent", "token", "target", "decrypt", "write"}

OwnerOK(t) ==
    /\ pc[t] \in Applying => store[request[t].id].applyLock = request[t].key
    /\ pc[t] \in BeforeWrite => writes[request[t].id] = 0
    /\ pc[t] = "applied" => writes[request[t].id] = 1
    /\ pc[t] = "insert" \/ pc[t] = "collision" =>
          seen[t].status = "PROPOSED" /\ ~Locked(seen[t]) /\ seen[t].applyResult = "NONE"

OneOwner == \A t, u \in Threads :
    pc[t] \in Applying /\ pc[u] \in Applying /\ request[t].id = request[u].id => t = u

LocksOwned == \A a \in Actions :
    Locked(store[a]) /\ faults = 0 => \E t \in Threads : pc[t] \in Applying /\ request[t].id = a

ReservationInv ==
    /\ \A a \in Actions : RecordOK(store[a], writes[a])
    /\ \A t \in Threads : OwnerOK(t)
    /\ OneOwner
    /\ LocksOwned

IInv == TypeInv /\ ReservationInv

LEMMA InitReservation == Init => ReservationInv
  <1> SUFFICES ASSUME Init PROVE ReservationInv
    OBVIOUS
  <1>1. \A a \in Actions : RecordOK(store[a], writes[a])
    BY DEF Init, RecordOK, Absent, Locked
  <1>2. \A t \in Threads : OwnerOK(t)
    BY DEF Init, OwnerOK, Applying, BeforeWrite
  <1>3. OneOwner /\ LocksOwned
    BY DEF Init, OneOwner, LocksOwned, Absent, Locked, Applying
  <1> QED
    BY <1>1, <1>2, <1>3 DEF ReservationInv

(* Only t moves; only action a can change.                                  *)
OnlyMoves(t, a) ==
    /\ \A u \in Threads \ {t} : /\ pc'[u] = pc[u] /\ request'[u] = request[u]
                                 /\ seen'[u] = seen[u]
    /\ \A b \in Actions \ {a} : store'[b] = store[b] /\ writes'[b] = writes[b]
    /\ faults \in Nat /\ faults' \in Nat /\ faults' >= faults

(* A step outside the reserved section keeps every lock and every mutation. *)
LEMMA OutsideStep ==
    ASSUME IInv, TypeInv', NEW t \in Threads, NEW a \in Actions, OnlyMoves(t, a),
           pc[t] \notin Applying, pc'[t] \notin Applying, OwnerOK(t)',
           store'[a].applyLock = store[a].applyLock, writes'[a] = writes[a],
           RecordOK(store'[a], writes[a])
    PROVE  ReservationInv'
  <1>i. \A u \in Threads : pc[u] \in Applying => request[u].id \in Actions
    BY RequestsAssumption DEF IInv, TypeInv, LocalsOK, Request, Applying
  <1>1. \A b \in Actions : RecordOK(store[b], writes[b])'
    BY DEF IInv, ReservationInv, OnlyMoves
  <1>2. ASSUME NEW u \in Threads PROVE OwnerOK(u)'
    <2>1. CASE u = t
      BY <2>1
    <2>2. CASE u # t
      BY <2>2, <1>i DEF IInv, ReservationInv, OnlyMoves, OwnerOK, BeforeWrite, Applying
    <2> QED
      BY <2>1, <2>2
  <1>3. OneOwner'
    BY DEF IInv, ReservationInv, OneOwner, OnlyMoves
  <1>4. LocksOwned'
    <2> SUFFICES ASSUME NEW b \in Actions, Locked(store'[b]), faults' = 0
                 PROVE  \E u \in Threads : pc'[u] \in Applying /\ request'[u].id = b
      BY DEF LocksOwned
    <2>1. Locked(store[b]) /\ faults = 0
      BY DEF OnlyMoves, Locked
    <2>2. PICK u \in Threads : pc[u] \in Applying /\ request[u].id = b
      BY <2>1 DEF IInv, ReservationInv, LocksOwned
    <2> QED
      BY <2>2 DEF OnlyMoves
  <1> QED
    BY <1>1, <1>2, <1>3, <1>4 DEF ReservationInv

(* A completion releases the lock with a record that tells the truth.       *)
LEMMA ReleaseStep ==
    ASSUME IInv, TypeInv', NEW t \in Threads, NEW a \in Actions, OnlyMoves(t, a),
           pc[t] \in Applying, request[t].id = a, pc'[t] \in {"publish", "reply"},
           ~Locked(store'[a]), writes'[a] = writes[a], RecordOK(store'[a], writes[a])
    PROVE  ReservationInv'
  <1>i. \A u \in Threads : pc[u] \in Applying => request[u].id \in Actions
    BY RequestsAssumption DEF IInv, TypeInv, LocalsOK, Request, Applying
  <1>j. pc'[t] \notin Applying /\ pc'[t] \notin BeforeWrite
    BY DEF Applying, BeforeWrite
  <1>k. BeforeWrite \subseteq Applying /\ "applied" \in Applying
    BY DEF Applying, BeforeWrite
  <1>1. \A b \in Actions : RecordOK(store[b], writes[b])'
    BY DEF IInv, ReservationInv, OnlyMoves
  <1>2. ASSUME NEW u \in Threads PROVE OwnerOK(u)'
    <2>1. CASE u = t
      BY <2>1, <1>j DEF OwnerOK
    <2>2. CASE u # t
      <3>1. pc[u] \in Applying => request[u].id # a
        BY <2>2 DEF IInv, ReservationInv, OneOwner
      <3> QED
        BY <2>2, <3>1, <1>i, <1>k DEF IInv, ReservationInv, OnlyMoves, OwnerOK
    <2> QED
      BY <2>1, <2>2
  <1>3. OneOwner'
    BY <1>j DEF IInv, ReservationInv, OneOwner, OnlyMoves
  <1>4. LocksOwned'
    <2> SUFFICES ASSUME NEW b \in Actions, Locked(store'[b]), faults' = 0
                 PROVE  \E u \in Threads : pc'[u] \in Applying /\ request'[u].id = b
      BY DEF LocksOwned
    <2>1. b # a /\ Locked(store[b]) /\ faults = 0
      BY DEF OnlyMoves, Locked
    <2>2. PICK u \in Threads : pc[u] \in Applying /\ request[u].id = b
      BY <2>1 DEF IInv, ReservationInv, LocksOwned
    <2> QED
      BY <2>1, <2>2 DEF OnlyMoves
  <1> QED
    BY <1>1, <1>2, <1>3, <1>4 DEF ReservationInv

(* A step within the reserved section keeps the record.                     *)
LEMMA InsideStep ==
    ASSUME IInv, TypeInv', NEW t \in Threads, NEW a \in Actions, OnlyMoves(t, a),
           pc[t] \in Applying, request[t].id = a, pc'[t] \in Applying,
           request'[t] = request[t], store'[a] = store[a],
           OwnerOK(t)', RecordOK(store[a], writes'[a])
    PROVE  ReservationInv'
  <1>i. \A u \in Threads : pc[u] \in Applying => request[u].id \in Actions
    BY RequestsAssumption DEF IInv, TypeInv, LocalsOK, Request, Applying
  <1>k. BeforeWrite \subseteq Applying /\ "applied" \in Applying
    BY DEF Applying, BeforeWrite
  <1>1. \A b \in Actions : RecordOK(store[b], writes[b])'
    BY DEF IInv, ReservationInv, OnlyMoves
  <1>2. ASSUME NEW u \in Threads PROVE OwnerOK(u)'
    <2>1. CASE u = t
      BY <2>1
    <2>2. CASE u # t
      <3>1. pc[u] \in Applying => request[u].id # a
        BY <2>2 DEF IInv, ReservationInv, OneOwner
      <3> QED
        BY <2>2, <3>1, <1>i, <1>k DEF IInv, ReservationInv, OnlyMoves, OwnerOK
    <2> QED
      BY <2>1, <2>2
  <1>3. OneOwner'
    BY DEF IInv, ReservationInv, OneOwner, OnlyMoves
  <1>4. LocksOwned'
    <2> SUFFICES ASSUME NEW b \in Actions, Locked(store'[b]), faults' = 0
                 PROVE  \E u \in Threads : pc'[u] \in Applying /\ request'[u].id = b
      BY DEF LocksOwned
    <2>1. Locked(store[b]) /\ faults = 0
      BY DEF OnlyMoves, Locked
    <2>2. PICK u \in Threads : pc[u] \in Applying /\ request[u].id = b
      BY <2>1 DEF IInv, ReservationInv, LocksOwned
    <2> QED
      BY <2>2 DEF OnlyMoves
  <1> QED
    BY <1>1, <1>2, <1>3, <1>4 DEF ReservationInv

(* The steps that only read the store.                                      *)
LEMMA ReadingStep ==
    ASSUME IInv, TypeInv', NEW t \in Threads, UNCHANGED <<store, writes>>,
           \A u \in Threads \ {t} : pc'[u] = pc[u] /\ request'[u] = request[u] /\ seen'[u] = seen[u],
           faults' \in Nat, faults' >= faults,
           pc[t] \notin Applying, pc'[t] \notin Applying,
           pc'[t] \in {"collision", "insert"} =>
               seen'[t].status = "PROPOSED" /\ ~Locked(seen'[t]) /\ seen'[t].applyResult = "NONE"
    PROVE  ReservationInv'
  <1>k. BeforeWrite \subseteq Applying /\ "applied" \in Applying
    BY DEF Applying, BeforeWrite
  <1>1. OwnerOK(t)'
    BY <1>k DEF OwnerOK
  <1>2. CASE Actions = {}
    BY <1>1, <1>2, RequestsAssumption
    DEF IInv, ReservationInv, OwnerOK, OneOwner, LocksOwned, TypeInv, LocalsOK, Request
  <1>3. ASSUME NEW a \in Actions PROVE ReservationInv'
    <2>1. OnlyMoves(t, a)
      BY DEF OnlyMoves, IInv, TypeInv, TypeOK
    <2> QED
      BY <1>1, <2>1, OutsideStep DEF IInv, ReservationInv
  <1> QED
    BY <1>2, <1>3

LEMMA AcceptReservation ==
    ASSUME IInv, NEW t \in Threads, Accept(t)
    PROVE  ReservationInv'
  <1>1. TypeInv'
    BY AcceptType DEF IInv
  <1> PICK r \in Requests :
        \/ Refuse(t, r)
        \/ RefuseCreate(t, r)
        \/ ListActions(t, r)
        \/ GetAction(t, r)
        \/ \E ttl \in TTLs : CreateProposedAction(t, r, ttl)
        \/ ApproveAction(t, r)
        \/ RejectAction(t, r)
        \/ ApplyAction(t, r)
    BY DEF Accept, Handle
  <1>2. \A ops : Receive(t, r, ops) =>
           /\ UNCHANGED <<store, writes>> /\ faults' = faults /\ pc[t] = "idle"
           /\ \A u \in Threads \ {t} : request'[u] = request[u]
    BY DEF Receive, external, IInv, TypeInv, TypeOK
  <1>3. \A code, shown : Return(t, code, shown) =>
           /\ pc'[t] = "reply"
           /\ \A u \in Threads \ {t} : pc'[u] = pc[u] /\ seen'[u] = seen[u]
    BY DEF Return, IInv, TypeInv, TypeOK
  <1>4. faults \in Nat
    BY DEF IInv, TypeInv, TypeOK
  <1>5. {"idle", "reply", "expiry", "collision"} \cap Applying = {}
    BY DEF Applying
  <1>6. ASSUME NEW ops, NEW code, NEW shown, Receive(t, r, ops), Return(t, code, shown)
        PROVE  ReservationInv'
    BY <1>1, <1>2, <1>3, <1>4, <1>5, <1>6, ReadingStep
  <1>7. ASSUME NEW ops, NEW record, NEW label \in {"expiry", "collision"},
               Receive(t, r, ops), Continue(t, label), seen' = [seen EXCEPT ![t] = record],
               label = "collision" => /\ record.status = "PROPOSED" /\ ~Locked(record)
                                      /\ record.applyResult = "NONE"
        PROVE  ReservationInv'
    <2>1. /\ pc'[t] = label /\ seen'[t] = record
          /\ \A u \in Threads \ {t} : pc'[u] = pc[u] /\ seen'[u] = seen[u]
      BY <1>7 DEF Continue, IInv, TypeInv, TypeOK
    <2> QED
      BY <1>1, <1>2, <1>4, <1>5, <1>7, <2>1, ReadingStep
  <1>8. CASE Refuse(t, r)
    BY <1>6, <1>8 DEF Refuse
  <1>15. CASE RefuseCreate(t, r)
    BY <1>6, <1>15 DEF RefuseCreate
  <1>9. CASE ListActions(t, r)
    BY <1>6, <1>9 DEF ListActions
  <1>10. CASE GetAction(t, r)
    BY <1>6, <1>10 DEF GetAction, ReceiveAuthorized
  <1>11. ASSUME NEW ttl \in TTLs, CreateProposedAction(t, r, ttl) PROVE ReservationInv'
    <2> DEFINE draft == [Absent EXCEPT !.user = r.user, !.session = r.session,
                             !.resource = r.resource, !.expiresAt = now + ttl,
                             !.status = "PROPOSED"]
    <2>1. draft.status = "PROPOSED" /\ ~Locked(draft) /\ draft.applyResult = "NONE"
      BY DEF Absent, Locked
    <2>2. Continue(t, "collision") /\ seen' = [seen EXCEPT ![t] = draft] /\ Receive(t, r, {"create"})
      BY <1>11 DEF CreateProposedAction
    <2> HIDE DEF draft
    <2> QED
      BY <1>7, <2>1, <2>2
  <1>12. CASE ApproveAction(t, r)
    BY <1>6, <1>7, <1>12 DEF ApproveAction, ReceiveAuthorized
  <1>13. CASE RejectAction(t, r)
    BY <1>6, <1>7, <1>13 DEF RejectAction, ReceiveAuthorized
  <1>14. CASE ApplyAction(t, r)
    BY <1>6, <1>7, <1>14 DEF ApplyAction, ReceiveAuthorized
  <1> QED
    BY <1>8, <1>9, <1>10, <1>11, <1>12, <1>13, <1>14, <1>15

(* Steps that put a record and leave, seen from the other threads.          *)
Leaves(t, label) ==
    /\ pc' = [pc EXCEPT ![t] = label]
    /\ seen' = seen \/ \E record : seen' = [seen EXCEPT ![t] = record]

LEMMA PutMoves ==
    ASSUME TypeInv, NEW t \in Threads, NEW a \in Actions, NEW record, NEW label,
           Put(a, record), Leaves(t, label), request' = request, UNCHANGED <<external, faults>>
    PROVE  /\ OnlyMoves(t, a) /\ store'[a] = record /\ writes' = writes
           /\ pc'[t] = label /\ request'[t] = request[t]
  BY DEF TypeInv, TypeOK, Put, Leaves, OnlyMoves, external

LEMMA ReturnLeaves ==
    ASSUME NEW t, NEW code, NEW shown, Return(t, code, shown)
    PROVE  Leaves(t, "reply")
  BY DEF Return, Leaves

LEMMA PublishLeaves ==
    ASSUME NEW t, NEW change, NEW code, NEW shown, PublishThenReturn(t, change, code, shown)
    PROVE  Leaves(t, "publish")
  BY DEF PublishThenReturn, Leaves

LEMMA ContinueLeaves ==
    ASSUME NEW t, NEW label, Continue(t, label), seen' = seen
    PROVE  Leaves(t, label)
  BY DEF Continue, Leaves

(* A handler outside the reserved section that puts a record and leaves.    *)
LEMMA DecidingStep ==
    ASSUME IInv, TypeInv', NEW t \in Threads, NEW a \in Actions, NEW record,
           pc[t] \notin Applying, NEW label \in {"publish", "reply"},
           Put(a, record), Leaves(t, label), request' = request, UNCHANGED <<external, faults>>,
           record.applyLock = store[a].applyLock, RecordOK(record, writes[a])
    PROVE  ReservationInv'
  <1>1. /\ OnlyMoves(t, a) /\ store'[a] = record /\ writes' = writes
        /\ pc'[t] = label
    BY PutMoves DEF IInv
  <1>2. pc'[t] \notin Applying /\ OwnerOK(t)'
    BY <1>1 DEF OwnerOK, Applying, BeforeWrite
  <1> QED
    BY <1>1, <1>2, OutsideStep

LEMMA CompletionStep ==
    ASSUME IInv, TypeInv', NEW t \in Threads, pc[t] \in Applying, NEW patched,
           NEW label \in {"publish", "reply"},
           Put(Id(t), CompleteApply(Current(t), Key(t), patched)), Leaves(t, label),
           request' = request, UNCHANGED <<external, faults>>,
           RecordOK([patched EXCEPT !.applyLock = NoKey], writes[Id(t)]),
           patched \in Record
    PROVE  ReservationInv'
  <1>1. Id(t) \in Actions
    BY RequestsAssumption DEF IInv, TypeInv, LocalsOK, Id, Request, Applying
  <1>2. Current(t).applyLock = Key(t)
    BY DEF IInv, ReservationInv, OwnerOK, Current, Id, Key
  <1> DEFINE released == [patched EXCEPT !.applyLock = NoKey]
  <1>3. CompleteApply(Current(t), Key(t), patched) = released /\ ~Locked(released)
    BY <1>2 DEF CompleteApply, Locked, Record
  <1> HIDE DEF released
  <1>4. /\ OnlyMoves(t, Id(t)) /\ store'[Id(t)] = released /\ writes' = writes /\ pc'[t] = label
    BY <1>1, <1>3, PutMoves DEF IInv
  <1>5. RecordOK(released, writes[Id(t)])
    BY DEF released
  <1>6. request[t].id = Id(t)
    BY DEF Id
  <1> QED
    BY <1>1, <1>3, <1>4, <1>5, <1>6, ReleaseStep

LEMMA CompleteReservedReservation ==
    ASSUME IInv, TypeInv', NEW t \in Threads, pc[t] \in BeforeWrite,
           NEW status \in {"CONFLICTED", "FAILED"},
           NEW reason \in Reasons \ {"PROVIDER_WRITE_FAILED"}, NEW code,
           CompleteReserved(t, status, reason, code)
    PROVE  ReservationInv'
  <1> DEFINE patched == [Current(t) EXCEPT !.status = status, !.reasonCode = reason,
                             !.idempotencyKey = Key(t), !.applyResult = status]
  <1>1. /\ pc[t] \in Applying /\ Id(t) \in Actions /\ Key(t) \in Keys
        /\ Current(t) \in Record /\ writes[Id(t)] = 0
    BY RequestsAssumption
    DEF IInv, TypeInv, TypeOK, LocalsOK, Id, Key, Current, Applying, BeforeWrite, Request,
        ReservationInv, OwnerOK
  <1>2. patched \in Record
    BY <1>1 DEF Record, Statuses, TerminalStatuses
  <1>3. RecordOK([patched EXCEPT !.applyLock = NoKey], writes[Id(t)])
    BY <1>1, KeysAssumption DEF RecordOK, Record, Locked
  <1>4. Put(Id(t), CompleteApply(Current(t), Key(t), patched))
    BY DEF CompleteReserved
  <1>5. Leaves(t, "publish") \/ Leaves(t, "reply")
    BY PublishLeaves, ReturnLeaves DEF CompleteReserved
  <1>6. request' = request /\ UNCHANGED <<external, faults>>
    BY DEF CompleteReserved
  <1> HIDE DEF patched
  <1> QED
    BY <1>1, <1>2, <1>3, <1>4, <1>5, <1>6, CompletionStep

LEMMA CompleteWriteReservation ==
    ASSUME IInv, TypeInv', NEW t \in Threads, pc[t] \in Applying, NEW patched \in Record,
           NEW reason, NEW code, CompleteWrite(t, patched, reason, code),
           RecordOK([patched EXCEPT !.applyLock = NoKey], writes[Id(t)])
    PROVE  ReservationInv'
  <1>1. Put(Id(t), CompleteApply(Current(t), Key(t), patched)) /\ request' = request
        /\ UNCHANGED <<external, faults>>
    BY DEF CompleteWrite
  <1>2. Leaves(t, "publish")
    BY PublishLeaves DEF CompleteWrite
  <1> QED
    BY <1>1, <1>2, CompletionStep

LEMMA PassReservation ==
    ASSUME IInv, TypeInv', NEW t \in Threads, pc[t] \in BeforeWrite,
           NEW label \in BeforeWrite, Pass(t, label)
    PROVE  ReservationInv'
  <1>1. pc[t] \in Applying /\ label \in Applying /\ Id(t) \in Actions
    BY RequestsAssumption
    DEF IInv, TypeInv, LocalsOK, Id, Applying, BeforeWrite, Request
  <1>2. /\ OnlyMoves(t, Id(t)) /\ pc'[t] = label /\ request'[t] = request[t]
        /\ store' = store /\ writes' = writes
    BY DEF Pass, Continue, OnlyMoves, external, IInv, TypeInv, TypeOK
  <1>3. OwnerOK(t)'
    BY <1>1, <1>2 DEF OwnerOK, IInv, ReservationInv, Applying, BeforeWrite
  <1> QED
    BY <1>1, <1>2, <1>3, InsideStep DEF Id, IInv, ReservationInv

LEMMA WorkReservation ==
    ASSUME IInv, NEW t \in Threads, Work(t)
    PROVE  ReservationInv'
  <1>1. TypeInv'
    BY WorkType DEF IInv
  <1>2. pc[t] # "idle"
    BY DEF Work, CheckCollision, Insert, Expiry, NotExpired, Approve, Reject, Reserve,
           ValidateConsent, ValidateToken, ValidateTarget, DecryptPayload, ConnectorApply,
           CompleteApplied, CompleteWriteFailed, Publish, Respond
  <1>3. /\ Id(t) \in Actions /\ Key(t) \in Keys \cup {NoKey}
        /\ pc[t] \in {"reserve"} \cup Applying => Key(t) \in Keys
        /\ Current(t) \in Record /\ Current(t) = store[Id(t)]
        /\ RecordOK(Current(t), writes[Id(t)])
        /\ faults \in Nat /\ writes[Id(t)] \in Nat
    BY <1>2, RequestsAssumption
    DEF IInv, TypeInv, TypeOK, LocalsOK, Id, Key, Current, Request, ReservationInv
  <1>4. /\ {"collision", "insert", "expiry", "approve", "reject", "reserve",
            "publish", "reply", "idle"} \cap Applying = {}
        /\ BeforeWrite \subseteq Applying
    BY DEF Applying, BeforeWrite
  <1>5. ASSUME NEW label \in Labels, label \notin Applying, label \notin {"collision", "insert"},
               pc[t] \notin Applying, Leaves(t, label),
               \A u \in Threads \ {t} : request'[u] = request[u],
               UNCHANGED <<store, writes, faults>>
        PROVE  ReservationInv'
    <2>1. /\ pc'[t] = label
          /\ \A u \in Threads \ {t} : pc'[u] = pc[u] /\ seen'[u] = seen[u]
      BY <1>5 DEF Leaves, IInv, TypeInv, TypeOK
    <2> QED
      BY <1>1, <1>3, <1>5, <2>1, ReadingStep
  <1>6. {"reply", "publish", "idle", "approve", "reject", "reserve"} \subseteq Labels
    BY DEF Labels
  <1>7. CASE CheckCollision(t)
    <2>1. CASE Continue(t, "insert") /\ UNCHANGED seen
      <3>1. /\ pc'[t] = "insert" /\ OwnerOK(t) /\ seen' = seen
            /\ \A u \in Threads \ {t} : pc'[u] = pc[u] /\ request'[u] = request[u]
            /\ UNCHANGED <<store, writes, faults>>
        BY <1>7, <2>1 DEF CheckCollision, Continue, external, IInv, TypeInv, TypeOK, ReservationInv
      <3> QED
        BY <1>1, <1>3, <1>4, <1>7, <3>1, ReadingStep DEF CheckCollision, OwnerOK
    <2>2. CASE \E code : Return(t, code, {})
      BY <1>4, <1>5, <1>6, <1>7, <2>2, ReturnLeaves DEF CheckCollision, external
    <2> QED
      BY <1>7, <2>1, <2>2 DEF CheckCollision
  <1>8. CASE Insert(t)
    <2>1. CASE Exists(Current(t))
      BY <1>4, <1>5, <1>6, <1>8, <2>1, ReturnLeaves DEF Insert, external
    <2>2. CASE ~Exists(Current(t))
      <3>1. RecordOK(seen[t], writes[Id(t)])
        BY <1>3, <1>8, <2>2 DEF Insert, Exists, RecordOK, IInv, ReservationInv, OwnerOK
      <3>2. seen[t].applyLock = NoKey /\ Current(t).applyLock = NoKey
        BY <1>3, <1>8, <2>2 DEF Insert, Exists, RecordOK, Locked, IInv, ReservationInv, OwnerOK
      <3>3. Leaves(t, "publish") /\ Put(Id(t), seen[t])
        BY <1>8, <2>2, PublishLeaves DEF Insert
      <3> QED
        BY <1>1, <1>3, <1>4, <1>8, <3>1, <3>2, <3>3, DecidingStep DEF Insert
    <2> QED
      BY <2>1, <2>2
  <1>9. CASE Expiry(t)
    <2> DEFINE key == IF request[t].op = "apply" THEN Key(t) ELSE Current(t).idempotencyKey
               expired == [Current(t) EXCEPT !.status = "EXPIRED", !.reasonCode = "ACTION_EXPIRED",
                                             !.idempotencyKey = key]
               result == Transition(Current(t), NonTerminalStatuses, FALSE, expired)
    <2>1. Put(Id(t), result.action) /\ (Leaves(t, "publish") \/ Leaves(t, "reply"))
      BY <1>9, PublishLeaves, ReturnLeaves DEF Expiry
    <2>2. /\ result.action.applyLock = Current(t).applyLock
          /\ RecordOK(result.action, writes[Id(t)])
      <3> HIDE DEF key
      <3>1. CASE Exists(Current(t)) /\ Current(t).status \in NonTerminalStatuses
        <4>1. result.action = expired
          BY <3>1 DEF Transition
        <4>2. expired.applyLock = Current(t).applyLock
          BY <1>3 DEF Record
        <4>3. RecordOK(expired, writes[Id(t)])
          BY <1>3, <3>1
          DEF Record, RecordOK, Locked, NonTerminalStatuses, TerminalStatuses
        <4> QED
          BY <4>1, <4>2, <4>3
      <3>2. CASE ~(Exists(Current(t)) /\ Current(t).status \in NonTerminalStatuses)
        BY <1>3, <3>2 DEF Transition
      <3> QED
        BY <3>1, <3>2
    <2> HIDE DEF result
    <2> QED
      BY <1>1, <1>3, <1>4, <1>9, <2>1, <2>2, DecidingStep DEF Expiry
  <1>10. CASE NotExpired(t)
    BY <1>4, <1>5, <1>6, <1>10, ReturnLeaves, ContinueLeaves DEF NotExpired, external
  <1>11. CASE Approve(t)
    <2> DEFINE approved == [Current(t) EXCEPT !.status = "APPROVED"]
               result == Transition(Current(t), {"PROPOSED"}, FALSE, approved)
    <2>1. Put(Id(t), result.action) /\ (Leaves(t, "publish") \/ Leaves(t, "reply"))
      BY <1>11, PublishLeaves, ReturnLeaves DEF Approve
    <2>2. /\ result.action.applyLock = Current(t).applyLock
          /\ RecordOK(result.action, writes[Id(t)])
      BY <1>3 DEF Transition, Record, RecordOK, Locked, TerminalStatuses
    <2> HIDE DEF result
    <2> QED
      BY <1>1, <1>3, <1>4, <1>11, <2>1, <2>2, DecidingStep DEF Approve
  <1>12. CASE Reject(t)
    <2> DEFINE rejected == [Current(t) EXCEPT !.status = "REJECTED",
                                              !.reasonCode = "USER_REJECTED"]
               result == Transition(Current(t), NonTerminalStatuses, TRUE, rejected)
    <2>1. Put(Id(t), result.action) /\ (Leaves(t, "publish") \/ Leaves(t, "reply"))
      BY <1>12, PublishLeaves, ReturnLeaves DEF Reject
    <2>2. /\ result.action.applyLock = Current(t).applyLock
          /\ RecordOK(result.action, writes[Id(t)])
      BY <1>3 DEF Transition, Record, RecordOK, Locked, NonTerminalStatuses, TerminalStatuses
    <2> HIDE DEF result
    <2> QED
      BY <1>1, <1>3, <1>4, <1>12, <2>1, <2>2, DecidingStep DEF Reject
  <1>13. CASE Reserve(t)
    <2> DEFINE result == ReserveApply(Current(t), Key(t))
    <2>1. CASE result.kind # "RESERVED"
      <3>1. result.action = Current(t)
        BY <2>1 DEF ReserveApply
      <3>2. Put(Id(t), Current(t)) /\ Leaves(t, "reply")
        BY <1>13, <2>1, <3>1, ReturnLeaves DEF Reserve
      <3> QED
        BY <1>1, <1>3, <1>4, <1>13, <3>2, DecidingStep DEF Reserve
    <2>2. CASE result.kind = "RESERVED"
      <3> DEFINE reserved == [Current(t) EXCEPT !.idempotencyKey = Key(t), !.applyLock = Key(t)]
      <3>1. /\ result.action = reserved /\ Current(t).status = "APPROVED"
            /\ Current(t).applyLock = NoKey /\ Key(t) # NoKey
        BY <1>3, <1>13, <2>2, KeysAssumption DEF ReserveApply, Reserve, Locked
      <3>2. writes[Id(t)] = 0 /\ reserved.applyLock = Key(t) /\ RecordOK(reserved, 0)
        BY <1>3, <3>1 DEF RecordOK, Record, Locked, TerminalStatuses
      <3>3. Put(Id(t), reserved) /\ Continue(t, "consent") /\ UNCHANGED seen
        BY <1>13, <2>2, <3>1 DEF Reserve
      <3> HIDE DEF reserved
      <3>4. /\ OnlyMoves(t, Id(t)) /\ store'[Id(t)] = reserved /\ writes' = writes
            /\ pc'[t] = "consent" /\ request'[t] = request[t] /\ faults' = faults
        BY <1>3, <1>13, <3>3, PutMoves, ContinueLeaves DEF Reserve, IInv
      <3>5. \A u \in Threads : pc[u] \in Applying => request[u].id # Id(t)
        <4> SUFFICES ASSUME NEW u \in Threads, pc[u] \in Applying, request[u].id = Id(t)
                     PROVE FALSE
          OBVIOUS
        <4>1. Current(t).applyLock = request[u].key /\ request[u].key \in Keys
          BY <1>3 DEF IInv, TypeInv, LocalsOK, ReservationInv, OwnerOK
        <4> QED
          BY <3>1, <4>1, KeysAssumption
      <3>6. \A u \in Threads : pc[u] \in Applying => request[u].id \in Actions
        BY RequestsAssumption DEF IInv, TypeInv, LocalsOK, Request, Applying
      <3>7. \A b \in Actions : RecordOK(store[b], writes[b])'
        BY <3>2, <3>4 DEF OnlyMoves, IInv, ReservationInv
      <3>8. ASSUME NEW u \in Threads PROVE OwnerOK(u)'
        <4>1. CASE u = t
          BY <3>2, <3>4, <4>1 DEF OwnerOK, Id, Key, Applying, BeforeWrite
        <4>2. CASE u # t
          BY <1>4, <3>4, <3>5, <3>6, <4>2
          DEF OwnerOK, OnlyMoves, IInv, ReservationInv, Applying, BeforeWrite
        <4> QED
          BY <4>1, <4>2
      <3>9. OneOwner'
        BY <3>4, <3>5 DEF OneOwner, OnlyMoves, IInv, ReservationInv, Id
      <3>10. LocksOwned'
        <4> SUFFICES ASSUME NEW b \in Actions, Locked(store'[b]), faults' = 0
                     PROVE  \E u \in Threads : pc'[u] \in Applying /\ request'[u].id = b
          BY DEF LocksOwned
        <4>1. CASE b = Id(t)
          BY <3>4, <4>1 DEF Applying, Id
        <4>2. CASE b # Id(t)
          <5>1. PICK u \in Threads : pc[u] \in Applying /\ request[u].id = b
            BY <3>4, <4>2 DEF IInv, ReservationInv, LocksOwned, OnlyMoves
          <5> QED
            BY <1>4, <1>13, <3>4, <5>1 DEF OnlyMoves, Reserve
        <4> QED
          BY <4>1, <4>2
      <3> QED
        BY <3>7, <3>8, <3>9, <3>10 DEF ReservationInv
    <2> QED
      BY <2>1, <2>2
  <1>14. /\ {"CONSENT_REQUIRED", "CONSENT_CHECK_FAILED", "RECONNECT_REQUIRED",
             "TOKEN_STATUS_CHECK_FAILED", "TARGET_CONFLICT", "TARGET_VALIDATION_FAILED",
             "ACTION_PAYLOAD_DECRYPT_FAILED"} \subseteq Reasons \ {"PROVIDER_WRITE_FAILED"}
         /\ BeforeWrite = {"consent", "token", "target", "decrypt", "write"}
    BY DEF Reasons, BeforeWrite
  <1>15. CASE ValidateConsent(t)
    BY <1>1, <1>14, <1>15, PassReservation, CompleteReservedReservation DEF ValidateConsent
  <1>16. CASE ValidateToken(t)
    BY <1>1, <1>14, <1>16, PassReservation, CompleteReservedReservation DEF ValidateToken
  <1>17. CASE ValidateTarget(t)
    BY <1>1, <1>14, <1>17, PassReservation, CompleteReservedReservation DEF ValidateTarget
  <1>18. CASE DecryptPayload(t)
    BY <1>1, <1>14, <1>18, PassReservation, CompleteReservedReservation DEF DecryptPayload
  <1>19. CASE ConnectorApply(t)
    <2>1. /\ pc[t] \in Applying /\ Locked(store[Id(t)]) /\ writes[Id(t)] = 0
          /\ store[Id(t)].applyLock = request[t].key
      BY <1>3, <1>19, KeysAssumption
      DEF ConnectorApply, IInv, ReservationInv, OwnerOK, Applying, BeforeWrite, Locked, Id, Key
    <2>2. /\ pc'[t] \in {"applied", "writeFailed"} /\ request' = request /\ store' = store
          /\ OnlyMoves(t, Id(t)) /\ writes'[Id(t)] \in {0, 1}
          /\ pc'[t] = "applied" => writes'[Id(t)] = 1
      BY <1>3, <1>19, <2>1 DEF ConnectorApply, Continue, OnlyMoves, IInv, TypeInv, TypeOK
    <2>3. RecordOK(store[Id(t)], writes'[Id(t)])
      BY <1>3, <2>1, <2>2 DEF RecordOK
    <2>4. OwnerOK(t)'
      BY <2>1, <2>2 DEF OwnerOK, Applying, BeforeWrite, Id
    <2> QED
      BY <1>1, <1>3, <2>1, <2>2, <2>3, <2>4, InsideStep DEF Applying, Id
  <1>20. CASE CompleteApplied(t)
    <2> DEFINE applied == [Current(t) EXCEPT !.status = "APPLIED",
                              !.reasonCode = "APPLY_SUCCEEDED",
                              !.idempotencyKey = Key(t), !.applyResult = "APPLIED"]
    <2>1. pc[t] \in Applying /\ Key(t) \in Keys /\ writes[Id(t)] = 1
      BY <1>3, <1>20 DEF CompleteApplied, IInv, ReservationInv, OwnerOK, Applying, Id
    <2>2. applied \in Record
      BY <2>1, <1>3 DEF Record, Statuses, TerminalStatuses, Reasons
    <2>3. RecordOK([applied EXCEPT !.applyLock = NoKey], writes[Id(t)])
      BY <2>1, <1>3, KeysAssumption DEF RecordOK, Record, Locked
    <2> QED
      BY <1>1, <1>20, <2>1, <2>2, <2>3, CompleteWriteReservation DEF CompleteApplied
  <1>21. CASE CompleteWriteFailed(t)
    <2> DEFINE failed == [Current(t) EXCEPT !.status = "FAILED",
                              !.reasonCode = "PROVIDER_WRITE_FAILED"]
    <2>1. pc[t] \in Applying /\ Locked(Current(t))
      BY <1>3, <1>21, KeysAssumption
      DEF CompleteWriteFailed, IInv, ReservationInv, OwnerOK, Applying, Id, Key, Locked
    <2>2. failed \in Record
      BY <1>3 DEF Record, Statuses, TerminalStatuses, Reasons
    <2>3. RecordOK([failed EXCEPT !.applyLock = NoKey], writes[Id(t)])
      BY <2>1, <1>3 DEF RecordOK, Record, Locked
    <2> QED
      BY <1>1, <1>21, <2>1, <2>2, <2>3, CompleteWriteReservation DEF CompleteWriteFailed
  <1>22. CASE Publish(t)
    <2>1. Leaves(t, "reply") /\ request' = request /\ UNCHANGED <<store, writes, faults>>
      BY <1>22 DEF Publish, Leaves
    <2> QED
      BY <1>4, <1>5, <1>6, <1>22, <2>1 DEF Publish
  <1>23. CASE Respond(t)
    <2>1. /\ Leaves(t, "idle") /\ UNCHANGED <<store, writes, faults>>
          /\ \A u \in Threads \ {t} : request'[u] = request[u]
      BY <1>23 DEF Respond, Leaves, external, IInv, TypeInv, TypeOK
    <2> QED
      BY <1>4, <1>5, <1>6, <1>23, <2>1 DEF Respond
  <1> QED
    BY <1>7, <1>8, <1>9, <1>10, <1>11, <1>12, <1>13, <1>15, <1>16, <1>17, <1>18, <1>19,
       <1>20, <1>21, <1>22, <1>23 DEF Work

(* A request that dies may leave its lock behind, but it counts as a fault. *)
LEMMA AbortReservation ==
    ASSUME IInv, NEW t \in Threads, Abort(t)
    PROVE  ReservationInv'
  <1>1. /\ store' = store /\ writes' = writes /\ pc'[t] = "reply" /\ faults' # 0
        /\ \A u \in Threads \ {t} : pc'[u] = pc[u] /\ request'[u] = request[u] /\ seen'[u] = seen[u]
    BY DEF Abort, Return, external, IInv, TypeInv, TypeOK
  <1>2. \A u \in Threads : OwnerOK(u)'
    BY <1>1 DEF OwnerOK, IInv, ReservationInv, Applying, BeforeWrite
  <1>3. OneOwner'
    BY <1>1 DEF OneOwner, IInv, ReservationInv, Applying
  <1> QED
    BY <1>1, <1>2, <1>3 DEF ReservationInv, LocksOwned, IInv

LEMMA NextReservation == IInv /\ [Next]_vars => IInv'
  <1> SUFFICES ASSUME IInv, [Next]_vars PROVE ReservationInv'
    BY NextType DEF IInv
  <1>1. ASSUME NEW t \in Threads, Accept(t) PROVE ReservationInv'
    BY <1>1, AcceptReservation
  <1>2. ASSUME NEW t \in Threads, Work(t) PROVE ReservationInv'
    BY <1>2, WorkReservation
  <1>3. ASSUME NEW t \in Threads, Abort(t) PROVE ReservationInv'
    BY <1>3, AbortReservation
  <1>4. CASE Crash
    BY <1>4
    DEF Crash, IInv, TypeInv, TypeOK, ReservationInv, OwnerOK, OneOwner, LocksOwned, Applying, BeforeWrite
  <1>5. CASE Tick
    BY <1>5 DEF Tick, external, IInv, ReservationInv, OwnerOK, OneOwner, LocksOwned
  <1>6. CASE UNCHANGED vars
    BY <1>6 DEF vars, IInv, ReservationInv, OwnerOK, OneOwner, LocksOwned
  <1> QED
    BY <1>1, <1>2, <1>3, <1>4, <1>5, <1>6 DEF Next

LEMMA InvariantHolds == Spec => []IInv
  <1>1. Init => IInv
    BY InitTypeInv, InitReservation DEF IInv
  <1> QED
    BY <1>1, NextReservation, PTL DEF Spec

(* However many requests, keys, retries and faults: the provider's document  *)
(* is mutated at most once for an action (apply_action).                    *)
THEOREM WritesAtMostOnce == Spec => []AtMostOneWrite
  <1>1. IInv => AtMostOneWrite
    BY DEF IInv, ReservationInv, RecordOK, AtMostOneWrite
  <1> QED
    BY <1>1, InvariantHolds, PTL

(* The apply lock belongs to one running request and carries its key, and   *)
(* only a fault leaves it without an owner (reserve_apply, complete_apply). *)
THEOREM LockOwnership == Spec => []LockHasOneOwner
  <1>1. IInv => LockHasOneOwner
    BY DEF IInv, ReservationInv, OneOwner, OwnerOK, LocksOwned, LockHasOneOwner, Working, Id, Key
  <1> QED
    BY <1>1, InvariantHolds, PTL

(* The stored status tells the truth about the document, up to              *)
(* PROVIDER_WRITE_FAILED and an expiry during a reservation.                *)
THEOREM OutcomeIsTruthful == Spec => []OutcomeMatchesDocument
  <1>1. IInv => OutcomeMatchesDocument
    BY DEF IInv, ReservationInv, RecordOK, OutcomeMatchesDocument
  <1> QED
    BY <1>1, InvariantHolds, PTL

(* What a repeated apply request is answered with (the stored applyResult)  *)
(* is the action's final status.                                            *)
THEOREM ReplaysAreFinal == Spec => []ReplayIsFinal
  <1>1. IInv => ReplayIsFinal
    BY DEF IInv, ReservationInv, RecordOK, ReplayIsFinal
  <1> QED
    BY <1>1, InvariantHolds, PTL

-----------------------------------------------------------------------------
(* Implementation.  What one step of the service does to the record and the *)
(* mutations of one action, in the terms of ActionLifecycle.                *)

Effect(old, new, before, after) ==
    \/ new.status = old.status /\ Locked(new) = Locked(old) /\ after = before
    \/ /\ after = before /\ Locked(new) = Locked(old)
       /\ \/ old.status = "ABSENT" /\ new.status = "PROPOSED"
          \/ old.status = "PROPOSED" /\ new.status = "APPROVED"
          \/ old.status \in NonTerminalStatuses /\ ~Locked(old) /\ new.status = "REJECTED"
          \/ old.status \in NonTerminalStatuses /\ new.status = "EXPIRED"
    \/ /\ old.status = "APPROVED" /\ new.status = "APPROVED"
       /\ ~Locked(old) /\ Locked(new) /\ after = before
    \/ /\ new.status = old.status /\ Locked(old) /\ Locked(new)
       /\ before = 0 /\ after = 1
    \/ /\ Locked(old) /\ ~Locked(new) /\ after = before
       /\ new.status \in {"APPLIED", "CONFLICTED", "FAILED"}
       /\ new.status = "APPLIED" => before = 1
       /\ new.status = "CONFLICTED" => before = 0

OneEffect(a) ==
    /\ Effect(store[a], store'[a], writes[a], writes'[a])
    /\ \A b \in Actions \ {a} : store'[b] = store[b] /\ writes'[b] = writes[b]

LEMMA PutEffect ==
    ASSUME TypeInv, NEW a \in Actions, NEW record, Put(a, record), UNCHANGED external,
           Effect(store[a], record, writes[a], writes[a])
    PROVE  OneEffect(a)
  BY DEF TypeInv, TypeOK, Put, external, OneEffect

LEMMA CompletionEffect ==
    ASSUME IInv, NEW t \in Threads, pc[t] \in Applying, NEW patched \in Record,
           Put(Id(t), CompleteApply(Current(t), Key(t), patched)), UNCHANGED external,
           patched.status \in {"APPLIED", "CONFLICTED", "FAILED"},
           patched.status = "APPLIED" => pc[t] = "applied",
           patched.status = "CONFLICTED" => pc[t] \in BeforeWrite
    PROVE  Id(t) \in Actions /\ OneEffect(Id(t))
  <1> DEFINE released == [patched EXCEPT !.applyLock = NoKey]
  <1>1. /\ Id(t) \in Actions /\ Current(t).applyLock = Key(t) /\ Key(t) \in Keys
        /\ Current(t) = store[Id(t)]
        /\ pc[t] = "applied" => writes[Id(t)] = 1
        /\ pc[t] \in BeforeWrite => writes[Id(t)] = 0
    BY RequestsAssumption
    DEF IInv, TypeInv, LocalsOK, ReservationInv, OwnerOK, Id, Key, Current, Request, Applying
  <1>2. /\ CompleteApply(Current(t), Key(t), patched) = released
        /\ ~Locked(released) /\ released.status = patched.status
    BY <1>1 DEF CompleteApply, Locked, Record
  <1>3. Locked(Current(t))
    BY <1>1, KeysAssumption DEF Locked
  <1> HIDE DEF released
  <1>4. Effect(store[Id(t)], released, writes[Id(t)], writes[Id(t)])
    BY <1>1, <1>2, <1>3 DEF Effect
  <1> QED
    BY <1>1, <1>2, <1>4, PutEffect DEF IInv

LEMMA CompleteReservedEffect ==
    ASSUME IInv, NEW t \in Threads, pc[t] \in BeforeWrite,
           NEW status \in {"CONFLICTED", "FAILED"}, NEW reason \in Reasons, NEW code,
           CompleteReserved(t, status, reason, code)
    PROVE  \E a \in Actions : OneEffect(a)
  <1> DEFINE patched == [Current(t) EXCEPT !.status = status, !.reasonCode = reason,
                             !.idempotencyKey = Key(t), !.applyResult = status]
  <1>1. pc[t] \in Applying /\ Key(t) \in Keys /\ Current(t) \in Record
    BY RequestsAssumption
    DEF IInv, TypeInv, TypeOK, LocalsOK, Id, Key, Current, Applying, BeforeWrite, Request
  <1>2. patched \in Record /\ patched.status = status
    BY <1>1 DEF Record, Statuses, TerminalStatuses
  <1>3. Put(Id(t), CompleteApply(Current(t), Key(t), patched)) /\ UNCHANGED external
    BY DEF CompleteReserved
  <1> HIDE DEF patched
  <1> QED
    BY <1>1, <1>2, <1>3, CompletionEffect

(* Every step either leaves the store and the document alone, or does one   *)
(* lifecycle step to one action.                                            *)
LEMMA StepEffect ==
    ASSUME IInv, [Next]_vars
    PROVE  UNCHANGED <<store, writes>> \/ \E a \in Actions : OneEffect(a)
  <1> DEFINE Goal == UNCHANGED <<store, writes>> \/ \E a \in Actions : OneEffect(a)
  <1>1. ASSUME NEW t \in Threads, Accept(t) PROVE Goal
    BY <1>1 DEF Accept, Handle, Refuse, RefuseCreate, ListActions, GetAction, CreateProposedAction,
                ApproveAction, RejectAction, ApplyAction, ReceiveAuthorized, Receive, external
  <1>2. ASSUME NEW t \in Threads, Work(t) PROVE Goal
    <2>1. pc[t] # "idle"
      BY <1>2 DEF Work, CheckCollision, Insert, Expiry, NotExpired, Approve, Reject, Reserve,
           ValidateConsent, ValidateToken, ValidateTarget, DecryptPayload, ConnectorApply,
           CompleteApplied, CompleteWriteFailed, Publish, Respond
    <2>2. /\ Id(t) \in Actions /\ Key(t) \in Keys \cup {NoKey}
          /\ pc[t] \in {"reserve"} \cup Applying => Key(t) \in Keys
          /\ Current(t) \in Record /\ Current(t) = store[Id(t)]
          /\ RecordOK(Current(t), writes[Id(t)])
          /\ TypeInv
      BY <2>1, RequestsAssumption
      DEF IInv, TypeInv, TypeOK, LocalsOK, Id, Key, Current, Request, ReservationInv
    <2>3. CASE CheckCollision(t) \/ NotExpired(t) \/ Publish(t) \/ Respond(t)
      BY <2>3 DEF CheckCollision, NotExpired, Publish, Respond, external
    <2>4. CASE Insert(t)
      <3>1. CASE Exists(Current(t))
        BY <2>4, <3>1 DEF Insert, external
      <3>2. CASE ~Exists(Current(t))
        <4>1. store[Id(t)].status = "ABSENT" /\ ~Locked(store[Id(t)])
          BY <2>2, <3>2 DEF Exists, RecordOK
        <4>2. seen[t].status = "PROPOSED" /\ ~Locked(seen[t])
          BY <2>4 DEF Insert, IInv, ReservationInv, OwnerOK
        <4>3. Effect(store[Id(t)], seen[t], writes[Id(t)], writes[Id(t)])
          BY <4>1, <4>2 DEF Effect, Locked
        <4> QED
          BY <2>2, <2>4, <3>2, <4>3, PutEffect DEF Insert
      <3> QED
        BY <3>1, <3>2
    <2>5. CASE Expiry(t)
      <3> DEFINE key == IF request[t].op = "apply" THEN Key(t) ELSE Current(t).idempotencyKey
                 expired == [Current(t) EXCEPT !.status = "EXPIRED",
                                !.reasonCode = "ACTION_EXPIRED", !.idempotencyKey = key]
                 result == Transition(Current(t), NonTerminalStatuses, FALSE, expired)
      <3>1. Put(Id(t), result.action) /\ UNCHANGED external
        BY <2>5 DEF Expiry
      <3>2. Effect(Current(t), result.action, writes[Id(t)], writes[Id(t)])
        <4> HIDE DEF key
        <4> QED
          BY <2>2 DEF Transition, Effect, Record, Locked
      <3> HIDE DEF result
      <3> QED
        BY <2>2, <3>1, <3>2, PutEffect
    <2>6. CASE Approve(t)
      <3> DEFINE result == Transition(Current(t), {"PROPOSED"}, FALSE,
                                      [Current(t) EXCEPT !.status = "APPROVED"])
      <3>1. Put(Id(t), result.action) /\ UNCHANGED external
        BY <2>6 DEF Approve
      <3>2. Effect(Current(t), result.action, writes[Id(t)], writes[Id(t)])
        BY <2>2 DEF Transition, Effect, Record, Locked
      <3> HIDE DEF result
      <3> QED
        BY <2>2, <3>1, <3>2, PutEffect
    <2>7. CASE Reject(t)
      <3> DEFINE result == Transition(Current(t), NonTerminalStatuses, TRUE,
                                      [Current(t) EXCEPT !.status = "REJECTED",
                                                         !.reasonCode = "USER_REJECTED"])
      <3>1. Put(Id(t), result.action) /\ UNCHANGED external
        BY <2>7 DEF Reject
      <3>2. Effect(Current(t), result.action, writes[Id(t)], writes[Id(t)])
        BY <2>2 DEF Transition, Effect, Record, Locked
      <3> HIDE DEF result
      <3> QED
        BY <2>2, <3>1, <3>2, PutEffect
    <2>8. CASE Reserve(t)
      <3> DEFINE result == ReserveApply(Current(t), Key(t))
      <3>1. Put(Id(t), result.action) /\ UNCHANGED external /\ Key(t) # NoKey
        BY <2>2, <2>8, KeysAssumption DEF Reserve
      <3>2. Effect(Current(t), result.action, writes[Id(t)], writes[Id(t)])
        BY <2>2, <3>1 DEF ReserveApply, Effect, Record, Locked
      <3> HIDE DEF result
      <3> QED
        BY <2>2, <3>1, <3>2, PutEffect
    <2>9. /\ {"CONSENT_REQUIRED", "CONSENT_CHECK_FAILED", "RECONNECT_REQUIRED",
               "TOKEN_STATUS_CHECK_FAILED", "TARGET_CONFLICT", "TARGET_VALIDATION_FAILED",
               "ACTION_PAYLOAD_DECRYPT_FAILED"} \subseteq Reasons
          /\ \A label : Pass(t, label) => UNCHANGED <<store, writes>>
          /\ BeforeWrite = {"consent", "token", "target", "decrypt", "write"}
      BY DEF Reasons, Pass, external, BeforeWrite
    <2>10. CASE ValidateConsent(t)
      BY <2>9, <2>10, CompleteReservedEffect DEF ValidateConsent
    <2>11. CASE ValidateToken(t)
      BY <2>9, <2>11, CompleteReservedEffect DEF ValidateToken
    <2>12. CASE ValidateTarget(t)
      BY <2>9, <2>12, CompleteReservedEffect DEF ValidateTarget
    <2>13. CASE DecryptPayload(t)
      BY <2>9, <2>13, CompleteReservedEffect DEF DecryptPayload
    <2>14. CASE ConnectorApply(t)
      <3>1. Locked(Current(t)) /\ writes[Id(t)] = 0 /\ store' = store
        BY <2>2, <2>14, KeysAssumption
        DEF ConnectorApply, IInv, ReservationInv, OwnerOK, Applying, BeforeWrite, Locked, Id, Key
      <3>2. writes' = writes \/ writes' = [writes EXCEPT ![Id(t)] = 1]
        BY <2>2, <2>14, <3>1 DEF ConnectorApply, TypeInv, TypeOK
      <3>3. writes' = [writes EXCEPT ![Id(t)] = 1] => OneEffect(Id(t))
        BY <2>2, <3>1 DEF OneEffect, Effect, TypeInv, TypeOK
      <3> QED
        BY <2>2, <3>1, <3>2, <3>3
    <2>15. CASE CompleteApplied(t)
      <3> DEFINE applied == [Current(t) EXCEPT !.status = "APPLIED",
                                !.reasonCode = "APPLY_SUCCEEDED",
                                !.idempotencyKey = Key(t), !.applyResult = "APPLIED"]
      <3>1. pc[t] = "applied" /\ pc[t] \in Applying
        BY <2>15 DEF CompleteApplied, Applying
      <3>2. applied \in Record /\ applied.status = "APPLIED"
        BY <2>2, <3>1 DEF Record, Statuses, TerminalStatuses, Reasons
      <3>3. Put(Id(t), CompleteApply(Current(t), Key(t), applied)) /\ UNCHANGED external
        BY <2>15 DEF CompleteApplied, CompleteWrite
      <3> HIDE DEF applied
      <3> QED
        BY <3>1, <3>2, <3>3, CompletionEffect
    <2>16. CASE CompleteWriteFailed(t)
      <3> DEFINE failed == [Current(t) EXCEPT !.status = "FAILED",
                                !.reasonCode = "PROVIDER_WRITE_FAILED"]
      <3>1. pc[t] \in Applying
        BY <2>16 DEF CompleteWriteFailed, Applying
      <3>2. failed \in Record /\ failed.status = "FAILED"
        BY <2>2 DEF Record, Statuses, TerminalStatuses, Reasons
      <3>3. Put(Id(t), CompleteApply(Current(t), Key(t), failed)) /\ UNCHANGED external
        BY <2>16 DEF CompleteWriteFailed, CompleteWrite
      <3> HIDE DEF failed
      <3> QED
        BY <3>1, <3>2, <3>3, CompletionEffect
    <2> QED
      BY <1>2, <2>3, <2>4, <2>5, <2>6, <2>7, <2>8, <2>10, <2>11, <2>12, <2>13, <2>14,
         <2>15, <2>16 DEF Work
  <1>3. ASSUME NEW t \in Threads, Abort(t) PROVE Goal
    BY <1>3 DEF Abort, external
  <1>4. CASE Crash
    BY <1>4 DEF Crash
  <1>5. CASE Tick
    BY <1>5 DEF Tick, external
  <1>6. CASE UNCHANGED vars
    BY <1>6 DEF vars
  <1> QED
    BY <1>1, <1>2, <1>3, <1>4, <1>5, <1>6 DEF Next

(* A terminal status never changes, but for the completion of an apply that *)
(* held the reservation when the action expired (_expire_action_if_needed). *)
THEOREM TerminalStatusIsFinal == Spec => TerminalIsFinal
  <1> DEFINE Final(a) ==
        store[a].status \in TerminalStatuses /\ store'[a].status # store[a].status =>
              /\ store[a].status = "EXPIRED" /\ Locked(store[a])
              /\ store'[a].status \in {"APPLIED", "CONFLICTED", "FAILED"}
              /\ ~Locked(store'[a])
  <1>1. ASSUME IInv, [Next]_vars, NEW a \in Actions PROVE Final(a)
    <2>1. Locked(store[a]) => store[a].status \in {"APPROVED", "EXPIRED"}
      BY <1>1 DEF IInv, ReservationInv, RecordOK
    <2>2. CASE UNCHANGED <<store, writes>>
      BY <2>2
    <2>3. ASSUME NEW b \in Actions, OneEffect(b) PROVE Final(a)
      <3>1. CASE a # b
        BY <2>3, <3>1 DEF OneEffect
      <3>2. CASE a = b
        BY <2>1, <2>3, <3>2 DEF OneEffect, Effect, TerminalStatuses, NonTerminalStatuses
      <3> QED
        BY <3>1, <3>2
    <2> QED
      BY <1>1, <2>2, <2>3, StepEffect
  <1>2. IInv /\ [Next]_vars => [\A a \in Actions : Final(a)]_vars
    BY <1>1
  <1> QED
    BY <1>2, InvariantHolds, PTL DEF Spec, TerminalIsFinal

(* ActionService implements ActionLifecycle: under the refinement mapping    *)
(* (the stored status, whether a lock is held, the mutations made) every    *)
(* step of the service is one lifecycle step or none.                       *)
THEOREM ServiceImplementsLifecycle == Spec => ImplementsLifecycle
  <1> DEFINE status == [a \in Actions |-> store[a].status]
             reserved == [a \in Actions |-> Locked(store[a])]
             LNext == [Lifecycle!Next]_Lifecycle!vars
  <1>1. Init => Lifecycle!Init
    <2> SUFFICES ASSUME Init PROVE Lifecycle!Init
      OBVIOUS
    <2>1. \A a \in Actions : store[a] = Absent
      BY DEF Init
    <2>2. Absent.status = "ABSENT" /\ (Locked(Absent) = FALSE)
      BY DEF Absent, Locked
    <2>3. status = [a \in Actions |-> "ABSENT"]
      BY <2>1, <2>2
    <2>4. reserved = [a \in Actions |-> FALSE]
      BY <2>1, <2>2 DEF Locked
    <2> QED
      BY <2>3, <2>4 DEF Init, Lifecycle!Init
  <1>2. ASSUME IInv, [Next]_vars PROVE LNext
    <2>1. CASE UNCHANGED <<store, writes>>
      BY <2>1 DEF Lifecycle!vars
    <2>2. ASSUME NEW a \in Actions, OneEffect(a) PROVE LNext
      <3> DEFINE old == store[a]
                 new == store'[a]
      <3>1. /\ status' = [status EXCEPT ![a] = new.status]
            /\ reserved' = [reserved EXCEPT ![a] = Locked(new)]
            /\ writes' = [writes EXCEPT ![a] = writes'[a]]
        BY <2>2, <1>2, NextType DEF OneEffect, IInv, TypeInv, TypeOK
      <3>2. status[a] = old.status /\ reserved[a] = Locked(old)
        OBVIOUS
      <3>3. /\ new.status = old.status => status' = status
            /\ Locked(new) = Locked(old) => reserved' = reserved
            /\ writes'[a] = writes[a] => writes' = writes
        <4>1. new.status = old.status => status' = status
          BY <3>1
        <4>2. Locked(new) = Locked(old) => reserved' = reserved
          BY <3>1
        <4>3. writes'[a] = writes[a] => writes' = writes
          BY <3>1, <1>2 DEF IInv, TypeInv, TypeOK
        <4> QED
          BY <4>1, <4>2, <4>3
      <3>4. Effect(old, new, writes[a], writes'[a])
        BY <2>2 DEF OneEffect
      <3>5. CASE new.status = old.status /\ Locked(new) = Locked(old) /\ writes'[a] = writes[a]
        BY <3>3, <3>5 DEF Lifecycle!vars
      <3>6. CASE Locked(new) = Locked(old) /\ writes'[a] = writes[a]
                 /\ new.status # old.status
        <4>1. /\ status' = [status EXCEPT ![a] = new.status]
              /\ reserved' = reserved /\ writes' = writes
          BY <3>1, <3>3, <3>6
        <4>2. \/ old.status = "ABSENT" /\ new.status = "PROPOSED"
              \/ old.status = "PROPOSED" /\ new.status = "APPROVED"
              \/ old.status \in NonTerminalStatuses /\ ~Locked(old) /\ new.status = "REJECTED"
              \/ old.status \in NonTerminalStatuses /\ new.status = "EXPIRED"
          BY <3>4, <3>6 DEF Effect, Locked
        <4>3. \/ Lifecycle!Propose(a) \/ Lifecycle!Approve(a)
              \/ Lifecycle!Reject(a) \/ Lifecycle!Expire(a)
          BY <3>2, <4>1, <4>2
          DEF NonTerminalStatuses, Lifecycle!Undecided, Lifecycle!Becomes,
              Lifecycle!Propose, Lifecycle!Approve, Lifecycle!Reject, Lifecycle!Expire
        <4> QED
          BY <4>3 DEF Lifecycle!Next
      <3>7. CASE /\ old.status = "APPROVED" /\ new.status = "APPROVED"
                 /\ ~Locked(old) /\ Locked(new) /\ writes'[a] = writes[a]
        <4>1. /\ reserved' = [reserved EXCEPT ![a] = TRUE]
              /\ status' = status /\ writes' = writes
          BY <3>1, <3>3, <3>7 DEF Locked
        <4>2. Lifecycle!Reserve(a)
          BY <3>2, <3>7, <4>1 DEF Lifecycle!Reserve
        <4> QED
          BY <4>2 DEF Lifecycle!Next
      <3>8. CASE /\ new.status = old.status /\ Locked(old) /\ Locked(new)
                 /\ writes[a] = 0 /\ writes'[a] = 1
        <4>1. /\ writes' = [writes EXCEPT ![a] = 1]
              /\ status' = status /\ reserved' = reserved
          BY <3>1, <3>3, <3>8 DEF Locked
        <4>2. Lifecycle!Mutate(a)
          BY <3>2, <3>8, <4>1 DEF Lifecycle!Mutate
        <4> QED
          BY <4>2 DEF Lifecycle!Next
      <3>9. CASE /\ Locked(old) /\ ~Locked(new) /\ writes'[a] = writes[a]
                 /\ new.status \in {"APPLIED", "CONFLICTED", "FAILED"}
                 /\ new.status = "APPLIED" => writes[a] = 1
                 /\ new.status = "CONFLICTED" => writes[a] = 0
        <4>1. /\ reserved' = [reserved EXCEPT ![a] = FALSE]
              /\ status' = [status EXCEPT ![a] = new.status]
              /\ writes' = writes
          BY <3>1, <3>3, <3>9 DEF Locked
        <4>2. Lifecycle!Resolve(a, new.status)
          BY <3>2, <3>9, <4>1 DEF Lifecycle!Resolve, Lifecycle!Becomes
        <4> QED
          BY <3>9, <4>2 DEF Lifecycle!Next
      <3> QED
        BY <3>4, <3>5, <3>6, <3>7, <3>8, <3>9 DEF Effect, Locked
    <2> QED
      BY <1>2, <2>1, <2>2, StepEffect
  <1>3. IInv /\ [Next]_vars => LNext
    BY <1>2
  <1> QED
    BY <1>1, <1>3, InvariantHolds, PTL DEF Spec, ImplementsLifecycle, Lifecycle!Spec

=============================================================================
