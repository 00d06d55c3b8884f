---------------------------- MODULE ActionStore ----------------------------
(***************************************************************************)
(* The action model and the operations of the action stores.               *)
(*                                                                         *)
(* InMemoryActionStore and JsonFileActionStore perform the same compare-   *)
(* and-set operations on one stored action, under a lock.  Each operation  *)
(* is written here as a function of the stored record, so that the service *)
(* (ActionService) and the file store (JsonFileActionStore) apply the same *)
(* definitions.  The result of an operation is the code's {"kind",         *)
(* "action"} dictionary; `action` is the record the store holds afterwards *)
(* (the unchanged one when the operation refuses).                         *)
(***************************************************************************)
EXTENDS Integers

CONSTANTS
    Users,      \* (tenantId, userId) pairs
    Sessions,
    Resources,
    Keys,       \* idempotency keys of apply requests
    NoKey       \* the absent key: no idempotencyKey, no applyLock

ASSUME KeysAssumption  == NoKey \notin Keys
ASSUME ScopeAssumption == Users # {} /\ Sessions # {} /\ Resources # {}

-----------------------------------------------------------------------------
(* ActionStatus and its partition.  "ABSENT" stands for an id the store     *)
(* does not hold (get returns None).                                        *)

NonTerminalStatuses == {"PROPOSED", "APPROVED"}
TerminalStatuses    == {"APPLIED", "REJECTED", "EXPIRED", "CONFLICTED", "FAILED"}
Statuses            == NonTerminalStatuses \cup TerminalStatuses

Reasons == {"NONE", "USER_REJECTED", "ACTION_EXPIRED", "APPLY_SUCCEEDED",
            "CONSENT_CHECK_FAILED", "CONSENT_REQUIRED",
            "TOKEN_STATUS_CHECK_FAILED", "RECONNECT_REQUIRED",
            "TARGET_VALIDATION_FAILED", "TARGET_CONFLICT",
            "ACTION_PAYLOAD_DECRYPT_FAILED", "PROVIDER_WRITE_FAILED"}

(* A stored action.  Provider, target, summary, encrypted payload and the   *)
(* bookkeeping timestamps are never read back by a guard and are left out.  *)
(* applyResult is represented by its status, "NONE" when the key is absent. *)
Record == [user           : Users,
           session        : Sessions,
           resource       : Resources,
           expiresAt      : Nat,
           status         : Statuses \cup {"ABSENT"},
           reasonCode     : Reasons,
           idempotencyKey : Keys \cup {NoKey},
           applyLock      : Keys \cup {NoKey},
           applyResult    : TerminalStatuses \cup {"NONE"}]

Absent == [user           |-> CHOOSE u \in Users : TRUE,
           session        |-> CHOOSE s \in Sessions : TRUE,
           resource       |-> CHOOSE r \in Resources : TRUE,
           expiresAt      |-> 0,
           status         |-> "ABSENT",
           reasonCode     |-> "NONE",
           idempotencyKey |-> NoKey,
           applyLock      |-> NoKey,
           applyResult    |-> "NONE"]

Exists(record)    == record.status # "ABSENT"
Locked(record)    == record.applyLock # NoKey
Replayable(record, key) == record.applyResult # "NONE" /\ record.idempotencyKey = key

IsExpired(record, now) == record.expiresAt <= now

-----------------------------------------------------------------------------
(* Mutated forms, used only to show that the properties can fail: the apply *)
(* lock is never looked at; the status is never looked at.                  *)
TransitionIgnoringLock(current, allowed, rejectIfApplyLocked, patched) ==
    IF ~Exists(current)
      THEN [kind |-> "NOT_FOUND", action |-> current]
    ELSE IF current.status \notin allowed
      THEN [kind |-> "STATUS_MISMATCH", action |-> current]
    ELSE [kind |-> "UPDATED", action |-> patched]

TransitionFromAnyStatus(current, allowed, rejectIfApplyLocked, patched) ==
    IF rejectIfApplyLocked /\ Locked(current)
      THEN [kind |-> "APPLY_IN_PROGRESS", action |-> current]
    ELSE [kind |-> "UPDATED", action |-> patched]

(* transition: replace the record by its patched form when its status is    *)
(* allowed; only a caller that asks for it is stopped by an apply lock.     *)
Transition(current, allowed, rejectIfApplyLocked, patched) ==
    IF ~Exists(current)
      THEN [kind |-> "NOT_FOUND", action |-> current]
    ELSE IF rejectIfApplyLocked /\ Locked(current)
      THEN [kind |-> "APPLY_IN_PROGRESS", action |-> current]
    ELSE IF current.status \notin allowed
      THEN [kind |-> "STATUS_MISMATCH", action |-> current]
    ELSE [kind |-> "UPDATED", action |-> patched]

(* Mutated form: a second request takes the lock over.                      *)
ReserveApplyOverLock(current, key) ==
    IF Replayable(current, key)
      THEN [kind |-> "REPLAY", action |-> current]
    ELSE IF current.status # "APPROVED"
      THEN [kind |-> "NOT_APPROVED", action |-> current]
    ELSE [kind   |-> "RESERVED",
          action |-> [current EXCEPT !.idempotencyKey = key, !.applyLock = key]]

(* reserve_apply: the lock that makes one request the only one to write.    *)
ReserveApply(current, key) ==
    IF ~Exists(current)
      THEN [kind |-> "NOT_FOUND", action |-> current]
    ELSE IF Replayable(current, key)
      THEN [kind |-> "REPLAY", action |-> current]
    ELSE IF Locked(current)
      THEN [kind   |-> IF current.applyLock = key THEN "IN_PROGRESS"
                                                  ELSE "IN_PROGRESS_DIFFERENT_KEY",
            action |-> current]
    ELSE IF current.status # "APPROVED"
      THEN [kind |-> "NOT_APPROVED", action |-> current]
    ELSE [kind   |-> "RESERVED",
          action |-> [current EXCEPT !.idempotencyKey = key, !.applyLock = key]]

(* Mutated forms: the lock stays; the comparison is the wrong way round; the  *)
(* lock is cleared rather than removed.                                     *)
CompleteApplyKeepingLock(current, key, patched) ==
    IF current.applyLock # key THEN current ELSE patched

CompleteApplySwapped(current, key, patched) ==
    IF current.applyLock = key THEN current
                               ELSE [patched EXCEPT !.applyLock = NoKey]

CompleteApplyClearingLock(current, key, patched) ==
    IF current.applyLock # key THEN current
                               ELSE [patched EXCEPT !.applyLock = FALSE]

(* complete_apply: patch and unlock, only for the key that holds the lock;  *)
(* the status is not looked at.                                             *)
CompleteApply(current, key, patched) ==
    IF current.applyLock # key THEN current
                               ELSE [patched EXCEPT !.applyLock = NoKey]

-----------------------------------------------------------------------------
(* The calls ActionService makes on a store, as one function of the call     *)
(* and the record it is about.                                              *)
CallsOn(ids) ==
    [op  : {"create", "get", "approve", "reject", "expire", "reserve", "complete"},
     id  : ids,
     key : Keys \cup {NoKey}]

Proposed == [Absent EXCEPT !.status = "PROPOSED"]

(* create raises when the id is taken.                                      *)
Create(current) ==
    IF Exists(current)
      THEN [kind |-> "EXISTS", action |-> current]
      ELSE [kind |-> "CREATED", action |-> Proposed]

Get(current) == [kind |-> IF Exists(current) THEN "FOUND" ELSE "NOT_FOUND", action |-> current]

(* complete_apply, with one outcome for all; it goes through update, which   *)
(* is silent about a completion that finds another key's lock, or none.     *)
Complete(current, key) ==
    IF ~Exists(current)
      THEN [kind |-> "NOT_FOUND", action |-> current]
      ELSE [kind   |-> "COMPLETED",
            action |-> CompleteApply(current, key,
                           [current EXCEPT !.status = "APPLIED", !.idempotencyKey = key,
                                           !.applyResult = "APPLIED"])]

(* What a call answers, and the record it leaves.                           *)
Perform(call, current) ==
    CASE call.op = "create"   -> Create(current)
      [] call.op = "get"      -> Get(current)
      [] call.op = "approve"  -> Transition(current, {"PROPOSED"}, FALSE,
                                            [current EXCEPT !.status = "APPROVED"])
      [] call.op = "reject"   -> Transition(current, NonTerminalStatuses, TRUE,
                                            [current EXCEPT !.status = "REJECTED"])
      [] call.op = "expire"   -> Transition(current, NonTerminalStatuses, FALSE,
                                            [current EXCEPT !.status = "EXPIRED"])
      [] call.op = "reserve"  -> ReserveApply(current, call.key)
      [] call.op = "complete" -> Complete(current, call.key)

=============================================================================
