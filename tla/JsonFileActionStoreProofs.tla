--------------------- MODULE JsonFileActionStoreProofs ---------------------
(***************************************************************************)
(* Proofs about JsonFileActionStore, for any number of threads, actions,   *)
(* calls, store objects and faults: its types, and, while all requests that *)
(* are served share one store object (Quiet), that it is the atomic store. *)
(***************************************************************************)
EXTENDS JsonFileActionStore, TLAPS

-----------------------------------------------------------------------------
(* What the store's operations return.                                      *)

LEMMA CallIsTyped ==
    ASSUME NEW c \in Calls
    PROVE  /\ c.id \in Actions
           /\ c.op \in {"create", "get", "approve", "reject", "expire", "reserve", "complete"}
           /\ c.op \in {"reserve", "complete"} => c.key \in Keys /\ c.key # NoKey
  BY CallsAssumption, KeysAssumption DEF CallsOn

LEMMA AbsentIsRecord == Absent \in Record /\ Proposed \in Record
  BY ScopeAssumption
  DEF Absent, Record, Reasons, Statuses, NonTerminalStatuses, TerminalStatuses,
      Proposed

LEMMA PerformIsTyped ==
    ASSUME NEW c \in Calls, NEW record \in Record
    PROVE  /\ Perform(c, record) \in [kind : Kinds, action : Record]
           /\ Perform(c, record).kind \notin Writing => Perform(c, record).action = record
  <1> USE DEF Perform, Kinds, Writing
  <1>1. CASE c.op = "create"
    BY <1>1, AbsentIsRecord DEF Create
  <1>2. CASE c.op = "get"
    BY <1>2 DEF Get
  <1>3. CASE c.op \in {"approve", "reject", "expire"}
    <2>1. \A s \in {"APPROVED", "REJECTED", "EXPIRED"} : [record EXCEPT !.status = s] \in Record
      BY DEF Record, Statuses, NonTerminalStatuses, TerminalStatuses
    <2> QED
      BY <1>3, <2>1 DEF Transition
  <1>4. CASE c.op = "reserve"
    <2>1. [record EXCEPT !.idempotencyKey = c.key, !.applyLock = c.key] \in Record
      BY <1>4, CallIsTyped DEF Record
    <2> QED
      BY <1>4, <2>1 DEF ReserveApply
  <1>5. CASE c.op = "complete"
    <2>1. [record EXCEPT !.status = "APPLIED", !.idempotencyKey = c.key,
                         !.applyResult = "APPLIED", !.applyLock = NoKey] \in Record
      BY <1>5, CallIsTyped DEF Record, Statuses, NonTerminalStatuses, TerminalStatuses
    <2> QED
      BY <1>5, <2>1 DEF Complete, CompleteApply, Record
  <1> QED
    BY <1>1, <1>2, <1>3, <1>4, <1>5, CallIsTyped

-----------------------------------------------------------------------------
(* Type correctness.                                                        *)

LocalsOK(t) ==
    /\ pc[t] # "idle" => call[t] \in Calls
    /\ pc[t] \in {"acquire", "read", "replace"} => self[t] \in Stores

TypeInv == TypeOK /\ \A t \in Threads : LocalsOK(t)

LEMMA InitTypeInv == Init => TypeInv
  BY AbsentIsRecord, RuntimeAssumption
  DEF Init, TypeInv, TypeOK, LocalsOK, Nothing, NoResult, Kinds

LEMMA ReleaseType ==
    ASSUME NEW t \in Threads, self[t] \in Stores, TypeOK, Release(t)
    PROVE  lock' \in [Stores -> Threads \cup {None}]
  BY DEF Release, TypeOK

LEMMA NextTypeInv == TypeInv /\ [Next]_vars => TypeInv'
  <1> SUFFICES ASSUME TypeInv, [Next]_vars PROVE TypeInv'
    OBVIOUS
  <1> USE DEF TypeInv, LocalsOK, Goto
  <1>1. ASSUME NEW t \in Threads, NEW c \in Calls, GetRuntime(t, c) PROVE TypeInv'
    BY <1>1 DEF GetRuntime, TypeOK
  <1>2. ASSUME NEW t \in Threads, ConstructRuntime(t) PROVE TypeInv'
    BY <1>2 DEF ConstructRuntime, TypeOK, Unused
  <1>3. ASSUME NEW t \in Threads, AcquireLock(t) PROVE TypeInv'
    BY <1>3 DEF AcquireLock, TypeOK
  <1>4. ASSUME NEW t \in Threads, ReadActions(t) PROVE TypeInv'
    <2>1. Perform(call[t], file[call[t].id]) \in [kind : Kinds, action : Record]
      BY <1>4, PerformIsTyped, CallIsTyped DEF ReadActions, TypeOK
    <2>2. lock' \in [Stores -> Threads \cup {None}]
      BY <1>4, ReleaseType DEF ReadActions, TypeOK
    <2> QED
      BY <1>4, <2>1, <2>2 DEF ReadActions, TypeOK
  <1>5. ASSUME NEW t \in Threads, ReplaceFile(t) PROVE TypeInv'
    <2>1. lock' \in [Stores -> Threads \cup {None}]
      BY <1>5, ReleaseType DEF ReplaceFile
    <2>2. file' \in [Actions -> Record]
      BY <1>5, CallIsTyped DEF ReplaceFile, TypeOK
    <2> QED
      BY <1>5, <2>1, <2>2 DEF ReplaceFile, TypeOK
  <1>6. ASSUME NEW t \in Threads, FileFails(t) PROVE TypeInv'
    <2>1. lock' \in [Stores -> Threads \cup {None}]
      BY <1>6, ReleaseType DEF FileFails
    <2> QED
      BY <1>6, <2>1, AbsentIsRecord, FaultsAssumption DEF FileFails, Raise, TypeOK, Kinds
  <1>7. ASSUME NEW t \in Threads, Respond(t) PROVE TypeInv'
    BY <1>7, AbsentIsRecord DEF Respond, TypeOK, Nothing, NoResult, Kinds
  <1>8. CASE Crash
    BY <1>8, AbsentIsRecord, RuntimeAssumption
    DEF Crash, TypeOK, Nothing, NoResult, Kinds
  <1>9. CASE ConfigureRuntime
    BY <1>9 DEF ConfigureRuntime, TypeOK
  <1>10. CASE UNCHANGED vars
    BY <1>10 DEF vars, TypeOK
  <1>11. ASSUME NEW t \in Threads, ReturnRuntime(t) PROVE TypeInv'
    <2>1. CASE runtime # None
      BY <1>11, <2>1 DEF ReturnRuntime, TypeOK
    <2>2. CASE runtime = None
      <3>1. result' \in [Threads -> [kind : Kinds, action : Record]]
        BY <1>11, <2>2, AbsentIsRecord DEF ReturnRuntime, Raise, TypeOK, Kinds
      <3> QED
        BY <1>11, <2>2, <3>1 DEF ReturnRuntime, TypeOK
    <2> QED
      BY <2>1, <2>2
  <1> QED
    BY <1>1, <1>2, <1>3, <1>4, <1>5, <1>6, <1>7, <1>8, <1>9, <1>10, <1>11 DEF Next, Work

(* Type correctness of the file store and the runtimes it belongs to.       *)
THEOREM FileStoreTypeCorrect == Spec => []TypeOK
  <1>1. Spec => []TypeInv
    BY InitTypeInv, NextTypeInv, PTL DEF Spec
  <1>2. TypeInv => TypeOK
    BY DEF TypeInv
  <1> QED
    BY <1>1, <1>2, PTL

-----------------------------------------------------------------------------
(* One store object.  Who has been given a runtime has the current one, as   *)
(* none is put in its place meanwhile, and what a thread read under the     *)
(* lock is still in the file when it replaces it.                           *)

SharedOK(t) ==
    /\ pc[t] = "construct" =>
          runtime = None /\ \A u \in Threads \ {t} : pc[u] # "construct"
    /\ self[t] \in {None, runtime}
    /\ pc[t] \in {"read", "replace"} => lock[runtime] = t
    /\ pc[t] = "replace" =>
          /\ actions[t] = file
          /\ result[t] = Perform(call[t], file[call[t].id])

(* What an answer promises of the record, as long as nobody takes it back:   *)
(* ChangesAreDurable, strengthened to what every later call preserves.      *)
Kept(c, kind, record) ==
    /\ kind = "CREATED" => Exists(record)
    /\ kind = "RESERVED" =>
          /\ Exists(record) /\ c.key \in Keys
          /\ record.applyLock = c.key \/ record.status \in TerminalStatuses
    /\ kind = "UPDATED" /\ c.op = "approve" => record.status \notin {"PROPOSED", "ABSENT"}
    /\ kind = "UPDATED" /\ c.op = "reject" => record.status = "REJECTED" /\ ~Locked(record)
    /\ kind = "UPDATED" /\ c.op = "expire" => record.status \in TerminalStatuses

KeptOK(t) == pc[t] = "reply" => Kept(call[t], result[t].kind, file[call[t].id])

(* Of two calls that were told they hold a reservation, one has to be wrong. *)
ExclusiveOK(t, u) ==
    (/\ pc[t] = "reply" /\ result[t].kind = "RESERVED"
     /\ pc[u] = "reply" /\ result[u].kind = "RESERVED"
     /\ call[t].id = call[u].id) => t = u

SharedInv ==
    /\ \A t \in Threads : SharedOK(t)
    /\ \A t \in Threads : KeptOK(t)
    /\ \A t, u \in Threads : ExclusiveOK(t, u)

IInv == TypeInv /\ SharedInv

(* A call that changes a record is told so, and finds there what it is told. *)
LEMMA PerformIsKept ==
    ASSUME NEW c \in Calls, NEW record \in Record
    PROVE  Kept(c, Perform(c, record).kind, Perform(c, record).action)
  <1> USE DEF Perform, Kept, Exists, Locked, TerminalStatuses
  <1>1. CASE c.op = "create"
    BY <1>1 DEF Create, Proposed, Absent
  <1>2. CASE c.op = "get"
    BY <1>2 DEF Get
  <1>3. CASE c.op \in {"approve", "reject", "expire"}
    BY <1>3 DEF Transition, Record
  <1>4. CASE c.op = "reserve"
    BY <1>4, CallIsTyped DEF ReserveApply, Record
  <1>5. CASE c.op = "complete"
    BY <1>5 DEF Complete
  <1> QED
    BY <1>1, <1>2, <1>3, <1>4, <1>5, CallIsTyped

(* No call takes back what another was told.                                *)
LEMMA KeptStays ==
    ASSUME NEW c \in Calls, NEW d \in Calls, NEW record \in Record, NEW kind,
           Kept(c, kind, record)
    PROVE  Kept(c, kind, Perform(d, record).action)
  <1> USE DEF Perform, Kept, Exists, Locked, TerminalStatuses
  <1>1. CASE d.op = "create"
    BY <1>1 DEF Create, Record
  <1>2. CASE d.op = "get"
    BY <1>2 DEF Get
  <1>3. CASE d.op = "approve"
    BY <1>3, KeysAssumption DEF Transition, Record
  <1>4. CASE d.op = "reject"
    BY <1>4, KeysAssumption DEF Transition, Record, NonTerminalStatuses
  <1>5. CASE d.op = "expire"
    BY <1>5, KeysAssumption DEF Transition, Record, NonTerminalStatuses
  <1>6. CASE d.op = "reserve"
    BY <1>6, KeysAssumption DEF ReserveApply, Record
  <1>7. CASE d.op = "complete"
    BY <1>7, KeysAssumption, CallIsTyped DEF Complete, CompleteApply, Record
  <1> QED
    BY <1>1, <1>2, <1>3, <1>4, <1>5, <1>6, <1>7, CallIsTyped

(* A reservation is given by reserve_apply only, for an action that is       *)
(* neither reserved nor resolved.                                           *)
LEMMA ReservedWasFree ==
    ASSUME NEW c \in Calls, NEW record \in Record, Perform(c, record).kind = "RESERVED"
    PROVE  /\ c.op = "reserve"
           /\ ~Locked(record) /\ record.status = "APPROVED"
  <1> USE DEF Perform
  <1>1. c.op # "create"
    BY DEF Create
  <1>2. c.op # "get"
    BY DEF Get
  <1>3. c.op \notin {"approve", "reject", "expire"}
    BY DEF Transition
  <1>4. c.op # "complete"
    BY DEF Complete
  <1>5. c.op = "reserve"
    BY <1>1, <1>2, <1>3, <1>4, CallIsTyped
  <1> QED
    BY <1>5 DEF ReserveApply

-----------------------------------------------------------------------------
(* The invariant.  Steps that leave the file alone keep what answers promise *)
(* of it; the one that replaces it is that of the lock's only holder.       *)

LEMMA InitShared == Init => SharedInv
  BY DEF Init, SharedInv, SharedOK, KeptOK, ExclusiveOK

LEMMA ReplaceKeepsAnswers ==
    ASSUME IInv, NEW t \in Threads, ReplaceFile(t), TypeInv'
    PROVE  /\ file' = [file EXCEPT ![call[t].id] = Perform(call[t], file[call[t].id]).action]
           /\ \A u \in Threads : KeptOK(u)'
           /\ \A u, v \in Threads : ExclusiveOK(u, v)'
  <1> DEFINE id == call[t].id
  <1>1. /\ call[t] \in Calls /\ id \in Actions /\ file[id] \in Record
        /\ result[t] = Perform(call[t], file[id])
        /\ file' = [file EXCEPT ![id] = Perform(call[t], file[id]).action]
    BY CallIsTyped DEF ReplaceFile, IInv, SharedInv, SharedOK, TypeInv, TypeOK, LocalsOK
  <1>2. ASSUME NEW u \in Threads PROVE KeptOK(u)'
    <2>1. CASE u = t
      BY <1>1, <2>1, PerformIsKept DEF ReplaceFile, KeptOK, IInv, TypeInv, TypeOK
    <2>2. CASE u # t
      <3> SUFFICES ASSUME pc[u] = "reply"
                   PROVE  Kept(call[u], result[u].kind, file'[call[u].id])
        BY <2>2 DEF ReplaceFile, Goto, KeptOK, IInv, TypeInv, TypeOK
      <3>1. call[u] \in Calls /\ call[u].id \in Actions
        BY CallIsTyped DEF IInv, TypeInv, LocalsOK
      <3>2. Kept(call[u], result[u].kind, file[call[u].id])
        BY DEF IInv, SharedInv, KeptOK
      <3>3. CASE call[u].id = id
        <4>1. Kept(call[u], result[u].kind, Perform(call[t], file[id]).action)
          BY <1>1, <3>1, <3>2, <3>3, KeptStays
        <4> QED
          BY <1>1, <3>3, <4>1 DEF IInv, TypeInv, TypeOK
      <3>4. CASE call[u].id # id
        BY <1>1, <3>1, <3>2, <3>4 DEF IInv, TypeInv, TypeOK
      <3> QED
        BY <3>3, <3>4
    <2> QED
      BY <2>1, <2>2
  <1>3. ASSUME NEW u \in Threads, u # t,
               result[t].kind = "RESERVED", pc[u] = "reply", result[u].kind = "RESERVED"
        PROVE  call[u].id # id
    <2>1. ~Locked(file[id]) /\ file[id].status = "APPROVED"
      BY <1>1, <1>3, ReservedWasFree
    <2>2. Kept(call[u], "RESERVED", file[call[u].id])
      BY <1>3 DEF IInv, SharedInv, KeptOK
    <2>3. call[u].key \in Keys
      BY <2>2 DEF Kept
    <2> QED
      BY <2>1, <2>2, <2>3, KeysAssumption DEF Kept, Locked, TerminalStatuses
  <1>4. ASSUME NEW u \in Threads, NEW v \in Threads PROVE ExclusiveOK(u, v)'
    BY <1>3, <1>4 DEF ReplaceFile, Goto, ExclusiveOK, IInv, SharedInv, TypeInv, TypeOK
  <1> QED
    BY <1>1, <1>2, <1>4

LEMMA NextShared ==
    ASSUME Quiet
    PROVE  IInv /\ [Next]_vars => IInv'
  <1> SUFFICES ASSUME IInv, [Next]_vars PROVE SharedInv'
    BY NextTypeInv DEF IInv
  <1> USE DEF IInv, SharedInv, Goto
  <1>0. TypeInv'
    BY NextTypeInv
  <1>1. ASSUME NEW t \in Threads, NEW c \in Calls, GetRuntime(t, c) PROVE SharedInv'
    BY <1>1 DEF GetRuntime, SharedOK, KeptOK, ExclusiveOK, TypeInv, TypeOK
  <1>2. ASSUME NEW t \in Threads, ConstructRuntime(t) PROVE SharedInv'
    <2>1. \A u \in Threads : self[u] = None /\ (u # t => pc[u] # "construct")
      BY <1>2 DEF ConstructRuntime, SharedOK
    <2>2. \A u \in Threads : pc[u] \notin {"acquire", "read", "replace"}
      BY <2>1, RuntimeAssumption DEF TypeInv, LocalsOK
    <2> QED
      BY <1>2, <2>1, <2>2 DEF ConstructRuntime, SharedOK, KeptOK, ExclusiveOK, TypeInv, TypeOK
  <1>3. ASSUME NEW t \in Threads, AcquireLock(t) PROVE SharedInv'
    BY <1>3, RuntimeAssumption
    DEF AcquireLock, SharedOK, KeptOK, ExclusiveOK, TypeInv, TypeOK, LocalsOK
  <1>4. ASSUME NEW t \in Threads, ReadActions(t) PROVE SharedInv'
    <2> DEFINE answer == Perform(call[t], file[call[t].id])
    <2>1. /\ runtime' = runtime /\ file' = file /\ call' = call /\ self' = self
          /\ actions' = [actions EXCEPT ![t] = file]
          /\ result' = [result EXCEPT ![t] = answer]
      BY <1>4 DEF ReadActions
    <2>2. CASE answer.kind \in Writing /\ pc' = [pc EXCEPT ![t] = "replace"] /\ UNCHANGED lock
      <3>1. \A u \in Threads : SharedOK(u)'
        BY <1>4, <2>1, <2>2 DEF ReadActions, SharedOK, TypeInv, TypeOK
      <3>2. (\A u \in Threads : KeptOK(u)') /\ (\A u, v \in Threads : ExclusiveOK(u, v)')
        BY <2>1, <2>2 DEF KeptOK, ExclusiveOK, TypeInv, TypeOK
      <3> QED
        BY <1>4, <2>1, <2>2, <3>1, <3>2 DEF ReadActions, TypeInv, TypeOK
    <2>3. CASE answer.kind \notin Writing /\ pc' = [pc EXCEPT ![t] = "reply"] /\ Release(t)
      <3>1. \A u \in Threads : SharedOK(u)'
        BY <1>4, <2>1, <2>3, RuntimeAssumption
        DEF ReadActions, Release, SharedOK, TypeInv, TypeOK
      <3>2. (\A u \in Threads : KeptOK(u)') /\ (\A u, v \in Threads : ExclusiveOK(u, v)')
        BY <2>1, <2>3 DEF KeptOK, ExclusiveOK, Kept, Writing, TypeInv, TypeOK
      <3> QED
        BY <1>4, <2>1, <2>3, <3>1, <3>2 DEF ReadActions, TypeInv, TypeOK
    <2> QED
      BY <1>4, <2>2, <2>3 DEF ReadActions
  <1>5. ASSUME NEW t \in Threads, ReplaceFile(t) PROVE SharedInv'
    <2>1. \A u \in Threads : SharedOK(u)'
      BY <1>5, RuntimeAssumption DEF ReplaceFile, Release, SharedOK, TypeInv, TypeOK
    <2> QED
      BY <1>0, <1>5, <2>1, ReplaceKeepsAnswers DEF ReplaceFile, TypeInv, TypeOK
  <1>6. ASSUME NEW t \in Threads, FileFails(t) PROVE SharedInv'
    <2>1. \A u \in Threads : SharedOK(u)'
      BY <1>6, RuntimeAssumption DEF FileFails, Release, SharedOK, TypeInv, TypeOK
    <2>2. (\A u \in Threads : KeptOK(u)') /\ (\A u, v \in Threads : ExclusiveOK(u, v)')
      BY <1>6 DEF FileFails, Raise, KeptOK, ExclusiveOK, Kept, TypeInv, TypeOK
    <2> QED
      BY <1>6, <2>1, <2>2 DEF FileFails, TypeInv, TypeOK
  <1>7. ASSUME NEW t \in Threads, Respond(t) PROVE SharedInv'
    BY <1>7 DEF Respond, SharedOK, KeptOK, ExclusiveOK, TypeInv, TypeOK
  <1>8. CASE Crash
    BY <1>8 DEF Crash, SharedOK, KeptOK, ExclusiveOK
  <1>9. CASE ConfigureRuntime
    <2>1. \A t \in Threads : self[t] = None /\ pc[t] # "construct"
      BY <1>9 DEF ConfigureRuntime
    <2>2. \A t \in Threads : pc[t] \notin {"acquire", "read", "replace"}
      BY <2>1, RuntimeAssumption DEF TypeInv, LocalsOK
    <2> QED
      BY <1>9, <2>1, <2>2 DEF ConfigureRuntime, SharedOK, KeptOK, ExclusiveOK
  <1>10. CASE UNCHANGED vars
    BY <1>10 DEF vars, SharedOK, KeptOK, ExclusiveOK
  <1>11. ASSUME NEW t \in Threads, ReturnRuntime(t) PROVE SharedInv'
    <2> USE DEF ReturnRuntime, TypeInv, TypeOK
    <2>1. CASE runtime # None
      <3>1. pc' = [pc EXCEPT ![t] = "acquire"] /\ result' = result
        BY <1>11, <2>1
      <3>2. \A u \in Threads : SharedOK(u)'
        BY <1>11, <3>1 DEF SharedOK
      <3>3. \A u \in Threads : KeptOK(u)'
        BY <1>11, <3>1 DEF KeptOK
      <3>4. \A u, v \in Threads : ExclusiveOK(u, v)'
        BY <1>11, <3>1 DEF ExclusiveOK
      <3> QED
        BY <3>2, <3>3, <3>4
    <2>2. CASE runtime = None
      <3>1. /\ pc' = [pc EXCEPT ![t] = "reply"]
            /\ result' = [result EXCEPT ![t] = [kind |-> "RAISED", action |-> Absent]]
        BY <1>11, <2>2 DEF Raise
      <3>2. \A u \in Threads : SharedOK(u)'
        BY <1>11, <3>1 DEF SharedOK
      <3>3. \A u \in Threads : KeptOK(u)'
        BY <1>11, <3>1 DEF KeptOK, Kept
      <3>4. \A u, v \in Threads : ExclusiveOK(u, v)'
        BY <1>11, <3>1 DEF ExclusiveOK
      <3> QED
        BY <3>2, <3>3, <3>4
    <2> QED
      BY <2>1, <2>2
  <1> QED
    BY <1>1, <1>2, <1>3, <1>4, <1>5, <1>6, <1>7, <1>8, <1>9, <1>10, <1>11 DEF Next, Work

LEMMA SharedInvariant == ASSUME Quiet PROVE Spec => []IInv
  <1>1. Init => IInv
    BY InitTypeInv, InitShared DEF IInv
  <1> QED
    BY <1>1, NextShared, PTL DEF Spec

(* However many calls overlap and fail, one of those that reserve an action  *)
(* is told that it holds it (reserve_apply under the store's lock).         *)
THEOREM ReservationExclusive ==
    ASSUME Quiet PROVE Spec => []ReservationIsExclusive
  <1>1. IInv => ReservationIsExclusive
    BY DEF IInv, SharedInv, ExclusiveOK, ReservationIsExclusive
  <1> QED
    BY <1>1, SharedInvariant, PTL

(* What a caller was told the file holds stays in it (_write_actions).      *)
THEOREM ChangesDurable ==
    ASSUME Quiet PROVE Spec => []ChangesAreDurable
  <1>1. IInv => ChangesAreDurable
    BY DEF IInv, SharedInv, KeptOK, Kept, ChangesAreDurable
  <1> QED
    BY <1>1, SharedInvariant, PTL

-----------------------------------------------------------------------------
(* Refinement.                                                              *)

(* The atomic store's operations are the same ones.                         *)
LEMMA SameOperations ==
    /\ Absent = Implemented!Absent
    /\ Proposed = Implemented!Proposed
    /\ \A c, record : Implemented!Perform(c, record) = Perform(c, record)
  BY DEF Absent, Implemented!Absent, Proposed, Implemented!Proposed,
         Perform, Implemented!Perform, Create, Implemented!Create, Get, Implemented!Get,
         Transition, Implemented!Transition, ReserveApply, Implemented!ReserveApply,
         Complete, Implemented!Complete, CompleteApply, Implemented!CompleteApply,
         Exists, Implemented!Exists, Locked, Implemented!Locked,
         Replayable, Implemented!Replayable,
         NonTerminalStatuses, Implemented!NonTerminalStatuses

(* With one store object the file is the atomic store: replacing the file is *)
(* its step, whatever reads, failures and crashes surround it.              *)
THEOREM FileStoreIsAtomic ==
    ASSUME Quiet PROVE Spec => ImplementsAtomicStore
  <1>1. Init => Implemented!Init
    BY SameOperations DEF Init, Implemented!Init
  <1>2. ASSUME IInv, [Next]_vars PROVE [Implemented!Next]_file
    <2>1. ASSUME NEW t \in Threads, ReplaceFile(t) PROVE Implemented!Next
      <3>1. call[t] \in Calls
        BY <1>2, <2>1 DEF ReplaceFile, IInv, TypeInv, LocalsOK
      <3>2. file' = [file EXCEPT ![call[t].id] = Perform(call[t], file[call[t].id]).action]
        BY <1>2, <2>1, NextTypeInv, ReplaceKeepsAnswers DEF IInv
      <3> QED
        BY <3>1, <3>2, SameOperations DEF Implemented!Next
    <2>2. CASE ~\E t \in Threads : ReplaceFile(t)
      BY <1>2, <2>2
      DEF Next, Work, GetRuntime, ConstructRuntime, ReturnRuntime, AcquireLock, ReadActions, FileFails,
          Respond, ConfigureRuntime, Crash, vars
    <2> QED
      BY <2>1, <2>2
  <1> QED
    BY <1>1, <1>2, SharedInvariant, PTL
    DEF Spec, ImplementsAtomicStore, Implemented!Spec

=============================================================================
