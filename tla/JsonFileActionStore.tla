------------------------ MODULE JsonFileActionStore ------------------------
(***************************************************************************)
(* JsonFileActionStore: the actions in one JSON file, each call reading    *)
(* the whole file, changing one action in the copy and replacing the file, *)
(* under a lock of the store object.  Store objects belong to runtimes:    *)
(* http_app keeps one runtime for the process and makes a default one for   *)
(* a request that finds none; configuring one replaces it, and it can be   *)
(* reset.  All are on the same file.                                       *)
(***************************************************************************)
EXTENDS ActionStore

CONSTANTS
    Threads,   \* request threads
    Actions,
    Calls,     \* the calls ActionService makes
    Stores,    \* store objects, each with the runtime it belongs to
    None,      \* no runtime; a lock nobody holds
    Quiet,     \* whether a runtime is made by one request alone, and configured while
               \* none is being made and no request has been given one
    MaxFaults  \* bound: failures of the file system and crashes

ASSUME RuntimeAssumption == None \notin Threads \cup Stores /\ Quiet \in BOOLEAN
ASSUME FaultsAssumption == MaxFaults \in Nat

VARIABLES
    file,     \* what the file holds
    runtime,  \* _runtime: the store requests are given, or None
    lock,     \* who holds each store's lock
    pc,       \* where each call is
    call,     \* the call each thread makes
    self,     \* the store it makes it on
    actions,  \* its copy of the file
    result,   \* what the call answers
    faults

vars == <<file, runtime, lock, pc, call, self, actions, result, faults>>

Implemented == INSTANCE AtomicActionStore WITH store <- file

ASSUME CallsAssumption ==
    /\ Calls \subseteq CallsOn(Actions)
    /\ \A c \in Calls : c.op \in {"reserve", "complete"} => c.key \in Keys

NoCall   == [op |-> "none"]
NoResult == [kind |-> "NONE", action |-> Absent]
Kinds == {"NONE", "RAISED", "EXISTS", "CREATED", "FOUND", "NOT_FOUND", "APPLY_IN_PROGRESS",
          "STATUS_MISMATCH", "UPDATED", "REPLAY", "IN_PROGRESS", "IN_PROGRESS_DIFFERENT_KEY",
          "NOT_APPROVED", "RESERVED", "COMPLETED"}

(* The answers after which the copy is written back.                        *)
Writing == {"CREATED", "UPDATED", "RESERVED", "COMPLETED"}

TypeOK ==
    /\ file \in [Actions -> Record]
    /\ runtime \in Stores \cup {None}
    /\ lock \in [Stores -> Threads \cup {None}]
    /\ pc \in [Threads -> {"idle", "construct", "return", "acquire", "read", "replace", "reply"}]
    /\ call \in [Threads -> Calls \cup {NoCall}]
    /\ self \in [Threads -> Stores \cup {None}]
    /\ actions \in [Threads -> [Actions -> Record]]
    /\ result \in [Threads -> [kind : Kinds, action : Record]]
    /\ faults \in Nat

Nothing == [a \in Actions |-> Absent]

Init ==
    /\ file \in [Actions -> {Absent, Proposed}]
    /\ runtime = None
    /\ lock = [s \in Stores |-> None]
    /\ pc = [t \in Threads |-> "idle"]
    /\ call = [t \in Threads |-> NoCall]
    /\ self = [t \in Threads |-> None]
    /\ actions = [t \in Threads |-> Nothing]
    /\ result = [t \in Threads |-> NoResult]
    /\ faults = 0

-----------------------------------------------------------------------------
Goto(t, label) == pc' = [pc EXCEPT ![t] = label]

(* The lock is released on every way out of the with block.                 *)
Release(t) == lock' = [lock EXCEPT ![self[t]] = None]

Raise(t) == result' = [result EXCEPT ![t] = [kind |-> "RAISED", action |-> Absent]]

Unused == {s \in Stores : s # runtime /\ \A t \in Threads : self[t] # s}

(* _get_runtime looks whether there is a runtime ...                        *)
GetRuntime(t, c) ==
    /\ pc[t] = "idle"
    /\ Quiet => \A u \in Threads : pc[u] # "construct"
    /\ call' = [call EXCEPT ![t] = c]
    /\ Goto(t, IF runtime = None THEN "construct" ELSE "return")
    /\ UNCHANGED <<file, runtime, lock, self, actions, result, faults>>

(* ... makes one when there was none, which takes a while ...               *)
ConstructRuntime(t) ==
    /\ pc[t] = "construct"
    /\ runtime' \in Unused
    /\ Goto(t, "return")
    /\ UNCHANGED <<file, lock, call, self, actions, result, faults>>

(* ... and returns what is there by then: a runtime that another thread put  *)
(* there, or none, which the request fails on.                              *)
ReturnRuntime(t) ==
    /\ pc[t] = "return"
    /\ self' = [self EXCEPT ![t] = runtime]
    /\ \/ runtime # None /\ Goto(t, "acquire") /\ UNCHANGED result
       \/ runtime = None /\ Goto(t, "reply") /\ Raise(t)
    /\ UNCHANGED <<file, runtime, lock, call, actions, faults>>

(* configure_http_runtime, directly or for new dependencies: any runtime, or *)
(* None to reset it.  The requests that were given another one keep it.     *)
ConfigureRuntime ==
    /\ Quiet => \A t \in Threads : self[t] = None /\ pc[t] # "construct"
    /\ runtime' \in (Stores \cup {None}) \ {runtime}
    /\ UNCHANGED <<file, lock, pc, call, self, actions, result, faults>>

(* Mutated form: no lock.                                                   *)
AcquireNothing(t) ==
    /\ pc[t] = "acquire"
    /\ Goto(t, "read")
    /\ UNCHANGED <<file, runtime, lock, call, self, actions, result, faults>>

AcquireLock(t) ==
    /\ pc[t] = "acquire"
    /\ lock[self[t]] = None
    /\ lock' = [lock EXCEPT ![self[t]] = t]
    /\ Goto(t, "read")
    /\ UNCHANGED <<file, runtime, call, self, actions, result, faults>>

(* The file is read and the call decided on the copy; a call that changes    *)
(* nothing is over.                                                         *)
ReadActions(t) ==
    LET answer == Perform(call[t], file[call[t].id])
    IN  /\ pc[t] = "read"
        /\ actions' = [actions EXCEPT ![t] = file]
        /\ result' = [result EXCEPT ![t] = answer]
        /\ UNCHANGED <<file, runtime, call, self, faults>>
        /\ \/ answer.kind \in Writing /\ Goto(t, "replace") /\ UNCHANGED lock
           \/ answer.kind \notin Writing /\ Goto(t, "reply") /\ Release(t)

(* os.replace puts the whole new file in the place of the old one.          *)
ReplaceFile(t) ==
    /\ pc[t] = "replace"
    /\ file' = [actions[t] EXCEPT ![call[t].id] = result[t].action]
    /\ UNCHANGED <<runtime, call, self, actions, result, faults>>
    /\ Goto(t, "reply")
    /\ Release(t)

(* Mutated form: a write that failed is tried again, with the lock held.     *)
FileFailsAndRetries(t) ==
    /\ pc[t] = "replace"
    /\ Goto(t, "read")
    /\ UNCHANGED <<file, runtime, lock, call, self, actions, result, faults>>

(* The file cannot be read, or the temporary file cannot be written: the     *)
(* exception leaves the file as it was.                                     *)
FileFails(t) ==
    /\ pc[t] \in {"read", "replace"}
    /\ faults < MaxFaults
    /\ faults' = faults + 1
    /\ Raise(t)
    /\ Release(t)
    /\ Goto(t, "reply")
    /\ UNCHANGED <<file, runtime, call, self, actions>>

Respond(t) ==
    /\ pc[t] = "reply"
    /\ Goto(t, "idle")
    /\ call' = [call EXCEPT ![t] = NoCall]
    /\ self' = [self EXCEPT ![t] = None]
    /\ actions' = [actions EXCEPT ![t] = Nothing]
    /\ result' = [result EXCEPT ![t] = NoResult]
    /\ UNCHANGED <<file, runtime, lock, faults>>

(* The process dies and starts anew: of all this only the file survives.     *)
Crash ==
    /\ faults < MaxFaults
    /\ \E t \in Threads : pc[t] # "idle"
    /\ faults' = faults + 1
    /\ runtime' = None
    /\ lock' = [s \in Stores |-> None]
    /\ pc' = [t \in Threads |-> "idle"]
    /\ call' = [t \in Threads |-> NoCall]
    /\ self' = [t \in Threads |-> None]
    /\ actions' = [t \in Threads |-> Nothing]
    /\ result' = [t \in Threads |-> NoResult]
    /\ UNCHANGED file

-----------------------------------------------------------------------------
Work(t) ==
    \/ ConstructRuntime(t)
    \/ ReturnRuntime(t)
    \/ AcquireLock(t)
    \/ ReadActions(t)
    \/ ReplaceFile(t)
    \/ FileFails(t)
    \/ Respond(t)

Next ==
    \/ \E t \in Threads : Work(t) \/ \E c \in Calls : GetRuntime(t, c)
    \/ ConfigureRuntime
    \/ Crash

Spec == Init /\ [][Next]_vars

(* A thread that can run does; nothing says that a waiting thread ever gets  *)
(* the lock while others take it too.                                       *)
FairSpec == Spec /\ \A t \in Threads : WF_vars(Work(t))

-----------------------------------------------------------------------------
(* Properties.                                                              *)

(* Of the calls to reserve an action, answered or about to be, one is told   *)
(* that it holds the reservation                                            *)
(* (tests/test_action_service.py:296).                                      *)
ReservationIsExclusive ==
    \A t, u \in Threads :
        (/\ pc[t] = "reply" /\ result[t].kind = "RESERVED"
         /\ pc[u] = "reply" /\ result[u].kind = "RESERVED"
         /\ call[t].id = call[u].id) => t = u

(* A change a caller was told of is in the file and is not overwritten by    *)
(* another call's older copy (TASKS.md:60: "durable runtime action state"). *)
ChangesAreDurable ==
    \A t \in Threads :
        LET record == file[call[t].id] IN
        pc[t] = "reply" =>
            /\ result[t].kind = "CREATED" => Exists(record)
            /\ result[t].kind = "RESERVED" =>
                   record.applyLock = call[t].key \/ record.status \in TerminalStatuses
            /\ result[t].kind = "UPDATED" =>
                   /\ call[t].op = "approve" => record.status # "PROPOSED"
                   /\ call[t].op = "reject" => record.status = "REJECTED"
                   /\ call[t].op = "expire" => record.status \in TerminalStatuses

(* The file changes only as the atomic store does, whatever calls overlap    *)
(* and fail, while all requests that are served have the same store (Quiet). *)
ImplementsAtomicStore == Implemented!Spec

(* A store's lock is always released, also when the file fails.             *)
LockIsReleased == \A s \in Stores : lock[s] # None ~> lock[s] = None

=============================================================================
