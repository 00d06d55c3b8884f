------------------------- MODULE AtomicActionStore -------------------------
(***************************************************************************)
(* An action store as its callers take it to be: every call of ActionService*)
(* reads and changes one action in one step.  InMemoryActionStore is that  *)
(* store, by the lock it holds during a call; JsonFileActionStore has to   *)
(* implement it.                                                           *)
(***************************************************************************)
EXTENDS ActionStore

CONSTANTS
    Actions,
    Calls     \* the calls ActionService makes

VARIABLE store

(* An earlier process may have left actions.                                *)
Init == store \in [Actions -> {Absent, Proposed}]

Next ==
    \E call \in Calls :
        store' = [store EXCEPT ![call.id] = Perform(call, store[call.id]).action]

Spec == Init /\ [][Next]_store

=============================================================================
