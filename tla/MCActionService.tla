-------------------------- MODULE MCActionService --------------------------
(* The instance TLC checks: one owner, so every request reaches the store.  *)
EXTENDS ActionService, TLC

CONSTANTS t1, t2, a1, k1, k2, u1, s1, r1

MCThreads == {t1, t2}
MCActions == {a1}
MCKeys    == {k1, k2}
MCUsers   == {u1}
MCSessions == {s1}
MCResources == {r1}

RequestFor(op, key) == [op |-> op, id |-> a1, key |-> key,
                        user |-> u1, session |-> s1, resource |-> r1]

RequestsWith(keys) ==
    {RequestFor(op, NoKey) : op \in {"create", "approve", "reject"}}
    \cup {RequestFor("apply", key) : key \in keys}

Reads      == {RequestFor(op, NoKey) : op \in {"get", "list"}}
Incomplete == [RequestFor("create", NoKey) EXCEPT !.resource = NoResource]

MCRequests       == RequestsWith(MCKeys) \cup Reads \cup {Incomplete}
MCOneKeyRequests == RequestsWith({k1})

Symmetry == Permutations(MCThreads) \cup Permutations(MCKeys)

=============================================================================
