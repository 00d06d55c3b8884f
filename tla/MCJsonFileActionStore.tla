----------------------- MODULE MCJsonFileActionStore -----------------------
(* Every call on one action, under one or two keys, and one on a second      *)
(* action, for the two to overwrite each other.                             *)
EXTENDS JsonFileActionStore

CONSTANTS t1, t2, a1, a2, k1, k2, u1, s1, r1, g1, g2, g3

MCThreads == {t1, t2}
MCActions == {a1, a2}
MCKeys    == {k1, k2}
MCStores  == {g1, g2}

(* One for each thread, and one that is made while they use theirs.          *)
MCThreeStores == {g1, g2, g3}

CallOn(id, op, key) == [op |-> op, id |-> id, key |-> key]

MCCalls ==
    {CallOn(a1, op, NoKey) : op \in {"create", "get", "approve", "reject", "expire"}}
    \cup {CallOn(a1, "reserve", key) : key \in MCKeys}
    \cup {CallOn(a1, "complete", k1)}
    \cup {CallOn(a2, "approve", NoKey)}

(* The default runtime has no payload vault and never creates an action.     *)
MCDefaultCalls == {c \in MCCalls : c.op # "create"}

=============================================================================
