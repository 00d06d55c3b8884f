--------------------------- MODULE MCHttpService ---------------------------
(* A watched client that repeats an apply, or a command, while others send   *)
(* the other requests about the same action, among them requests that are   *)
(* not theirs to make, that contradict themselves, or that lack something.  *)
EXTENDS HttpService, TLC

CONSTANTS t1, t2, a1, a2, k1, k2, alice, bob, s1, s2, r1, r2, c1

MCThreads == {t1, t2}

Named(action, resource) ==
    [json |-> TRUE, user |-> None, session |-> None, action |-> action, resource |-> resource]

Post(path, action, key, body) ==
    [method |-> "POST", path |-> path, user |-> alice, session |-> s1,
     action |-> action, key |-> key, body |-> body]
Read(path, action) == [Post(path, action, NoKey, Named(None, NoResource)) EXCEPT !.method = "GET"]

CreateAction == Post("actions", None, NoKey, Named(None, r1))
Command(key) == Post("commands", None, key, Named(None, r1))
Approve1     == Post("approve", a1, NoKey, Named(None, r1))
Reject1      == Post("reject", a1, NoKey, Named(None, r1))
Apply1(key)  == Post("apply-action", None, key, Named(a1, r1))

Wellformed == {CreateAction, Approve1, Reject1, Apply1(k1), Read("actions", None), Read("action", a1)}

(* Turned down by the runtime or the boundary.                              *)
Refused ==
    {[Approve1 EXCEPT !.user = None], [Approve1 EXCEPT !.body.json = FALSE],
     [Approve1 EXCEPT !.path = "unknown"], [Approve1 EXCEPT !.body.session = s2],
     [Read("action", a1) EXCEPT !.body.action = a2], Apply1(NoKey),
     Post("apply-action", None, k1, Named(None, r1)), Command(k1), Read("providers", None)}

(* Turned down by the service.                                              *)
Defective ==
    {[Approve1 EXCEPT !.body.resource = NoResource],
     [CreateAction EXCEPT !.body.resource = NoResource],
     [Approve1 EXCEPT !.user = bob, !.body.user = alice],
     [Read("action", a1) EXCEPT !.session = s2],
     [Read("action", a1) EXCEPT !.body.resource = r2],
     [Apply1(k1) EXCEPT !.body.resource = r2]}

MCFewRequests  == {CreateAction, Approve1, Reject1}
MCHttpRequests == Wellformed \cup Refused \cup Defective
MCRepeated     == {Apply1(k1)}
MCAnything     == MCRepeated \cup {Apply1(NoKey)}
MCCommands     == {Command(k1)}

RequestsOf(https) == UNION {ServiceRequests(h) : h \in https}
MCRequests        == RequestsOf(MCHttpRequests \cup MCRepeated)
MCFewServiceRequests == RequestsOf(MCFewRequests \cup MCRepeated)
MCCommandRequests    == RequestsOf(MCCommands)

(* States that differ only in events and what became of them count as one:  *)
(* no step depends on them, and no property of these runs is about them.    *)
Visible == <<now, store, pc, request, seen, writes, faults, call, asked, attempt, told,
             origin, losses, [t \in Threads |-> <<reply[t].code, reply[t].shown>>]>>

Symmetry == Permutations(MCThreads)

=============================================================================
