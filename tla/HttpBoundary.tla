---------------------------- MODULE HttpBoundary ----------------------------
(***************************************************************************)
(* What OrchestrationHttpRuntime and HttpCommandBoundary make of an HTTP   *)
(* request before a service sees it: which operation it asks for, whose it *)
(* is, what it is about, and what is turned down on the way.  Nothing here *)
(* has state; HttpService puts these definitions in front of the action    *)
(* service.                                                                *)
(***************************************************************************)
EXTENDS ActionService

CONSTANTS
    None,         \* a header, path segment or body field that is absent
    GeneratedIds, \* ids the action service's generator makes
    Missing       \* operations that only a MissingDependencyService serves

Paths == {"providers", "commands", "actions", "action", "approve", "reject",
          "apply-action", "unknown"}

(* json: the body is empty or an object that can be read.  user: an identity *)
(* the client claims.                                                       *)
Body == [json     : BOOLEAN,
         user     : Users \cup {None},
         session  : Sessions \cup {None},
         action   : Actions \cup {None},
         resource : Resources \cup {NoResource}]

(* user is what the trusted headers say, session and action what the path   *)
(* says.  A path, method or header that is blank is one that is absent.     *)
(* The stdlib server gives a GET no body; handle_http_request may.          *)
HttpRequest == [method  : {"GET", "POST"},
                path    : Paths,
                user    : Users \cup {None},
                session : Sessions,
                action  : Actions \cup {None},
                key     : Keys \cup {NoKey},
                body    : Body]

ASSUME GeneratedAssumption == GeneratedIds \subseteq Actions
ASSUME MissingAssumption == Missing \subseteq {"command", "provider_status"}

-----------------------------------------------------------------------------
Route(method, path, operation) ==
    [method |-> method, path |-> path, operation |-> operation]

Routes == {Route("GET",  "providers",    "provider_status"),
           Route("POST", "commands",     "command"),
           Route("POST", "actions",      "create"),
           Route("GET",  "actions",      "list"),
           Route("GET",  "action",       "get"),
           Route("POST", "approve",      "approve"),
           Route("POST", "reject",       "reject"),
           Route("POST", "apply-action", "apply")}

Matching(h) == {route \in Routes : route.method = h.method /\ route.path = h.path}
Asks(h, operations) == \E route \in Matching(h) : route.operation \in operations

NamesAction(h) == h.path \in {"action", "approve", "reject"}

(* boundary_request: path and body must not contradict each other.          *)
Mismatch(h) ==
    IF h.body.session \notin {None, h.session} THEN "SESSION_ROUTE_BODY_MISMATCH"
    ELSE IF NamesAction(h) /\ h.body.action \notin {None, h.action}
      THEN "ACTION_ROUTE_BODY_MISMATCH"
    ELSE "OK"

(* _route_request: identity, body, route, mismatch, in this order.  Provider *)
(* status takes its request as it is.                                       *)
RouteError(h) ==
    IF h.user = None THEN "AUTH_CONTEXT_REQUIRED"
    ELSE IF ~h.body.json THEN "INVALID_JSON"
    ELSE IF Matching(h) = {} THEN "ROUTE_NOT_FOUND"
    ELSE IF Asks(h, {"provider_status"}) THEN "OK"
    ELSE Mismatch(h)

(* The action the service is asked about: only the body names one for apply. *)
ActionOf(h) == IF NamesAction(h) THEN h.action ELSE h.body.action

LacksKey(h)    == Asks(h, {"command", "apply"}) /\ h.key = NoKey
LacksAction(h) == Asks(h, {"get", "approve", "reject", "apply"}) /\ ActionOf(h) = None

(* What is refused before a store or a dependency is asked.                  *)
Refusal(h) ==
    IF RouteError(h) # "OK" THEN RouteError(h)
    ELSE IF LacksKey(h) \/ LacksAction(h) THEN "INVALID_FIELD"
    ELSE IF Asks(h, Missing) THEN "DEPENDENCIES_NOT_CONFIGURED"
    ELSE "OK"

(* _provider_status: what the provider status service returns or raises.    *)
ProviderStatus == {"OK", "PROVIDER_STATUS_DEPENDENCY_UNAVAILABLE",
                   "PROVIDER_STATUS_DEPENDENCY_MALFORMED", "INTERNAL_ERROR"}

(* The answers that involve no action: a refusal, the provider status, a     *)
(* command that proposes nothing or ends before it does (CommandService).   *)
PlainAnswers(h) ==
    IF Refusal(h) # "OK" THEN {Refusal(h)}
    ELSE IF Asks(h, {"provider_status"}) THEN ProviderStatus
    ELSE IF Asks(h, {"command"}) THEN {"OK", "COMMAND_FAILED"}
    ELSE {}

(* What a request is about: a command, what its context says, or else its    *)
(* body, and never nothing (resolve_resource_ref).                          *)
ResourcesOf(h) == IF Asks(h, {"command"}) THEN Resources ELSE {h.body.resource}

(* What the action service is asked on behalf of `user`.  A command asks it  *)
(* to create an action, one here for all it proposes (CommandService has    *)
(* the batch); its idempotency key stays behind.                            *)
ServiceRequest(h, user, resource, id) ==
    LET op == IF Asks(h, {"command"}) THEN "create"
              ELSE (CHOOSE route \in Matching(h) : TRUE).operation
    IN  [op |-> op, id |-> id, key |-> IF op = "apply" THEN h.key ELSE NoKey,
         user |-> user, session |-> h.session, resource |-> resource]

(* A create generates its id, and a list is about none.                      *)
Ids(h) == IF Asks(h, {"command", "create"}) THEN GeneratedIds
          ELSE IF Asks(h, {"list"}) THEN {CHOOSE id \in Actions : TRUE}
          ELSE {ActionOf(h)}

(* Mutated form: an identity in the body takes the place of the trusted one. *)
ServiceRequestsOfBody(h) ==
    IF Refusal(h) # "OK" \/ Asks(h, {"provider_status"}) THEN {}
    ELSE {ServiceRequest(h, IF h.body.user = None THEN h.user ELSE h.body.user, resource, id) :
              resource \in ResourcesOf(h), id \in Ids(h)}

(* Identity is the runtime's, whatever the body claims.                      *)
ServiceRequests(h) ==
    IF Refusal(h) # "OK" \/ Asks(h, {"provider_status"}) THEN {}
    ELSE {ServiceRequest(h, h.user, resource, id) : resource \in ResourcesOf(h), id \in Ids(h)}

=============================================================================
