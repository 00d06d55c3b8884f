----------------------------- MODULE HttpService -----------------------------
(***************************************************************************)
(* The action service behind its HTTP server, and the clients in front.    *)
(* Every request gets a thread.  Most clients are anonymous: they send what *)
(* they like.  Some are watched: such a client has one request and repeats *)
(* it, because an answer was lost, because it gave up waiting while the    *)
(* first attempt still runs, or for no reason; it remembers what it was    *)
(* told.                                                                   *)
(***************************************************************************)
EXTENDS HttpBoundary

CONSTANTS
    Clients,       \* the watched clients
    HttpRequests,  \* what anonymous clients send
    Repeated,      \* what a watched client chooses from
    MaxLosses      \* bound: answers that are lost or not waited for

ASSUME HttpRequestsAssumption ==
    /\ HttpRequests \subseteq HttpRequest /\ Repeated \subseteq HttpRequest
    /\ \A h \in HttpRequests \cup Repeated : ServiceRequests(h) \subseteq Requests
ASSUME NoneAssumption   == None \notin Clients \cup Threads \cup Repeated
ASSUME LossesAssumption == MaxLosses \in Nat

VARIABLES
    call,     \* the HTTP request each thread serves
    asked,    \* the request each watched client repeats
    attempt,  \* the thread it waits for
    told,     \* the answers it has got
    origin,   \* history: the client and key whose request stored an action
    losses

clients == <<asked, attempt, told, losses>>
httpVars == <<vars, call, origin, clients>>

NoCall   == [client |-> None]
NoOrigin == [client |-> None, key |-> NoKey]

(* What each request asks of the service, once and for all.                 *)
Passed == [h \in HttpRequests \cup Repeated |-> ServiceRequests(h)]

HttpTypeOK ==
    /\ \A t \in Threads : call[t] # NoCall =>
           /\ call[t].client \in Clients \cup {None}
           /\ request[t] \in Passed[call[t].http]
           /\ call[t].since <= now
    /\ \A t \in Threads : call[t] = NoCall <=> pc[t] = "idle"
    /\ asked \in [Clients -> Repeated \cup {None}]
    /\ attempt \in [Clients -> Threads \cup {None}]
    /\ \A c \in Clients : attempt[c] # None => call[attempt[c]].client = c
    /\ losses \in 0..MaxLosses

HttpInit ==
    /\ Init
    /\ call = [t \in Threads |-> NoCall]
    /\ asked = [c \in Clients |-> None]
    /\ attempt = [c \in Clients |-> None]
    /\ told = [c \in Clients |-> {}]
    /\ origin = [a \in Actions |-> NoOrigin]
    /\ losses = 0

-----------------------------------------------------------------------------
(* What a client need not remember: it may ask again and be told more.      *)
Provisional == {"ACTION_NOT_FOUND", "ACTION_NOT_APPROVED", "ACTION_NOT_APPLIABLE",
                "ACTION_APPLY_IN_PROGRESS", "INTERNAL_ERROR"}

Tell(waiting, answer) ==
    told' = [c \in Clients |->
                IF c \in waiting /\ answer.code \notin Provisional
                  THEN told[c] \cup {answer} ELSE told[c]]

(* handle_request passes a request on to the service ...                    *)
PassOn(t, c, h) ==
    /\ call[t] = NoCall
    /\ call' = [call EXCEPT ![t] = [client |-> c, http |-> h, since |-> now]]
    /\ \E r \in Passed[h] : Handle(t, r)
    /\ UNCHANGED <<origin, told, losses>>

(* ... or answers it by itself; nothing is held meanwhile, so it is one step. *)
AnswerPlainly(c, h) ==
    /\ \E code \in PlainAnswers(h) : Tell({c}, [code |-> code, shown |-> {}])
    /\ UNCHANGED <<vars, call, origin, attempt, losses>>

SendAnonymously(t) ==
    /\ \E h \in HttpRequests : PassOn(t, None, h)
    /\ UNCHANGED <<asked, attempt>>

(* The first attempt, or another one, with the same key.                    *)
Send(c) ==
    /\ attempt[c] = None
    /\ \E h \in Repeated :
           /\ asked[c] \in {None, h}
           /\ asked' = [asked EXCEPT ![c] = h]
           /\ \/ AnswerPlainly(c, h)
              \/ \E t \in Threads :
                     PassOn(t, c, h) /\ attempt' = [attempt EXCEPT ![c] = t]

(* A step of the handler between its arrival and its answer.                *)
Proceed(t) ==
    /\ pc[t] # "reply"
    /\ Work(t)
    /\ origin' = [a \in Actions |->
                     IF Exists(store[a]) \/ ~Exists(store'[a]) THEN origin[a]
                     ELSE [client |-> call[t].client, key |-> call[t].http.key]]
    /\ UNCHANGED <<call, clients>>

-----------------------------------------------------------------------------
(* write_json_response, with which the thread ends.                         *)
WriteResponse(t) ==
    /\ Respond(t)
    /\ call' = [call EXCEPT ![t] = NoCall]
    /\ UNCHANGED <<asked, origin>>

Waiting(t) == {c \in Clients : attempt[c] = t}

(* Mutated form: one that gave up still waits for the thread.                *)
StopWaitingNever(waiting) == attempt' = attempt

StopWaiting(waiting) == attempt' = [c \in Clients |-> IF c \in waiting THEN None ELSE attempt[c]]

(* The answer reaches the client; one that gave up on it does not look.      *)
Deliver(t) ==
    /\ WriteResponse(t)
    /\ Tell(Waiting(t), [code |-> reply[t].code, shown |-> reply[t].shown])
    /\ StopWaiting(Waiting(t))
    /\ UNCHANGED losses

(* The connection breaks before the answer is through.                      *)
LoseAnswer(t) ==
    /\ WriteResponse(t)
    /\ Waiting(t) # {} /\ losses < MaxLosses
    /\ losses' = losses + 1
    /\ StopWaiting(Waiting(t))
    /\ UNCHANGED told

(* The client's own timeout; the attempt goes on without it.                 *)
GiveUp(c) ==
    /\ attempt[c] # None /\ losses < MaxLosses
    /\ losses' = losses + 1
    /\ StopWaiting({c})
    /\ UNCHANGED <<vars, call, asked, told, origin>>

HttpAbort(t) == Abort(t) /\ UNCHANGED <<call, origin, clients>>

HttpCrash ==
    /\ Crash
    /\ call' = [t \in Threads |-> NoCall]
    /\ StopWaiting(Clients)
    /\ UNCHANGED <<asked, told, origin, losses>>

HttpTick == Tick /\ UNCHANGED <<call, origin, clients>>

-----------------------------------------------------------------------------
HttpNext ==
    \/ \E t \in Threads : \/ SendAnonymously(t)
                          \/ Proceed(t)
                          \/ Deliver(t)
                          \/ LoseAnswer(t)
                          \/ HttpAbort(t)
    \/ \E c \in Clients : Send(c) \/ GiveUp(c)
    \/ HttpCrash
    \/ HttpTick

HttpSpec == HttpInit /\ [][HttpNext]_httpVars

(* A thread the runtime started runs on, a dependency it awaits eventually    *)
(* returns or raises, and a watched client keeps repeating: the server      *)
(* starts a thread for each connection, so that an attempt is served though *)
(* others always come first.                                                *)
PersistentSpec ==
    /\ HttpSpec
    /\ \A t \in Threads : WF_httpVars(Proceed(t) \/ Deliver(t))
    /\ \A c \in Clients : SF_httpVars(Send(c))

-----------------------------------------------------------------------------
(* Properties.                                                              *)

InScope(h, id) ==
    /\ store[id].user = h.user /\ store[id].session = h.session
    /\ NamesAction(h) => id = h.action

(* Whatever body, path and headers say, a call shows, decides and applies    *)
(* only actions of the user the trusted headers name, in the session the    *)
(* path names, and of the action the path names                             *)
(* (tests/test_http_runtime.py: spoofed identities, path and body           *)
(* mismatches).                                                             *)
CallsStayInScope ==
    \A t \in Threads :
        LET h == call[t].http IN
        /\ \A shown \in reply[t].shown : InScope(h, shown.id)
        /\ pc[t] \in Applying \cup {"approve", "reject", "reserve"} =>
               InScope(h, Id(t)) /\ Current(t).resource = h.body.resource

FailedBeforeWriting == {"CONSENT_CHECK_FAILED", "TOKEN_STATUS_CHECK_FAILED",
                        "TARGET_VALIDATION_FAILED", "ACTION_PAYLOAD_DECRYPT_FAILED"}

(* What a client was once told stays true, through other attempts, other     *)
(* clients and crashes: a final status, but for EXPIRED, is the action's    *)
(* status for good and agrees with the document; an apply that failed       *)
(* before its write never writes.                                           *)
AnswersStayTrue ==
    \A c \in Clients : \A answer \in told[c] :
        /\ \A shown \in answer.shown :
               shown.status \in TerminalStatuses \ {"EXPIRED"} =>
                   /\ store[shown.id].status = shown.status
                   /\ shown.status = "APPLIED" => writes[shown.id] = 1
                   /\ shown.status \in {"REJECTED", "CONFLICTED"} => writes[shown.id] = 0
        /\ answer.code \in FailedBeforeWriting =>
               LET id == ActionOf(asked[c]) IN
               store[id].status = "FAILED" /\ writes[id] = 0

(* An apply that arrives after the action expired never gets to the          *)
(* document, however its steps and the clock interleave; one that arrives   *)
(* in time may write late (action_service.py:199 checks once).              *)
LateApplyNeverWrites ==
    \A t \in Threads : pc[t] \in Applying => call[t].since < Current(t).expiresAt

(* A command repeated with its key stores its action once: the key is        *)
(* required at the boundary for that (ai-assist-platform-context.md:57,     *)
(* "Keep durable writes on authenticated, idempotent HTTP").                *)
CommandStoredOnce ==
    \A a, b \in Actions :
        origin[a] = origin[b] /\ origin[a].client # None => a = b

(* Every HTTP request is answered.                                          *)
EveryCallAnswered == \A t \in Threads : call[t] # NoCall ~> call[t] = NoCall

Approved(h) ==
    /\ h # None /\ Asks(h, {"apply"}) /\ Refusal(h) = "OK"
    /\ LET record == store[ActionOf(h)]
           asks   == ServiceRequest(h, h.user, h.body.resource, ActionOf(h))
       IN  record.status = "APPROVED" /\ Denial(asks, record) = "OK"

Concluded(c) ==
    \E answer \in told[c] :
        \/ \E shown \in answer.shown : shown.status \in TerminalStatuses
        \/ answer.code \in FailedBeforeWriting \cup {"PROVIDER_WRITE_FAILED"}

(* A client that keeps repeating its apply of an approved action learns how  *)
(* it ended, though attempts overtake each other and answers get lost;      *)
(* unless a fault leaves the reservation behind.                            *)
RetriedApplyConcludes ==
    \A c \in Clients : Approved(asked[c]) ~> (Concluded(c) \/ faults > 0)

=============================================================================
