------------------------- MODULE HttpServiceProofs -------------------------
(***************************************************************************)
(* Proofs about HttpService, for any number of threads, clients, requests, *)
(* losses and faults: a call reaches no further than its headers and path  *)
(* say, and what a client was told stays true.                             *)
(***************************************************************************)
EXTENDS HttpService, ActionHistoryProofs

-----------------------------------------------------------------------------
(* The invariant of the calls and the clients.                              *)

Call == [client : Clients \cup {None}, http : HttpRequests \cup Repeated, since : Nat]

CallsTyped == call \in [Threads -> Call \cup {NoCall}]

(* A handler beyond the expiry check had a request that came in time.        *)
InTime(t) == pc[t] \in Timely => call[t].since < Current(t).expiresAt

AnswerOK(c, answer) ==
    /\ \A shown \in answer.shown :
           shown.status \in Final => shown.id \in Actions /\ store[shown.id].status = shown.status
    /\ answer.code \in EarlyFailures =>
           LET id == ActionOf(asked[c]) IN
           id \in Actions /\ store[id].status = "FAILED" /\ writes[id] = 0

(* A client has one request, in all its attempts and for all its answers.    *)
ClientOK(c) ==
    /\ asked[c] = None => attempt[c] = None /\ told[c] = {}
    /\ attempt[c] # None => call[attempt[c]].http = asked[c]
    /\ \A answer \in told[c] : AnswerOK(c, answer)

CallsInv ==
    /\ CallsTyped
    /\ HttpTypeOK
    /\ \A t \in Threads : InTime(t)
    /\ \A c \in Clients : ClientOK(c)

HInv == EInv /\ CallsInv


-----------------------------------------------------------------------------
(* What the boundary passes on.                                             *)

(* The service is asked on behalf of the trusted user, in the path's         *)
(* session, and about the action that path or body name, unless it is to    *)
(* create or to list.                                                       *)
LEMMA PassedFacts ==
    ASSUME NEW h \in HttpRequests \cup Repeated, NEW r \in Passed[h]
    PROVE  /\ r \in Requests
           /\ r.user = h.user /\ r.session = h.session
           /\ r.op # "create" => r.resource = h.body.resource
           /\ NamesAction(h) => r.id = h.action /\ r.op # "list"
           /\ r.key \in Keys => r.id = ActionOf(h)
<1>1. r \in ServiceRequests(h) /\ r \in Requests
  BY HttpRequestsAssumption DEF Passed
<1>2. /\ Refusal(h) = "OK"
      /\ \E resource \in ResourcesOf(h), id \in Ids(h) :
             r = ServiceRequest(h, h.user, resource, id)
  BY <1>1 DEF ServiceRequests
<1>3. PICK resource \in ResourcesOf(h), id \in Ids(h) :
          r = ServiceRequest(h, h.user, resource, id)
  BY <1>2
<1>4. PICK route \in Matching(h) : route = CHOOSE one \in Matching(h) : TRUE
  <2>1. RouteError(h) = "OK"
    BY <1>2 DEF Refusal
  <2>2. Matching(h) # {}
    BY <2>1 DEF RouteError
  <2> QED
    BY <2>2
<1>5. /\ r.id = id /\ r.user = h.user /\ r.session = h.session /\ r.resource = resource
      /\ r.op = IF Asks(h, {"command"}) THEN "create" ELSE route.operation
      /\ r.key = IF r.op = "apply" THEN h.key ELSE NoKey
  BY <1>3, <1>4 DEF ServiceRequest
<1>6. \A other \in Matching(h) : other \in Routes /\ other.path = h.path
  BY DEF Matching
<1>7. \A other \in Routes :
          /\ other.operation \in {"list", "create", "command"} =>
                 other.path \in {"actions", "commands"}
          /\ other.operation = "apply" => other.path = "apply-action"
  BY DEF Routes, Route
<1>8. ASSUME h.path \notin {"actions", "commands"} PROVE r.id = ActionOf(h) /\ r.op # "list"
  <2>1. \A other \in Matching(h) : other.operation \notin {"list", "create", "command"}
    BY <1>6, <1>7, <1>8
  <2>2. ~Asks(h, {"command", "create"}) /\ ~Asks(h, {"list"})
    BY <2>1 DEF Asks
  <2> QED
    BY <1>4, <1>5, <2>1, <2>2 DEF Ids
<1>9. NamesAction(h) => r.id = h.action /\ r.op # "list"
  BY <1>8 DEF NamesAction, ActionOf
<1>10. r.key \in Keys => r.id = ActionOf(h)
  <2>1. r.key \in Keys => r.op = "apply"
    BY <1>5, KeysAssumption
  <2>2. r.op = "apply" => h.path = "apply-action"
    BY <1>4, <1>5, <1>6, <1>7
  <2> QED
    BY <1>8, <2>1, <2>2
<1>11. r.op # "create" => r.resource = h.body.resource
  BY <1>3, <1>5 DEF ResourcesOf
<1> QED
  BY <1>1, <1>5, <1>9, <1>10, <1>11


-----------------------------------------------------------------------------
(* What a step leaves alone.                                                *)

LEMMA CallIsSome == \A one \in Call : one # NoCall /\ one.client \in Clients \cup {None}
<1> SUFFICES ASSUME NEW one \in Call PROVE one # NoCall /\ one.client \in Clients \cup {None}
  OBVIOUS
<1>1. "http" \in DOMAIN one /\ "http" \notin DOMAIN NoCall
  BY DEF Call, NoCall
<1> QED
  BY <1>1 DEF Call

(* The expiry of the action a handler works on is what it was.               *)
LEMMA SameExpiry ==
    ASSUME HInv, Kept, NEW u \in Threads, pc[u] \in Deciding, request'[u] = request[u]
    PROVE  Current(u)'.expiresAt = Current(u).expiresAt
<1>1. TypeInv
  BY DEF HInv, EInv, IInv
<1>2. pc[u] # "idle" /\ Exists(Current(u))
  BY <1>1, ThreadFacts DEF Deciding, Applying
<1>3. Id(u) \in Actions /\ Current(u) = store[Id(u)] /\ Current(u)' = store'[Id(u)]
  BY <1>1, <1>2, ThreadFacts DEF Id, Current
<1> QED
  BY <1>2, <1>3 DEF Kept, SameScope

(* A thread that another one passes stays in time.                           *)
LEMMA OthersStayInTime ==
    ASSUME HInv, Kept, NEW u \in Threads,
           pc'[u] = pc[u], request'[u] = request[u], call'[u] = call[u]
    PROVE  InTime(u)'
<1>1. InTime(u)
  BY DEF HInv, CallsInv
<1>2. ASSUME pc[u] \in Timely PROVE InTime(u)'
  <2>1. Current(u)'.expiresAt = Current(u).expiresAt
    BY <1>2, BusyLabels, SameExpiry
  <2> QED
    BY <1>1, <1>2, <2>1 DEF InTime
<1> QED
  BY <1>2 DEF InTime

(* What a client was told stays true.                                       *)
LEMMA AnswersKeep ==
    ASSUME HInv, Stable, NEW c \in Clients, asked'[c] = asked[c]
    PROVE  \A answer \in told[c] : AnswerOK(c, answer)'
<1> SUFFICES ASSUME NEW answer \in told[c] PROVE AnswerOK(c, answer)'
  OBVIOUS
<1>1. AnswerOK(c, answer)
  BY DEF HInv, CallsInv, ClientOK
<1>2. "FAILED" \in Final
  BY DEF Final, TerminalStatuses
<1> QED
  BY <1>1, <1>2 DEF AnswerOK, Stable

(* So it does when a client gets an answer that is true.                     *)
LEMMA TellKeeps ==
    ASSUME HInv, Stable, NEW waiting, NEW answer, Tell(waiting, answer),
           NEW c \in Clients, asked'[c] = asked[c] \/ told[c] = {},
           c \in waiting => AnswerOK(c, answer)'
    PROVE  \A one \in told'[c] : AnswerOK(c, one)'
<1>1. told'[c] = told[c] \/ (told'[c] = told[c] \cup {answer} /\ c \in waiting)
  BY DEF Tell
<1>2. ASSUME NEW one \in told[c] PROVE AnswerOK(c, one)'
  BY <1>2, AnswersKeep
<1> QED
  BY <1>1, <1>2

(* A request that is passed on: its thread begins or answers at once.        *)
LEMMA ArrivalFacts ==
    ASSUME HInv, NEW t \in Threads, NEW c \in Clients \cup {None},
           NEW h \in HttpRequests \cup Repeated, PassOn(t, c, h)
    PROVE  /\ [Next]_vars /\ call[t] = NoCall /\ now' = now /\ now \in Nat
           /\ call' = [call EXCEPT ![t] = [client |-> c, http |-> h, since |-> now]]
           /\ request'[t] \in Passed[h] /\ pc'[t] # "idle" /\ pc'[t] \notin Timely
           /\ \A u \in Threads \ {t} : pc'[u] = pc[u] /\ request'[u] = request[u]
           /\ told' = told /\ losses' = losses
<1>1. PICK r \in Passed[h] : Handle(t, r)
  BY DEF PassOn
<1>2. r \in Requests
  BY PassedFacts
<1>3. request' = [request EXCEPT ![t] = r] /\ (Takes(t, r) \/ Returns(t))
  BY <1>1, <1>2, AcceptForm DEF HInv
<1>4. Next
  BY <1>1, <1>2 DEF Next, Accept
<1>5. pc'[t] \in {"expiry", "collision", "reply"} /\ Alone(t)
  BY <1>3 DEF Takes, Returns
<1>6. TypeOK /\ now' = now
  BY <1>1 DEF HInv, EInv, IInv, TypeInv, Handle, Refuse, RefuseCreate, ListActions, GetAction,
              CreateProposedAction, ApproveAction, RejectAction, ApplyAction, ReceiveAuthorized,
              Receive
<1>7. pc'[t] # "idle" /\ pc'[t] \notin Timely
  BY <1>5 DEF Timely, Deciding, Applying
<1> QED
  BY <1>1, <1>3, <1>4, <1>5, <1>6, <1>7 DEF PassOn, TypeOK, Alone

(* A step of a handler between its arrival and its answer.                  *)
LEMMA RunFacts ==
    ASSUME HInv, NEW t \in Threads, pc[t] # "reply", Work(t) \/ Abort(t)
    PROVE  /\ [Next]_vars /\ now' = now /\ request' = request
           /\ pc[t] # "idle" /\ pc'[t] # "idle"
           /\ \A u \in Threads \ {t} : pc'[u] = pc[u]
           /\ pc'[t] \in Timely => /\ pc[t] \in Timely \/ (pc[t] \in Deciding /\ ~IsExpired(seen[t], now))
                                   /\ Kept
<1>1. Next
  BY DEF Next
<1>2. now' = now /\ request' = request
  BY DEF Work, CheckCollision, Insert, Expiry, NotExpired, Approve, Reject, Reserve,
         ValidateConsent, ValidateToken, ValidateTarget, DecryptPayload, ConnectorApply,
         CompleteApplied, CompleteWriteFailed, CompleteReserved, CompleteWrite, Pass,
         Publish, Respond, Abort
<1>3. /\ EInv /\ pc \in [Threads -> Labels]
  BY DEF HInv, EInv, IInv, TypeInv, TypeOK
<1>4. \/ Works(t) \/ Returns(t) \/ Changes(t)
      \/ Publish(t)
      \/ Abort(t)
  BY <1>3, WorkOutsideForm, WorkInsideForm DEF Work, Respond
<1>5. CASE Works(t)
  <2>1. pc'[t] \in Timely => pc'[t] \in Deciding
    BY BusyLabels
  <2> QED
    BY <1>1, <1>2, <1>3, <1>5, <2>1, FormsKeep DEF Works, Alone, Busy
<1>6. CASE Returns(t) \/ Changes(t)
  <2>1. pc'[t] \in {"reply", "publish"} /\ Alone(t)
    BY <1>6 DEF Returns, Changes
  <2>2. pc[t] # "idle"
    BY DEF Work, CheckCollision, Insert, Expiry, NotExpired, Approve, Reject, Reserve,
           ValidateConsent, ValidateToken, ValidateTarget, DecryptPayload, ConnectorApply,
           CompleteApplied, CompleteWriteFailed, Publish, Respond, Abort
  <2>3. pc'[t] \notin Timely
    BY <2>1 DEF Timely, Deciding, Applying
  <2> QED
    BY <1>1, <1>2, <2>1, <2>2, <2>3 DEF Alone
<1>7. CASE Publish(t) \/ Abort(t)
  <2>1. pc' = [pc EXCEPT ![t] = "reply"] /\ pc[t] # "idle"
    BY <1>7 DEF Publish, Abort, Return
  <2>2. pc'[t] = "reply" /\ pc'[t] \notin Timely
    BY <1>3, <2>1 DEF Timely, Deciding, Applying
  <2> QED
    BY <1>1, <1>2, <1>3, <2>1, <2>2
<1> QED
  BY <1>4, <1>5, <1>6, <1>7


-----------------------------------------------------------------------------
(* Every step of the server and its clients keeps the invariant.            *)

(* The invariant of one thread's call.                                      *)
CallOK(t) ==
    /\ call[t] # NoCall => /\ call[t].client \in Clients \cup {None}
                           /\ request[t] \in Passed[call[t].http]
                           /\ call[t].since <= now
    /\ call[t] = NoCall <=> pc[t] = "idle"

AttemptsOK ==
    /\ asked \in [Clients -> Repeated \cup {None}]
    /\ attempt \in [Clients -> Threads \cup {None}]
    /\ \A c \in Clients : attempt[c] # None => call[attempt[c]].client = c
    /\ losses \in 0..MaxLosses

LEMMA HttpTypes == HttpTypeOK <=> AttemptsOK /\ \A t \in Threads : CallOK(t)
  BY DEF HttpTypeOK, AttemptsOK, CallOK

(* A thread a client waits for is at work for it.                            *)
LEMMA AttemptIsACall ==
    ASSUME HInv, NEW c \in Clients, attempt[c] # None
    PROVE  /\ attempt[c] \in Threads /\ call[attempt[c]] # NoCall /\ call[attempt[c]] \in Call
           /\ call[attempt[c]].client = c /\ call[attempt[c]].http = asked[c]
<1>1. attempt[c] \in Threads /\ call[attempt[c]].client = c
  BY DEF HInv, CallsInv, HttpTypeOK
<1>2. NoCall.client = None /\ c # None
  BY NoneAssumption DEF NoCall
<1> QED
  BY <1>1, <1>2 DEF HInv, CallsInv, CallsTyped, ClientOK

LEMMA CallFacts ==
    ASSUME HInv, NEW t \in Threads, call[t] # NoCall
    PROVE  /\ call[t] \in Call /\ pc[t] # "idle" /\ now \in Nat
           /\ call[t].http \in HttpRequests \cup Repeated /\ call[t].since \in Nat
           /\ request[t] \in Passed[call[t].http] /\ call[t].since <= now
  BY HttpTypes DEF HInv, CallsInv, CallsTyped, CallOK, EInv, IInv, TypeInv, TypeOK, Call

LEMMA ArrivalKeeps ==
    ASSUME HInv, NEW t \in Threads, NEW c \in Clients \cup {None},
           NEW h \in HttpRequests \cup Repeated, PassOn(t, c, h)
    PROVE  /\ EInv' /\ Stable /\ CallsTyped' /\ \A u \in Threads : CallOK(u)' /\ InTime(u)'
           /\ call'[t].client = c /\ call'[t].http = h
           /\ \A d \in Clients : attempt[d] # None =>
                  attempt[d] # t /\ call'[attempt[d]] = call[attempt[d]]
           /\ told' = told /\ losses' = losses
<1> DEFINE new == [client |-> c, http |-> h, since |-> now]
<1>1. /\ [Next]_vars /\ call[t] = NoCall /\ now' = now /\ now \in Nat
      /\ call' = [call EXCEPT ![t] = new]
      /\ request'[t] \in Passed[h] /\ pc'[t] # "idle" /\ pc'[t] \notin Timely
      /\ \A u \in Threads \ {t} : pc'[u] = pc[u] /\ request'[u] = request[u]
      /\ told' = told /\ losses' = losses
  BY ArrivalFacts
<1>2. EInv' /\ Stable /\ Kept
  BY <1>1, NextHistory DEF HInv
<1>3. new \in Call /\ new # NoCall /\ new.client = c /\ new.http = h /\ new.since = now
  BY <1>1, CallIsSome DEF Call
<1> HIDE DEF new
<1>4. CallsTyped /\ \A u \in Threads : CallOK(u) /\ InTime(u)
  BY HttpTypes DEF HInv, CallsInv
<1>5. /\ CallsTyped' /\ call'[t] = new
      /\ \A u \in Threads \ {t} : call'[u] = call[u]
  BY <1>1, <1>3, <1>4 DEF CallsTyped
<1>6. ASSUME NEW u \in Threads PROVE CallOK(u)' /\ InTime(u)'
  <2>1. CASE u = t
    BY <1>1, <1>3, <1>5, <2>1 DEF CallOK, InTime
  <2>2. CASE u # t
    <3>1. InTime(u)'
      BY <1>1, <1>2, <1>5, <2>2, OthersStayInTime
    <3> QED
      BY <1>1, <1>4, <1>5, <2>2, <3>1 DEF CallOK
  <2> QED
    BY <2>1, <2>2
<1>7. ASSUME NEW d \in Clients, attempt[d] # None
      PROVE  attempt[d] # t /\ call'[attempt[d]] = call[attempt[d]]
  BY <1>1, <1>5, <1>7, AttemptIsACall
<1> QED
  BY <1>1, <1>2, <1>3, <1>5, <1>6, <1>7

LEMMA AnonymousKeeps ==
    ASSUME HInv, NEW t \in Threads, SendAnonymously(t)
    PROVE  HInv'
<1>1. PICK h \in HttpRequests : PassOn(t, None, h)
  BY DEF SendAnonymously
<1>2. asked' = asked /\ attempt' = attempt
  BY DEF SendAnonymously
<1>3. /\ EInv' /\ Stable /\ CallsTyped' /\ \A u \in Threads : CallOK(u)' /\ InTime(u)'
      /\ \A d \in Clients : attempt[d] # None => call'[attempt[d]] = call[attempt[d]]
      /\ told' = told /\ losses' = losses
  BY <1>1, ArrivalKeeps
<1>4. AttemptsOK'
  BY <1>2, <1>3, HttpTypes DEF AttemptsOK, HInv, CallsInv
<1>5. ASSUME NEW c \in Clients PROVE ClientOK(c)'
  BY <1>2, <1>3, AnswersKeep DEF ClientOK, HInv, CallsInv
<1>6. HttpTypeOK'
  BY <1>3, <1>4 DEF HttpTypeOK, AttemptsOK, CallOK
<1> QED
  BY <1>3, <1>5, <1>6 DEF HInv, CallsInv

(* The answers that the server gives by itself show nothing and say nothing  *)
(* of a write.                                                              *)
LEMMA PlainAnswersAreEarly ==
    ASSUME NEW h PROVE PlainAnswers(h) \cap EarlyFailures = {}
<1>1. Refusal(h) \notin EarlyFailures
  BY DEF Refusal, RouteError, Mismatch, EarlyFailures
<1> QED
  BY <1>1 DEF PlainAnswers, ProviderStatus, EarlyFailures

LEMMA SendKeeps ==
    ASSUME HInv, NEW c \in Clients, Send(c)
    PROVE  HInv'
<1>1. PICK h \in Repeated :
         /\ asked[c] \in {None, h} /\ asked' = [asked EXCEPT ![c] = h]
         /\ \/ AnswerPlainly(c, h)
            \/ \E t \in Threads : PassOn(t, c, h) /\ attempt' = [attempt EXCEPT ![c] = t]
  BY DEF Send
<1>2. /\ attempt[c] = None /\ AttemptsOK /\ CallsTyped
      /\ \A u \in Threads : CallOK(u) /\ InTime(u)
      /\ \A d \in Clients : ClientOK(d)
  BY HttpTypes DEF Send, HInv, CallsInv
<1>3. /\ asked' \in [Clients -> Repeated \cup {None}] /\ asked'[c] = h
      /\ \A d \in Clients \ {c} : asked'[d] = asked[d]
      /\ asked'[c] = asked[c] \/ told[c] = {}
  BY <1>1, <1>2 DEF AttemptsOK, ClientOK
<1>4. h # None /\ c # None
  BY NoneAssumption
<1>5. CASE AnswerPlainly(c, h)
  <2>1. PICK code \in PlainAnswers(h) : Tell({c}, [code |-> code, shown |-> {}])
    BY <1>5 DEF AnswerPlainly
  <2>2. UNCHANGED <<vars, call, attempt, losses>>
    BY <1>5 DEF AnswerPlainly
  <2>3. EInv' /\ Kept /\ Stable
    BY <2>2, NextHistory DEF HInv
  <2>4. CallsTyped' /\ \A u \in Threads : CallOK(u)' /\ InTime(u)'
    BY <1>2, <2>2 DEF CallsTyped, CallOK, InTime, vars, Current, Id
  <2>5. AttemptsOK'
    BY <1>2, <1>3, <2>2 DEF AttemptsOK
  <2>6. PICK answer : answer = [code |-> code, shown |-> {}]
    OBVIOUS
  <2>7. answer.shown = {} /\ answer.code \notin EarlyFailures
    BY <2>1, <2>6, PlainAnswersAreEarly
  <2>8. AnswerOK(c, answer)'
    BY <2>7 DEF AnswerOK
  <2>9. ASSUME NEW d \in Clients PROVE ClientOK(d)'
    <3>1. \A one \in told'[d] : AnswerOK(d, one)'
      BY <1>3, <2>1, <2>3, <2>6, <2>8, TellKeeps
    <3>2. d # c => told'[d] = told[d]
      BY <2>1 DEF Tell
    <3> QED
      BY <1>2, <1>3, <1>4, <2>2, <3>1, <3>2 DEF ClientOK
  <2>10. HttpTypeOK'
    BY <2>4, <2>5 DEF HttpTypeOK, AttemptsOK, CallOK
  <2> QED
    BY <2>3, <2>4, <2>9, <2>10 DEF HInv, CallsInv
<1>6. ASSUME NEW t \in Threads, PassOn(t, c, h), attempt' = [attempt EXCEPT ![c] = t]
      PROVE  HInv'
  <2>1. /\ EInv' /\ Stable /\ CallsTyped' /\ \A u \in Threads : CallOK(u)' /\ InTime(u)'
        /\ call'[t].client = c /\ call'[t].http = h
        /\ \A d \in Clients : attempt[d] # None => call'[attempt[d]] = call[attempt[d]]
        /\ told' = told /\ losses' = losses
    BY <1>6, ArrivalKeeps
  <2>2. /\ attempt' \in [Clients -> Threads \cup {None}] /\ attempt'[c] = t
        /\ \A d \in Clients \ {c} : attempt'[d] = attempt[d]
    BY <1>2, <1>6 DEF AttemptsOK
  <2>3. AttemptsOK'
    BY <1>2, <1>3, <2>1, <2>2 DEF AttemptsOK
  <2>4. ASSUME NEW d \in Clients PROVE ClientOK(d)'
    <3>1. told[d] # {} => asked'[d] = asked[d]
      BY <1>3
    <3>2. \A answer \in told[d] : AnswerOK(d, answer)'
      BY <2>1, <3>1, AnswersKeep
    <3> QED
      BY <1>2, <1>3, <1>4, <2>1, <2>2, <3>2 DEF ClientOK
  <2>5. HttpTypeOK'
    BY <2>1, <2>3 DEF HttpTypeOK, AttemptsOK, CallOK
  <2> QED
    BY <2>1, <2>4, <2>5 DEF HInv, CallsInv
<1> QED
  BY <1>1, <1>5, <1>6

(* When nothing but a running handler moves, no client notices.              *)
LEMMA UnnoticedKeeps ==
    ASSUME HInv, EInv', Stable, CallsTyped', \A u \in Threads : CallOK(u)' /\ InTime(u)',
           UNCHANGED <<call, clients>>
    PROVE  HInv'
<1>1. UNCHANGED <<call, asked, attempt, told, losses>>
  BY DEF clients
<1>2. AttemptsOK'
  BY <1>1, HttpTypes DEF AttemptsOK, HInv, CallsInv
<1>3. ASSUME NEW c \in Clients PROVE ClientOK(c)'
  BY <1>1, AnswersKeep DEF ClientOK, HInv, CallsInv
<1>4. HttpTypeOK'
  BY <1>2 DEF HttpTypeOK, AttemptsOK, CallOK
<1> QED
  BY <1>3, <1>4 DEF HInv, CallsInv

LEMMA RunKeeps ==
    ASSUME HInv, NEW t \in Threads, Proceed(t) \/ HttpAbort(t)
    PROVE  HInv'
<1>1. /\ pc[t] # "reply" /\ (Work(t) \/ Abort(t))
      /\ UNCHANGED <<call, clients>>
  BY DEF Proceed, HttpAbort, Abort
<1>2. /\ [Next]_vars /\ now' = now /\ request' = request
      /\ pc[t] # "idle" /\ pc'[t] # "idle"
      /\ \A u \in Threads \ {t} : pc'[u] = pc[u]
      /\ pc'[t] \in Timely => pc[t] \in Timely \/ (pc[t] \in Deciding /\ ~IsExpired(seen[t], now))
  BY <1>1, RunFacts
<1>3. EInv' /\ Kept /\ Stable
  BY <1>2, NextHistory DEF HInv
<1>4. CallsTyped /\ \A u \in Threads : CallOK(u) /\ InTime(u)
  BY HttpTypes DEF HInv, CallsInv
<1>5. ASSUME NEW u \in Threads PROVE CallOK(u)'
  BY <1>1, <1>2, <1>4 DEF CallOK
<1>6. ASSUME pc'[t] \in Timely PROVE InTime(t)'
  <2>1. pc[t] \in Deciding /\ (pc[t] \in Timely \/ ~IsExpired(seen[t], now))
    BY <1>2, <1>6, BusyLabels
  <2>2. Current(t)'.expiresAt = Current(t).expiresAt
    BY <1>2, <1>3, <2>1, SameExpiry
  <2>3. call[t].since < Current(t).expiresAt
    <3>1. CASE pc[t] \in Timely
      BY <1>4, <3>1 DEF InTime
    <3>2. CASE ~IsExpired(seen[t], now)
      <4>1. call[t] # NoCall
        BY <1>2, <1>4 DEF CallOK
      <4>2. call[t].since \in Nat /\ now \in Nat /\ call[t].since <= now
        BY <4>1, CallFacts
      <4>3. TypeInv /\ ScopeOK(t)
        BY DEF HInv, EInv, IInv, HistoryInv, ThreadOK
      <4>4. /\ seen[t].expiresAt = Current(t).expiresAt
            /\ Current(t).expiresAt \in Nat
        BY <1>2, <2>1, <4>3, ThreadFacts DEF ScopeOK, SameScope, Record
      <4> QED
        BY <3>2, <4>2, <4>4 DEF IsExpired
    <3> QED
      BY <2>1, <3>1, <3>2
  <2> QED
    BY <1>1, <2>2, <2>3 DEF InTime
<1>7. ASSUME NEW u \in Threads PROVE InTime(u)'
  <2>1. CASE u = t
    BY <1>6, <2>1 DEF InTime
  <2>2. CASE u # t
    BY <1>1, <1>2, <1>3, <2>2, OthersStayInTime
  <2> QED
    BY <2>1, <2>2
<1>8. CallsTyped'
  BY <1>1, <1>4 DEF CallsTyped
<1> QED
  BY <1>1, <1>3, <1>5, <1>7, <1>8, UnnoticedKeeps

(* The clock only adds to the time since a call came.                        *)
LEMMA TickKeeps ==
    ASSUME HInv, HttpTick
    PROVE  HInv'
<1>1. /\ now' = now + 1 /\ UNCHANGED <<call, clients>>
      /\ UNCHANGED <<store, pc, request>>
  BY DEF HttpTick, Tick
<1>2. EInv' /\ Stable
  BY NextHistory DEF HInv, HttpTick, Next
<1>3. CallsTyped /\ \A u \in Threads : CallOK(u) /\ InTime(u)
  BY HttpTypes DEF HInv, CallsInv
<1>4. ASSUME NEW u \in Threads PROVE CallOK(u)'
  <2>1. CASE call[u] = NoCall
    BY <1>1, <1>3, <2>1 DEF CallOK
  <2>2. CASE call[u] # NoCall
    <3>1. call[u].since \in Nat /\ now \in Nat
      BY <2>2, CallFacts
    <3> QED
      BY <1>1, <1>3, <2>2, <3>1 DEF CallOK
  <2> QED
    BY <2>1, <2>2
<1>5. \A u \in Threads : InTime(u)'
  BY <1>1, <1>3 DEF InTime, Current, Id
<1>6. CallsTyped'
  BY <1>1, <1>3 DEF CallsTyped
<1> QED
  BY <1>1, <1>2, <1>4, <1>5, <1>6, UnnoticedKeeps

(* A stutter of the whole system.                                           *)
LEMMA HttpStutterKeeps ==
    ASSUME HInv, UNCHANGED httpVars
    PROVE  HInv'
<1>1. UNCHANGED vars /\ UNCHANGED <<call, clients>>
  BY DEF httpVars
<1>2. UNCHANGED <<now, store, pc, request>>
  BY <1>1 DEF vars
<1>3. EInv' /\ Stable
  BY <1>1, NextHistory DEF HInv
<1>4. CallsTyped /\ \A u \in Threads : CallOK(u) /\ InTime(u)
  BY HttpTypes DEF HInv, CallsInv
<1>5. CallsTyped' /\ \A u \in Threads : CallOK(u)' /\ InTime(u)'
  BY <1>1, <1>2, <1>4 DEF CallsTyped, CallOK, InTime, Current, Id
<1> QED
  BY <1>1, <1>3, <1>5, UnnoticedKeeps


(* Clients stop waiting, and some have an answer that is true.               *)
LEMMA StopKeeps ==
    ASSUME HInv, EInv', CallsTyped', \A u \in Threads : CallOK(u)' /\ InTime(u)',
           NEW waiting, StopWaiting(waiting), asked' = asked, losses' \in 0..MaxLosses,
           \A c \in Clients \ waiting : attempt[c] # None => call'[attempt[c]] = call[attempt[c]],
           \A c \in Clients : /\ asked[c] = None => told'[c] = {}
                              /\ \A one \in told'[c] : AnswerOK(c, one)'
    PROVE  HInv'
<1>1. AttemptsOK /\ \A c \in Clients : ClientOK(c)
  BY HttpTypes DEF HInv, CallsInv
<1>2. /\ attempt' \in [Clients -> Threads \cup {None}]
      /\ \A c \in Clients : attempt'[c] = None \/ (attempt'[c] = attempt[c] /\ c \notin waiting)
  BY <1>1 DEF StopWaiting, AttemptsOK
<1>3. \A c \in Clients : attempt'[c] # None =>
          attempt'[c] = attempt[c] /\ call'[attempt'[c]] = call[attempt[c]]
  BY <1>2
<1>4. AttemptsOK'
  BY <1>1, <1>2, <1>3 DEF AttemptsOK
<1>5. ASSUME NEW c \in Clients PROVE ClientOK(c)'
  BY <1>1, <1>2, <1>3 DEF ClientOK
<1>6. HttpTypeOK'
  BY <1>4 DEF HttpTypeOK, AttemptsOK, CallOK
<1> QED
  BY <1>5, <1>6 DEF HInv, CallsInv

(* A thread that ends: its call is over, and nobody else's is.               *)
LEMMA ResponseFacts ==
    ASSUME HInv, NEW t \in Threads, WriteResponse(t)
    PROVE  /\ EInv' /\ Stable /\ CallsTyped' /\ \A u \in Threads : CallOK(u)' /\ InTime(u)'
           /\ asked' = asked /\ store' = store /\ writes' = writes /\ pc[t] = "reply"
           /\ \A u \in Threads \ {t} : call'[u] = call[u]
<1>1. /\ Respond(t) /\ call' = [call EXCEPT ![t] = NoCall] /\ asked' = asked
  BY DEF WriteResponse
<1>2. /\ now' = now /\ store' = store /\ writes' = writes /\ pc[t] = "reply"
      /\ pc' = [pc EXCEPT ![t] = "idle"] /\ request' = [request EXCEPT ![t] = NoRequest]
  BY <1>1 DEF Respond, external
<1>3. EInv' /\ Kept /\ Stable
  BY <1>1, NextHistory DEF HInv, Next, Work
<1>4. CallsTyped /\ \A u \in Threads : CallOK(u) /\ InTime(u)
  BY HttpTypes DEF HInv, CallsInv
<1>5. TypeOK
  BY DEF HInv, EInv, IInv, TypeInv
<1>6. /\ pc'[t] = "idle" /\ call'[t] = NoCall
      /\ \A u \in Threads \ {t} :
             pc'[u] = pc[u] /\ request'[u] = request[u] /\ call'[u] = call[u]
  BY <1>1, <1>2, <1>4, <1>5 DEF CallsTyped, TypeOK
<1>7. CallsTyped'
  BY <1>1, <1>4 DEF CallsTyped
<1>8. "idle" \notin Timely
  BY DEF Timely, Deciding, Applying
<1>9. ASSUME NEW u \in Threads PROVE CallOK(u)' /\ InTime(u)'
  <2>1. CASE u = t
    BY <1>6, <1>8, <2>1 DEF CallOK, InTime
  <2>2. CASE u # t
    BY <1>2, <1>3, <1>4, <1>6, <2>2, OthersStayInTime DEF CallOK
  <2> QED
    BY <2>1, <2>2
<1> QED
  BY <1>1, <1>2, <1>3, <1>6, <1>7, <1>9

(* What the answer of a finished handler says is true when it arrives.       *)
LEMMA AnswerIsTrue ==
    ASSUME HInv, NEW t \in Threads, pc[t] = "reply", store' = store, writes' = writes,
           NEW c \in Clients, attempt[c] = t, asked'[c] = asked[c],
           NEW answer, answer.code = reply[t].code, answer.shown = reply[t].shown
    PROVE  AnswerOK(c, answer)'
<1>1. /\ c \in Clients /\ attempt[c] # None
      /\ call[t] # NoCall /\ call[t].http = asked[c]
  BY AttemptIsACall, NoneAssumption
<1>2. /\ asked[c] \in HttpRequests \cup Repeated /\ request[t] \in Passed[asked[c]]
  BY <1>1, CallFacts
<1>3. ReplyOK(t) /\ TypeInv
  BY DEF HInv, EInv, IInv, HistoryInv, ThreadOK
<1>4. \A shown \in answer.shown :
          shown.status \in Final => shown.id \in Actions /\ store[shown.id].status = shown.status
  BY <1>3 DEF ReplyOK, ShownOK
<1>5. ASSUME answer.code \in EarlyFailures
      PROVE  /\ Id(t) \in Actions /\ store[Id(t)].status = "FAILED" /\ writes[Id(t)] = 0
             /\ Id(t) = ActionOf(asked[c])
  <2>1. Current(t).status = "FAILED" /\ writes[Id(t)] = 0 /\ request[t].key \in Keys
    BY <1>3, <1>5 DEF ReplyOK, Key
  <2>2. Id(t) = ActionOf(asked[c])
    BY <1>2, <2>1, PassedFacts DEF Id
  <2>3. Id(t) \in Actions /\ Current(t) = store[Id(t)]
    BY <1>3, ThreadFacts
  <2> QED
    BY <2>1, <2>2, <2>3
<1> QED
  BY <1>4, <1>5 DEF AnswerOK

LEMMA ResponseKeeps ==
    ASSUME HInv, NEW t \in Threads, Deliver(t) \/ LoseAnswer(t)
    PROVE  HInv'
<1>1. WriteResponse(t) /\ StopWaiting(Waiting(t))
  BY DEF Deliver, LoseAnswer
<1>2. /\ EInv' /\ Stable /\ CallsTyped' /\ \A u \in Threads : CallOK(u)' /\ InTime(u)'
      /\ asked' = asked /\ store' = store /\ writes' = writes /\ pc[t] = "reply"
      /\ \A u \in Threads \ {t} : call'[u] = call[u]
  BY <1>1, ResponseFacts
<1>3. AttemptsOK /\ \A c \in Clients : ClientOK(c)
  BY HttpTypes DEF HInv, CallsInv
<1>4. \A c \in Clients \ Waiting(t) : attempt[c] # None => call'[attempt[c]] = call[attempt[c]]
  BY <1>2, <1>3 DEF Waiting, AttemptsOK
<1>5. losses' \in 0..MaxLosses
  BY <1>3, LossesAssumption DEF Deliver, LoseAnswer, AttemptsOK
<1>6. ASSUME NEW c \in Clients
      PROVE  /\ asked[c] = None => told'[c] = {}
             /\ \A one \in told'[c] : AnswerOK(c, one)'
  <2>1. asked[c] = None => told[c] = {} /\ c \notin Waiting(t)
    BY <1>3, NoneAssumption DEF ClientOK, Waiting
  <2>2. CASE told' = told
    BY <1>2, <2>1, <2>2, AnswersKeep
  <2>3. CASE Tell(Waiting(t), [code |-> reply[t].code, shown |-> reply[t].shown])
    <3>1. PICK answer : answer = [code |-> reply[t].code, shown |-> reply[t].shown]
      OBVIOUS
    <3>2. c \in Waiting(t) => AnswerOK(c, answer)'
      BY <1>2, <3>1, AnswerIsTrue DEF Waiting
    <3>3. \A one \in told'[c] : AnswerOK(c, one)'
      BY <1>2, <2>3, <3>1, <3>2, TellKeeps
    <3>4. c \notin Waiting(t) => told'[c] = told[c]
      BY <2>3 DEF Tell
    <3> QED
      BY <2>1, <3>3, <3>4
  <2> QED
    BY <2>2, <2>3 DEF Deliver, LoseAnswer
<1> QED
  BY <1>1, <1>2, <1>4, <1>5, <1>6, StopKeeps

(* A client gives up: the handler runs on for nobody.                        *)
LEMMA GiveUpKeeps ==
    ASSUME HInv, NEW c \in Clients, GiveUp(c)
    PROVE  HInv'
<1>1. /\ StopWaiting({c}) /\ UNCHANGED vars /\ call' = call /\ asked' = asked /\ told' = told
      /\ losses < MaxLosses /\ losses' = losses + 1
  BY DEF GiveUp
<1>2. EInv' /\ Stable
  BY <1>1, NextHistory DEF HInv
<1>3. /\ CallsTyped /\ AttemptsOK
      /\ \A u \in Threads : CallOK(u) /\ InTime(u)
      /\ \A d \in Clients : ClientOK(d)
  BY HttpTypes DEF HInv, CallsInv
<1>4. CallsTyped' /\ \A u \in Threads : CallOK(u)' /\ InTime(u)'
  BY <1>1, <1>3 DEF CallsTyped, CallOK, InTime, vars, Current, Id
<1>5. losses' \in 0..MaxLosses
  BY <1>1, <1>3, LossesAssumption DEF AttemptsOK
<1>6. \A d \in Clients : /\ asked[d] = None => told'[d] = {}
                         /\ \A one \in told'[d] : AnswerOK(d, one)'
  BY <1>1, <1>2, <1>3, AnswersKeep DEF ClientOK
<1> QED
  BY <1>1, <1>2, <1>4, <1>5, <1>6, StopKeeps

(* A crash ends every call; what the clients know is in no process's memory. *)
LEMMA HttpCrashKeeps ==
    ASSUME HInv, HttpCrash
    PROVE  HInv'
<1>1. /\ Crash /\ StopWaiting(Clients) /\ call' = [t \in Threads |-> NoCall]
      /\ UNCHANGED <<asked, told, losses>>
  BY DEF HttpCrash
<1>2. EInv' /\ Stable
  BY <1>1, NextHistory DEF HInv, Next
<1>3. AttemptsOK /\ \A d \in Clients : ClientOK(d)
  BY HttpTypes DEF HInv, CallsInv
<1>4. ASSUME NEW u \in Threads PROVE CallOK(u)' /\ InTime(u)'
  <2>1. pc'[u] = "idle" /\ call'[u] = NoCall
    BY <1>1 DEF Crash
  <2>2. "idle" \notin Timely
    BY DEF Timely, Deciding, Applying
  <2> QED
    BY <2>1, <2>2 DEF CallOK, InTime
<1>5. CallsTyped'
  BY <1>1 DEF CallsTyped
<1>6. \A d \in Clients : /\ asked[d] = None => told'[d] = {}
                         /\ \A one \in told'[d] : AnswerOK(d, one)'
  BY <1>1, <1>2, <1>3, AnswersKeep DEF ClientOK
<1>7. losses' \in 0..MaxLosses
  BY <1>1, <1>3 DEF AttemptsOK
<1> QED
  BY <1>1, <1>2, <1>4, <1>5, <1>6, <1>7, StopKeeps


-----------------------------------------------------------------------------
(* The invariant holds, and what follows from it.                           *)

LEMMA InitCalls == HttpInit => HInv
<1> SUFFICES ASSUME HttpInit PROVE HInv
  OBVIOUS
<1>1. /\ Init /\ call = [t \in Threads |-> NoCall]
      /\ asked = [c \in Clients |-> None] /\ attempt = [c \in Clients |-> None]
      /\ told = [c \in Clients |-> {}] /\ losses = 0
  BY DEF HttpInit
<1>2. EInv
  BY <1>1, InitTypeInv, InitReservation, InitHistory DEF EInv, IInv
<1>3. "idle" \notin Timely
  BY DEF Timely, Deciding, Applying
<1>4. \A u \in Threads : CallOK(u) /\ InTime(u)
  BY <1>1, <1>3 DEF Init, CallOK, InTime
<1>5. AttemptsOK
  BY <1>1, LossesAssumption DEF AttemptsOK
<1>6. CallsTyped /\ \A c \in Clients : ClientOK(c)
  BY <1>1 DEF CallsTyped, ClientOK
<1> QED
  BY <1>2, <1>4, <1>5, <1>6, HttpTypes DEF HInv, CallsInv

LEMMA NextCalls == HInv /\ [HttpNext]_httpVars => HInv'
<1> SUFFICES ASSUME HInv, [HttpNext]_httpVars PROVE HInv'
  OBVIOUS
<1>1. ASSUME NEW t \in Threads, SendAnonymously(t) PROVE HInv'
  BY <1>1, AnonymousKeeps
<1>2. ASSUME NEW t \in Threads, Proceed(t) \/ HttpAbort(t) PROVE HInv'
  BY <1>2, RunKeeps
<1>3. ASSUME NEW t \in Threads, Deliver(t) \/ LoseAnswer(t) PROVE HInv'
  BY <1>3, ResponseKeeps
<1>4. ASSUME NEW c \in Clients, Send(c) PROVE HInv'
  BY <1>4, SendKeeps
<1>5. ASSUME NEW c \in Clients, GiveUp(c) PROVE HInv'
  BY <1>5, GiveUpKeeps
<1>6. CASE HttpCrash
  BY <1>6, HttpCrashKeeps
<1>7. CASE HttpTick
  BY <1>7, TickKeeps
<1>8. CASE UNCHANGED httpVars
  BY <1>8, HttpStutterKeeps
<1> QED
  BY <1>1, <1>2, <1>3, <1>4, <1>5, <1>6, <1>7, <1>8 DEF HttpNext

LEMMA CallsHold == HttpSpec => []HInv
  BY InitCalls, NextCalls, PTL DEF HttpSpec

(* A thread is at work exactly while it serves a call, with a request that   *)
(* the boundary passed on for it, and a client that waits waits for a thread *)
(* that serves it (HttpApp.handle_request, ThreadingHTTPServer).            *)
THEOREM CallsAreServed == HttpSpec => []HttpTypeOK
<1>1. HInv => HttpTypeOK
  BY DEF HInv, CallsInv
<1> QED
  BY <1>1, CallsHold, PTL

(* Whatever body, path and headers say, a call shows, decides and applies    *)
(* only actions of the user in the trusted headers, in the path's session,  *)
(* and the action the path names (boundary_request, _get_authorized_action). *)
THEOREM CallsReachNoFurther == HttpSpec => []CallsStayInScope
<1>1. ASSUME HInv, NEW t \in Threads, call[t] = NoCall
      PROVE  reply[t].shown = {} /\ pc[t] = "idle"
  <2>1. pc[t] = "idle" /\ ReplyOK(t)
    BY <1>1, HttpTypes DEF HInv, CallsInv, CallOK, EInv, HistoryInv, ThreadOK
  <2> QED
    BY <2>1 DEF ReplyOK, NoReply
<1>2. ASSUME HInv, NEW t \in Threads, call[t] # NoCall, NEW shown \in reply[t].shown
      PROVE  InScope(call[t].http, shown.id)
  <2>1. ShownOK(request[t], shown)
    BY <1>2 DEF HInv, EInv, HistoryInv, ThreadOK, ReplyOK
  <2>2. /\ call[t].http \in HttpRequests \cup Repeated
        /\ request[t] \in Passed[call[t].http]
    BY <1>2, CallFacts
  <2> QED
    BY <2>1, <2>2, PassedFacts DEF ShownOK, InScope, Owns
<1>3. ASSUME HInv, NEW t \in Threads, call[t] # NoCall,
             pc[t] \in Applying \cup {"approve", "reject", "reserve"}
      PROVE  InScope(call[t].http, Id(t)) /\ Current(t).resource = call[t].http.body.resource
  <2>1. pc[t] \in Deciding /\ pc[t] # "idle"
    BY <1>3 DEF Deciding, Applying
  <2>2. ScopeOK(t) /\ TypeInv
    BY <1>3 DEF HInv, EInv, IInv, HistoryInv, ThreadOK
  <2>3. Current(t) = store[Id(t)] /\ Id(t) = request[t].id
    BY <2>1, <2>2, ThreadFacts DEF Id
  <2>4. /\ call[t].http \in HttpRequests \cup Repeated
        /\ request[t] \in Passed[call[t].http]
    BY <1>3, CallFacts
  <2> QED
    <3>1. /\ Owns(request[t], Current(t)) /\ request[t].resource = Current(t).resource
          /\ request[t].op \notin {"create", "list"}
      BY <2>1, <2>2 DEF ScopeOK
    <3> QED
      BY <2>3, <2>4, <3>1, PassedFacts DEF InScope, Owns
<1>4. ASSUME HInv PROVE CallsStayInScope
  <2>1. "idle" \notin Applying \cup {"approve", "reject", "reserve"}
    BY DEF Applying
  <2> QED
    BY <1>1, <1>2, <1>3, <1>4, <2>1 DEF CallsStayInScope
<1> QED
  BY <1>4, CallsHold, PTL

(* An apply that comes after the expiry of its action never reaches the      *)
(* document, however the clock and the other threads move                   *)
(* (_expire_action_if_needed, called once by apply_action).                 *)
THEOREM LateAppliesNeverWrite == HttpSpec => []LateApplyNeverWrites
<1>1. ASSUME HInv PROVE LateApplyNeverWrites
  <2>1. Applying \subseteq Timely
    BY BusyLabels
  <2> QED
    BY <1>1, <2>1 DEF HInv, CallsInv, InTime, LateApplyNeverWrites
<1> QED
  BY <1>1, CallsHold, PTL

(* What a client was once told of a final status or of a failure before the  *)
(* write stays true of the store and the document: through its own other    *)
(* attempts, other clients, lost answers and crashes (terminal_result,      *)
(* complete_apply).                                                         *)
THEOREM AnswersHoldForGood == HttpSpec => []AnswersStayTrue
<1>1. ASSUME HInv, NEW c \in Clients, NEW answer \in told[c]
      PROVE  /\ AnswerOK(c, answer)
             /\ \A a \in Actions : RecordOK(store[a], writes[a])
  BY <1>1 DEF HInv, EInv, IInv, ReservationInv, CallsInv, ClientOK
<1>2. ASSUME HInv, NEW c \in Clients, NEW answer \in told[c], NEW shown \in answer.shown,
             shown.status \in TerminalStatuses \ {"EXPIRED"}
      PROVE  /\ store[shown.id].status = shown.status
             /\ shown.status = "APPLIED" => writes[shown.id] = 1
             /\ shown.status \in {"REJECTED", "CONFLICTED"} => writes[shown.id] = 0
  <2>1. shown.id \in Actions /\ store[shown.id].status = shown.status
    BY <1>1, <1>2 DEF AnswerOK, Final
  <2>2. RecordOK(store[shown.id], writes[shown.id])
    BY <1>1, <1>2, <2>1
  <2> QED
    BY <2>1, <2>2 DEF RecordOK
<1>3. ASSUME HInv, NEW c \in Clients, NEW answer \in told[c],
             answer.code \in FailedBeforeWriting
      PROVE  /\ store[ActionOf(asked[c])].status = "FAILED"
             /\ writes[ActionOf(asked[c])] = 0
  BY <1>1, <1>3 DEF AnswerOK, FailedBeforeWriting, EarlyFailures
<1>4. HInv => AnswersStayTrue
  BY <1>2, <1>3 DEF AnswersStayTrue
<1> QED
  BY <1>4, CallsHold, PTL


-----------------------------------------------------------------------------
(* Behind HTTP the service is the service: threads begin only with requests  *)
(* the boundary passed on, and clients, losses and retries add no step.     *)

LEMMA HttpStepIsServiceStep ==
    ASSUME [HttpNext]_httpVars
    PROVE  [Next]_vars
<1>1. ASSUME NEW t \in Threads, NEW c, NEW h \in HttpRequests \cup Repeated, PassOn(t, c, h)
      PROVE  Next
  <2>1. PICK r \in Passed[h] : Handle(t, r)
    BY <1>1 DEF PassOn
  <2>2. r \in Requests
    BY PassedFacts
  <2> QED
    BY <2>1, <2>2 DEF Next, Accept
<1>2. ASSUME NEW t \in Threads,
             Proceed(t) \/ Deliver(t) \/ LoseAnswer(t) \/ HttpAbort(t)
      PROVE  Next
  <2>1. Work(t) \/ Abort(t)
    BY <1>2 DEF Proceed, Deliver, LoseAnswer, WriteResponse, HttpAbort, Work
  <2> QED
    BY <2>1 DEF Next
<1>3. ASSUME NEW t \in Threads, SendAnonymously(t)
      PROVE  Next
  BY <1>1, <1>3 DEF SendAnonymously
<1>4. ASSUME NEW c \in Clients, Send(c)
      PROVE  [Next]_vars
  BY <1>1, <1>4 DEF Send, AnswerPlainly
<1>5. ASSUME NEW c \in Clients, GiveUp(c)
      PROVE  UNCHANGED vars
  BY <1>5 DEF GiveUp
<1>6. HttpCrash \/ HttpTick => Next
  BY DEF HttpCrash, HttpTick, Next
<1>7. UNCHANGED httpVars => UNCHANGED vars
  BY DEF httpVars
<1> QED
  BY <1>2, <1>3, <1>4, <1>5, <1>6, <1>7 DEF HttpNext

(* The server with its clients implements ActionService, so that all that    *)
(* was proved of the service holds behind HTTP                              *)
(* (PackageActionHttpBoundaryAdapter, HttpApp.handle_request).              *)
THEOREM HttpImplementsService == HttpSpec => Spec
<1>1. HttpInit => Init
  BY DEF HttpInit
<1> QED
  BY <1>1, HttpStepIsServiceStep, PTL DEF HttpSpec, Spec

(* In particular one write for an action, an outcome that agrees with it,    *)
(* requests kept to their own actions, proposals that keep what they were   *)
(* proposed with, and the promised lifecycle.                               *)
THEOREM HttpKeepsTheService ==
    HttpSpec => /\ []AtMostOneWrite /\ []OutcomeMatchesDocument /\ []NoFalseSuccess
                /\ []OwnActionsOnly /\ ProposalIsKept /\ ImplementsLifecycle
  BY HttpImplementsService, WritesAtMostOnce, OutcomeIsTruthful, SuccessIsTrue,
     OnlyOwnActions, ProposalsAreKept, ServiceImplementsLifecycle, PTL


=============================================================================
