------------------------ MODULE ActionHistoryProofs ------------------------
(***************************************************************************)
(* More proofs about ActionService, for any number of threads, actions,    *)
(* requests and faults: whose actions a request touches, what it answers,  *)
(* and how the events it publishes relate to the statuses the store held.  *)
(***************************************************************************)
EXTENDS ActionServiceProofs

-----------------------------------------------------------------------------
(* The invariant of a thread.                                               *)

Final == TerminalStatuses \ {"EXPIRED"}

(* What never changes of a stored action.                                   *)
SameScope(old, new) ==
    /\ new.user = old.user /\ new.session = old.session
    /\ new.resource = old.resource /\ new.expiresAt = old.expiresAt

(* A handler holds a record of the action it read, which is its requester's. *)
ScopeOK(t) ==
    /\ pc[t] \in Deciding =>
           /\ Owns(request[t], Current(t)) /\ request[t].resource = Current(t).resource
           /\ SameScope(seen[t], Current(t))
           /\ request[t].op \in {"approve", "reject", "apply"}
    /\ pc[t] \in {"collision", "insert"} => Owns(request[t], seen[t])

(* What is shown is the requester's, and of the action it names; once final, *)
(* the shown status is the stored one for good.                             *)
ShownOK(r, shown) ==
    /\ shown.id \in Actions /\ Exists(store[shown.id]) /\ Owns(r, store[shown.id])
    /\ r.op = "list" \/ shown.id = r.id
    /\ shown.status \in Final => store[shown.id].status = shown.status

EarlyFailures == {"CONSENT_CHECK_FAILED", "TOKEN_STATUS_CHECK_FAILED",
                  "TARGET_VALIDATION_FAILED", "ACTION_PAYLOAD_DECRYPT_FAILED"}

ReplyOK(t) ==
    /\ pc[t] \notin {"publish", "reply"} => reply[t] = NoReply
    /\ \A shown \in reply[t].shown : ShownOK(request[t], shown)
    /\ reply[t].code \in EarlyFailures =>
           Current(t).status = "FAILED" /\ writes[Id(t)] = 0 /\ Key(t) \in Keys

EventOK(t) ==
    /\ pc[t] \notin {"publish", "reply"} => event[t] = NoEvent
    /\ pc[t] = "publish" => /\ event[t].fate = "pending"
                            /\ event[t].reports \/ event[t].status = "EXPIRED"
    /\ pc[t] = "reply" => /\ event[t].fate # "pending"
                          /\ event[t].fate = "failed" /\ event[t].status # "EXPIRED" =>
                                 reply[t].reported

-----------------------------------------------------------------------------
(* The history of an action: the statuses it has had are those that were     *)
(* announced or lost, or that a thread is about to publish.                 *)
Had(a, status) ==
    \/ status \in announced[a] \cup lost[a]
    \/ \E u \in Threads : pc[u] = "publish" /\ Id(u) = a /\ event[u].status = status

(* What an action in a status may have been.                                *)
MayHaveBeen(status, earlier) ==
    /\ status # "ABSENT"
    /\ \/ earlier \in {status, "PROPOSED"}
       \/ earlier = "APPROVED" /\ status # "PROPOSED"
       \/ earlier = "EXPIRED" /\ status \in {"APPLIED", "CONFLICTED", "FAILED"}

PreviousOK(t) ==
    /\ pc[t] = "publish" =>
           \/ event[t].previous = "NONE"
           \/ Had(Id(t), event[t].previous) /\ event[t].previous # event[t].status
    /\ pc[t] \in Deciding => Had(Id(t), seen[t].status)

HistoryOK(a) ==
    /\ Exists(store[a]) => Had(a, store[a].status)
    /\ \A status \in Statuses : Had(a, status) => MayHaveBeen(store[a].status, status)

ThreadOK(t) == ScopeOK(t) /\ ReplyOK(t) /\ EventOK(t) /\ PreviousOK(t)

HistoryInv ==
    /\ \A t \in Threads : ThreadOK(t)
    /\ \A a \in Actions : HistoryOK(a)
    /\ NoDuplicateEvents

EInv == IInv /\ HistoryInv

-----------------------------------------------------------------------------
(* What every step leaves alone.                                            *)

Alone(t) ==
    \A u \in Threads \ {t} :
        /\ pc'[u] = pc[u] /\ request'[u] = request[u] /\ seen'[u] = seen[u]
        /\ event'[u] = event[u] /\ reply'[u] = reply[u]

StoreKept ==
    \A a \in Actions : store'[a].status = store[a].status /\ SameScope(store[a], store'[a])

Kept ==
    \A a \in Actions :
        Exists(store[a]) => Exists(store'[a]) /\ SameScope(store[a], store'[a])

Stable ==
    \A a \in Actions :
        store[a].status \in Final => store'[a].status = store[a].status /\ writes'[a] = writes[a]

Grows == \A a \in Actions, status \in Statuses : Had(a, status) => Had(a, status)'

(* A final status is final, and nothing is written any more.                 *)
LEMMA StepIsStable ==
    ASSUME IInv, [Next]_vars
    PROVE  Stable
<1> SUFFICES ASSUME NEW a \in Actions, store[a].status \in Final
             PROVE  store'[a].status = store[a].status /\ writes'[a] = writes[a]
  BY DEF Stable
<1>1. ~Locked(store[a])
  BY DEF IInv, ReservationInv, RecordOK, Final, TerminalStatuses
<1>2. CASE UNCHANGED <<store, writes>>
  BY <1>2
<1>3. ASSUME NEW b \in Actions, OneEffect(b)
      PROVE  store'[a].status = store[a].status /\ writes'[a] = writes[a]
  BY <1>1, <1>3 DEF OneEffect, Effect, Final, TerminalStatuses, NonTerminalStatuses
<1> QED
  BY <1>2, <1>3, StepEffect

(* A thread at work has a request about an action.                           *)
LEMMA ThreadFacts ==
    ASSUME TypeInv, NEW t \in Threads
    PROVE  /\ pc[t] \in Labels /\ seen[t] \in Record
           /\ pc[t] # "idle" => /\ request[t] \in Requests /\ Id(t) \in Actions
                               /\ Current(t) = store[Id(t)] /\ Current(t) \in Record
           /\ pc[t] \in Deciding => Exists(Current(t)) /\ seen[t].status \in Statuses
           /\ pc[t] = "publish" => event[t] \in Event
<1>1. pc[t] # "idle" => request[t].id \in Actions
  BY RequestsAssumption DEF TypeInv, LocalsOK, Request
<1>2. pc[t] \in Deciding => pc[t] # "idle"
  BY DEF Deciding, Applying
<1> QED
  BY <1>1, <1>2
  DEF TypeInv, TypeOK, LocalsOK, Id, Current, Exists, Statuses, TerminalStatuses, NonTerminalStatuses

(* Steps of others leave a thread's part of the invariant alone.             *)
LEMMA OtherThreadKeeps ==
    ASSUME EInv, NEW u \in Threads,
           pc'[u] = pc[u], request'[u] = request[u], seen'[u] = seen[u],
           event'[u] = event[u], reply'[u] = reply[u],
           Kept, Stable, Grows
    PROVE  ThreadOK(u)'
<1>1. ThreadOK(u) /\ TypeInv
  BY DEF EInv, HistoryInv, IInv
<1>2. pc[u] # "idle" => Id(u) \in Actions /\ Current(u) = store[Id(u)]
  BY <1>1, ThreadFacts
<1>3. Id(u)' = Id(u) /\ Current(u)' = store'[Id(u)]
  BY DEF Id, Current
<1>4. ScopeOK(u)'
  <2>1. CASE pc[u] \in Deciding
    <3>1. Exists(Current(u)) /\ pc[u] # "idle"
      BY <1>1, <2>1, ThreadFacts DEF Deciding, Applying
    <3>2. SameScope(Current(u), Current(u)')
      BY <1>2, <1>3, <3>1 DEF Kept
    <3>3. pc[u] \notin {"collision", "insert"}
      BY <2>1 DEF Deciding, Applying
    <3> QED
      BY <1>1, <2>1, <3>2, <3>3 DEF ThreadOK, ScopeOK, SameScope, Owns
  <2>2. CASE pc[u] \notin Deciding
    BY <1>1, <2>2 DEF ThreadOK, ScopeOK, Owns
  <2> QED
    BY <2>1, <2>2
<1>5. ReplyOK(u)'
  <2>1. ASSUME NEW shown \in reply[u].shown
        PROVE  ShownOK(request[u], shown)'
    <3>1. ShownOK(request[u], shown)
      BY <1>1, <2>1 DEF ThreadOK, ReplyOK
    <3> QED
      BY <3>1 DEF ShownOK, Kept, Stable, SameScope, Owns
  <2>2. ASSUME reply[u].code \in EarlyFailures
        PROVE  (Current(u).status = "FAILED" /\ writes[Id(u)] = 0 /\ Key(u) \in Keys)'
    <3>1. pc[u] # "idle"
      BY <1>1, <2>2 DEF ThreadOK, ReplyOK, NoReply, EarlyFailures
    <3>2. Current(u).status = "FAILED" /\ writes[Id(u)] = 0 /\ Key(u) \in Keys
      BY <1>1, <2>2 DEF ThreadOK, ReplyOK
    <3>3. "FAILED" \in Final
      BY DEF Final, TerminalStatuses
    <3> QED
      BY <1>2, <1>3, <3>1, <3>2, <3>3 DEF Stable, Key
  <2> QED
    BY <1>1, <2>1, <2>2 DEF ThreadOK, ReplyOK, ShownOK
<1>6. EventOK(u)'
  BY <1>1 DEF ThreadOK, EventOK
<1>7. PreviousOK(u)'
  <2>1. CASE pc[u] = "publish"
    <3>1. event[u].previous \in Statuses \cup {"NONE"} /\ Id(u) \in Actions
      BY <1>1, <2>1, ThreadFacts DEF Event
    <3> PICK a \in Actions, earlier \in Statuses \cup {"NONE"} :
            a = Id(u) /\ earlier = event[u].previous
      BY <3>1
    <3>2. earlier # "NONE" => Had(a, earlier)' /\ earlier # event[u].status
      BY <1>1, <2>1 DEF ThreadOK, PreviousOK, Grows
    <3>3. "publish" \notin Deciding
      BY DEF Deciding, Applying
    <3> QED
      BY <1>1, <1>3, <2>1, <3>2, <3>3 DEF ThreadOK, PreviousOK
  <2>2. CASE pc[u] \in Deciding
    <3>1. seen[u].status \in Statuses /\ Id(u) \in Actions
      BY <1>1, <1>2, <2>2, ThreadFacts DEF Deciding, Applying
    <3> PICK a \in Actions, status \in Statuses : a = Id(u) /\ status = seen[u].status
      BY <3>1
    <3>2. Had(a, status)'
      BY <1>1, <2>2 DEF ThreadOK, PreviousOK, Grows
    <3>3. pc[u] # "publish"
      BY <2>2 DEF Deciding, Applying
    <3> QED
      BY <1>3, <2>2, <3>2, <3>3 DEF PreviousOK
  <2>3. CASE pc[u] # "publish" /\ pc[u] \notin Deciding
    BY <2>3 DEF PreviousOK
  <2> QED
    BY <2>1, <2>2, <2>3
<1> QED
  BY <1>4, <1>5, <1>6, <1>7 DEF ThreadOK

-----------------------------------------------------------------------------
(* The forms of a step.                                                     *)

Busy == Labels \ {"idle", "publish", "reply"}

(* The steps of a handler that found its action in time.                    *)
Timely == Deciding \ {"expiry"}

(* A handler goes on to its next step.                                      *)
Works(t) ==
    /\ Alone(t) /\ StoreKept
    /\ UNCHANGED <<announced, lost, request, seen, event, reply>>
    /\ pc[t] \in Busy /\ pc'[t] \in Busy
    /\ pc'[t] \in Deciding => pc[t] \in Deciding
    /\ pc'[t] \in Timely => pc[t] \in Timely \/ ~IsExpired(seen[t], now)
    /\ pc'[t] \in {"collision", "insert"} => pc[t] \in {"collision", "insert"}

(* A handler begins: it has read a record, or made one.                      *)
Takes(t, r) ==
    /\ Alone(t) /\ StoreKept
    /\ UNCHANGED <<announced, lost, event, reply, writes>>
    /\ pc[t] = "idle" /\ request'[t] = r
    /\ \/ /\ pc'[t] = "expiry" /\ seen'[t] = store[r.id] /\ Exists(store[r.id])
          /\ Owns(r, store[r.id]) /\ r.resource = store[r.id].resource
          /\ r.op \in {"approve", "reject", "apply"}
       \/ pc'[t] = "collision" /\ Owns(r, seen'[t])

(* A handler leaves without a change.                                       *)
Returns(t) ==
    /\ Alone(t) /\ StoreKept
    /\ UNCHANGED <<announced, lost, event, writes>>
    /\ pc[t] \in Busy \cup {"idle"} /\ pc'[t] = "reply"
    /\ reply'[t].code \notin EarlyFailures
    /\ \A shown \in reply'[t].shown : ShownOK(request'[t], shown)

(* The statuses an action may change to.                                    *)
Follows(old, new) ==
    \/ old = "ABSENT" /\ new = "PROPOSED"
    \/ old = "PROPOSED" /\ new = "APPROVED"
    \/ old \in NonTerminalStatuses /\ new \in {"REJECTED", "EXPIRED"}
    \/ old \in {"APPROVED", "EXPIRED"} /\ new \in {"APPLIED", "CONFLICTED", "FAILED"}

(* A handler changes its action and is about to publish that.                *)
Changes(t) ==
    /\ Alone(t)
    /\ UNCHANGED <<announced, lost, request, writes>>
    /\ pc[t] \in Busy /\ pc'[t] = "publish"
    /\ \A b \in Actions \ {Id(t)} : store'[b] = store[b]
    /\ Owns(request[t], store'[Id(t)])
    /\ Exists(Current(t)) => SameScope(Current(t), store'[Id(t)])
    /\ Follows(Current(t).status, event'[t].status)
    /\ store'[Id(t)].status = event'[t].status
    /\ event'[t].fate = "pending"
    /\ event'[t].reports \/ event'[t].status = "EXPIRED"
    /\ \/ event'[t].previous = "NONE"
       \/ pc[t] \in Deciding /\ event'[t].previous = seen[t].status
    /\ \A shown \in reply'[t].shown : shown = [id |-> Id(t), status |-> event'[t].status]
    /\ reply'[t].code \in EarlyFailures =>
           event'[t].status = "FAILED" /\ writes[Id(t)] = 0 /\ Key(t) \in Keys

LEMMA BusyLabels ==
    /\ Deciding \cup {"collision", "insert"} = Busy
    /\ "publish" \notin Busy /\ "reply" \notin Busy /\ "idle" \notin Busy
    /\ "collision" \notin Deciding /\ "insert" \notin Deciding
    /\ Applying \subseteq Timely /\ Timely \subseteq Deciding
    /\ {"approve", "reject", "reserve"} \subseteq Timely
  BY DEF Busy, Labels, Deciding, Timely, Applying

(* No status comes back, and what came before a change came before.          *)
LEMMA FollowsForward ==
    ASSUME NEW old, NEW new, Follows(old, new)
    PROVE  /\ new \in Statuses /\ new # "ABSENT"
           /\ ~MayHaveBeen(old, new)
           /\ MayHaveBeen(new, new)
           /\ \A earlier : MayHaveBeen(old, earlier) => MayHaveBeen(new, earlier)
  BY DEF Follows, MayHaveBeen, Statuses, NonTerminalStatuses, TerminalStatuses

(* What holds of a thread that is at work.                                   *)
LEMMA BusyFacts ==
    ASSUME EInv, NEW t \in Threads, pc[t] \in Busy
    PROVE  /\ TypeInv /\ ThreadOK(t) /\ ReplyOK(t) /\ EventOK(t)
           /\ Id(t) \in Actions /\ request[t] \in Requests /\ Key(t) \in Keys \cup {NoKey}
           /\ Current(t) = store[Id(t)] /\ Current(t) \in Record /\ seen[t] \in Record
           /\ reply[t] = NoReply /\ event[t] = NoEvent
           /\ RecordOK(Current(t), writes[Id(t)])
           /\ pc[t] \in Deciding =>
                  /\ Owns(request[t], Current(t)) /\ SameScope(seen[t], Current(t))
                  /\ request[t].resource = Current(t).resource
                  /\ request[t].op \in {"approve", "reject", "apply"}
                  /\ Exists(Current(t)) /\ seen[t].status \in Statuses
           /\ pc[t] \in {"collision", "insert"} => Owns(request[t], seen[t])
<1>1. /\ TypeInv /\ ReservationInv /\ ThreadOK(t) /\ ScopeOK(t) /\ ReplyOK(t) /\ EventOK(t)
      /\ pc[t] # "idle" /\ pc[t] \notin {"publish", "reply"}
  BY BusyLabels DEF EInv, IInv, HistoryInv, ThreadOK
<1>2. request[t] \in Requests /\ Id(t) \in Actions
  BY <1>1, ThreadFacts
<1>3. Key(t) \in Keys \cup {NoKey}
  BY <1>2, RequestsAssumption DEF Request, Key
<1> QED
  BY <1>1, <1>2, <1>3, ThreadFacts DEF ScopeOK, ReplyOK, EventOK, ReservationInv


(* The three ways a step of a handler leaves have the three forms.           *)
LEMMA ReturnForm ==
    ASSUME EInv, NEW t \in Threads, pc[t] \in Busy, StoreKept,
           NEW code, code \notin EarlyFailures, NEW shown, Return(t, code, shown),
           \A one \in shown : ShownOK(request[t], one),
           request' = request, UNCHANGED external
    PROVE  Returns(t)
  BY DEF Return, Returns, Alone, external, EInv, IInv, TypeInv, TypeOK

LEMMA ContinueForm ==
    ASSUME EInv, NEW t \in Threads, pc[t] \in Busy, StoreKept,
           NEW label \in Busy, Continue(t, label), label \in Deciding => pc[t] \in Deciding,
           label \in Timely => pc[t] \in Timely \/ ~IsExpired(seen[t], now),
           label \in {"collision", "insert"} => pc[t] \in {"collision", "insert"},
           request' = request, seen' = seen, UNCHANGED <<announced, lost>>
    PROVE  Works(t)
  BY DEF Continue, Works, Alone, EInv, IInv, TypeInv, TypeOK

LEMMA ChangeForm ==
    ASSUME EInv, NEW t \in Threads, pc[t] \in Busy,
           NEW record, Put(Id(t), record), request' = request, UNCHANGED external,
           NEW previous, previous = "NONE" \/ (pc[t] \in Deciding /\ previous = seen[t].status),
           NEW reason, NEW reports, reports \/ record.status = "EXPIRED",
           NEW code, code \in EarlyFailures =>
               record.status = "FAILED" /\ writes[Id(t)] = 0 /\ Key(t) \in Keys,
           NEW shown, \A one \in shown : one = [id |-> Id(t), status |-> record.status],
           PublishThenReturn(t, StatusEvent(previous, record.status, reason, reports), code, shown),
           Follows(Current(t).status, record.status), Owns(request[t], record),
           Exists(Current(t)) => SameScope(Current(t), record)
    PROVE  Changes(t)
<1>1. /\ Id(t) \in Actions
      /\ store \in [Actions -> Record] /\ pc \in [Threads -> Labels]
      /\ event \in [Threads -> Event \cup {NoEvent}] /\ DOMAIN reply = Threads
      /\ seen \in [Threads -> Record]
  BY BusyFacts DEF TypeInv, TypeOK
<1>2. store'[Id(t)] = record /\ \A b \in Actions \ {Id(t)} : store'[b] = store[b]
  BY <1>1 DEF Put
<1>3. /\ Alone(t) /\ pc'[t] = "publish"
      /\ event'[t] = StatusEvent(previous, record.status, reason, reports)
      /\ reply'[t].code = code /\ reply'[t].shown = shown
  BY <1>1 DEF PublishThenReturn, Alone
<1>4. /\ event'[t].previous = previous /\ event'[t].status = record.status
      /\ event'[t].reports = reports /\ event'[t].fate = "pending"
  BY <1>3 DEF StatusEvent
<1> QED
  BY <1>2, <1>3, <1>4 DEF Changes, external

(* What a handler shows of the stored record is right.                       *)
LEMMA StoredIsShown ==
    ASSUME NEW r, NEW id \in Actions, Exists(store[id]), Owns(r, store[id]),
           RecordOK(store[id], writes[id]), r.op = "list" \/ id = r.id
    PROVE  /\ \A one \in View(id, store[id]) : ShownOK(r, one)
           /\ \A one \in Result(id, store[id]) : ShownOK(r, one)
  BY DEF View, Result, ShownOK, RecordOK

LEMMA AcceptForm ==
    ASSUME EInv, NEW t \in Threads, NEW r \in Requests, Handle(t, r)
    PROVE  /\ pc[t] = "idle" /\ request' = [request EXCEPT ![t] = r]
           /\ Takes(t, r) \/ Returns(t)
<1>r. r \in Request /\ r.id \in Actions
  BY RequestsAssumption DEF Request
<1>t. TypeOK /\ \A a \in Actions : RecordOK(store[a], writes[a])
  BY DEF EInv, IInv, TypeInv, ReservationInv
<1>f. /\ pc[t] = "idle" /\ request' = [request EXCEPT ![t] = r]
      /\ UNCHANGED <<store, writes, announced, lost>>
  <2>1. \E ops : Receive(t, r, ops)
    BY DEF Handle, Refuse, RefuseCreate, ListActions, GetAction, CreateProposedAction,
           ApproveAction, RejectAction, ApplyAction, ReceiveAuthorized
  <2> QED
    BY <2>1 DEF Receive, external
<1>g. StoreKept /\ request'[t] = r /\ \A u \in Threads \ {t} : request'[u] = request[u]
  BY <1>f, <1>t DEF TypeOK, StoreKept, SameScope
<1> SUFFICES Takes(t, r) \/ Returns(t)
  BY <1>f
<1>a. ASSUME Denial(r, store[r.id]) = "OK"
      PROVE  /\ Exists(store[r.id]) /\ Owns(r, store[r.id])
             /\ r.op # "get" => r.resource = store[r.id].resource
             /\ \A one \in View(r.id, store[r.id]) : ShownOK(r, one)
             /\ \A one \in Result(r.id, store[r.id]) : ShownOK(r, one)
  <2>1. Exists(store[r.id]) /\ Owns(r, store[r.id])
    BY <1>a DEF Denial, Owns
  <2>2. r.op # "get" => r.resource = store[r.id].resource
    BY <1>a DEF Denial
  <2> QED
    BY <1>r, <1>t, <2>1, <2>2, StoredIsShown
<1>n. ASSUME NEW code, code \notin EarlyFailures, NEW shown,
             Return(t, code, shown), \A one \in shown : ShownOK(r, one)
      PROVE  Returns(t)
  <2>1. pc'[t] = "reply" /\ reply'[t].code = code /\ reply'[t].shown = shown /\ Alone(t)
    BY <1>g, <1>t, <1>n DEF Return, Alone, TypeOK
  <2> QED
    BY <1>f, <1>g, <1>n, <2>1 DEF Returns, Return
<1>k. ASSUME Denial(r, store[r.id]) = "OK", r.op \in {"approve", "reject", "apply"},
             seen' = [seen EXCEPT ![t] = store[r.id]], Continue(t, "expiry")
      PROVE  Takes(t, r)
  <2>1. pc'[t] = "expiry" /\ seen'[t] = store[r.id] /\ Alone(t) /\ UNCHANGED <<event, reply>>
    BY <1>g, <1>t, <1>k DEF Continue, Alone, TypeOK
  <2> QED
    BY <1>a, <1>f, <1>g, <1>k, <2>1 DEF Takes
<1>c. {"OK", "ACTION_NOT_APPROVABLE", "ACTION_NOT_APPROVED", "INVALID_FIELD", "ENCRYPTION_FAILED"}
          \cap EarlyFailures = {}
  BY DEF EarlyFailures
<1>1. CASE Refuse(t, r)
  <2>1. Denial(r, store[r.id]) \notin EarlyFailures
    BY DEF Denial, EarlyFailures
  <2> QED
    BY <1>1, <1>n, <2>1 DEF Refuse
<1>2. CASE RefuseCreate(t, r)
  BY <1>2, <1>c, <1>n DEF RefuseCreate
<1>3. CASE ListActions(t, r)
  <2> DEFINE listed == {a \in Actions : /\ Exists(store[a])
                                        /\ store[a].user = r.user
                                        /\ store[a].session = r.session}
             shown == UNION {View(a, store[a]) : a \in listed}
  <2>1. ASSUME NEW a \in listed PROVE \A one \in View(a, store[a]) : ShownOK(r, one)
    BY <1>3, <1>t, <2>1, StoredIsShown DEF Owns, ListActions, Receive
  <2>2. \A one \in shown : ShownOK(r, one)
    BY <2>1
  <2>3. Return(t, "OK", shown)
    BY <1>3 DEF ListActions
  <2> HIDE DEF shown
  <2> QED
    BY <1>c, <1>n, <2>2, <2>3
<1>4. CASE GetAction(t, r)
  BY <1>4, <1>a, <1>c, <1>n DEF GetAction, ReceiveAuthorized
<1>5. ASSUME NEW ttl \in TTLs, CreateProposedAction(t, r, ttl) PROVE Takes(t, r)
  <2>1. pc'[t] = "collision" /\ Alone(t) /\ UNCHANGED <<event, reply>>
    BY <1>g, <1>t, <1>5 DEF CreateProposedAction, Continue, Alone, TypeOK
  <2>2. Owns(r, seen'[t])
    BY <1>t, <1>5 DEF CreateProposedAction, Owns, TypeOK, Absent
  <2> QED
    BY <1>f, <1>g, <2>1, <2>2 DEF Takes
<1>6. CASE ApproveAction(t, r)
  BY <1>6, <1>a, <1>c, <1>k, <1>n DEF ApproveAction, ReceiveAuthorized, Receive
<1>7. CASE RejectAction(t, r)
  BY <1>7, <1>a, <1>c, <1>k, <1>n DEF RejectAction, ReceiveAuthorized, Receive
<1>8. CASE ApplyAction(t, r)
  BY <1>8, <1>a, <1>c, <1>k, <1>n DEF ApplyAction, ReceiveAuthorized, Receive
<1> QED
  BY <1>1, <1>2, <1>3, <1>4, <1>5, <1>6, <1>7, <1>8 DEF Handle


(* A completion: the lock is the thread's own, so the action is completed.   *)
LEMMA CompletionForm ==
    ASSUME EInv, NEW t \in Threads, pc[t] \in Applying, NEW patched \in Record,
           patched.status \in {"APPLIED", "CONFLICTED", "FAILED"},
           SameScope(Current(t), patched),
           NEW completed, completed = CompleteApply(Current(t), Key(t), patched),
           Put(Id(t), completed), request' = request, UNCHANGED external,
           NEW reason, NEW code, code \in EarlyFailures => completed.status = "FAILED" /\ writes[Id(t)] = 0,
           NEW shown, \A one \in shown : one = [id |-> Id(t), status |-> completed.status],
           PublishThenReturn(t, StatusEvent(seen[t].status, completed.status, reason, TRUE), code, shown)
    PROVE  Changes(t)
<1>1. pc[t] \in Busy /\ pc[t] \in Deciding
  BY BusyLabels DEF Deciding
<1>2. /\ completed = [patched EXCEPT !.applyLock = NoKey]
      /\ Current(t).status \in {"APPROVED", "EXPIRED"}
  <2>1. Current(t).applyLock = Key(t) /\ Key(t) \in Keys
    BY DEF EInv, IInv, ReservationInv, OwnerOK, TypeInv, LocalsOK, Current, Id, Key
  <2>2. RecordOK(Current(t), writes[Id(t)])
    BY <1>1, BusyFacts
  <2> QED
    BY <2>1, <2>2, KeysAssumption DEF CompleteApply, RecordOK, Locked
<1>3. completed.status = patched.status /\ SameScope(Current(t), completed)
  BY <1>2 DEF SameScope, Record
<1>4. Owns(request[t], Current(t))
  BY <1>1, BusyFacts
<1>5. Follows(Current(t).status, completed.status)
  BY <1>2, <1>3 DEF Follows
<1>6. Owns(request[t], completed)
  BY <1>3, <1>4 DEF Owns, SameScope
<1>7. Key(t) \in Keys
  BY DEF EInv, IInv, TypeInv, LocalsOK, Key
<1> QED
  BY <1>1, <1>3, <1>5, <1>6, <1>7, ChangeForm

LEMMA CompleteReservedForm ==
    ASSUME EInv, NEW t \in Threads, pc[t] \in BeforeWrite,
           NEW status \in {"CONFLICTED", "FAILED"}, NEW reason \in Reasons,
           NEW code, code \in EarlyFailures => status = "FAILED",
           CompleteReserved(t, status, reason, code)
    PROVE  Changes(t)
<1> DEFINE patched == [Current(t) EXCEPT !.status = status, !.reasonCode = reason,
                           !.idempotencyKey = Key(t), !.applyResult = status]
           completed == CompleteApply(Current(t), Key(t), patched)
           shown == IF code = "OK" THEN Result(Id(t), completed) ELSE {}
<1>1. /\ pc[t] \in Applying /\ Key(t) \in Keys /\ Current(t) \in Record
      /\ Current(t).applyLock = Key(t) /\ writes[Id(t)] = 0
  BY RequestsAssumption
  DEF EInv, IInv, TypeInv, TypeOK, LocalsOK, ReservationInv, OwnerOK, Id, Key, Current, Applying,
      BeforeWrite, Request
<1>2. patched \in Record /\ patched.status = status /\ SameScope(Current(t), patched)
  BY <1>1 DEF Record, Statuses, TerminalStatuses, SameScope
<1>3. completed.status = status /\ completed.applyResult = status
  BY <1>1 DEF CompleteApply, Record
<1>4. \A one \in shown : one = [id |-> Id(t), status |-> completed.status]
  <2> HIDE DEF completed
  <2> QED
    BY <1>3 DEF Result
<1>5. completed.status \in TerminalStatuses
  BY <1>3 DEF TerminalStatuses
<1>6. /\ Put(Id(t), completed) /\ request' = request /\ UNCHANGED external
      /\ PublishThenReturn(t, StatusEvent(seen[t].status, completed.status, completed.reasonCode, TRUE),
                           code, shown)
  BY <1>5 DEF CompleteReserved
<1> HIDE DEF patched, shown
<1>7. completed = CompleteApply(Current(t), Key(t), patched)
  OBVIOUS
<1> HIDE DEF completed
<1> QED
  BY <1>1, <1>2, <1>3, <1>4, <1>6, <1>7, CompletionForm

LEMMA CompleteWriteForm ==
    ASSUME EInv, NEW t \in Threads, pc[t] \in Applying, NEW patched \in Record,
           patched.status \in {"APPLIED", "CONFLICTED", "FAILED"},
           SameScope(Current(t), patched),
           NEW reason, NEW code, code \notin EarlyFailures,
           code = "OK" => patched.applyResult = patched.status,
           CompleteWrite(t, patched, reason, code)
    PROVE  Changes(t)
<1> DEFINE completed == CompleteApply(Current(t), Key(t), patched)
           shown == IF code = "OK" THEN Result(Id(t), completed) ELSE {}
<1>1. Current(t).applyLock = Key(t)
  BY DEF EInv, IInv, ReservationInv, OwnerOK, Id, Key, Current
<1>2. completed.status = patched.status /\ completed.applyResult = patched.applyResult
  BY <1>1 DEF CompleteApply, Record
<1>3. \A one \in shown : one = [id |-> Id(t), status |-> completed.status]
  <2> HIDE DEF completed
  <2> QED
    BY <1>2 DEF Result
<1>4. /\ Put(Id(t), completed) /\ request' = request /\ UNCHANGED external
      /\ PublishThenReturn(t, StatusEvent(seen[t].status, completed.status, reason, TRUE), code, shown)
  BY DEF CompleteWrite
<1>5. completed = CompleteApply(Current(t), Key(t), patched)
  OBVIOUS
<1> HIDE DEF completed, shown
<1> QED
  BY <1>3, <1>4, <1>5, CompletionForm

LEMMA PassForm ==
    ASSUME EInv, NEW t \in Threads, pc[t] \in Applying, NEW label \in Applying, Pass(t, label)
    PROVE  Works(t)
<1>1. pc[t] \in Busy /\ label \in Busy /\ label \in Deciding /\ pc[t] \in Timely
      /\ pc[t] \in Deciding /\ label \notin {"collision", "insert"}
  BY BusyLabels DEF Deciding
<1>2. StoreKept /\ request' = request /\ seen' = seen /\ UNCHANGED <<announced, lost>>
  BY DEF Pass, StoreKept, SameScope, external
<1> QED
  BY <1>1, <1>2, ContinueForm DEF Pass


(* To put back what is stored changes nothing.                              *)
LEMMA PutSameKeeps ==
    ASSUME EInv, NEW a \in Actions, Put(a, store[a])
    PROVE  StoreKept
  BY DEF EInv, IInv, TypeInv, TypeOK, Put, StoreKept, SameScope

(* The steps outside the reserved section.                                  *)
LEMMA WorkOutsideForm ==
    ASSUME EInv, NEW t \in Threads,
           \/ CheckCollision(t) \/ Insert(t) \/ Expiry(t) \/ NotExpired(t)
           \/ Approve(t) \/ Reject(t) \/ Reserve(t)
    PROVE  Works(t) \/ Returns(t) \/ Changes(t)
<1>b. pc[t] \in Busy
  BY DEF Busy, Labels, CheckCollision, Insert, Expiry, NotExpired, Approve, Reject, Reserve
<1>f. /\ Id(t) \in Actions /\ Current(t) = store[Id(t)] /\ Current(t) \in Record
      /\ RecordOK(Current(t), writes[Id(t)])
  BY <1>b, BusyFacts
<1>c. {"OK", "ACTION_NOT_APPROVABLE", "ACTION_ID_COLLISION", "ENCRYPTION_FAILED", "INTERNAL_ERROR",
       "ACTION_NOT_APPLIABLE", "ACTION_APPLY_IN_PROGRESS"} \cap EarlyFailures = {}
  BY DEF EarlyFailures
<1>e. {"expiry", "approve", "reject", "reserve", "consent"} \subseteq Deciding \cap Busy
      /\ {"expiry", "approve", "reject", "reserve", "consent"} \cap {"collision", "insert"} = {}
      /\ {"collision", "insert"} \subseteq Busy /\ {"collision", "insert"} \cap Deciding = {}
      /\ "reserve" \in Timely /\ Timely \subseteq Deciding
  BY BusyLabels DEF Deciding, Applying
<1>d. ASSUME pc[t] \in Deciding
      PROVE  /\ Exists(Current(t)) /\ Owns(request[t], Current(t)) /\ Exists(store[Id(t)])
             /\ Owns(request[t], store[Id(t)])
             /\ \A one \in View(Id(t), Current(t)) : ShownOK(request[t], one)
             /\ \A one \in Result(Id(t), Current(t)) : ShownOK(request[t], one)
  <2>1. /\ Exists(Current(t)) /\ Owns(request[t], Current(t))
        /\ Exists(store[Id(t)]) /\ Owns(request[t], store[Id(t)]) /\ Id(t) = request[t].id
    BY <1>b, <1>d, <1>f, BusyFacts DEF Id
  <2> QED
    BY <1>f, <2>1, StoredIsShown
<1>s. UNCHANGED store \/ Put(Id(t), Current(t)) => StoreKept
  <2>1. UNCHANGED store => StoreKept
    BY DEF StoreKept, SameScope
  <2> QED
    BY <1>f, <2>1, PutSameKeeps
<1>n. ASSUME StoreKept, NEW code, code \notin EarlyFailures, Return(t, code, {}),
             request' = request, UNCHANGED external
      PROVE  Returns(t)
  BY <1>b, <1>n, ReturnForm
<1>1. CASE CheckCollision(t)
  <2>1. StoreKept /\ request' = request /\ UNCHANGED external /\ UNCHANGED <<announced, lost>>
    BY <1>1, <1>s DEF CheckCollision, external
  <2>2. CASE Continue(t, "insert") /\ UNCHANGED seen
    BY <1>1, <1>b, <1>e, <2>1, <2>2, ContinueForm DEF CheckCollision
  <2> QED
    BY <1>1, <1>c, <1>n, <2>1, <2>2 DEF CheckCollision
<1>2. CASE Insert(t)
  <2>1. CASE Exists(Current(t))
    <3>1. Return(t, "INTERNAL_ERROR", {}) /\ UNCHANGED store /\ request' = request /\ UNCHANGED external
      BY <1>2, <2>1 DEF Insert
    <3> QED
      BY <1>c, <1>n, <1>s, <3>1
  <2>2. CASE ~Exists(Current(t))
    <3>1. seen[t].status = "PROPOSED" /\ Owns(request[t], seen[t]) /\ pc[t] = "insert"
      BY <1>2, <1>b, BusyFacts DEF Insert, EInv, IInv, ReservationInv, OwnerOK
    <3>2. /\ Put(Id(t), seen[t]) /\ request' = request /\ UNCHANGED external
          /\ PublishThenReturn(t, StatusEvent("NONE", seen[t].status, "NONE", TRUE), "OK",
                               View(Id(t), seen[t]))
      BY <1>2, <2>2, <3>1 DEF Insert
    <3>3. Follows(Current(t).status, seen[t].status)
      BY <2>2, <3>1 DEF Exists, Follows
    <3>4. \A one \in View(Id(t), seen[t]) : one = [id |-> Id(t), status |-> seen[t].status]
      BY DEF View
    <3> QED
      BY <1>b, <1>c, <2>2, <3>1, <3>2, <3>3, <3>4, ChangeForm
  <2> QED
    BY <2>1, <2>2
<1>3. CASE Expiry(t)
  <2> DEFINE key == IF request[t].op = "apply" THEN Key(t) ELSE Current(t).idempotencyKey
             expired == [Current(t) EXCEPT !.status = "EXPIRED", !.reasonCode = "ACTION_EXPIRED",
                                           !.idempotencyKey = key]
             result == Transition(Current(t), NonTerminalStatuses, FALSE, expired)
  <2>1. pc[t] \in Deciding
    BY <1>3, <1>e DEF Expiry
  <2>2. Put(Id(t), result.action) /\ request' = request /\ UNCHANGED external
    BY <1>3 DEF Expiry
  <2>3. CASE result.kind = "UPDATED"
    <3>1. result.action = expired /\ Current(t).status \in NonTerminalStatuses
      BY <2>3 DEF Transition
    <3>2. /\ expired.status = "EXPIRED" /\ SameScope(Current(t), expired)
          /\ expired.applyResult = Current(t).applyResult
      BY <1>f DEF Record, SameScope
    <3>3. Current(t).applyResult = "NONE"
      BY <1>f, <3>1 DEF RecordOK, Record, NonTerminalStatuses, TerminalStatuses
    <3>4. \A one \in Result(Id(t), expired) : one = [id |-> Id(t), status |-> expired.status]
      <4> HIDE DEF expired
      <4> QED
        BY <3>2, <3>3 DEF Result
    <3>5. PublishThenReturn(t, StatusEvent(seen[t].status, expired.status, "ACTION_EXPIRED", FALSE),
                            "OK", Result(Id(t), expired))
      BY <1>3, <2>3, <3>1, <3>2 DEF Expiry
    <3>6. Follows(Current(t).status, expired.status) /\ Owns(request[t], expired)
      BY <1>d, <2>1, <3>1, <3>2 DEF Follows, Owns, SameScope
    <3>7. Put(Id(t), expired)
      BY <2>2, <3>1
    <3> HIDE DEF expired, result
    <3> QED
      BY <1>b, <1>c, <2>1, <2>2, <3>2, <3>4, <3>5, <3>6, <3>7, ChangeForm
  <2>4. CASE result.kind = "STATUS_MISMATCH"
    <3>1. result.action = Current(t)
      BY <2>4 DEF Transition
    <3>2. StoreKept
      BY <1>s, <2>2, <3>1
    <3>3. PICK shown \in {View(Id(t), Current(t)), Result(Id(t), Current(t))} : Return(t, "OK", shown)
      BY <1>3, <2>4 DEF Expiry
    <3> QED
      BY <1>b, <1>c, <1>d, <2>1, <2>2, <3>2, <3>3, ReturnForm
  <2> QED
    BY <1>3, <2>3, <2>4 DEF Expiry
<1>4. CASE NotExpired(t)
  <2>1. /\ StoreKept /\ request' = request /\ UNCHANGED external /\ UNCHANGED <<announced, lost>>
        /\ pc[t] \in Deciding
    BY <1>4, <1>e, <1>s DEF NotExpired, external
  <2>2. CASE seen[t].status = "APPROVED" /\ Return(t, "OK", View(Id(t), seen[t]))
    <3>1. \A one \in View(Id(t), seen[t]) : ShownOK(request[t], one)
      BY <1>d, <1>f, <2>1, <2>2 DEF View, ShownOK, Final, TerminalStatuses
    <3> QED
      BY <1>b, <1>c, <2>1, <2>2, <3>1, ReturnForm
  <2>3. ASSUME NEW label \in {"approve", "reject", "reserve"}, Continue(t, label), UNCHANGED seen
        PROVE  Works(t)
    <3>1. ~IsExpired(seen[t], now)
      BY <1>4 DEF NotExpired
    <3> QED
      BY <1>b, <1>e, <2>1, <2>3, <3>1, ContinueForm
  <2> QED
    BY <1>4, <2>2, <2>3 DEF NotExpired
<1>5. CASE Approve(t)
  <2> DEFINE approved == [Current(t) EXCEPT !.status = "APPROVED"]
             result == Transition(Current(t), {"PROPOSED"}, FALSE, approved)
  <2>1. pc[t] \in Deciding
    BY <1>5, <1>e DEF Approve
  <2>2. Put(Id(t), result.action) /\ request' = request /\ UNCHANGED external
    BY <1>5 DEF Approve
  <2>3. CASE result.kind = "UPDATED"
    <3>1. result.action = approved /\ Current(t).status = "PROPOSED"
      BY <2>3 DEF Transition
    <3>2. approved.status = "APPROVED" /\ SameScope(Current(t), approved)
      BY <1>f DEF Record, SameScope
    <3>3. \A one \in View(Id(t), approved) : one = [id |-> Id(t), status |-> approved.status]
      BY DEF View
    <3>4. PublishThenReturn(t, StatusEvent(seen[t].status, approved.status, "NONE", TRUE),
                            "OK", View(Id(t), approved))
      BY <1>5, <2>3, <3>1, <3>2 DEF Approve
    <3>5. Follows(Current(t).status, approved.status) /\ Owns(request[t], approved)
      BY <1>d, <2>1, <3>1, <3>2 DEF Follows, Owns, SameScope
    <3>6. Put(Id(t), approved)
      BY <2>2, <3>1
    <3> HIDE DEF approved, result
    <3> QED
      BY <1>b, <1>c, <2>1, <2>2, <3>2, <3>3, <3>4, <3>5, <3>6, ChangeForm
  <2>4. CASE result.kind = "STATUS_MISMATCH"
    <3>1. result.action = Current(t)
      BY <2>4 DEF Transition
    <3>2. StoreKept /\ Return(t, "ACTION_NOT_APPROVABLE", {})
      BY <1>5, <1>s, <2>2, <2>4, <3>1 DEF Approve
    <3> QED
      BY <1>c, <1>n, <2>2, <3>2
  <2> QED
    BY <1>5, <2>3, <2>4 DEF Approve
<1>6. CASE Reject(t)
  <2> DEFINE rejected == [Current(t) EXCEPT !.status = "REJECTED", !.reasonCode = "USER_REJECTED"]
             result == Transition(Current(t), NonTerminalStatuses, TRUE, rejected)
  <2>1. pc[t] \in Deciding
    BY <1>6, <1>e DEF Reject
  <2>2. Put(Id(t), result.action) /\ request' = request /\ UNCHANGED external
    BY <1>6 DEF Reject
  <2>3. CASE result.kind = "UPDATED"
    <3>1. result.action = rejected /\ Current(t).status \in NonTerminalStatuses
      BY <2>3 DEF Transition
    <3>2. rejected.status = "REJECTED" /\ SameScope(Current(t), rejected)
      BY <1>f DEF Record, SameScope
    <3>3. \A one \in View(Id(t), rejected) : one = [id |-> Id(t), status |-> rejected.status]
      BY DEF View
    <3>4. PublishThenReturn(t, StatusEvent(seen[t].status, rejected.status, "USER_REJECTED", TRUE),
                            "OK", View(Id(t), rejected))
      BY <1>6, <2>3, <3>1, <3>2 DEF Reject
    <3>5. Follows(Current(t).status, rejected.status) /\ Owns(request[t], rejected)
      BY <1>d, <2>1, <3>1, <3>2 DEF Follows, Owns, SameScope
    <3>6. Put(Id(t), rejected)
      BY <2>2, <3>1
    <3> HIDE DEF rejected, result
    <3> QED
      BY <1>b, <1>c, <2>1, <2>2, <3>2, <3>3, <3>4, <3>5, <3>6, ChangeForm
  <2>4. CASE result.kind \in {"STATUS_MISMATCH", "APPLY_IN_PROGRESS"}
    <3>1. result.action = Current(t)
      BY <2>4 DEF Transition
    <3>2. StoreKept
      BY <1>s, <2>2, <3>1
    <3>3. \/ Return(t, "ACTION_APPLY_IN_PROGRESS", {})
          \/ Return(t, "OK", View(Id(t), Current(t)))
      BY <1>6, <2>4, <3>1 DEF Reject
    <3>4. CASE Return(t, "ACTION_APPLY_IN_PROGRESS", {})
      BY <1>c, <1>n, <2>2, <3>2, <3>4
    <3>5. CASE Return(t, "OK", View(Id(t), Current(t)))
      BY <1>b, <1>c, <1>d, <2>1, <2>2, <3>2, <3>5, ReturnForm
    <3> QED
      BY <3>3, <3>4, <3>5
  <2> QED
    BY <1>6, <2>3, <2>4 DEF Reject
<1>7. CASE Reserve(t)
  <2> DEFINE result == ReserveApply(Current(t), Key(t))
  <2>1. pc[t] \in Deciding
    BY <1>7, <1>e DEF Reserve
  <2>2. /\ Put(Id(t), result.action) /\ request' = request /\ UNCHANGED external
        /\ UNCHANGED <<announced, lost>>
    BY <1>7 DEF Reserve, external
  <2>3. StoreKept
    <3>1. result.action.status = Current(t).status /\ SameScope(Current(t), result.action)
      BY <1>f DEF ReserveApply, SameScope, Record
    <3> HIDE DEF result
    <3> QED
      BY <1>f, <2>2, <3>1 DEF Put, StoreKept, SameScope, EInv, IInv, TypeInv, TypeOK
  <2>4. CASE Continue(t, "consent") /\ UNCHANGED seen
    <3>1. pc[t] \in Timely
      BY <1>7, <1>e DEF Reserve
    <3> QED
      BY <1>b, <1>e, <2>1, <2>2, <2>3, <2>4, <3>1, ContinueForm
  <2>5. CASE result.kind = "REPLAY" /\ Return(t, "OK", Result(Id(t), result.action))
    <3>1. result.action = Current(t)
      BY <2>5 DEF ReserveApply
    <3>2. Return(t, "OK", Result(Id(t), Current(t)))
      BY <2>5, <3>1
    <3> QED
      BY <1>b, <1>c, <1>d, <2>1, <2>2, <2>3, <3>2, ReturnForm
  <2> QED
    BY <1>7, <1>c, <1>n, <2>2, <2>3, <2>4, <2>5 DEF Reserve
<1> QED
  BY <1>1, <1>2, <1>3, <1>4, <1>5, <1>6, <1>7

(* The steps of the reserved section.                                       *)
LEMMA WorkInsideForm ==
    ASSUME EInv, NEW t \in Threads,
           \/ ValidateConsent(t) \/ ValidateToken(t) \/ ValidateTarget(t) \/ DecryptPayload(t)
           \/ ConnectorApply(t) \/ CompleteApplied(t) \/ CompleteWriteFailed(t)
    PROVE  Works(t) \/ Changes(t)
<1>r. {"CONSENT_REQUIRED", "CONSENT_CHECK_FAILED", "RECONNECT_REQUIRED",
       "TOKEN_STATUS_CHECK_FAILED", "TARGET_CONFLICT", "TARGET_VALIDATION_FAILED",
       "ACTION_PAYLOAD_DECRYPT_FAILED"} \subseteq Reasons
      /\ "OK" \notin EarlyFailures /\ "PROVIDER_WRITE_FAILED" \notin EarlyFailures
  BY DEF Reasons, EarlyFailures
<1>b. pc[t] \in Applying
  BY DEF Applying, ValidateConsent, ValidateToken, ValidateTarget, DecryptPayload, ConnectorApply,
         CompleteApplied, CompleteWriteFailed
<1>f. Current(t) \in Record /\ Key(t) \in Keys
  BY <1>b, BusyFacts, BusyLabels DEF Deciding, TypeInv, LocalsOK, Key
<1>1. CASE ValidateConsent(t)
  BY <1>1, <1>b, <1>r, PassForm, CompleteReservedForm DEF ValidateConsent, Applying, BeforeWrite
<1>2. CASE ValidateToken(t)
  BY <1>2, <1>b, <1>r, PassForm, CompleteReservedForm DEF ValidateToken, Applying, BeforeWrite
<1>3. CASE ValidateTarget(t)
  BY <1>3, <1>b, <1>r, PassForm, CompleteReservedForm DEF ValidateTarget, Applying, BeforeWrite
<1>4. CASE DecryptPayload(t)
  BY <1>4, <1>b, <1>r, PassForm, CompleteReservedForm DEF DecryptPayload, Applying, BeforeWrite
<1>5. CASE ConnectorApply(t)
  <2>1. PICK label \in {"applied", "writeFailed"} : Continue(t, label)
    BY <1>5 DEF ConnectorApply
  <2>2. /\ pc[t] \in Busy /\ label \in Busy /\ pc[t] \in Deciding /\ pc[t] \in Timely
        /\ label \notin {"collision", "insert"}
    BY <1>b, BusyLabels DEF Deciding, Applying
  <2>3. StoreKept /\ request' = request /\ seen' = seen /\ UNCHANGED <<announced, lost>>
    BY <1>5 DEF ConnectorApply, StoreKept, SameScope
  <2> QED
    BY <2>1, <2>2, <2>3, ContinueForm
<1>6. CASE CompleteApplied(t)
  <2> DEFINE applied == [Current(t) EXCEPT !.status = "APPLIED",
                            !.reasonCode = "APPLY_SUCCEEDED",
                            !.idempotencyKey = Key(t), !.applyResult = "APPLIED"]
  <2>1. /\ applied \in Record /\ applied.status = "APPLIED" /\ applied.applyResult = "APPLIED"
        /\ SameScope(Current(t), applied)
    BY <1>f DEF Record, Statuses, TerminalStatuses, Reasons, SameScope
  <2>2. CompleteWrite(t, applied, "APPLY_SUCCEEDED", "OK")
    BY <1>6 DEF CompleteApplied
  <2> HIDE DEF applied
  <2> QED
    BY <1>b, <1>r, <2>1, <2>2, CompleteWriteForm
<1>7. CASE CompleteWriteFailed(t)
  <2> DEFINE failed == [Current(t) EXCEPT !.status = "FAILED",
                            !.reasonCode = "PROVIDER_WRITE_FAILED"]
  <2>1. failed \in Record /\ failed.status = "FAILED" /\ SameScope(Current(t), failed)
    BY <1>f DEF Record, Statuses, TerminalStatuses, Reasons, SameScope
  <2>2. CompleteWrite(t, failed, "PROVIDER_WRITE_FAILED", "PROVIDER_WRITE_FAILED")
    BY <1>7 DEF CompleteWriteFailed
  <2> HIDE DEF failed
  <2> QED
    BY <1>b, <1>r, <2>1, <2>2, CompleteWriteForm
<1> QED
  BY <1>1, <1>2, <1>3, <1>4, <1>5, <1>6, <1>7


-----------------------------------------------------------------------------
(* Every form keeps the invariant.                                          *)

LEMMA ThreadsKeep ==
    ASSUME EInv, NEW t \in Threads, Alone(t), Kept, Stable, Grows, ThreadOK(t)'
    PROVE  \A u \in Threads : ThreadOK(u)'
<1> SUFFICES ASSUME NEW u \in Threads, u # t PROVE ThreadOK(u)'
  OBVIOUS
<1> QED
  BY OtherThreadKeeps DEF Alone

(* A step that changes no status and publishes nothing.                      *)
LEMMA QuietStep ==
    ASSUME EInv, NEW t \in Threads, Alone(t), StoreKept, UNCHANGED <<announced, lost>>,
           pc[t] # "publish", pc'[t] # "publish"
    PROVE  /\ Kept /\ Grows /\ NoDuplicateEvents'
           /\ \A a \in Actions : HistoryOK(a)'
<1>1. ASSUME NEW u \in Threads
      PROVE  /\ pc'[u] = "publish" <=> pc[u] = "publish"
             /\ pc[u] = "publish" => event'[u] = event[u] /\ Id(u)' = Id(u)
  BY DEF Alone, Id
<1>2. ASSUME NEW a \in Actions, NEW status PROVE Had(a, status)' <=> Had(a, status)
  BY <1>1 DEF Had
<1>3. Kept
  BY DEF Kept, StoreKept, Exists
<1>4. Grows
  BY <1>2 DEF Grows
<1>5. NoDuplicateEvents'
  BY <1>1 DEF EInv, HistoryInv, NoDuplicateEvents
<1>6. ASSUME NEW a \in Actions PROVE HistoryOK(a)'
  <2>1. HistoryOK(a) /\ store'[a].status = store[a].status
    BY DEF EInv, HistoryInv, StoreKept
  <2> PICK current : current = store[a].status
    OBVIOUS
  <2>2. store'[a].status = current /\ (Had(a, current)' <=> Had(a, current))
    BY <1>2, <2>1
  <2> QED
    BY <1>2, <2>1, <2>2 DEF HistoryOK, Exists
<1> QED
  BY <1>3, <1>4, <1>5, <1>6

(* What a status was before, it still was after, for the thread that holds it. *)
LEMMA HadGrows ==
    ASSUME Grows, NEW t \in Threads, NEW a \in Actions, NEW status \in Statuses,
           Had(a, status), Id(t)' = a, seen'[t].status = status
    PROVE  Had(Id(t), seen[t].status)'
  BY DEF Grows

LEMMA WorksKeeps ==
    ASSUME EInv, NEW t \in Threads, Works(t), Stable
    PROVE  HistoryInv'
<1>1. /\ Alone(t) /\ StoreKept /\ UNCHANGED <<announced, lost>>
      /\ pc[t] # "publish" /\ pc'[t] # "publish" /\ pc'[t] # "reply" /\ pc[t] \in Busy
  BY BusyLabels DEF Works
<1>2. /\ Kept /\ Grows /\ NoDuplicateEvents'
      /\ \A a \in Actions : HistoryOK(a)'
  BY <1>1, QuietStep
<1>3. /\ Id(t)' = Id(t) /\ Current(t)' = store'[Id(t)] /\ Id(t) \in Actions
      /\ Current(t) = store[Id(t)] /\ SameScope(Current(t), store'[Id(t)])
  BY <1>1, BusyFacts DEF Id, Current, Works, StoreKept
<1>4. ScopeOK(t)'
  BY <1>1, <1>3, BusyFacts, BusyLabels DEF ScopeOK, Works, SameScope, Owns
<1>5. ReplyOK(t)'
  BY <1>1, BusyFacts DEF Works, ReplyOK, NoReply, EarlyFailures
<1>6. EventOK(t)'
  BY <1>1, BusyFacts DEF Works, EventOK
<1>7. PreviousOK(t)'
  <2>1. ASSUME pc'[t] \in Deciding PROVE Had(Id(t), seen[t].status)'
    <3>1. pc[t] \in Deciding /\ seen' = seen /\ ThreadOK(t)
      BY <1>1, <2>1, BusyFacts DEF Works
    <3>2. Had(Id(t), seen[t].status) /\ seen[t].status \in Statuses
      BY <1>1, <3>1, BusyFacts DEF ThreadOK, PreviousOK
    <3> QED
      BY <1>2, <1>3, <3>1, <3>2, HadGrows
  <2> QED
    BY <1>1, <2>1 DEF PreviousOK
<1> QED
  BY <1>1, <1>2, <1>4, <1>5, <1>6, <1>7, ThreadsKeep DEF ThreadOK, HistoryInv

LEMMA TakesKeeps ==
    ASSUME EInv, NEW t \in Threads, NEW r \in Requests, Takes(t, r), Stable
    PROVE  HistoryInv'
<1>1. /\ Alone(t) /\ StoreKept /\ UNCHANGED <<announced, lost>>
      /\ pc[t] = "idle" /\ pc'[t] \in {"expiry", "collision"} /\ r.id \in Actions
      /\ ReplyOK(t) /\ EventOK(t)
  BY RequestsAssumption DEF Takes, Request, EInv, HistoryInv, ThreadOK
<1>2. /\ Kept /\ Grows /\ NoDuplicateEvents'
      /\ \A a \in Actions : HistoryOK(a)'
  BY <1>1, QuietStep
<1>3. Id(t)' = r.id /\ Current(t)' = store'[r.id] /\ SameScope(store[r.id], store'[r.id])
  BY <1>1 DEF Id, Current, Takes, StoreKept
<1>4. ScopeOK(t)'
  BY <1>1, <1>3 DEF ScopeOK, Takes, SameScope, Owns, Deciding, Applying
<1>5. ReplyOK(t)'
  BY <1>1 DEF Takes, ReplyOK, NoReply, EarlyFailures
<1>6. EventOK(t)'
  BY <1>1 DEF Takes, EventOK
<1>7. PreviousOK(t)'
  <2>1. ASSUME pc'[t] \in Deciding PROVE Had(Id(t), seen[t].status)'
    <3>1. pc'[t] = "expiry" /\ seen'[t] = store[r.id] /\ Exists(store[r.id])
      BY <1>1, <2>1 DEF Takes, Deciding, Applying
    <3>2. Had(r.id, store[r.id].status)
      BY <1>1, <3>1 DEF EInv, HistoryInv, HistoryOK
    <3>3. store[r.id].status \in Statuses
      BY <1>1, <3>1 DEF EInv, IInv, TypeInv, TypeOK, Record, Exists
    <3> QED
      BY <1>1, <1>2, <1>3, <3>1, <3>2, <3>3, HadGrows
  <2> QED
    BY <1>1, <2>1 DEF PreviousOK
<1> QED
  BY <1>1, <1>2, <1>4, <1>5, <1>6, <1>7, ThreadsKeep DEF ThreadOK, HistoryInv

LEMMA ReturnsKeeps ==
    ASSUME EInv, NEW t \in Threads, Returns(t), Stable
    PROVE  HistoryInv'
<1>1. /\ Alone(t) /\ StoreKept /\ UNCHANGED <<announced, lost>>
      /\ pc[t] \notin {"publish", "reply"} /\ pc'[t] = "reply" /\ EventOK(t)
  BY BusyLabels DEF Returns, EInv, HistoryInv, ThreadOK
<1>2. /\ Kept /\ Grows /\ NoDuplicateEvents'
      /\ \A a \in Actions : HistoryOK(a)'
  BY <1>1, QuietStep
<1>3. ScopeOK(t)' /\ PreviousOK(t)'
  BY <1>1 DEF ScopeOK, PreviousOK, Deciding, Applying
<1>4. ReplyOK(t)'
  <2>1. ASSUME NEW shown \in reply'[t].shown PROVE ShownOK(request[t], shown)'
    <3>1. ShownOK(request'[t], shown)
      BY <2>1 DEF Returns
    <3> QED
      BY <1>1, <3>1 DEF ShownOK, StoreKept, SameScope, Exists, Owns
  <2> QED
    BY <1>1, <2>1 DEF Returns, ReplyOK
<1>5. EventOK(t)'
  BY <1>1 DEF Returns, EventOK, NoEvent
<1> QED
  BY <1>1, <1>2, <1>3, <1>4, <1>5, ThreadsKeep DEF ThreadOK, HistoryInv


(* A change: the new status is one the action never had, and the event that  *)
(* will tell so waits in this thread.                                       *)
LEMMA ChangesKeeps ==
    ASSUME EInv, NEW t \in Threads, Changes(t), Stable
    PROVE  HistoryInv'
<1> PICK a \in Actions : a = Id(t)
  BY BusyFacts DEF Changes
<1> PICK old, new : old = store[a].status /\ new = event'[t].status
  OBVIOUS
<1>1. /\ Alone(t) /\ UNCHANGED <<announced, lost, request, writes>>
      /\ pc[t] \in Busy /\ pc[t] # "publish" /\ pc'[t] = "publish"
      /\ \A b \in Actions \ {a} : store'[b] = store[b]
      /\ Id(t)' = a /\ Current(t) = store[a] /\ Current(t)' = store'[a]
      /\ store'[a].status = new /\ Follows(old, new)
  BY BusyFacts, BusyLabels DEF Changes, Id, Current
<1>2. /\ new \in Statuses /\ new # "ABSENT" /\ ~MayHaveBeen(old, new) /\ MayHaveBeen(new, new)
      /\ \A earlier : MayHaveBeen(old, earlier) => MayHaveBeen(new, earlier)
  BY <1>1, FollowsForward
<1>3. ASSUME NEW u \in Threads \ {t}
      PROVE  /\ pc'[u] = pc[u] /\ event'[u] = event[u] /\ Id(u)' = Id(u)
  BY <1>1 DEF Alone, Id
<1>4. ASSUME NEW b \in Actions, NEW status
      PROVE  Had(b, status)' <=> Had(b, status) \/ (b = a /\ status = new)
  BY <1>1, <1>3 DEF Had
<1>5. Grows
  BY <1>4 DEF Grows
<1>6. Kept
  BY <1>1, <1>2 DEF Kept, Changes, Exists, SameScope
<1>7. /\ HistoryOK(a) /\ NoDuplicateEvents
      /\ \A b \in Actions : HistoryOK(b)
  BY DEF EInv, HistoryInv
<1>8. ~Had(a, new)
  BY <1>2, <1>7 DEF HistoryOK
<1>9. ASSUME NEW b \in Actions PROVE HistoryOK(b)'
  <2>1. CASE b = a
    <3>1. Had(a, new)'
      BY <1>4
    <3>2. ASSUME NEW status \in Statuses, Had(a, status)' PROVE MayHaveBeen(new, status)
      BY <1>2, <1>4, <1>7, <3>2 DEF HistoryOK
    <3> QED
      BY <1>1, <2>1, <3>1, <3>2 DEF HistoryOK
  <2>2. CASE b # a
    <3> PICK current : current = store[b].status
      OBVIOUS
    <3>1. store'[b].status = current /\ (Had(b, current)' <=> Had(b, current))
      BY <1>1, <1>4, <2>2
    <3> QED
      BY <1>4, <1>7, <2>2, <3>1 DEF HistoryOK, Exists
  <2> QED
    BY <2>1, <2>2
<1>10. NoDuplicateEvents'
  <2> SUFFICES ASSUME NEW u \in Threads, pc'[u] = "publish"
               PROVE  /\ event'[u].status \notin announced'[Id(u)'] \cup lost'[Id(u)']
                      /\ \A v \in Threads \ {u} :
                             pc'[v] = "publish" /\ Id(v)' = Id(u)' => event'[v].status # event'[u].status
    BY DEF NoDuplicateEvents
  <2>1. new \notin announced[a] \cup lost[a]
        /\ \A v \in Threads : pc[v] = "publish" /\ Id(v) = a => event[v].status # new
    BY <1>8 DEF Had
  <2>2. CASE u = t
    BY <1>1, <1>3, <2>1, <2>2
  <2>3. CASE u # t
    BY <1>1, <1>3, <1>7, <2>1, <2>3 DEF NoDuplicateEvents
  <2> QED
    BY <2>2, <2>3
<1>11. ThreadOK(t)'
  <2>1. ScopeOK(t)'
    BY <1>1 DEF ScopeOK, Deciding, Applying
  <2>2. ReplyOK(t)'
    <3>1. ASSUME NEW shown \in reply'[t].shown PROVE ShownOK(request[t], shown)'
      <4>1. shown.id = a /\ shown.status = new /\ Owns(request[t], store'[a]) /\ request' = request
        BY <3>1 DEF Changes
      <4> QED
        BY <1>1, <1>2, <4>1 DEF ShownOK, Exists, Owns, Id
    <3>2. Key(t)' = Key(t)
      BY <1>1 DEF Key
    <3> QED
      BY <1>1, <3>1, <3>2 DEF Changes, ReplyOK
  <2>3. EventOK(t)'
    BY <1>1 DEF Changes, EventOK
  <2>4. PreviousOK(t)'
    <3>1. pc'[t] \notin Deciding
      BY <1>1 DEF Deciding, Applying
    <3>2. CASE event'[t].previous = "NONE"
      BY <1>1, <3>1, <3>2 DEF PreviousOK
    <3>3. CASE pc[t] \in Deciding /\ event'[t].previous = seen[t].status
      <4> PICK earlier : earlier = seen[t].status
        OBVIOUS
      <4>1. Had(a, earlier)
        BY <1>1, <3>3, BusyFacts DEF ThreadOK, PreviousOK
      <4>2. Had(a, earlier)' /\ earlier # new
        BY <1>4, <1>8, <4>1
      <4> QED
        BY <1>1, <3>1, <3>3, <4>2 DEF PreviousOK
    <3> QED
      BY <3>2, <3>3 DEF Changes
  <2> QED
    BY <2>1, <2>2, <2>3, <2>4 DEF ThreadOK
<1> QED
  BY <1>1, <1>5, <1>6, <1>9, <1>10, <1>11, ThreadsKeep DEF HistoryInv

(* The publication: what the thread was about to announce is announced or    *)
(* lost.                                                                    *)
LEMMA PublishKeeps ==
    ASSUME EInv, NEW t \in Threads, Publish(t), Stable
    PROVE  HistoryInv' /\ Kept
<1>t. TypeOK /\ ThreadOK(t) /\ pc[t] = "publish" /\ event[t] \in Event /\ Id(t) \in Actions
  BY ThreadFacts DEF EInv, IInv, TypeInv, HistoryInv, Publish
<1> PICK a \in Actions : a = Id(t)
  BY <1>t
<1> PICK status : status = event[t].status
  OBVIOUS
<1>1. /\ UNCHANGED <<store, request, seen, writes>> /\ pc' = [pc EXCEPT ![t] = "reply"]
      /\ \E fate \in {"published", "failed"} : event' = [event EXCEPT ![t].fate = fate]
      /\ reply' = reply \/ reply' = [reply EXCEPT ![t].reported = event[t].reports]
      /\ event' = [event EXCEPT ![t].fate = "failed"] =>
             reply' = [reply EXCEPT ![t].reported = event[t].reports]
      /\ \/ announced' = [announced EXCEPT ![a] = @ \cup {status}] /\ lost' = lost
         \/ lost' = [lost EXCEPT ![a] = @ \cup {status}] /\ announced' = announced
  BY <1>t DEF Publish, TypeOK, Event
<1>2. Alone(t) /\ pc'[t] = "reply" /\ Id(t)' = a /\ Current(t)' = Current(t)
  BY <1>1, <1>t DEF Alone, TypeOK, Id, Current
<1>3. ASSUME NEW u \in Threads \ {t}
      PROVE  pc'[u] = pc[u] /\ event'[u] = event[u] /\ Id(u)' = Id(u)
  BY <1>2 DEF Alone, Id
<1>4. /\ \A b \in Actions \ {a} : announced'[b] = announced[b] /\ lost'[b] = lost[b]
      /\ announced'[a] \cup lost'[a] = announced[a] \cup lost[a] \cup {status}
  BY <1>1, <1>t DEF TypeOK
<1>5. ASSUME NEW b \in Actions, NEW other PROVE Had(b, other)' <=> Had(b, other)
  BY <1>2, <1>3, <1>4, <1>t DEF Had
<1>6. Grows /\ Kept
  BY <1>1, <1>5 DEF Grows, Kept, SameScope
<1>7. ASSUME NEW b \in Actions PROVE HistoryOK(b)'
  <2> PICK current : current = store[b].status
    OBVIOUS
  <2>1. store'[b].status = current /\ (Had(b, current)' <=> Had(b, current)) /\ HistoryOK(b)
    BY <1>1, <1>5 DEF EInv, HistoryInv
  <2> QED
    BY <1>5, <2>1 DEF HistoryOK, Exists
<1>8. NoDuplicateEvents'
  <2> SUFFICES ASSUME NEW u \in Threads, pc'[u] = "publish"
               PROVE  /\ event'[u].status \notin announced'[Id(u)'] \cup lost'[Id(u)']
                      /\ \A v \in Threads \ {u} :
                             pc'[v] = "publish" /\ Id(v)' = Id(u)' => event'[v].status # event'[u].status
    BY DEF NoDuplicateEvents
  <2>1. u # t /\ pc[u] = "publish" /\ event'[u] = event[u] /\ Id(u)' = Id(u)
    BY <1>2, <1>3
  <2>2. /\ event[u].status \notin announced[Id(u)] \cup lost[Id(u)]
        /\ \A v \in Threads \ {u} :
               pc[v] = "publish" /\ Id(v) = Id(u) => event[v].status # event[u].status
    BY <2>1 DEF EInv, HistoryInv, NoDuplicateEvents
  <2>3. Id(u) \in Actions
    BY <2>1, ThreadFacts DEF EInv, IInv
  <2>4. event[u].status \notin announced'[Id(u)] \cup lost'[Id(u)]
    BY <1>4, <1>t, <2>1, <2>2, <2>3
  <2> QED
    BY <1>2, <1>3, <2>1, <2>2, <2>4
<1>9. ThreadOK(t)'
  <2>1. ScopeOK(t)' /\ PreviousOK(t)'
    BY <1>2 DEF ScopeOK, PreviousOK, Deciding, Applying
  <2>2. reply'[t].shown = reply[t].shown /\ reply'[t].code = reply[t].code
    BY <1>1, <1>t DEF TypeOK
  <2>3. ReplyOK(t)'
    BY <1>1, <1>2, <1>t, <2>2 DEF ThreadOK, ReplyOK, ShownOK, Owns, Id, Key
  <2>4. /\ event'[t].fate # "pending" /\ event'[t].status = event[t].status
        /\ event'[t].fate = "failed" => reply'[t].reported = event[t].reports
        /\ event[t].reports \/ event[t].status = "EXPIRED"
    <3>1. PICK fate \in {"published", "failed"} : event' = [event EXCEPT ![t].fate = fate]
      BY <1>1
    <3>2. event'[t].fate = fate /\ event'[t].status = event[t].status
      BY <3>1, <1>t DEF TypeOK, Event
    <3>3. event[t].reports \/ event[t].status = "EXPIRED"
      BY <1>t DEF ThreadOK, EventOK
    <3>4. fate = "failed" => reply'[t].reported = event[t].reports
      BY <1>1, <1>t, <3>1 DEF TypeOK
    <3> QED
      BY <3>2, <3>3, <3>4
  <2>5. EventOK(t)'
    BY <1>2, <2>4 DEF EventOK
  <2> QED
    BY <2>1, <2>3, <2>5 DEF ThreadOK
<1> QED
  BY <1>2, <1>6, <1>7, <1>8, <1>9, ThreadsKeep DEF HistoryInv

LEMMA RespondKeeps ==
    ASSUME EInv, NEW t \in Threads, Respond(t), Stable
    PROVE  HistoryInv' /\ Kept
<1>1. /\ Alone(t) /\ StoreKept /\ UNCHANGED <<announced, lost>>
      /\ pc[t] = "reply" /\ pc'[t] = "idle" /\ event'[t] = NoEvent /\ reply'[t] = NoReply
  BY DEF Respond, Alone, StoreKept, SameScope, external, EInv, IInv, TypeInv, TypeOK
<1>2. /\ Kept /\ Grows /\ NoDuplicateEvents'
      /\ \A a \in Actions : HistoryOK(a)'
  BY <1>1, QuietStep
<1>3. ThreadOK(t)'
  BY <1>1 DEF ThreadOK, ScopeOK, ReplyOK, EventOK, PreviousOK, Deciding, Applying, NoReply,
              EarlyFailures
<1> QED
  BY <1>1, <1>2, <1>3, ThreadsKeep DEF HistoryInv

LEMMA CrashKeeps ==
    ASSUME EInv, Crash
    PROVE  HistoryInv' /\ Kept
<1>1. /\ UNCHANGED <<store, writes, announced>>
      /\ \A t \in Threads : pc'[t] = "idle" /\ event'[t] = NoEvent /\ reply'[t] = NoReply
      /\ \A a \in Actions : lost'[a] = lost[a] \cup
             {event[t].status : t \in {u \in Threads : pc[u] = "publish" /\ Id(u) = a}}
  BY DEF Crash
<1>2. ASSUME NEW a \in Actions, NEW status PROVE Had(a, status)' <=> Had(a, status)
  BY <1>1 DEF Had
<1>3. ASSUME NEW a \in Actions PROVE HistoryOK(a)'
  <2> PICK current : current = store[a].status
    OBVIOUS
  <2>1. store'[a].status = current /\ (Had(a, current)' <=> Had(a, current)) /\ HistoryOK(a)
    BY <1>1, <1>2 DEF EInv, HistoryInv
  <2> QED
    BY <1>2, <2>1 DEF HistoryOK, Exists
<1>4. ASSUME NEW t \in Threads PROVE ThreadOK(t)'
  BY <1>1 DEF ThreadOK, ScopeOK, ReplyOK, EventOK, PreviousOK, Deciding, Applying, NoReply,
              EarlyFailures
<1>5. NoDuplicateEvents' /\ Kept
  BY <1>1 DEF NoDuplicateEvents, Kept, SameScope
<1> QED
  BY <1>3, <1>4, <1>5 DEF HistoryInv


-----------------------------------------------------------------------------
(* The inductive invariant.                                                 *)

LEMMA InitHistory == Init => HistoryInv
<1> SUFFICES ASSUME Init PROVE HistoryInv
  OBVIOUS
<1>1. \A t \in Threads : ThreadOK(t)
  BY DEF Init, ThreadOK, ScopeOK, ReplyOK, EventOK, PreviousOK, Deciding, Applying, NoReply,
         EarlyFailures
<1>2. ASSUME NEW a \in Actions PROVE HistoryOK(a)
  BY DEF Init, HistoryOK, Had, Absent, Exists
<1>3. NoDuplicateEvents
  BY DEF Init, NoDuplicateEvents
<1> QED
  BY <1>1, <1>2, <1>3 DEF HistoryInv

(* Every step of a thread keeps the scope of the stored actions.             *)
LEMMA FormsKeep ==
    ASSUME EInv, NEW t \in Threads,
           \/ Works(t) \/ Returns(t) \/ Changes(t)
           \/ \E r \in Requests : Takes(t, r)
    PROVE  Kept
<1>1. StoreKept => Kept
  BY DEF StoreKept, Kept, Exists
<1>2. ASSUME Changes(t) PROVE Kept
  <2>1. /\ pc[t] \in Busy /\ Follows(Current(t).status, event'[t].status)
        /\ store'[Id(t)].status = event'[t].status
        /\ Exists(Current(t)) => SameScope(Current(t), store'[Id(t)])
        /\ \A b \in Actions \ {Id(t)} : store'[b] = store[b]
    BY <1>2 DEF Changes
  <2>2. event'[t].status # "ABSENT" /\ Current(t) = store[Id(t)]
    BY <2>1, FollowsForward, BusyFacts
  <2> QED
    BY <2>1, <2>2 DEF Kept, Exists, SameScope
<1> QED
  BY <1>1, <1>2 DEF Works, Returns, Takes

LEMMA NextHistory ==
    ASSUME EInv, [Next]_vars
    PROVE  EInv' /\ Kept /\ Stable
<1>1. IInv' /\ Stable
  BY NextReservation, StepIsStable DEF EInv
<1> SUFFICES HistoryInv' /\ Kept
  BY <1>1 DEF EInv
<1>2. ASSUME NEW t \in Threads, Accept(t) PROVE HistoryInv' /\ Kept
  <2>1. PICK r \in Requests : Takes(t, r) \/ Returns(t)
    BY <1>2, AcceptForm DEF Accept
  <2> QED
    BY <1>1, <2>1, TakesKeeps, ReturnsKeeps, FormsKeep
<1>3. ASSUME NEW t \in Threads, Work(t) PROVE HistoryInv' /\ Kept
  <2>1. \/ Works(t) \/ Returns(t) \/ Changes(t)
        \/ Publish(t) \/ Respond(t)
    BY <1>3, WorkOutsideForm, WorkInsideForm DEF Work
  <2> QED
    BY <1>1, <2>1, WorksKeeps, ReturnsKeeps, ChangesKeeps, PublishKeeps, RespondKeeps, FormsKeep
<1>4. ASSUME NEW t \in Threads, Abort(t) PROVE HistoryInv' /\ Kept
  <2>1. pc[t] \in Busy
    BY <1>4 DEF Abort, Busy, EInv, IInv, TypeInv, TypeOK
  <2>2. StoreKept /\ Return(t, "INTERNAL_ERROR", {}) /\ request' = request /\ UNCHANGED external
    BY <1>4 DEF Abort, StoreKept, SameScope
  <2>3. Returns(t)
    BY <2>1, <2>2, ReturnForm DEF EarlyFailures
  <2> QED
    BY <1>1, <2>3, ReturnsKeeps, FormsKeep
<1>5. CASE Crash
  BY <1>5, CrashKeeps
<1>6. CASE Tick \/ UNCHANGED vars
  <2>1. UNCHANGED <<store, pc, request, seen, event, reply, writes, announced, lost>>
    BY <1>6 DEF Tick, vars, external
  <2>2. \A t \in Threads : ThreadOK(t)'
    BY <2>1 DEF EInv, HistoryInv, ThreadOK, ScopeOK, ReplyOK, EventOK, PreviousOK, ShownOK, Had,
                Id, Key, Current
  <2>3. \A a \in Actions : HistoryOK(a)'
    BY <2>1 DEF EInv, HistoryInv, HistoryOK, Had, Id
  <2>4. NoDuplicateEvents' /\ Kept
    BY <2>1 DEF EInv, HistoryInv, NoDuplicateEvents, Id, Kept, SameScope
  <2> QED
    BY <2>2, <2>3, <2>4 DEF HistoryInv
<1> QED
  BY <1>2, <1>3, <1>4, <1>5, <1>6 DEF Next

LEMMA HistoryHolds == Spec => []EInv
<1>1. Init => EInv
  BY InitTypeInv, InitReservation, InitHistory DEF EInv, IInv
<1>2. EInv /\ [Next]_vars => EInv'
  BY NextHistory
<1> QED
  BY <1>1, <1>2, PTL DEF Spec

-----------------------------------------------------------------------------
(* The theorems.                                                            *)

(* No step gives a stored action another owner, session, resource or expiry: *)
(* whoever reads it later is authorized against what was proposed           *)
(* (action_service.create_proposed_action, the stores' create).             *)
THEOREM ProposalsAreKept == Spec => ProposalIsKept
<1> DEFINE Stays(a) ==
      Exists(store[a]) =>
              /\ Exists(store'[a])
              /\ store'[a].user = store[a].user
              /\ store'[a].session = store[a].session
              /\ store'[a].resource = store[a].resource
              /\ store'[a].expiresAt = store[a].expiresAt
<1>1. ASSUME EInv, [Next]_vars PROVE \A a \in Actions : Stays(a)
  BY <1>1, NextHistory DEF Kept, SameScope
<1>2. EInv /\ [Next]_vars => [\A a \in Actions : Stays(a)]_vars
  BY <1>1
<1> QED
  BY <1>2, HistoryHolds, PTL DEF Spec, ProposalIsKept

(* A request shows, decides and applies only actions of its own user and     *)
(* session, and of its own resource where it decides                        *)
(* (_get_authorized_action, list_actions).                                  *)
THEOREM OnlyOwnActions == Spec => []OwnActionsOnly
<1>1. ASSUME EInv PROVE OwnActionsOnly
  <2>1. ASSUME NEW t \in Threads PROVE ScopeOK(t) /\ ReplyOK(t)
    BY <1>1 DEF EInv, HistoryInv, ThreadOK
  <2>2. ASSUME NEW t \in Threads, NEW shown \in reply[t].shown
        PROVE  Owns(request[t], store[shown.id])
    BY <2>1 DEF ReplyOK, ShownOK
  <2>3. Applying \cup {"expiry", "approve", "reject", "reserve"} \subseteq Deciding
    BY DEF Deciding
  <2> QED
    BY <2>1, <2>2, <2>3 DEF OwnActionsOnly, ScopeOK
<1> QED
  BY <1>1, HistoryHolds, PTL

(* A client is told APPLIED only of an action that is APPLIED and whose      *)
(* document was mutated once, whatever other requests did before the answer *)
(* (terminal_result, _complete_reserved_apply).                             *)
THEOREM SuccessIsTrue == Spec => []NoFalseSuccess
<1>1. ASSUME EInv PROVE NoFalseSuccess
  <2> SUFFICES ASSUME NEW t \in Threads, NEW shown \in reply[t].shown, shown.status = "APPLIED"
               PROVE  store[shown.id].status = "APPLIED" /\ writes[shown.id] = 1
    BY DEF NoFalseSuccess
  <2>1. ShownOK(request[t], shown)
    BY <1>1 DEF EInv, HistoryInv, ThreadOK, ReplyOK
  <2>2. shown.id \in Actions /\ store[shown.id].status = "APPLIED"
    BY <2>1 DEF ShownOK, Final, TerminalStatuses
  <2> QED
    BY <1>1, <2>2 DEF EInv, IInv, ReservationInv, RecordOK
<1> QED
  BY <1>1, HistoryHolds, PTL

(* The status an action is in has been announced, lost, or waits to be       *)
(* announced in the thread that set it (_publish_status_event).             *)
THEOREM NoSilentChange == Spec => []EveryChangeAnnounced
<1>1. EInv => EveryChangeAnnounced
  BY DEF EInv, HistoryInv, HistoryOK, Had, EveryChangeAnnounced
<1> QED
  BY <1>1, HistoryHolds, PTL

(* However many requests race to a transition, its event is published once   *)
(* (the stores' transition, reserve_apply and complete_apply).              *)
THEOREM EventsAreUnique == Spec => []NoDuplicateEvents
<1>1. EInv => NoDuplicateEvents
  BY DEF EInv, HistoryInv
<1> QED
  BY <1>1, HistoryHolds, PTL

(* The previous status an event names was read long before the change, but   *)
(* the action really had it (action_service.py:352).                        *)
THEOREM PreviousIsHistory == Spec => []PreviousStatusWasTrue
<1>1. ASSUME EInv PROVE PreviousStatusWasTrue
  <2> SUFFICES ASSUME NEW t \in Threads, pc[t] = "publish", event[t].previous # "NONE"
               PROVE  \/ event[t].previous \in announced[Id(t)] \cup lost[Id(t)]
                      \/ \E u \in Threads \ {t} : pc[u] = "publish" /\ Id(u) = Id(t)
                                                  /\ event[u].status = event[t].previous
    BY DEF PreviousStatusWasTrue
  <2>1. Had(Id(t), event[t].previous) /\ event[t].previous # event[t].status
    BY <1>1 DEF EInv, HistoryInv, ThreadOK, PreviousOK
  <2> QED
    BY <2>1 DEF Had
<1> QED
  BY <1>1, HistoryHolds, PTL

(* A publication that failed is reported with the answer, but for the expiry *)
(* path, which drops the failure (_publish_event, action_service.py:471).   *)
THEOREM LostEventsAreReported == Spec => []FailuresReported
<1>1. ASSUME EInv PROVE FailuresReported
  <2> SUFFICES ASSUME NEW t \in Threads, event[t].fate = "failed", event[t].status # "EXPIRED"
               PROVE  reply[t].reported
    BY DEF FailuresReported
  <2>1. EventOK(t)
    BY <1>1 DEF EInv, HistoryInv, ThreadOK
  <2>2. pc[t] = "reply"
    BY <2>1 DEF EventOK, NoEvent
  <2> QED
    BY <2>1, <2>2 DEF EventOK
<1> QED
  BY <1>1, HistoryHolds, PTL

=============================================================================
