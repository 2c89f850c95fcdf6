---------------------------- MODULE NastyClient ----------------------------
(***************************************************************************)
(* The transport core of client.go after NewClient has returned: callers   *)
(* in Call / callOnce, the reader goroutine readLoop with its reconnection *)
(* and reinitialization, Close, and the WebSocket links between the client *)
(* and the storage server.                                                 *)
(*                                                                         *)
(* A call is one invocation of Client.Call; its method matters only in     *)
(* being on the readOnlyRPC allowlist or not.  A link is one WebSocket     *)
(* connection, numbered in the order of dialling.  Every section of the    *)
(* code under c.mu is one step, as is every wait on a channel or a timer.  *)
(***************************************************************************)
EXTENDS Naturals, FiniteSets

CONSTANTS
    Calls,         \* the invocations of Client.Call
    ReadOnly,      \* those whose method readOnlyRPC accepts
    Cancellable,   \* those whose context may end
    ReplyKinds,    \* the kinds of reply the server sends
    MaxAttempts,   \* maxRetries of Call (3 in the code)
    MaxReconnects, \* Client.maxRetries (5 in the code)
    MaxLinks       \* bound: links ever dialled, the first one included

AllReplyKinds ==
    { "result",    \* a result that decodes
      "garbled",   \* a result json.Unmarshal cannot decode
      "error",     \* an API error
      "netError" } \* an API error whose text isConnectionError matches

ASSUME ClientAssumption ==
    /\ ReadOnly \subseteq Calls
    /\ Cancellable \subseteq Calls
    /\ ReplyKinds \subseteq AllReplyKinds
    /\ MaxAttempts \in Nat \ {0}
    /\ MaxReconnects \in Nat \ {0}
    /\ MaxLinks \in Nat \ {0}

VARIABLES
    closed,       \* Client.closed
    reconnecting, \* Client.reconnecting
    conn,         \* Client.conn: the number of the link it points to
    pending,      \* Client.pending: id -> the call waiting; link is history
    reqID,        \* Client.reqID
    closeCh,      \* TRUE once Client.closeCh is closed
    rl,           \* where the readLoop goroutine is
    via,          \* the function that dials: "reconnect" or "reinit"
    tries,        \* attempt of reconnect's loop
    pc,           \* where each caller is
    attempt,      \* attempt of Call's loop
    cancelled,    \* the calls whose context has ended
    chan,         \* respCh of each call's current attempt
    req,          \* id of each call's current attempt
    err,          \* what callOnce, and then Call, returned
    link,         \* the state of each WebSocket connection
    session,      \* what the server holds a link to be
    wire,         \* requests written and not yet handled by the server
    executed,     \* mutations the server has carried out
    replies,      \* replies sent and not yet read
    from,         \* history: the call the reply in chan answers
    sent,         \* history: writes of each call that may have arrived
    answers,      \* history: replies each call has received
    notified      \* history: links announced through notifyReconnect

clientVars == <<closed, reconnecting, conn, pending, reqID, closeCh>>
readerVars == <<rl, via, tries, notified>>
callerVars == <<pc, attempt, req, err, sent, answers>>
chanVars   == <<chan, from>>
linkVars   == <<link, session>>
serverVars == <<wire, executed, replies>>
vars == <<clientVars, readerVars, callerVars, cancelled, chanVars, linkVars,
          serverVars>>

Mutations == Calls \ ReadOnly
Links     == 1 .. MaxLinks
NoLink    == 0

(* The sessions in which the server carries requests out.  "misread": it    *)
(* accepted the token, but its answer does not parse or does not say so.    *)
Authenticated == {"authed", "misread"}

Entries == [id : Nat, call : Calls, link : Links]
Frames  == Entries
Answers == [id : Nat, call : Calls, link : Links, kind : ReplyKinds]

Outcomes == {"none", "ok", "apiError", "netError", "decodeErr", "ctxErr",
             "clientClosed", "connClosed", "ioErr", "uncertain"}

TypeOK ==
    /\ closed \in BOOLEAN /\ reconnecting \in BOOLEAN /\ closeCh \in BOOLEAN
    /\ conn \in Links
    /\ pending \subseteq Entries
    /\ reqID \in Nat
    /\ rl \in {"read", "lost", "purge", "backoff", "dial", "token", "confirm",
               "resume", "giveUp", "recheck", "exit", "signal", "done"}
    /\ via \in {"reconnect", "reinit"}
    /\ tries \in 1 .. MaxReconnects
    /\ pc \in [Calls -> {"idle", "attempt", "send", "wait", "decide",
                         "backoff", "returned"}]
    /\ attempt \in [Calls -> 1 .. MaxAttempts]
    /\ cancelled \subseteq Cancellable
    /\ chan \in [Calls -> {"none", "open", "closed"} \cup AllReplyKinds]
    /\ req \in [Calls -> Nat]
    /\ err \in [Calls -> Outcomes]
    /\ link \in [Links -> {"unused", "open", "down", "closed"}]
    /\ session \in [Links -> {"new", "rejected"} \cup Authenticated]
    /\ wire \subseteq Frames /\ executed \subseteq Frames
    /\ replies \subseteq Answers
    /\ from \in [Calls -> SUBSET Calls]
    /\ sent \in [Calls -> Nat]
    /\ answers \in [Calls -> Nat]
    /\ notified \subseteq Links

(* NewClient returns with one authenticated link and the reader started.   *)
Init ==
    /\ closed = FALSE /\ reconnecting = FALSE /\ closeCh = FALSE
    /\ conn = 1
    /\ pending = {}
    /\ reqID = 0
    /\ rl = "read" /\ via = "reconnect" /\ tries = 1 /\ notified = {}
    /\ pc = [c \in Calls |-> "idle"]
    /\ attempt = [c \in Calls |-> 1]
    /\ cancelled = {}
    /\ chan = [c \in Calls |-> "none"]
    /\ from = [c \in Calls |-> {}]
    /\ req = [c \in Calls |-> 0]
    /\ err = [c \in Calls |-> "none"]
    /\ sent = [c \in Calls |-> 0]
    /\ answers = [c \in Calls |-> 0]
    /\ link = [k \in Links |-> IF k = 1 THEN "open" ELSE "unused"]
    /\ session = [k \in Links |-> IF k = 1 THEN "authed" ELSE "new"]
    /\ wire = {} /\ executed = {} /\ replies = {}

(***************************************************************************)
(* Helpers.                                                                *)
(***************************************************************************)

(* A mutant: the error is handed on as it is. *)
UnwrappedOutcome(c, e) == e

(* rpcOutcomeError: past the write, a mutation's outcome is not known. *)
RpcOutcome(c, e) == IF c \in ReadOnly THEN e ELSE "uncertain"

(* isConnectionError: ErrConnectionClosed itself, or any text that reads   *)
(* like a broken connection, whoever wrote it.                             *)
IsConnectionError(e) == e \in {"connClosed", "netError"}

IsConnected == ~closed /\ ~reconnecting /\ conn # NoLink

(* conn.Close and CloseNow; what the peer had sent on it is never read. *)
LinkClosed(k) == [link EXCEPT ![k] = "closed"]
Discarded(k)  == {r \in replies : r.link # k}

(* A mutant: the map is replaced, the channels are left as they are. *)
ForgetPending == pending' = {} /\ UNCHANGED chan

(* close(ch) for every pending channel, then a new map. *)
DropPending ==
    /\ chan' = [c \in Calls |->
                  IF \E p \in pending : p.call = c THEN "closed" ELSE chan[c]]
    /\ pending' = {}

(***************************************************************************)
(* Callers: Call and callOnce.                                             *)
(***************************************************************************)

Goto(c, l) == pc' = [pc EXCEPT ![c] = l]

(* Leave callOnce with e; Call looks at it in Decide. *)
Leave(c, e) ==
    /\ Goto(c, "decide")
    /\ err' = [err EXCEPT ![c] = e]

Return(c, e) ==
    /\ Goto(c, "returned")
    /\ err' = [err EXCEPT ![c] = e]

Begin(c) ==
    /\ pc[c] = "idle"
    /\ Goto(c, "attempt")
    /\ UNCHANGED <<clientVars, readerVars, attempt, req, err, sent, answers,
                   cancelled, chanVars, linkVars, serverVars>>

(* callOnce: ctx.Err() before anything else. *)
CheckContext(c) ==
    /\ pc[c] = "attempt"
    /\ \/ c \in cancelled /\ Leave(c, "ctxErr")
       \/ c \notin cancelled /\ Goto(c, "send") /\ UNCHANGED err
    /\ UNCHANGED <<clientVars, readerVars, attempt, req, sent, answers,
                   cancelled, chanVars, linkVars, serverVars>>

(* callOnce refuses to write: nothing is registered, nothing is sent. *)
Refuse(c) ==
    /\ pc[c] = "send"
    /\ \/ closed /\ Leave(c, "clientClosed")
       \/ ~closed /\ (conn = NoLink \/ reconnecting) /\ Leave(c, "connClosed")
    /\ UNCHANGED <<clientVars, readerVars, attempt, req, sent, answers,
                   cancelled, chanVars, linkVars, serverVars>>

(* A mutant: ids count the requests in flight. *)
ReusedId == Cardinality(pending) + 1

(* atomic.AddUint64(&c.reqID, 1), formatted; 2^64 is out of reach. *)
FreshId == reqID + 1

NewFrame(c) == [id |-> FreshId, call |-> c, link |-> conn]

(* The server takes anything that precedes the token for a failed login. *)
Overtakes ==
    session' = IF session[conn] = "new"
               THEN [session EXCEPT ![conn] = "rejected"] ELSE session

(* Write returns nil: the frame is on the wire or lost with the link. *)
Write(c) ==
    /\ pc[c] = "send"
    /\ ~closed /\ ~reconnecting /\ conn # NoLink
    /\ link[conn] \in {"open", "down"}
    /\ reqID' = reqID + 1
    /\ pending' = pending \cup {NewFrame(c)}
    /\ chan' = [chan EXCEPT ![c] = "open"]
    /\ from' = [from EXCEPT ![c] = {}]
    /\ req' = [req EXCEPT ![c] = FreshId]
    /\ sent' = [sent EXCEPT ![c] = @ + 1]
    /\ Goto(c, "wait")
    /\ IF link[conn] = "open"
       THEN wire' = wire \cup {NewFrame(c)} /\ Overtakes
       ELSE UNCHANGED <<wire, session>>
    /\ UNCHANGED <<closed, reconnecting, conn, closeCh, readerVars, attempt,
                   err, answers, cancelled, link, executed, replies>>

(* Write returns an error: the library closes the link it failed on, and   *)
(* the peer may have received the frame all the same; or the link was gone *)
(* before; or the context ended before anything was written, which leaves  *)
(* the link as it is.  The entry made before the write is deleted again.   *)
WriteError(c) ==
    /\ pc[c] = "send"
    /\ ~closed /\ ~reconnecting /\ conn # NoLink
    /\ reqID' = reqID + 1
    /\ sent' = [sent EXCEPT ![c] = @ + 1]
    /\ \E e \in {"ioErr", "netError"} : Leave(c, RpcOutcome(c, e))
    /\ \/ /\ link' = LinkClosed(conn) /\ replies' = Discarded(conn)
          /\ \/ /\ link[conn] = "open"
                /\ wire' = wire \cup {NewFrame(c)} /\ Overtakes
             \/ UNCHANGED <<wire, session>>
       \/ /\ link[conn] # "open" \/ c \in cancelled
          /\ UNCHANGED <<linkVars, wire, replies>>
    /\ UNCHANGED <<closed, reconnecting, conn, pending, closeCh, readerVars,
                   attempt, req, answers, cancelled, chanVars, executed>>

(* callOnce's id and respCh go out of scope. *)
LeaveSelect(c) ==
    /\ chan' = [chan EXCEPT ![c] = "none"]
    /\ from' = [from EXCEPT ![c] = {}]
    /\ req' = [req EXCEPT ![c] = 0]

(* The select of callOnce; Go takes any ready case.                        *)
ReceiveReply(c) ==
    /\ pc[c] = "wait" /\ chan[c] \in AllReplyKinds
    /\ CASE chan[c] = "result"   -> Leave(c, "ok")
         [] chan[c] = "error"    -> Leave(c, "apiError")
         [] chan[c] = "netError" -> Leave(c, "netError")
         [] chan[c] = "garbled"  -> Leave(c, RpcOutcome(c, "decodeErr"))
    /\ answers' = [answers EXCEPT ![c] = @ + 1]
    /\ LeaveSelect(c)
    /\ UNCHANGED <<clientVars, readerVars, attempt, sent, cancelled,
                   linkVars, serverVars>>

ReceiveClosed(c) ==
    /\ pc[c] = "wait" /\ chan[c] = "closed"
    /\ Leave(c, RpcOutcome(c, "connClosed"))
    /\ LeaveSelect(c)
    /\ UNCHANGED <<clientVars, readerVars, attempt, sent, answers,
                   cancelled, linkVars, serverVars>>

(* A mutant: the select forgets the deferred delete. *)
NothingMine(c) == {}

Mine(c) == {p \in pending : p.id = req[c]}

(* A mutant: the select has no case for the context. *)
ContextIgnored(c) == FALSE

ContextDone(c) ==
    /\ pc[c] = "wait" /\ c \in cancelled
    /\ Leave(c, RpcOutcome(c, "ctxErr"))
    /\ pending' = pending \ Mine(c)
    /\ LeaveSelect(c)
    /\ UNCHANGED <<closed, reconnecting, conn, reqID, closeCh, readerVars,
                   attempt, sent, answers, cancelled, linkVars,
                   serverVars>>

ReceiveCloseCh(c) ==
    /\ pc[c] = "wait" /\ closeCh
    /\ Leave(c, RpcOutcome(c, "clientClosed"))
    /\ LeaveSelect(c)
    /\ UNCHANGED <<clientVars, readerVars, attempt, sent, answers,
                   cancelled, linkVars, serverVars>>

(* A mutant: an off-by-one in the bound of the loop. *)
MayRetryInclusive(c) == attempt[c] <= MaxAttempts

MayRetry(c) == attempt[c] < MaxAttempts

(* Call, after callOnce. *)
Decide(c) ==
    /\ pc[c] = "decide"
    /\ IF ~IsConnectionError(err[c])   THEN Return(c, err[c])
       ELSE IF c \in cancelled         THEN Return(c, "ctxErr")
       ELSE IF closed                  THEN Return(c, "clientClosed")
       ELSE IF MayRetry(c)
            THEN Goto(c, "backoff") /\ UNCHANGED err
            ELSE Return(c, err[c])
    /\ UNCHANGED <<clientVars, readerVars, attempt, req, sent, answers,
                   cancelled, chanVars, linkVars, serverVars>>

RetryAfterBackoff(c) ==
    /\ pc[c] = "backoff"
    /\ attempt' = [attempt EXCEPT ![c] = @ + 1]
    /\ Goto(c, "attempt")
    /\ UNCHANGED <<clientVars, readerVars, req, err, sent, answers, cancelled,
                   chanVars, linkVars, serverVars>>

AbandonBackoff(c) ==
    /\ pc[c] = "backoff"
    /\ \/ c \in cancelled /\ Return(c, "ctxErr")
       \/ closeCh /\ Return(c, "clientClosed")
    /\ UNCHANGED <<clientVars, readerVars, attempt, req, sent, answers,
                   cancelled, chanVars, linkVars, serverVars>>

CallStep(c) ==
    \/ CheckContext(c) \/ Refuse(c) \/ Write(c) \/ WriteError(c)
    \/ ReceiveReply(c) \/ ReceiveClosed(c) \/ ContextDone(c)
    \/ ReceiveCloseCh(c) \/ Decide(c) \/ RetryAfterBackoff(c)
    \/ AbandonBackoff(c)

(***************************************************************************)
(* The reader: readLoop, handleReadError, reconnect,                       *)
(* reinitializeConnection, connect, doAuth.                                *)
(***************************************************************************)

At(l, m) == rl = l /\ rl' = m

(* Read returns a message, and processResponse hands it to the caller that *)
(* has its id pending; nobody waits for it if there is none.               *)
ReadResponse ==
    /\ At("read", "read")
    /\ link[conn] \in {"open", "down"}
    /\ \E r \in {a \in replies : a.link = conn} :
         LET hit == {p \in pending : p.id = r.id} IN
         /\ replies' = replies \ {r}
         /\ pending' = pending \ hit
         /\ chan' = [c \in Calls |-> IF \E p \in hit : p.call = c
                                     THEN r.kind ELSE chan[c]]
         /\ from' = [c \in Calls |-> IF \E p \in hit : p.call = c
                                     THEN {r.call} ELSE from[c]]
    /\ UNCHANGED <<closed, reconnecting, conn, reqID, closeCh, via, tries,
                   notified, callerVars, cancelled, linkVars, wire, executed>>

ReadError ==
    /\ rl = "read"
    /\ link[conn] \in {"down", "closed"}
    /\ rl' = IF closed THEN "exit" ELSE "lost"
    /\ UNCHANGED <<clientVars, via, tries, notified, callerVars, cancelled,
                   chanVars, linkVars, serverVars>>

(* reconnect, first lock section. *)
StartReconnect ==
    /\ At("lost", "purge")
    /\ reconnecting' = TRUE
    /\ UNCHANGED <<closed, conn, pending, reqID, closeCh, via, tries, notified,
                   callerVars, cancelled, chanVars, linkVars, serverVars>>

FailPending ==
    /\ At("purge", "backoff")
    /\ DropPending
    /\ via' = "reconnect" /\ tries' = 1
    /\ UNCHANGED <<closed, reconnecting, conn, reqID, closeCh, notified,
                   callerVars, cancelled, from, linkVars, serverVars>>

(* The backoff ends by its timer, or by closeCh; then the old link is      *)
(* closed and the pending calls failed once more before dialling.          *)
BackoffEnds ==
    /\ rl = "backoff"
    /\ \E cause \in {"timer"} \cup (IF closeCh THEN {"closeCh"} ELSE {}) :
         IF cause = "timer"
         THEN /\ rl' = "dial"
              /\ link' = LinkClosed(conn) /\ replies' = Discarded(conn)
              /\ DropPending
         ELSE /\ rl' = "giveUp"
              /\ UNCHANGED <<link, replies, chan, pending>>
    /\ UNCHANGED <<closed, reconnecting, conn, reqID, closeCh, via, tries,
                   notified, callerVars, cancelled, from, session, wire,
                   executed>>

(* A failed connect or doAuth: the next attempt of reconnect, if any is    *)
(* left; reinitializeConnection returns to the read loop.                  *)
AttemptFails ==
    IF via = "reinit" THEN rl' = "read" /\ UNCHANGED tries
    ELSE IF tries < MaxReconnects THEN rl' = "backoff" /\ tries' = tries + 1
    ELSE rl' = "giveUp" /\ UNCHANGED tries

(* connect: a link that comes up after Close is closed at once. *)
DialFails ==
    /\ rl = "dial"
    /\ AttemptFails
    /\ UNCHANGED <<clientVars, via, notified, callerVars, cancelled, chanVars,
                   linkVars, serverVars>>

(* A mutant: connect does not look at closed again under the lock. *)
DialOvertakesClose ==
    /\ At("dial", "token")
    /\ conn < MaxLinks
    /\ conn' = conn + 1
    /\ link' = [link EXCEPT ![conn + 1] = "open"]
    /\ UNCHANGED <<closed, reconnecting, pending, reqID, closeCh, via, tries,
                   notified, callerVars, cancelled, chanVars, session,
                   serverVars>>

DialSucceeds ==
    /\ At("dial", "token")
    /\ ~closed
    /\ conn < MaxLinks
    /\ conn' = conn + 1
    /\ link' = [link EXCEPT ![conn + 1] = "open"]
    /\ UNCHANGED <<closed, reconnecting, pending, reqID, closeCh, via, tries,
                   notified, callerVars, cancelled, chanVars, session,
                   serverVars>>

(* doAuth writes the token; the server accepts it, intelligibly, or not. *)
SendToken ==
    /\ At("token", "confirm")
    /\ link[conn] = "open"
    /\ IF session[conn] = "new"
       THEN \E s \in Authenticated \cup {"rejected"} :
              session' = [session EXCEPT ![conn] = s]
       ELSE UNCHANGED session
    /\ UNCHANGED <<clientVars, via, tries, notified, callerVars, cancelled,
                   chanVars, link, serverVars>>

TokenFails ==
    /\ rl = "token"
    /\ link[conn] # "open"
    /\ AttemptFails
    /\ UNCHANGED <<clientVars, via, notified, callerVars, cancelled, chanVars,
                   linkVars, serverVars>>

(* A mutant: only reconnect tells the consumer. *)
AnnouncedByReconnect ==
    IF via = "reconnect" THEN notified \cup {conn} ELSE notified

(* notifyReconnect starts the callback for the link just authenticated. *)
Announced == notified \cup {conn}

(* doAuth reads the confirmation; notifyReconnect.  reconnect clears its   *)
(* flag only as it returns, in Resume.                                     *)
Confirmed ==
    /\ rl = "confirm"
    /\ session[conn] = "authed" /\ link[conn] # "closed"
    /\ notified' = Announced
    /\ rl' = IF via = "reconnect" THEN "resume" ELSE "read"
    /\ UNCHANGED <<clientVars, via, tries, callerVars, cancelled, chanVars,
                   linkVars, serverVars>>

Rejected ==
    /\ rl = "confirm"
    /\ session[conn] = "rejected" /\ link[conn] # "closed"
    /\ AttemptFails
    /\ UNCHANGED <<clientVars, via, notified, callerVars, cancelled, chanVars,
                   linkVars, serverVars>>

(* The answer does not parse, or it lacks "authenticated".  doAuth fails    *)
(* and leaves open a link whose requests the server carries out.            *)
Misread ==
    /\ rl = "confirm"
    /\ session[conn] = "misread" /\ link[conn] # "closed"
    /\ AttemptFails
    /\ UNCHANGED <<clientVars, via, notified, callerVars, cancelled, chanVars,
                   linkVars, serverVars>>

(* The answer does not come: the link broke, or ten seconds passed, and    *)
(* the library closes a link whose read timed out.                         *)
ConfirmFails ==
    /\ rl = "confirm"
    /\ link' = LinkClosed(conn) /\ replies' = Discarded(conn)
    /\ AttemptFails
    /\ UNCHANGED <<clientVars, via, notified, callerVars, cancelled, chanVars,
                   session, wire, executed>>

(* The deferred reset of reconnecting, after success and after failure. *)
Resume ==
    /\ At("resume", "read")
    /\ reconnecting' = FALSE
    /\ UNCHANGED <<closed, conn, pending, reqID, closeCh, via, tries, notified,
                   callerVars, cancelled, chanVars, linkVars, serverVars>>

GiveUp ==
    /\ At("giveUp", "recheck")
    /\ reconnecting' = FALSE
    /\ UNCHANGED <<closed, conn, pending, reqID, closeCh, via, tries, notified,
                   callerVars, cancelled, chanVars, linkVars, serverVars>>

(* A mutant: five failed attempts end the client. *)
AfterFailedReconnectExit == "exit"

(* handleReadError's second look at closed. *)
AfterFailedReconnect == IF closed THEN "exit" ELSE "dial"

(* handleReadError after reconnect failed: stop if the client was closed,  *)
(* else reinitializeConnection, which sleeps and dials.                    *)
Recheck ==
    /\ rl = "recheck"
    /\ rl' = AfterFailedReconnect
    /\ via' = "reinit"
    /\ UNCHANGED <<clientVars, tries, notified, callerVars, cancelled,
                   chanVars, linkVars, serverVars>>

(* cleanupReadLoop: the lock section, then close(closeCh). *)
Cleanup ==
    /\ At("exit", "signal")
    /\ closed' = TRUE
    /\ DropPending
    /\ UNCHANGED <<reconnecting, conn, reqID, closeCh, via, tries, notified,
                   callerVars, cancelled, from, linkVars, serverVars>>

SignalClosed ==
    /\ At("signal", "done")
    /\ closeCh' = TRUE
    /\ UNCHANGED <<closed, reconnecting, conn, pending, reqID, via, tries,
                   notified, callerVars, cancelled, chanVars, linkVars,
                   serverVars>>

ReaderStep ==
    \/ ReadResponse \/ ReadError
    \/ StartReconnect \/ FailPending \/ BackoffEnds
    \/ DialFails \/ DialSucceeds
    \/ SendToken \/ TokenFails
    \/ Confirmed \/ Rejected \/ Misread \/ ConfirmFails
    \/ Resume \/ GiveUp \/ Recheck
    \/ Cleanup \/ SignalClosed

(***************************************************************************)
(* Close, and everything around the client.                                *)
(***************************************************************************)

(* A mutant: Close leaves the connection as it is. *)
CloseFlagOnly ==
    /\ ~closed
    /\ closed' = TRUE
    /\ UNCHANGED <<reconnecting, conn, pending, reqID, closeCh, readerVars,
                   callerVars, cancelled, chanVars, linkVars, serverVars>>

Close ==
    /\ ~closed
    /\ closed' = TRUE
    /\ link' = LinkClosed(conn) /\ replies' = Discarded(conn)
    /\ UNCHANGED <<reconnecting, conn, pending, reqID, closeCh, readerVars,
                   callerVars, cancelled, chanVars, session, wire, executed>>

Cancel(c) ==
    /\ pc[c] # "returned"
    /\ c \notin cancelled
    /\ cancelled' = cancelled \cup {c}
    /\ UNCHANGED <<clientVars, readerVars, callerVars, chanVars, linkVars,
                   serverVars>>

(* The link breaks, or the peer closes it. *)
LinkDrop(k) ==
    /\ link[k] = "open"
    /\ link' = [link EXCEPT ![k] = "down"]
    /\ UNCHANGED <<clientVars, readerVars, callerVars, cancelled, chanVars,
                   session, serverVars>>

(* pingLoop closes a connection it captured, which may be an old one. *)
KeepaliveCloses(k) ==
    /\ link[k] \in {"open", "down"}
    /\ link' = LinkClosed(k) /\ replies' = Discarded(k)
    /\ UNCHANGED <<clientVars, readerVars, callerVars, cancelled, chanVars,
                   session, wire, executed>>

ReplyTo(f, kind) == [id |-> f.id, call |-> f.call, link |-> f.link,
                     kind |-> kind]

(* The server handles a request, at any time, even after the link is gone. *)
(* Only an authenticated link has its requests carried out; the answer can *)
(* be missing.                                                             *)
Serve(f) ==
    /\ wire' = wire \ {f}
    /\ LET served == session[f.link] \in Authenticated
           kinds  == ReplyKinds \cap (IF served THEN AllReplyKinds
                                                ELSE {"error"})
       IN  /\ executed' = IF served /\ f.call \in Mutations
                         THEN executed \cup {f} ELSE executed
           /\ \/ UNCHANGED replies
              \/ /\ link[f.link] = "open"
                 /\ \E kind \in kinds :
                      replies' = replies \cup {ReplyTo(f, kind)}
    /\ UNCHANGED <<clientVars, readerVars, callerVars, cancelled, chanVars,
                   linkVars>>

Environment ==
    \/ \E c \in Calls : Begin(c)
    \/ \E c \in Cancellable : Cancel(c)
    \/ \E k \in Links : LinkDrop(k) \/ KeepaliveCloses(k)
    \/ \E f \in wire : Serve(f)
    \/ Close

(* The goroutines are gone and nobody is waiting. *)
Terminated ==
    /\ rl = "done"
    /\ \A c \in Calls : pc[c] = "returned"
    /\ UNCHANGED vars

Next == \/ \E c \in Calls : CallStep(c)
        \/ ReaderStep
        \/ Environment
        \/ Terminated

Spec == Init /\ [][Next]_vars

(* The Go scheduler runs every goroutine that can run, timers fire, and no *)
(* dial, read or write of a link lasts longer than its timeout.            *)
Fairness == /\ WF_vars(ReaderStep)
            /\ \A c \in Calls : WF_vars(CallStep(c))

FairSpec == Spec /\ Fairness

(***************************************************************************)
(* Properties.                                                             *)
(***************************************************************************)

(* README "Retry safety": a mutation that may have reached the server is   *)
(* never written again until its answer has come back (Call, callOnce and  *)
(* rpcOutcomeError with every way a link can be lost).                     *)
LostMutationNotReplayed ==
    \A c \in Mutations : sent[c] <= answers[c] + 1

(* README "Retry safety": an API error is definitive, so a mutation is     *)
(* written at most once whatever the server answers.                       *)
MutationSentOnce == \A c \in Mutations : sent[c] <= 1

(* A mutation that returns anything but ErrUncertainOutcome has no delayed *)
(* effect: none of its requests is still to be handled, and an error other *)
(* than the server's own means that every request it wrote was answered.   *)
CertainOutcome ==
    \A c \in Mutations :
        (pc[c] = "returned" /\ err[c] # "uncertain") =>
            /\ \A f \in wire : f.call # c
            /\ sent[c] = answers[c]

(* processResponse never gives a caller the reply to another request, late *)
(* and reordered replies and retried calls included.                       *)
AnswerIsOwn ==
    \A c \in Calls :
        (pc[c] = "wait" /\ chan[c] \in AllReplyKinds) => from[c] = {c}

(* Every channel registered in pending is open and its caller is waiting   *)
(* on it: processResponse and the purges never send on or close a closed   *)
(* channel, which would panic, and no abandoned entry is left behind.      *)
PendingChannelsOpen ==
    \A p \in pending : /\ pc[p.call] = "wait"
                       /\ req[p.call] = p.id
                       /\ chan[p.call] = "open"

(* A caller in callOnce's select can be woken: its entry is registered, or *)
(* its channel is ready, or closeCh will be; no purge forgets it.          *)
NoLostWakeup ==
    \A c \in Calls :
        (pc[c] = "wait" /\ chan[c] = "open") =>
            \E p \in pending : p.call = c /\ p.id = req[c]

(* The read loop ends only because the client was closed: no sequence of   *)
(* lost links and failed or rejected attempts stops it.                    *)
NeverGivesUp == rl \in {"exit", "signal", "done"} => closed

(* An open link that the reader comes back to was announced to the         *)
(* consumer (SetOnReconnect's promise, on both ways back), unless          *)
(* reinitializeConnection gave up on a link whose answer to the token was  *)
(* a rejection or could not be read: the one case in which readLoop reads  *)
(* a link, perhaps an authenticated one, that nobody was told of.          *)
ReconnectAnnounced ==
    (rl = "read" /\ conn > 1 /\ link[conn] = "open") =>
        \/ conn \in notified
        \/ via = "reinit" /\ session[conn] \in {"rejected", "misread"}

(* Every open link is the one conn points to, of a client that is not      *)
(* closed: Close reaches a link whose dial it overtook, and no link is     *)
(* replaced while it is in use.  The exception is a link of reconnect's    *)
(* last attempt that could not be authenticated, which                     *)
(* reinitializeConnection replaces without closing it.                     *)
OpenLinksAreHeld ==
    \A k \in Links : link[k] = "open" =>
        IF k = conn THEN ~closed ELSE session[k] \in {"rejected", "misread"}

(* Close stops the reader goroutine, wherever it is in reconnecting.       *)
CloseStopsReader == closed ~> rl = "done"

(* Close releases every call, whatever it waits for.                       *)
CloseReleasesCalls ==
    \A c \in Calls : (closed /\ pc[c] # "idle") ~> pc[c] = "returned"

(* A call whose context ends returns, whatever the server and reader do.   *)
CancelReleasesCalls ==
    \A c \in Calls : (c \in cancelled /\ pc[c] # "idle") ~> pc[c] = "returned"

(***************************************************************************)
(* What comments of the code say and the code does not do.                 *)
(***************************************************************************)

(* client.go:632-633: responses are lost with the connection, so the calls *)
(* waiting for them are told: a call waits only on the current link.       *)
PendingOnCurrentLink == \A p \in pending : p.link = conn

(* client.go:309: authenticate sends the token and waits for NASty's       *)
(* confirmation, so requests are written only on an authenticated link.    *)
RequestsFollowToken ==
    [][\A f \in wire' \ wire : session[f.link] \in Authenticated]_vars

=============================================================================
