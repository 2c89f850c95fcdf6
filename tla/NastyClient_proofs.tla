------------------------- MODULE NastyClient_proofs -------------------------
(***************************************************************************)
(* Theorems about NastyClient, for every set of calls, every allowlist and *)
(* every bound.                                                            *)
(***************************************************************************)
EXTENDS ClientInvariant, TLAPS

(***************************************************************************)
(* Type correctness.                                                       *)
(***************************************************************************)

LEMMA RpcOutcomeType ==
    ASSUME NEW c \in Calls, NEW e \in Outcomes
    PROVE  RpcOutcome(c, e) \in Outcomes
BY DEF RpcOutcome, Outcomes

(* A caller backs off only while it has attempts left. *)
AttemptsLeft == \A c \in Calls : pc[c] = "backoff" => attempt[c] < MaxAttempts

TypeInv == TypeOK /\ AttemptsLeft

LEMMA TypeInit == Init => TypeInv
<1> SUFFICES ASSUME Init PROVE TypeInv
  OBVIOUS
<1> USE ClientAssumption DEF ClientAssumption, Init
<1>1. /\ closed \in BOOLEAN /\ reconnecting \in BOOLEAN /\ closeCh \in BOOLEAN
  OBVIOUS
<1>2. conn \in Links /\ reqID \in Nat /\ tries \in 1 .. MaxReconnects
  <2>1. conn = 1 /\ reqID = 0 /\ tries = 1
    OBVIOUS
  <2>. QED
    BY <2>1, ClientAssumption DEF ClientAssumption, Links
<1>3. /\ pending \subseteq Entries /\ notified \subseteq Links
      /\ cancelled \subseteq Cancellable
      /\ wire \subseteq Frames /\ executed \subseteq Frames
      /\ replies \subseteq Answers
  OBVIOUS
<1>4. /\ attempt \in [Calls -> 1 .. MaxAttempts]
      /\ chan \in [Calls -> {"none", "open", "closed"} \cup AllReplyKinds]
      /\ err \in [Calls -> Outcomes]
      /\ req \in [Calls -> Nat] /\ sent \in [Calls -> Nat]
      /\ answers \in [Calls -> Nat]
      /\ from \in [Calls -> SUBSET Calls]
  BY DEF Outcomes
<1>5. /\ link \in [Links -> {"unused", "open", "down", "closed"}]
      /\ session \in [Links -> {"new", "rejected"} \cup Authenticated]
  BY DEF Authenticated
<1>. QED
  BY <1>1, <1>2, <1>3, <1>4, <1>5 DEF TypeInv, TypeOK, AttemptsLeft

LEMMA TypeCallStep ==
    ASSUME TypeInv, NEW c \in Calls, CallStep(c)
    PROVE  TypeInv'
<1> USE ClientAssumption
    DEF ClientAssumption, TypeInv, TypeOK, AttemptsLeft, clientVars,
        readerVars, callerVars, chanVars, linkVars,
        serverVars, Goto, Leave, Return
<1>1. CASE CheckContext(c)
  BY <1>1 DEF CheckContext, Outcomes
<1>2. CASE Refuse(c)
  BY <1>2 DEF Refuse, Outcomes
<1>3. CASE Write(c)
  <2>1. NewFrame(c) \in Entries
    BY DEF NewFrame, FreshId, Entries
  <2>2. /\ pending' \subseteq Entries
        /\ wire' \subseteq Frames
    BY <1>3, <2>1 DEF Write, Frames
  <2>3. /\ session' \in [Links -> {"new", "rejected"} \cup Authenticated]
        /\ reqID' \in Nat
        /\ req' \in [Calls -> Nat]
        /\ sent' \in [Calls -> Nat]
    BY <1>3 DEF Write, Overtakes, FreshId
  <2>. QED
    BY <1>3, <2>2, <2>3 DEF Write, AllReplyKinds
<1>4. CASE WriteError(c)
  <2>1. NewFrame(c) \in Entries
    BY DEF NewFrame, FreshId, Entries
  <2>2. wire' \subseteq Frames /\ replies' \subseteq Answers
    BY <1>4, <2>1 DEF WriteError, Frames, Discarded
  <2>3. /\ session' \in [Links -> {"new", "rejected"} \cup Authenticated]
        /\ link' \in [Links -> {"unused", "open", "down", "closed"}]
        /\ reqID' \in Nat
        /\ sent' \in [Calls -> Nat]
    BY <1>4 DEF WriteError, Overtakes, LinkClosed, FreshId
  <2>4. err' \in [Calls -> Outcomes]
    <3>1. PICK e \in {"ioErr", "netError"} : Leave(c, RpcOutcome(c, e))
      BY <1>4 DEF WriteError
    <3>2. RpcOutcome(c, e) \in Outcomes
      BY RpcOutcomeType DEF Outcomes
    <3>. QED
      BY <3>1, <3>2
  <2>5. pc' \in [Calls -> {"idle", "attempt", "send", "wait", "decide",
                           "backoff", "returned"}]
    BY <1>4 DEF WriteError
  <2>. QED
    BY <1>4, <2>2, <2>3, <2>4, <2>5 DEF WriteError
<1>5. CASE ReceiveReply(c)
  <2>1. PICK e \in Outcomes : Leave(c, e)
    BY <1>5, RpcOutcomeType DEF ReceiveReply, AllReplyKinds, Outcomes
  <2>. QED
    BY <1>5, <2>1 DEF ReceiveReply, LeaveSelect
<1>6. CASE ReceiveClosed(c)
  BY <1>6, RpcOutcomeType DEF ReceiveClosed, LeaveSelect, Outcomes
<1>7. CASE ContextDone(c)
  BY <1>7, RpcOutcomeType DEF ContextDone, LeaveSelect, Outcomes
<1>8. CASE ReceiveCloseCh(c)
  BY <1>8, RpcOutcomeType DEF ReceiveCloseCh, LeaveSelect, Outcomes
<1>9. CASE Decide(c)
  BY <1>9 DEF Decide, MayRetry, Outcomes
<1>10. CASE RetryAfterBackoff(c)
  BY <1>10 DEF RetryAfterBackoff
<1>11. CASE AbandonBackoff(c)
  BY <1>11 DEF AbandonBackoff, Outcomes
<1>. QED
  BY <1>1, <1>2, <1>3, <1>4, <1>5, <1>6, <1>7, <1>8, <1>9, <1>10, <1>11
  DEF CallStep

LEMMA DropPendingType ==
    ASSUME TypeOK, DropPending
    PROVE  /\ chan' \in [Calls -> {"none", "open", "closed"} \cup AllReplyKinds]
           /\ pending' = {}
BY DEF TypeOK, DropPending

LEMMA LinkClosedType ==
    ASSUME TypeOK, NEW k \in Links
    PROVE  /\ LinkClosed(k) \in [Links -> {"unused", "open", "down", "closed"}]
           /\ Discarded(k) \subseteq Answers
BY DEF TypeOK, LinkClosed, Discarded

LEMMA AttemptFailsType ==
    ASSUME TypeOK, AttemptFails
    PROVE  /\ rl' \in {"read", "backoff", "giveUp"}
           /\ tries' \in 1 .. MaxReconnects
BY ClientAssumption DEF ClientAssumption, TypeOK, AttemptFails

LEMMA TypeReaderStep ==
    ASSUME TypeInv, ReaderStep
    PROVE  TypeInv'
<1> USE ClientAssumption
    DEF ClientAssumption, TypeInv, TypeOK, AttemptsLeft, clientVars,
        readerVars, callerVars, chanVars, linkVars, serverVars, At
<1>1. CASE ReadResponse
  <2>1. PICK r \in replies :
          LET hit == {p \in pending : p.id = r.id} IN
          /\ replies' = replies \ {r}
          /\ pending' = pending \ hit
          /\ chan' = [c \in Calls |-> IF \E p \in hit : p.call = c
                                      THEN r.kind ELSE chan[c]]
          /\ from' = [c \in Calls |-> IF \E p \in hit : p.call = c
                                      THEN {r.call} ELSE from[c]]
    BY <1>1 DEF ReadResponse
  <2>2. r.kind \in AllReplyKinds /\ r.call \in Calls
    BY DEF Answers
  <2>3. /\ chan' \in [Calls -> {"none", "open", "closed"} \cup AllReplyKinds]
        /\ from' \in [Calls -> SUBSET Calls]
    BY <2>1, <2>2
  <2>. QED
    BY <1>1, <2>1, <2>3 DEF ReadResponse
<1>2. CASE ReadError
  BY <1>2 DEF ReadError
<1>3. CASE StartReconnect
  BY <1>3 DEF StartReconnect
<1>4. CASE FailPending
  BY <1>4, DropPendingType DEF FailPending
<1>5. CASE BackoffEnds
  BY <1>5, DropPendingType, LinkClosedType DEF BackoffEnds
<1>6. CASE DialFails
  BY <1>6, AttemptFailsType DEF DialFails
<1>7. CASE DialSucceeds
  BY <1>7 DEF DialSucceeds, Links
<1>8. CASE SendToken
  BY <1>8 DEF SendToken
<1>9. CASE TokenFails
  BY <1>9, AttemptFailsType DEF TokenFails
<1>10. CASE Confirmed
  BY <1>10 DEF Confirmed, Announced
<1>11. CASE Rejected \/ Misread
  BY <1>11, AttemptFailsType DEF Rejected, Misread
<1>12. CASE ConfirmFails
  BY <1>12, AttemptFailsType, LinkClosedType DEF ConfirmFails
<1>13. CASE Resume
  BY <1>13 DEF Resume
<1>14. CASE GiveUp
  BY <1>14 DEF GiveUp
<1>15. CASE Recheck
  BY <1>15 DEF Recheck, AfterFailedReconnect
<1>16. CASE Cleanup
  BY <1>16, DropPendingType DEF Cleanup
<1>17. CASE SignalClosed
  BY <1>17 DEF SignalClosed
<1>. QED
  BY <1>1, <1>2, <1>3, <1>4, <1>5, <1>6, <1>7, <1>8, <1>9, <1>10, <1>11,
     <1>12, <1>13, <1>14, <1>15, <1>16, <1>17
  DEF ReaderStep

LEMMA TypeEnvironment ==
    ASSUME TypeInv, Environment
    PROVE  TypeInv'
<1> USE ClientAssumption
    DEF ClientAssumption, TypeInv, TypeOK, AttemptsLeft, clientVars,
        readerVars, callerVars, chanVars, linkVars, serverVars
<1>1. CASE \E c \in Calls : Begin(c)
  BY <1>1 DEF Begin, Goto
<1>2. CASE \E c \in Cancellable : Cancel(c)
  BY <1>2 DEF Cancel
<1>3. CASE \E k \in Links : LinkDrop(k)
  BY <1>3 DEF LinkDrop
<1>4. CASE \E k \in Links : KeepaliveCloses(k)
  BY <1>4, LinkClosedType DEF KeepaliveCloses
<1>5. CASE \E f \in wire : Serve(f)
  <2>1. PICK f \in wire : Serve(f)
    BY <1>5
  <2>2. \A kind \in ReplyKinds : ReplyTo(f, kind) \in Answers
    BY DEF ReplyTo, Frames, Entries, Answers
  <2>3. replies' \subseteq Answers
    BY <2>1, <2>2 DEF Serve
  <2>. QED
    BY <2>1, <2>3 DEF Serve
<1>6. CASE Close
  BY <1>6, LinkClosedType DEF Close
<1>. QED
  BY <1>1, <1>2, <1>3, <1>4, <1>5, <1>6 DEF Environment

LEMMA TypeStutter == TypeInv /\ UNCHANGED vars => TypeInv'
BY DEF TypeInv, TypeOK, AttemptsLeft, vars, clientVars, readerVars, callerVars,
       chanVars, linkVars, serverVars

(* TypeOK holds in every state the client reaches, for every set of calls, *)
(* allowlist and bound.                                                    *)
THEOREM TypeCorrect == Spec => []TypeOK
<1>1. TypeInv /\ [Next]_vars => TypeInv'
  BY TypeCallStep, TypeReaderStep, TypeEnvironment, TypeStutter
  DEF Next, Terminated
<1>2. TypeInv => TypeOK
  BY DEF TypeInv
<1>. QED
  BY TypeInit, <1>1, <1>2, PTL DEF Spec

(***************************************************************************)
(* Ids.                                                                    *)
(***************************************************************************)

(* A step issues no id, and moves entries, requests and replies along. *)
MovesAlong ==
    /\ reqID' = reqID
    /\ pending' \subseteq pending
    /\ wire' \subseteq wire
    /\ \A r \in replies' : \/ r \in replies
                           \/ \E f \in wire : r.id = f.id /\ r.call = f.call

(* A step issues the next id to one call. *)
Issues(c) ==
    /\ reqID' = reqID + 1
    /\ pending' \subseteq pending \cup {NewFrame(c)}
    /\ wire' \subseteq wire \cup {NewFrame(c)}
    /\ replies' \subseteq replies

LEMMA StepsIssueOrMove ==
    ASSUME TypeInv, [Next]_vars
    PROVE  MovesAlong \/ \E c \in Calls : Issues(c)
<1> USE DEF clientVars, readerVars, callerVars, chanVars, linkVars, serverVars
<1>1. ASSUME NEW c \in Calls, CallStep(c)
      PROVE  MovesAlong \/ Issues(c)
  <2>1. CASE Write(c)
    BY <2>1 DEF Write, Issues, FreshId
  <2>2. CASE WriteError(c)
    BY <2>2 DEF WriteError, Issues, FreshId, Discarded
  <2>3. CASE ContextDone(c)
    BY <2>3 DEF ContextDone, MovesAlong
  <2>4. CASE CheckContext(c) \/ Refuse(c) \/ Decide(c)
    BY <2>4 DEF CheckContext, Refuse, Decide, MovesAlong
  <2>5. CASE RetryAfterBackoff(c) \/ AbandonBackoff(c)
    BY <2>5 DEF RetryAfterBackoff, AbandonBackoff, MovesAlong
  <2>6. CASE ReceiveReply(c) \/ ReceiveClosed(c) \/ ReceiveCloseCh(c)
    BY <2>6 DEF ReceiveReply, ReceiveClosed, ReceiveCloseCh, MovesAlong
  <2>. QED
    BY <1>1, <2>1, <2>2, <2>3, <2>4, <2>5, <2>6 DEF CallStep
<1>2. CASE ReaderStep
  <2>1. CASE ReadResponse
    BY <2>1 DEF ReadResponse, MovesAlong
  <2>2. CASE FailPending \/ BackoffEnds \/ Cleanup
    BY <2>2 DEF FailPending, BackoffEnds, Cleanup, DropPending, Discarded,
                MovesAlong
  <2>3. CASE ConfirmFails
    BY <2>3 DEF ConfirmFails, Discarded, MovesAlong
  <2>4. CASE ReadError \/ StartReconnect \/ DialFails \/ DialSucceeds
    BY <2>4 DEF ReadError, StartReconnect, DialFails, DialSucceeds, MovesAlong
  <2>5. CASE SendToken \/ TokenFails \/ Confirmed \/ Rejected \/ Misread
    BY <2>5 DEF SendToken, TokenFails, Confirmed, Rejected, Misread, MovesAlong
  <2>6. CASE Resume \/ GiveUp \/ Recheck \/ SignalClosed
    BY <2>6 DEF Resume, GiveUp, Recheck, SignalClosed, MovesAlong
  <2>. QED
    BY <1>2, <2>1, <2>2, <2>3, <2>4, <2>5, <2>6 DEF ReaderStep
<1>3. CASE Environment
  <2>1. CASE \E f \in wire : Serve(f)
    BY <2>1 DEF Serve, ReplyTo, MovesAlong
  <2>2. CASE \E c \in Calls : Begin(c)
    BY <2>2 DEF Begin, MovesAlong
  <2>3. CASE \E c \in Cancellable : Cancel(c)
    BY <2>3 DEF Cancel, MovesAlong
  <2>4. CASE \E k \in Links : LinkDrop(k) \/ KeepaliveCloses(k)
    BY <2>4 DEF LinkDrop, KeepaliveCloses, Discarded, MovesAlong
  <2>5. CASE Close
    BY <2>5 DEF Close, Discarded, MovesAlong
  <2>. QED
    BY <1>3, <2>1, <2>2, <2>3, <2>4, <2>5 DEF Environment
<1>4. CASE UNCHANGED vars
  BY <1>4 DEF vars, MovesAlong
<1>. QED
  BY <1>1, <1>2, <1>3, <1>4 DEF Next, Terminated

LEMMA IdsStep ==
    ASSUME TypeInv, IdsIssued, IdsNameCalls, [Next]_vars
    PROVE  IdsIssued' /\ IdsNameCalls'
<1>1. CASE MovesAlong
  BY <1>1 DEF MovesAlong, IdsIssued, IdsNameCalls
<1>2. ASSUME NEW c \in Calls, Issues(c)
      PROVE  IdsIssued' /\ IdsNameCalls'
  <2>1. /\ \A p \in pending : p.id \in Nat
        /\ \A f \in wire    : f.id \in Nat
        /\ \A r \in replies : r.id \in Nat
        /\ reqID \in Nat
    BY DEF TypeInv, TypeOK, Entries, Frames, Answers
  <2>2. NewFrame(c).id = reqID + 1 /\ NewFrame(c).call = c
    BY DEF NewFrame, FreshId
  <2>3. IdsIssued'
    BY <1>2, <2>1, <2>2 DEF Issues, IdsIssued
  <2>4. IdsNameCalls'
    BY <1>2, <2>1, <2>2 DEF Issues, IdsIssued, IdsNameCalls
  <2>. QED
    BY <2>3, <2>4
<1>. QED
  BY <1>1, <1>2, StepsIssueOrMove

(***************************************************************************)
(* Answers reach the call they are for.                                    *)
(***************************************************************************)

(* A step leaves caller d where it is; at most its channel is closed, and  *)
(* its requests and replies in flight may be lost.                         *)
Undisturbed(d) ==
    /\ pc'[d] = pc[d] /\ err'[d] = err[d] /\ attempt'[d] = attempt[d]
    /\ sent'[d] = sent[d] /\ answers'[d] = answers[d]
    /\ chan'[d] \in {chan[d], "closed"} /\ from'[d] = from[d]
    /\ \A f \in wire'    : f.call = d => f \in wire
    /\ \A r \in replies' : r.call = d => r \in replies

LEMMA OthersUndisturbed ==
    ASSUME TypeInv, NEW c \in Calls, CallStep(c), NEW d \in Calls, d # c
    PROVE  Undisturbed(d)
<1> USE DEF TypeInv, TypeOK, clientVars, readerVars, callerVars, chanVars,
            linkVars, serverVars, Goto, Leave, Return, LeaveSelect, Undisturbed
<1>1. CASE Write(c)
  <2>1. \A f \in wire' : f.call = d => f \in wire
    BY <1>1 DEF Write, NewFrame
  <2>. QED
    BY <1>1, <2>1 DEF Write
<1>2. CASE WriteError(c)
  <2>1. \A f \in wire' : f.call = d => f \in wire
    BY <1>2 DEF WriteError, NewFrame
  <2>2. replies' \subseteq replies
    BY <1>2 DEF WriteError, Discarded
  <2>3. PICK e : Leave(c, e)
    BY <1>2 DEF WriteError
  <2>. QED
    BY <1>2, <2>1, <2>2, <2>3 DEF WriteError
<1>3. CASE CheckContext(c) \/ Refuse(c) \/ Decide(c)
  BY <1>3 DEF CheckContext, Refuse, Decide
<1>4. CASE RetryAfterBackoff(c) \/ AbandonBackoff(c)
  BY <1>4 DEF RetryAfterBackoff, AbandonBackoff
<1>5. CASE ReceiveReply(c)
  <2>1. PICK e : Leave(c, e)
    BY <1>5 DEF ReceiveReply, AllReplyKinds
  <2>. QED
    BY <1>5, <2>1 DEF ReceiveReply
<1>6. CASE ReceiveClosed(c) \/ ReceiveCloseCh(c) \/ ContextDone(c)
  BY <1>6 DEF ReceiveClosed, ReceiveCloseCh, ContextDone
<1>. QED
  BY <1>1, <1>2, <1>3, <1>4, <1>5, <1>6 DEF CallStep

LEMMA ReaderUndisturbs ==
    ASSUME TypeInv, ReaderStep, ~ReadResponse, NEW d \in Calls
    PROVE  Undisturbed(d)
<1> USE DEF TypeInv, TypeOK, clientVars, readerVars, callerVars, chanVars,
            linkVars, serverVars, Undisturbed
<1>1. CASE FailPending \/ BackoffEnds \/ Cleanup
  BY <1>1 DEF FailPending, BackoffEnds, Cleanup, DropPending, Discarded
<1>2. CASE ConfirmFails
  BY <1>2 DEF ConfirmFails, Discarded
<1>3. CASE ReadError \/ StartReconnect \/ DialFails \/ DialSucceeds
  BY <1>3 DEF ReadError, StartReconnect, DialFails, DialSucceeds
<1>4. CASE SendToken \/ TokenFails \/ Confirmed \/ Rejected \/ Misread
  BY <1>4 DEF SendToken, TokenFails, Confirmed, Rejected, Misread
<1>5. CASE Resume \/ GiveUp \/ Recheck \/ SignalClosed
  BY <1>5 DEF Resume, GiveUp, Recheck, SignalClosed
<1>. QED
  BY <1>1, <1>2, <1>3, <1>4, <1>5 DEF ReaderStep

LEMMA EnvironmentUndisturbs ==
    ASSUME TypeInv, Environment, NEW d \in Calls,
           ~Begin(d), \A f \in wire : ~Serve(f)
    PROVE  Undisturbed(d)
<1> USE DEF TypeInv, TypeOK, clientVars, readerVars, callerVars, chanVars,
            linkVars, serverVars, Undisturbed
<1>1. CASE \E c \in Calls : Begin(c)
  BY <1>1 DEF Begin, Goto
<1>2. CASE \E c \in Cancellable : Cancel(c)
  BY <1>2 DEF Cancel
<1>3. CASE \E k \in Links : LinkDrop(k) \/ KeepaliveCloses(k)
  BY <1>3 DEF LinkDrop, KeepaliveCloses, Discarded
<1>4. CASE Close
  BY <1>4 DEF Close, Discarded
<1>. QED
  BY <1>1, <1>2, <1>3, <1>4 DEF Environment

LEMMA UnchangedUndisturbs ==
    ASSUME UNCHANGED vars, NEW d \in Calls
    PROVE  Undisturbed(d)
BY DEF vars, callerVars, chanVars, serverVars, Undisturbed

OwnAnswer(c) == Answered(c) => from[c] = {c}

LEMMA AnswerIsOwnStep ==
    ASSUME TypeInv, IdsNameCalls, AnswerIsOwn, [Next]_vars
    PROVE  AnswerIsOwn'
<1> SUFFICES ASSUME NEW d \in Calls PROVE OwnAnswer(d)'
  BY DEF AnswerIsOwn, OwnAnswer, Answered
<1>. OwnAnswer(d)
  BY DEF AnswerIsOwn, OwnAnswer, Answered
<1>1. CASE Undisturbed(d)
  BY <1>1 DEF Undisturbed, OwnAnswer, Answered, AllReplyKinds
<1>2. CASE CallStep(d)
  <2> USE DEF TypeInv, TypeOK, Goto, Leave, Return, LeaveSelect, OwnAnswer,
              Answered
  <2>1. CASE Write(d)
    BY <2>1 DEF Write, AllReplyKinds
  <2>2. CASE ~Write(d)
    <3>1. pc'[d] # "wait"
      BY <1>2, <2>2
      DEF CallStep, CheckContext, Refuse, WriteError, Decide, MayRetry,
          ReceiveReply,
          RetryAfterBackoff, AbandonBackoff, ReceiveClosed, ReceiveCloseCh,
          ContextDone, AllReplyKinds
    <3>. QED
      BY <3>1
  <2>. QED
    BY <2>1, <2>2
<1>3. CASE ReadResponse
  <2>1. PICK r \in replies :
          LET hit == {p \in pending : p.id = r.id} IN
          /\ chan' = [c \in Calls |-> IF \E p \in hit : p.call = c
                                      THEN r.kind ELSE chan[c]]
          /\ from' = [c \in Calls |-> IF \E p \in hit : p.call = c
                                      THEN {r.call} ELSE from[c]]
    BY <1>3 DEF ReadResponse
  <2>2. CASE \E p \in pending : p.id = r.id /\ p.call = d
    <3>1. r.call = d
      BY <2>2 DEF IdsNameCalls
    <3>2. from'[d] = {d}
      BY <2>1, <2>2, <3>1
    <3>. QED
      BY <3>2 DEF OwnAnswer
  <2>3. CASE ~ \E p \in pending : p.id = r.id /\ p.call = d
    <3>1. chan'[d] = chan[d] /\ from'[d] = from[d]
      BY <2>1, <2>3
    <3>2. pc' = pc
      BY <1>3 DEF ReadResponse, callerVars
    <3>. QED
      BY <3>1, <3>2 DEF OwnAnswer, Answered
  <2>. QED
    BY <2>2, <2>3
<1>4. CASE Begin(d)
  BY <1>4 DEF Begin, Goto, TypeInv, TypeOK, OwnAnswer, Answered
<1>5. CASE \E f \in wire : Serve(f)
  BY <1>5 DEF Serve, callerVars, chanVars, OwnAnswer, Answered
<1>. QED
  BY <1>1, <1>2, <1>3, <1>4, <1>5, OthersUndisturbed, ReaderUndisturbs,
     EnvironmentUndisturbs, UnchangedUndisturbs
  DEF Next, Terminated

(***************************************************************************)
(* Mutations.                                                              *)
(***************************************************************************)

LEMMA UndisturbedMutation ==
    ASSUME NEW d \in Mutations, MutationInv(d), Undisturbed(d)
    PROVE  MutationInv(d)'
<1>1. AnswersAccounted(d)'
  BY DEF MutationInv, AnswersAccounted, Settled, Undisturbed
<1>2. Answered(d)' => Answered(d)
  BY DEF Undisturbed, Answered, AllReplyKinds
<1>3. OnePlace(d)'
  BY <1>2 DEF MutationInv, OnePlace, Undisturbed
<1>. QED
  BY <1>1, <1>3 DEF MutationInv

(* callOnce past the write: whatever a mutation fails with is uncertain. *)
LEMMA MutationOutcome ==
    ASSUME NEW c \in Mutations, NEW e PROVE RpcOutcome(c, e) = "uncertain"
BY DEF RpcOutcome, Mutations

(* The mutation's own caller moves without touching what is in flight. *)
LEMMA FlightKept ==
    ASSUME NEW d \in Mutations, MutationInv(d),
           sent'[d] = sent[d], answers'[d] = answers[d], ~Answered(d)',
           wire' = wire, replies' = replies
    PROVE  OnePlace(d)'
BY DEF MutationInv, OnePlace

LEMMA MutationCallStep ==
    ASSUME TypeInv, NEW d \in Mutations, MutationInv(d), CallStep(d)
    PROVE  MutationInv(d)'
<1>. d \in Calls /\ sent[d] \in Nat /\ answers[d] \in Nat
  BY DEF Mutations, TypeInv, TypeOK
<1> USE DEF TypeInv, TypeOK, Goto, Leave, Return, LeaveSelect
<1>1. CASE Write(d)
  <2>1. /\ sent[d] = answers[d]
        /\ sent'[d] = sent[d] + 1 /\ answers'[d] = answers[d]
        /\ pc'[d] = "wait" /\ chan'[d] = "open"
        /\ wire' \subseteq wire \cup {NewFrame(d)} /\ replies' = replies
    BY <1>1
    DEF Write, MutationInv, AnswersAccounted, Settled, callerVars, serverVars
  <2>2. /\ \A f \in wire    : f.call # d
        /\ \A r \in replies : r.call # d
    BY <2>1 DEF MutationInv, OnePlace
  <2>3. AnswersAccounted(d)'
    BY <2>1 DEF AnswersAccounted, Settled
  <2>4. ~Answered(d)'
    BY <2>1 DEF Answered, AllReplyKinds
  <2>5. OnePlace(d)'
    BY <2>1, <2>2, <2>4 DEF OnePlace
  <2>. QED
    BY <2>3, <2>5 DEF MutationInv
<1>2. CASE WriteError(d)
  <2>1. /\ sent[d] = answers[d]
        /\ sent'[d] = sent[d] + 1 /\ answers'[d] = answers[d]
        /\ wire' \subseteq wire \cup {NewFrame(d)} /\ replies' \subseteq replies
    BY <1>2
    DEF WriteError, MutationInv, AnswersAccounted, Settled, Discarded
  <2>2. pc'[d] = "decide" /\ err'[d] = "uncertain"
    BY <1>2, MutationOutcome DEF WriteError
  <2>3. /\ \A f \in wire    : f.call # d
        /\ \A r \in replies : r.call # d
    BY <2>1 DEF MutationInv, OnePlace
  <2>4. AnswersAccounted(d)'
    BY <2>1, <2>2 DEF AnswersAccounted, Settled
  <2>5. ~Answered(d)'
    BY <2>2 DEF Answered
  <2>6. OnePlace(d)'
    BY <2>1, <2>3, <2>5 DEF OnePlace
  <2>. QED
    BY <2>4, <2>6 DEF MutationInv
<1>3. CASE ReceiveReply(d)
  <2>1. /\ sent[d] = answers[d] + 1 /\ Answered(d)
        /\ sent' = sent /\ answers'[d] = answers[d] + 1
        /\ wire' = wire /\ replies' = replies
    BY <1>3
    DEF ReceiveReply, MutationInv, AnswersAccounted, Answered, callerVars,
        serverVars
  <2>2. pc'[d] = "decide"
    BY <1>3 DEF ReceiveReply, AllReplyKinds
  <2>3. /\ \A f \in wire    : f.call # d
        /\ \A r \in replies : r.call # d
    BY <2>1 DEF MutationInv, OnePlace
  <2>4. AnswersAccounted(d)'
    BY <2>1, <2>2 DEF AnswersAccounted, Settled
  <2>5. OnePlace(d)'
    BY <2>1, <2>3 DEF OnePlace
  <2>. QED
    BY <2>4, <2>5 DEF MutationInv
<1>4. CASE ReceiveClosed(d) \/ ReceiveCloseCh(d) \/ ContextDone(d)
  <2>1. /\ pc'[d] = "decide" /\ err'[d] = "uncertain"
        /\ sent' = sent /\ answers' = answers
        /\ wire' = wire /\ replies' = replies
    BY <1>4, MutationOutcome
    DEF ReceiveClosed, ReceiveCloseCh, ContextDone, callerVars, serverVars
  <2>2. AnswersAccounted(d)'
    BY <2>1 DEF MutationInv, AnswersAccounted, Settled
  <2>. QED
    BY <2>1, <2>2, FlightKept DEF MutationInv, Answered
<1>5. CASE \/ CheckContext(d) \/ Refuse(d) \/ Decide(d)
           \/ RetryAfterBackoff(d) \/ AbandonBackoff(d)
  <2>1. /\ pc'[d] \in {"attempt", "send", "decide", "backoff", "returned"}
        /\ sent' = sent /\ answers' = answers
        /\ wire' = wire /\ replies' = replies
    BY <1>5
    DEF CheckContext, Refuse, Decide, RetryAfterBackoff, AbandonBackoff,
        callerVars, serverVars
  <2>2. Settled(d)' => Settled(d)
    BY <1>5
    DEF CheckContext, Refuse, Decide, RetryAfterBackoff, AbandonBackoff,
        Settled, IsConnectionError
  <2>3. AnswersAccounted(d)'
    BY <2>1, <2>2 DEF MutationInv, AnswersAccounted
  <2>. QED
    BY <2>1, <2>3, FlightKept DEF MutationInv, Answered
<1>. QED
  BY <1>1, <1>2, <1>3, <1>4, <1>5 DEF CallStep

LEMMA MutationReadResponse ==
    ASSUME TypeInv, IdsNameCalls, NEW d \in Mutations, MutationInv(d),
           ReadResponse
    PROVE  MutationInv(d)'
<1>. d \in Calls
  BY DEF Mutations
<1>1. PICK r \in replies :
        LET hit == {p \in pending : p.id = r.id} IN
        /\ replies' = replies \ {r}
        /\ chan' = [c \in Calls |-> IF \E p \in hit : p.call = c
                                    THEN r.kind ELSE chan[c]]
  BY DEF ReadResponse
<1>2. /\ pc' = pc /\ err' = err /\ sent' = sent /\ answers' = answers
      /\ wire' = wire
  BY DEF ReadResponse, callerVars
<1>3. AnswersAccounted(d)'
  BY <1>2 DEF MutationInv, AnswersAccounted, Settled
<1>4. OnePlace(d)'
  <2>1. CASE \E p \in pending : p.id = r.id /\ p.call = d
    <3>1. r.call = d
      BY <2>1 DEF IdsNameCalls
    <3>2. /\ \A f \in wire     : f.call # d
          /\ \A s \in replies' : s.call # d
      BY <1>1, <3>1 DEF MutationInv, OnePlace
    <3>. QED
      BY <1>2, <3>2 DEF OnePlace
  <2>2. CASE ~ \E p \in pending : p.id = r.id /\ p.call = d
    <3>1. chan'[d] = chan[d]
      BY <1>1, <2>2
    <3>. QED
      BY <1>1, <1>2, <3>1 DEF MutationInv, OnePlace, Answered
  <2>. QED
    BY <2>1, <2>2
<1>. QED
  BY <1>3, <1>4 DEF MutationInv

LEMMA MutationServe ==
    ASSUME TypeInv, NEW d \in Mutations, MutationInv(d),
           NEW f \in wire, Serve(f)
    PROVE  MutationInv(d)'
<1>1. /\ pc' = pc /\ err' = err /\ chan' = chan
      /\ sent' = sent /\ answers' = answers
      /\ wire' = wire \ {f}
  BY DEF Serve, callerVars, chanVars
<1>2. AnswersAccounted(d)' /\ (Answered(d)' <=> Answered(d))
  BY <1>1 DEF MutationInv, AnswersAccounted, Settled, Answered
<1>3. CASE replies' = replies
  BY <1>1, <1>2, <1>3 DEF MutationInv, OnePlace
<1>4. ASSUME NEW kind \in ReplyKinds,
             replies' = replies \cup {ReplyTo(f, kind)}
      PROVE  MutationInv(d)'
  <2>1. ReplyTo(f, kind).call = f.call
    BY DEF ReplyTo
  <2>2. CASE f.call = d
    <3>1. /\ \A g \in wire'   : g.call # d
          /\ \A r \in replies : r.call # d
          /\ ~Answered(d) /\ sent[d] = answers[d] + 1
      BY <1>1, <2>2 DEF MutationInv, OnePlace
    <3>. QED
      BY <1>1, <1>2, <1>4, <2>1, <3>1 DEF MutationInv, OnePlace
  <2>3. CASE f.call # d
    BY <1>1, <1>2, <1>4, <2>1, <2>3 DEF MutationInv, OnePlace
  <2>. QED
    BY <2>2, <2>3
<1>. QED
  BY <1>3, <1>4 DEF Serve

LEMMA MutationStep ==
    ASSUME TypeInv, IdsNameCalls, [Next]_vars,
           NEW d \in Mutations, MutationInv(d)
    PROVE  MutationInv(d)'
<1>. d \in Calls
  BY DEF Mutations
<1>1. CASE Begin(d)
  <2>1. /\ pc[d] = "idle" /\ pc'[d] = "attempt" /\ err' = err
        /\ sent' = sent /\ answers' = answers
        /\ wire' = wire /\ replies' = replies
    BY <1>1 DEF Begin, Goto, serverVars, TypeInv, TypeOK
  <2>2. AnswersAccounted(d)'
    BY <2>1 DEF MutationInv, AnswersAccounted, Settled
  <2>. QED
    BY <2>1, <2>2, FlightKept DEF MutationInv, Answered
<1>. QED
  BY <1>1, UndisturbedMutation, OthersUndisturbed, ReaderUndisturbs,
     EnvironmentUndisturbs, UnchangedUndisturbs, MutationCallStep,
     MutationReadResponse, MutationServe
  DEF Next, Terminated

(***************************************************************************)
(* The theorems.                                                           *)
(***************************************************************************)

Inv == TypeInv /\ IInv

LEMMA InvInit == Init => Inv
<1> SUFFICES ASSUME Init PROVE Inv
  OBVIOUS
<1>1. IdsIssued /\ IdsNameCalls
  BY DEF Init, IdsIssued, IdsNameCalls
<1>2. AnswerIsOwn
  BY DEF Init, AnswerIsOwn
<1>3. \A c \in Mutations : MutationInv(c)
  BY DEF Init, Mutations, MutationInv, AnswersAccounted, Settled, OnePlace
<1>. QED
  BY <1>1, <1>2, <1>3, TypeInit DEF Inv, IInv

LEMMA InvStep == Inv /\ [Next]_vars => Inv'
<1> SUFFICES ASSUME Inv, [Next]_vars PROVE Inv'
  OBVIOUS
<1>1. TypeInv'
  BY TypeCallStep, TypeReaderStep, TypeEnvironment, TypeStutter
  DEF Inv, Next, Terminated
<1>2. IdsIssued' /\ IdsNameCalls'
  BY IdsStep DEF Inv, IInv
<1>3. AnswerIsOwn'
  BY AnswerIsOwnStep DEF Inv, IInv
<1>4. \A c \in Mutations : MutationInv(c)'
  BY MutationStep DEF Inv, IInv
<1>. QED
  BY <1>1, <1>2, <1>3, <1>4 DEF Inv, IInv, Mutations

LEMMA Invariance == Spec => []Inv
BY InvInit, InvStep, PTL DEF Spec

(* Every interleaving of replies, retries and lost links: a caller gets    *)
(* the reply to its own request.                                           *)
THEOREM AnswersAreOwn == Spec => []AnswerIsOwn
<1>1. Inv => AnswerIsOwn
  BY DEF Inv, IInv
<1>. QED
  BY <1>1, Invariance, PTL

(* A mutation whose outcome is open is never written again. *)
THEOREM LostMutationsNotReplayed == Spec => []LostMutationNotReplayed
<1>1. Inv => LostMutationNotReplayed
  BY DEF Inv, IInv, MutationInv, AnswersAccounted, LostMutationNotReplayed
<1>. QED
  BY <1>1, Invariance, PTL

(* A mutation that returned something certain has no effect any more. *)
THEOREM CertainOutcomes == Spec => []CertainOutcome
<1>1. Inv => CertainOutcome
  <2> SUFFICES ASSUME Inv, NEW c \in Mutations,
                      pc[c] = "returned", err[c] # "uncertain"
               PROVE  /\ \A f \in wire : f.call # c
                      /\ sent[c] = answers[c]
    BY DEF CertainOutcome
  <2>1. sent[c] = answers[c]
    BY DEF Inv, IInv, MutationInv, AnswersAccounted, Settled
  <2>2. answers[c] \in Nat
    BY DEF Inv, TypeInv, TypeOK, Mutations
  <2>. QED
    BY <2>1, <2>2 DEF Inv, IInv, MutationInv, OnePlace
<1>. QED
  BY <1>1, Invariance, PTL

(***************************************************************************)
(* Without API errors that read like connection errors.                    *)
(***************************************************************************)

MayBeWritten(c) ==
    \/ pc[c] \in {"idle", "attempt", "send", "backoff"}
    \/ pc[c] = "decide" /\ IsConnectionError(err[c])

LEMMA UnsentCallStep ==
    ASSUME "netError" \notin ReplyKinds, TypeInv,
           NEW d \in Mutations, Unsent(d), CallStep(d)
    PROVE  Unsent(d)'
<1>. d \in Calls /\ sent[d] \in Nat
  BY DEF Mutations, TypeInv, TypeOK
<1> USE DEF TypeInv, TypeOK, Goto, Leave, Return, LeaveSelect, Unsent,
            IsConnectionError, callerVars, chanVars
<1>1. CASE Write(d)
  BY <1>1 DEF Write
<1>2. CASE WriteError(d)
  <2>1. /\ sent'[d] = sent[d] + 1 /\ sent[d] = 0 /\ chan' = chan
        /\ pc'[d] = "decide" /\ err'[d] = "uncertain"
    BY <1>2, MutationOutcome DEF WriteError
  <2>. QED
    BY <2>1
<1>3. CASE ReceiveReply(d)
  <2>1. /\ chan[d] \in {"result", "error", "garbled"}
        /\ sent' = sent /\ chan'[d] = "none"
    BY <1>3 DEF ReceiveReply, AllReplyKinds
  <2>2. PICK e \in {"ok", "apiError", "uncertain"} : Leave(d, e)
    <3>1. RpcOutcome(d, "decodeErr") = "uncertain"
      BY MutationOutcome
    <3>. QED
      BY <1>3, <2>1, <3>1 DEF ReceiveReply
  <2>. QED
    BY <2>1, <2>2
<1>4. CASE ReceiveClosed(d) \/ ReceiveCloseCh(d) \/ ContextDone(d)
  <2>1. /\ pc'[d] = "decide" /\ err'[d] = "uncertain"
        /\ sent' = sent /\ chan'[d] = "none"
    BY <1>4, MutationOutcome DEF ReceiveClosed, ReceiveCloseCh, ContextDone
  <2>. QED
    BY <2>1
<1>5. CASE \/ CheckContext(d) \/ Refuse(d) \/ Decide(d)
           \/ RetryAfterBackoff(d) \/ AbandonBackoff(d)
  <2>1. sent' = sent /\ chan' = chan
    BY <1>5
    DEF CheckContext, Refuse, Decide, RetryAfterBackoff, AbandonBackoff
  <2>2. MayBeWritten(d)' => MayBeWritten(d)
    BY <1>5
    DEF CheckContext, Refuse, Decide, RetryAfterBackoff, AbandonBackoff,
        MayBeWritten
  <2>. QED
    BY <2>1, <2>2 DEF MayBeWritten
<1>. QED
  BY <1>1, <1>2, <1>3, <1>4, <1>5 DEF CallStep

LEMMA UnsentStep ==
    ASSUME "netError" \notin ReplyKinds, TypeInv, [Next]_vars,
           NEW d \in Mutations, Unsent(d)
    PROVE  Unsent(d)'
<1>. d \in Calls
  BY DEF Mutations
<1>1. CASE Undisturbed(d)
  BY <1>1 DEF Undisturbed, Unsent
<1>2. CASE Begin(d)
  BY <1>2 DEF Begin, Goto, chanVars, TypeInv, TypeOK, Unsent
<1>3. CASE ReadResponse
  <2>1. /\ pc' = pc /\ err' = err /\ sent' = sent
        /\ chan'[d] \in ReplyKinds \cup {chan[d]}
    BY <1>3 DEF ReadResponse, callerVars, TypeInv, TypeOK, Answers
  <2>. QED
    BY <2>1 DEF Unsent
<1>4. CASE \E f \in wire : Serve(f)
  BY <1>4 DEF Serve, callerVars, chanVars, Unsent
<1>. QED
  BY <1>1, <1>2, <1>3, <1>4, UnsentCallStep, OthersUndisturbed,
     ReaderUndisturbs, EnvironmentUndisturbs, UnchangedUndisturbs
  DEF Next, Terminated

(* As long as the server sends no API error whose text isConnectionError   *)
(* matches, Call writes a mutation at most once, whatever happens.         *)
THEOREM MutationsSentOnce ==
    ASSUME "netError" \notin ReplyKinds
    PROVE  Spec => []MutationSentOnce
<1> DEFINE AllUnsent == \A c \in Mutations : Unsent(c)
<1>1. Init => AllUnsent
  BY DEF Init, Unsent, Mutations
<1>2. Inv /\ AllUnsent /\ [Next]_vars => AllUnsent'
  BY UnsentStep DEF Inv, Mutations
<1>3. AllUnsent => MutationSentOnce
  BY DEF Unsent, MutationSentOnce
<1>. QED
  BY <1>1, <1>2, <1>3, Invariance, PTL DEF Spec

(***************************************************************************)
(* The read loop.                                                          *)
(***************************************************************************)

(* No sequence of lost links, failed dials and rejected tokens ends the    *)
(* read loop of a client that nobody closed.                               *)
THEOREM ReaderNeverGivesUp == Spec => []NeverGivesUp
<1>1. Init => NeverGivesUp
  BY DEF Init, NeverGivesUp
<1>2. TypeInv /\ NeverGivesUp /\ [Next]_vars => NeverGivesUp'
  <2> SUFFICES ASSUME TypeInv, NeverGivesUp, [Next]_vars
               PROVE  NeverGivesUp'
    OBVIOUS
  <2> USE DEF NeverGivesUp, clientVars, readerVars, At
  <2>1. ASSUME NEW c \in Calls, CallStep(c) PROVE NeverGivesUp'
    BY <2>1
    DEF CallStep, CheckContext, Refuse, Write, WriteError, ReceiveReply,
        ReceiveClosed, ContextDone, ReceiveCloseCh, Decide, RetryAfterBackoff,
        AbandonBackoff
  <2>2. CASE ReaderStep
    <3>1. CASE DialFails \/ TokenFails \/ Rejected \/ Misread \/ ConfirmFails
      BY <3>1, AttemptFailsType
      DEF DialFails, TokenFails, Rejected, Misread, ConfirmFails, TypeInv
    <3>2. CASE ReadResponse \/ ReadError \/ BackoffEnds \/ Recheck
      BY <3>2
      DEF ReadResponse, ReadError, BackoffEnds, Recheck, AfterFailedReconnect
    <3>3. CASE StartReconnect \/ FailPending \/ DialSucceeds \/ SendToken
      BY <3>3 DEF StartReconnect, FailPending, DialSucceeds, SendToken
    <3>4. CASE Confirmed \/ Resume \/ GiveUp \/ Cleanup \/ SignalClosed
      BY <3>4 DEF Confirmed, Resume, GiveUp, Cleanup, SignalClosed
    <3>. QED
      BY <2>2, <3>1, <3>2, <3>3, <3>4 DEF ReaderStep
  <2>3. CASE Environment
    BY <2>3 DEF Environment, Begin, Cancel, LinkDrop, KeepaliveCloses, Serve,
                Close
  <2>4. CASE UNCHANGED vars
    BY <2>4 DEF vars
  <2>. QED
    BY <2>1, <2>2, <2>3, <2>4 DEF Next, Terminated
<1>3. Inv => TypeInv
  BY DEF Inv
<1>. QED
  BY <1>1, <1>2, <1>3, Invariance, PTL DEF Spec

(***************************************************************************)
(* The link the reader comes back to.                                      *)
(***************************************************************************)

(* The reader does not move, and its link does not become usable again. *)
KeepsLink ==
    /\ rl' = rl /\ via' = via /\ conn' = conn /\ notified' = notified
    /\ Unusable => Unusable'

(* A link that is closed or breaks is never open again, and a server that  *)
(* took a request for a failed login does not change its mind.             *)
LEMMA StaysUnusable ==
    ASSUME TypeOK, Unusable, conn' = conn,
           \/ link' = link
           \/ \E k \in Links : link' = LinkClosed(k)
           \/ \E k \in Links : link' = [link EXCEPT ![k] = "down"],
           session' = session \/ Overtakes
    PROVE  Unusable'
BY DEF TypeOK, Unusable, LinkClosed, Overtakes

LEMMA CallKeepsLink ==
    ASSUME TypeInv, NEW c \in Calls, CallStep(c)
    PROVE  KeepsLink
<1> USE DEF clientVars, readerVars, linkVars, KeepsLink
<1>. TypeOK /\ conn \in Links
  BY DEF TypeInv, TypeOK
<1>1. rl' = rl /\ via' = via /\ conn' = conn /\ notified' = notified
  BY DEF CallStep, CheckContext, Refuse, Write, WriteError, ReceiveReply,
         ReceiveClosed, ContextDone, ReceiveCloseCh, Decide,
         RetryAfterBackoff, AbandonBackoff
<1>2. /\ link' = link \/ link' = LinkClosed(conn)
      /\ session' = session \/ Overtakes
  <2>1. CASE Write(c) \/ WriteError(c)
    BY <2>1 DEF Write, WriteError
  <2>2. CASE ~Write(c) /\ ~WriteError(c)
    <3>1. UNCHANGED linkVars
      BY <2>2
      DEF CallStep, CheckContext, Refuse, ReceiveReply, ReceiveClosed,
          ContextDone, ReceiveCloseCh, Decide, RetryAfterBackoff,
          AbandonBackoff
    <3>. QED
      BY <3>1
  <2>. QED
    BY <2>1, <2>2
<1>. QED
  BY <1>1, <1>2, StaysUnusable

LEMMA EnvironmentKeepsLink ==
    ASSUME TypeInv, Environment
    PROVE  KeepsLink
<1> USE DEF clientVars, readerVars, linkVars, KeepsLink
<1>. TypeOK /\ conn \in Links
  BY DEF TypeInv, TypeOK
<1>1. /\ rl' = rl /\ via' = via /\ conn' = conn /\ notified' = notified
      /\ session' = session
  BY DEF Environment, Begin, Cancel, LinkDrop, KeepaliveCloses, Serve, Close
<1>2. \/ link' = link
      \/ \E k \in Links : link' = LinkClosed(k)
      \/ \E k \in Links : link' = [link EXCEPT ![k] = "down"]
  BY DEF Environment, Begin, Cancel, LinkDrop, KeepaliveCloses, Serve, Close
<1>. QED
  BY <1>1, <1>2, StaysUnusable

(* A failed attempt leads nowhere but to places where the link is not used *)
(* or, in reinitializeConnection, is read though it is unusable.           *)
LEMMA FailedAttempt ==
    ASSUME AttemptFails, Unusable', conn' = conn, via' = via,
           notified' = notified
    PROVE  AnnounceInv'
BY DEF AttemptFails, AnnounceInv

LEMMA AnnounceReaderStep ==
    ASSUME TypeInv, AnnounceInv, ReaderStep
    PROVE  AnnounceInv'
<1> USE DEF clientVars, linkVars, At, TypeInv, TypeOK
<1>1. CASE DialFails
  <2>1. Unusable'
    BY <1>1 DEF DialFails, AnnounceInv, Unusable
  <2>. QED
    BY <1>1, <2>1, FailedAttempt DEF DialFails
<1>2. CASE TokenFails \/ Rejected \/ Misread
  <2>1. Unusable'
    BY <1>2 DEF TokenFails, Rejected, Misread, Unusable
  <2>. QED
    BY <1>2, <2>1, FailedAttempt DEF TokenFails, Rejected, Misread
<1>3. CASE ConfirmFails
  <2>1. Unusable'
    BY <1>3 DEF ConfirmFails, LinkClosed, Unusable
  <2>. QED
    BY <1>3, <2>1, FailedAttempt DEF ConfirmFails
<1>4. CASE ReadError
  BY <1>4 DEF ReadError, AnnounceInv, Unusable
<1>5. CASE BackoffEnds
  <2>1. Unusable'
    BY <1>5 DEF BackoffEnds, LinkClosed, AnnounceInv, Unusable
  <2>. QED
    BY <1>5, <2>1 DEF BackoffEnds, AnnounceInv
<1>6. CASE Confirmed
  BY <1>6 DEF Confirmed, Announced, AnnounceInv
<1>7. CASE DialSucceeds \/ SendToken \/ Cleanup \/ SignalClosed
  BY <1>7 DEF DialSucceeds, SendToken, Cleanup, SignalClosed, AnnounceInv
<1>8. CASE StartReconnect \/ FailPending \/ GiveUp
  BY <1>8 DEF StartReconnect, FailPending, GiveUp, AnnounceInv, Unusable
<1>9. CASE Recheck \/ ReadResponse \/ Resume
  BY <1>9
  DEF Recheck, AfterFailedReconnect, ReadResponse, Resume, AnnounceInv,
      Unusable
<1>. QED
  BY <1>1, <1>2, <1>3, <1>4, <1>5, <1>6, <1>7, <1>8, <1>9 DEF ReaderStep

LEMMA AnnounceStep ==
    ASSUME TypeInv, AnnounceInv, [Next]_vars
    PROVE  AnnounceInv'
<1>1. CASE KeepsLink
  BY <1>1 DEF KeepsLink, AnnounceInv
<1>2. CASE UNCHANGED vars
  BY <1>2 DEF vars, clientVars, readerVars, linkVars, AnnounceInv, Unusable
<1>. QED
  BY <1>1, <1>2, CallKeepsLink, EnvironmentKeepsLink, AnnounceReaderStep
  DEF Next, Terminated

LEMMA AnnounceInvariance == Spec => []AnnounceInv
<1>1. Init => AnnounceInv
  BY DEF Init, AnnounceInv
<1>2. Inv /\ AnnounceInv /\ [Next]_vars => AnnounceInv'
  BY AnnounceStep DEF Inv
<1>. QED
  BY <1>1, <1>2, Invariance, PTL DEF Spec

(* Whichever way the reader comes back to an open link, through reconnect  *)
(* or reinitializeConnection, it has run the consumer's OnReconnect for    *)
(* that link, but where reinitializeConnection could not tell that it had  *)
(* authenticated: it was rejected, or the answer could not be read.        *)
THEOREM ReconnectIsAnnounced == Spec => []ReconnectAnnounced
<1>1. Inv /\ AnnounceInv => ReconnectAnnounced
  BY DEF Inv, TypeInv, TypeOK, Links, AnnounceInv, Unusable,
         ReconnectAnnounced
<1>. QED
  BY <1>1, AnnounceInvariance, Invariance, PTL

(***************************************************************************)
(* The links that are open.                                                *)
(***************************************************************************)

(* A step that dials nothing leaves no more links open than before, and    *)
(* changes the session of the current link only.                           *)
LinksWane ==
    /\ conn' = conn /\ closed' = closed
    /\ \A k \in Links : \/ link'[k] = link[k]
                        \/ link'[k] # "open" /\ link[k] # "unused"
                        \/ link'[k] # "open" /\ k = conn
    /\ \A k \in Links \ {conn} : session'[k] = session[k]

LEMMA LinksWaneInv ==
    ASSUME TypeOK, LinksInv, LinksWane
    PROVE  LinksInv'
<1>. conn \in Nat /\ \A k \in Links : k \in Nat
  BY DEF TypeOK, Links
<1>. QED
  BY DEF LinksInv, LinksWane, OpenLinksAreHeld

LEMMA OvertakesElsewhere ==
    ASSUME TypeOK, Overtakes \/ session' = session
    PROVE  \A k \in Links \ {conn} : session'[k] = session[k]
BY DEF TypeOK, Overtakes

LEMMA ClosingWanes ==
    ASSUME TypeOK, link' = LinkClosed(conn) \/ link' = link
    PROVE  \A k \in Links : link'[k] = link[k]
                          \/ (link'[k] # "open" /\ k = conn)
BY DEF TypeOK, LinkClosed

LEMMA CallLinksWane ==
    ASSUME TypeOK, NEW c \in Calls, CallStep(c)
    PROVE  LinksWane
<1> USE DEF clientVars, readerVars, linkVars
<1>1. CASE Write(c)
  BY <1>1, OvertakesElsewhere DEF Write, LinksWane
<1>2. CASE WriteError(c)
  <2>1. /\ link' = LinkClosed(conn) \/ link' = link
        /\ Overtakes \/ session' = session
        /\ conn' = conn /\ closed' = closed
    BY <1>2 DEF WriteError
  <2>. QED
    BY <2>1, OvertakesElsewhere, ClosingWanes DEF LinksWane
<1>3. CASE ~Write(c) /\ ~WriteError(c)
  <2>1. UNCHANGED <<conn, closed, link, session>>
    BY <1>3
    DEF CallStep, CheckContext, Refuse, ReceiveReply, ReceiveClosed,
        ContextDone, ReceiveCloseCh, Decide, RetryAfterBackoff,
        AbandonBackoff
  <2>. QED
    BY <2>1 DEF LinksWane
<1>. QED
  BY <1>1, <1>2, <1>3

LEMMA EnvironmentLinks ==
    ASSUME TypeOK, LinksInv, Environment
    PROVE  LinksInv'
<1> USE DEF clientVars, linkVars
<1>. conn \in Nat /\ \A k \in Links : k \in Nat
  BY DEF TypeOK, Links
<1>1. CASE Close
  BY <1>1 DEF Close, LinkClosed, TypeOK, LinksInv, OpenLinksAreHeld
<1>2. CASE \E k \in Links : LinkDrop(k) \/ KeepaliveCloses(k)
  <2>1. LinksWane
    BY <1>2 DEF LinkDrop, KeepaliveCloses, LinkClosed, TypeOK, LinksWane
  <2>. QED
    BY <2>1, LinksWaneInv
<1>3. CASE \/ \E c \in Calls : Begin(c)
           \/ \E c \in Cancellable : Cancel(c)
           \/ \E f \in wire : Serve(f)
  <2>1. UNCHANGED <<conn, closed, link, session>>
    BY <1>3 DEF Begin, Cancel, Serve
  <2>. QED
    BY <2>1 DEF LinksInv, OpenLinksAreHeld
<1>. QED
  BY <1>1, <1>2, <1>3 DEF Environment

LEMMA ReaderLinks ==
    ASSUME TypeOK, LinksInv, AnnounceInv, NeverGivesUp, ReaderStep
    PROVE  LinksInv'
<1> USE DEF clientVars, linkVars, At
<1>. conn \in Links /\ conn \in Nat /\ \A k \in Links : k \in Nat
  BY DEF TypeOK, Links
<1>1. CASE DialSucceeds
  <2>1. /\ Unusable /\ conn' = conn + 1 /\ ~closed'
        /\ link' = [link EXCEPT ![conn + 1] = "open"]
        /\ session' = session
    BY <1>1 DEF DialSucceeds, AnnounceInv
  <2>2. \A k \in Links : link'[k] = IF k = conn + 1 THEN "open" ELSE link[k]
    BY <2>1 DEF TypeOK
  <2>3. \A k \in Links : k > conn' => link'[k] = "unused"
    BY <2>1, <2>2 DEF LinksInv
  <2>4. OpenLinksAreHeld'
    BY <2>1, <2>2 DEF LinksInv, OpenLinksAreHeld, Unusable
  <2>. QED
    BY <2>3, <2>4 DEF LinksInv
<1>2. CASE SendToken
  <2>1. LinksWane
    BY <1>2 DEF SendToken, TypeOK, LinksWane
  <2>. QED
    BY <2>1, LinksWaneInv
<1>3. CASE BackoffEnds \/ ConfirmFails
  <2>1. LinksWane
    BY <1>3, ClosingWanes DEF BackoffEnds, ConfirmFails, LinksWane
  <2>. QED
    BY <2>1, LinksWaneInv
<1>4. CASE Cleanup
  <2>1. UNCHANGED <<conn, closed, link, session>>
    BY <1>4 DEF Cleanup, NeverGivesUp
  <2>. QED
    BY <2>1 DEF LinksInv, OpenLinksAreHeld
<1>5. CASE \/ ReadResponse \/ ReadError \/ StartReconnect \/ FailPending
           \/ DialFails \/ TokenFails \/ Confirmed \/ Rejected \/ Misread
           \/ Resume \/ GiveUp \/ Recheck \/ SignalClosed
  <2>1. UNCHANGED <<conn, closed, link, session>>
    BY <1>5
    DEF ReadResponse, ReadError, StartReconnect, FailPending, DialFails,
        TokenFails, Confirmed, Rejected, Misread, Resume, GiveUp, Recheck,
        SignalClosed
  <2>. QED
    BY <2>1 DEF LinksInv, OpenLinksAreHeld
<1>. QED
  BY <1>1, <1>2, <1>3, <1>4, <1>5 DEF ReaderStep

LEMMA LinksStep ==
    ASSUME TypeOK, LinksInv, AnnounceInv, NeverGivesUp, [Next]_vars
    PROVE  LinksInv'
<1>1. CASE UNCHANGED vars
  BY <1>1 DEF vars, clientVars, linkVars, LinksInv, OpenLinksAreHeld
<1>. QED
  BY <1>1, CallLinksWane, LinksWaneInv, EnvironmentLinks, ReaderLinks
  DEF Next, Terminated

(* Close, overtaken by a dial or overtaking one, leaves no link open, and  *)
(* no link is replaced while it can be used.                               *)
THEOREM OpenLinksAlwaysHeld == Spec => []OpenLinksAreHeld
<1>1. Init => LinksInv
  <2> SUFFICES ASSUME Init PROVE LinksInv
    OBVIOUS
  <2>1. /\ conn = 1 /\ ~closed
        /\ \A k \in Links : k # 1 => link[k] = "unused"
    BY DEF Init
  <2>. QED
    BY <2>1 DEF LinksInv, OpenLinksAreHeld, Links
<1>2. Inv /\ AnnounceInv /\ NeverGivesUp /\ LinksInv /\ [Next]_vars
        => LinksInv'
  BY LinksStep DEF Inv, TypeInv
<1>3. LinksInv => OpenLinksAreHeld
  BY DEF LinksInv
<1>. QED
  BY <1>1, <1>2, <1>3, Invariance, AnnounceInvariance, ReaderNeverGivesUp, PTL
  DEF Spec

=============================================================================
