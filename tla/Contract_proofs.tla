-------------------------- MODULE Contract_proofs --------------------------
(***************************************************************************)
(* NastyClient implements RpcContract, step by step: what Client.Call      *)
(* promises holds for every set of calls and every bound.                  *)
(***************************************************************************)
EXTENDS ClientContract, NastyClient_proofs, FiniteSetTheorems

(***************************************************************************)
(* Requests on the wire and carried out.                                   *)
(***************************************************************************)

(* What a step does to the requests: one is written, one is handled by the *)
(* server, or nothing.                                                     *)
Writes(c) ==
    /\ reqID' = reqID + 1
    /\ wire' = wire \/ wire' = wire \cup {NewFrame(c)}
    /\ executed' = executed
    /\ sent' = [sent EXCEPT ![c] = @ + 1]

Handles(f) ==
    /\ reqID' = reqID /\ sent' = sent
    /\ wire' = wire \ {f}
    /\ executed' = executed \/ executed' = executed \cup {f}

RequestsKept == UNCHANGED <<reqID, wire, executed, sent>>

LEMMA RequestSteps ==
    ASSUME [Next]_vars
    PROVE  \/ \E c \in Calls : Writes(c)
           \/ \E f \in wire : Handles(f)
           \/ RequestsKept
<1> USE DEF clientVars, callerVars, serverVars, RequestsKept
<1>1. ASSUME NEW c \in Calls, CallStep(c)
      PROVE  Writes(c) \/ RequestsKept
  <2>1. CASE Write(c) \/ WriteError(c)
    BY <2>1 DEF Write, WriteError, Writes
  <2>2. CASE CheckContext(c) \/ Refuse(c) \/ Decide(c) \/ ContextDone(c)
    BY <2>2 DEF CheckContext, Refuse, Decide, ContextDone
  <2>3. CASE ReceiveReply(c) \/ ReceiveClosed(c) \/ ReceiveCloseCh(c)
    BY <2>3 DEF ReceiveReply, ReceiveClosed, ReceiveCloseCh
  <2>4. CASE RetryAfterBackoff(c) \/ AbandonBackoff(c)
    BY <2>4 DEF RetryAfterBackoff, AbandonBackoff
  <2>. QED
    BY <1>1, <2>1, <2>2, <2>3, <2>4 DEF CallStep
<1>2. CASE ReaderStep
  <2>1. CASE ReadResponse \/ ReadError \/ StartReconnect \/ FailPending
    BY <2>1 DEF ReadResponse, ReadError, StartReconnect, FailPending
  <2>2. CASE BackoffEnds \/ DialFails \/ DialSucceeds \/ SendToken
    BY <2>2 DEF BackoffEnds, DialFails, DialSucceeds, SendToken
  <2>3. CASE TokenFails \/ Confirmed \/ Rejected \/ Misread \/ ConfirmFails
    BY <2>3 DEF TokenFails, Confirmed, Rejected, Misread, ConfirmFails
  <2>4. CASE Resume \/ GiveUp \/ Recheck \/ Cleanup \/ SignalClosed
    BY <2>4 DEF Resume, GiveUp, Recheck, Cleanup, SignalClosed
  <2>. QED
    BY <1>2, <2>1, <2>2, <2>3, <2>4 DEF ReaderStep
<1>3. CASE Environment
  BY <1>3 DEF Environment, Begin, Cancel, LinkDrop, KeepaliveCloses, Close,
              Serve, Handles
<1>4. CASE UNCHANGED vars
  BY <1>4 DEF vars
<1>. QED
  BY <1>1, <1>2, <1>3, <1>4 DEF Next, Terminated

LEMMA HandledOnceStep ==
    ASSUME TypeInv, IdsIssued, HandledOnce, [Next]_vars
    PROVE  HandledOnce'
<1>1. ASSUME NEW c \in Calls, Writes(c) PROVE HandledOnce'
  <2>1. NewFrame(c).id = reqID + 1 /\ reqID \in Nat
    BY DEF NewFrame, FreshId, TypeInv, TypeOK
  <2>2. \A f \in executed : f.id \in Nat
    BY DEF TypeInv, TypeOK, Frames, Entries
  <2>3. NewFrame(c) \notin executed
    BY <2>1, <2>2 DEF HandledOnce
  <2>. QED
    BY <1>1, <2>1, <2>2, <2>3 DEF Writes, HandledOnce
<1>2. ASSUME NEW f \in wire, Handles(f) PROVE HandledOnce'
  BY <1>2 DEF Handles, HandledOnce, IdsIssued
<1>3. CASE RequestsKept
  BY <1>3 DEF RequestsKept, HandledOnce
<1>. QED
  BY <1>1, <1>2, <1>3, RequestSteps

LEMMA FramesCountedStep ==
    ASSUME TypeInv, NEW d \in Calls, FramesCounted(d), [Next]_vars
    PROVE  FramesCounted(d)'
<1>. sent[d] \in Nat /\ sent \in [Calls -> Nat]
  BY DEF TypeInv, TypeOK
<1>. Cardinality(FramesOf(d)) \in Nat
  BY FS_CardinalityType DEF FramesCounted
<1>1. ASSUME NEW c \in Calls, Writes(c) PROVE FramesCounted(d)'
  <2>1. NewFrame(c).call = c
    BY DEF NewFrame
  <2>2. CASE c = d
    <3>1. \/ FramesOf(d)' = FramesOf(d)
          \/ FramesOf(d)' = FramesOf(d) \cup {NewFrame(c)}
      BY <1>1, <2>1, <2>2 DEF Writes, FramesOf
    <3>2. /\ IsFiniteSet(FramesOf(d)')
          /\ Cardinality(FramesOf(d)') <= Cardinality(FramesOf(d)) + 1
      BY <3>1, FS_AddElement DEF FramesCounted
    <3>3. Cardinality(FramesOf(d)') \in Nat
      BY <3>2, FS_CardinalityType
    <3>4. sent'[d] = sent[d] + 1
      BY <1>1, <2>2 DEF Writes
    <3>. QED
      BY <3>2, <3>3, <3>4 DEF FramesCounted
  <2>3. CASE c # d
    <3>1. FramesOf(d)' = FramesOf(d) /\ sent'[d] = sent[d]
      BY <1>1, <2>1, <2>3 DEF Writes, FramesOf
    <3>. QED
      BY <3>1 DEF FramesCounted
  <2>. QED
    BY <2>2, <2>3
<1>2. ASSUME NEW f \in wire, Handles(f) PROVE FramesCounted(d)'
  <2>1. FramesOf(d)' \subseteq FramesOf(d)
    BY <1>2 DEF Handles, FramesOf
  <2>2. /\ IsFiniteSet(FramesOf(d)')
        /\ Cardinality(FramesOf(d)') <= Cardinality(FramesOf(d))
    BY <2>1, FS_Subset DEF FramesCounted
  <2>3. Cardinality(FramesOf(d)') \in Nat
    BY <2>2, FS_CardinalityType
  <2>. QED
    BY <1>2, <2>2, <2>3 DEF Handles, FramesCounted
<1>3. CASE RequestsKept
  BY <1>3 DEF RequestsKept, FramesCounted, FramesOf
<1>. QED
  BY <1>1, <1>2, <1>3, RequestSteps

(* What was carried out stays carried out. *)
LEMMA ExecutedGrows ==
    ASSUME [Next]_vars, NEW d
    PROVE  ExecutedOf(d) \subseteq ExecutedOf(d)'
BY RequestSteps DEF Writes, Handles, RequestsKept, ExecutedOf

(***************************************************************************)
(* Writes, answers and what a caller reports.                              *)
(***************************************************************************)

CallerInv(c) == WritesCounted(c) /\ RepliesCounted(c) /\ Grounded(c)

LEMMA UndisturbedCaller ==
    ASSUME TypeInv, NEW d \in Calls, CallerInv(d), Undisturbed(d), [Next]_vars
    PROVE  CallerInv(d)'
<1>1. WritesCounted(d)' /\ RepliesCounted(d)'
  BY DEF Undisturbed, CallerInv, WritesCounted, RepliesCounted
<1>2. Grounded(d)'
  BY ExecutedGrows DEF Undisturbed, CallerInv, Grounded
<1>. QED
  BY <1>1, <1>2 DEF CallerInv

(* An error that is not about a written request. *)
Certain == {"none", "apiError", "netError", "decodeErr", "ctxErr",
            "clientClosed", "connClosed", "ioErr"}

LEMMA OutcomeIsGrounded ==
    ASSUME NEW c \in Calls, NEW e \in Certain
    PROVE  RpcOutcome(c, e) \in Certain \/
             (RpcOutcome(c, e) = "uncertain" /\ c \in Mutations)
BY DEF RpcOutcome, Mutations

LEMMA CallerCallStep ==
    ASSUME TypeInv, NEW d \in Calls, CallerInv(d), CallStep(d), [Next]_vars
    PROVE  CallerInv(d)'
<1>. /\ sent[d] \in Nat /\ answers[d] \in Nat /\ attempt[d] \in Nat
     /\ MaxAttempts \in Nat
  BY ClientAssumption DEF ClientAssumption, TypeInv, TypeOK
<1> USE DEF TypeInv, TypeOK, Goto, Leave, Return, LeaveSelect
<1>. ExecutedOf(d) # {} => ExecutedOf(d)' # {}
  BY ExecutedGrows
<1>1. CASE Write(d)
  <2>1. /\ pc[d] = "send" /\ pc'[d] = "wait" /\ sent'[d] = sent[d] + 1
        /\ attempt' = attempt /\ answers' = answers /\ err' = err
        /\ chan'[d] = "open"
    BY <1>1 DEF Write, callerVars
  <2>2. WritesCounted(d)' /\ RepliesCounted(d)'
    BY <2>1 DEF CallerInv, WritesCounted, RepliesCounted
  <2>3. Grounded(d)'
    BY <2>1 DEF CallerInv, Grounded
  <2>. QED
    BY <2>2, <2>3 DEF CallerInv
<1>2. CASE WriteError(d)
  <2>1. /\ pc[d] = "send" /\ pc'[d] = "decide" /\ sent'[d] = sent[d] + 1
        /\ attempt' = attempt /\ answers' = answers /\ chan' = chan
    BY <1>2 DEF WriteError, chanVars
  <2>2. PICK e \in {"ioErr", "netError"} : err'[d] = RpcOutcome(d, e)
    BY <1>2 DEF WriteError
  <2>3. WritesCounted(d)' /\ RepliesCounted(d)'
    BY <2>1 DEF CallerInv, WritesCounted, RepliesCounted
  <2>4. Grounded(d)'
    BY <2>1, <2>2, OutcomeIsGrounded DEF CallerInv, Grounded, Certain
  <2>. QED
    BY <2>3, <2>4 DEF CallerInv
<1>3. CASE ReceiveReply(d)
  <2>1. /\ pc[d] = "wait" /\ sent' = sent /\ attempt' = attempt
        /\ answers'[d] = answers[d] + 1 /\ chan'[d] = "none"
    BY <1>3 DEF ReceiveReply
  <2>2. /\ pc'[d] = "decide"
        /\ \/ chan[d] = "result" /\ err'[d] = "ok"
           \/ err'[d] = "apiError" \/ err'[d] = "netError"
           \/ err'[d] = RpcOutcome(d, "decodeErr")
    BY <1>3 DEF ReceiveReply, AllReplyKinds
  <2>3. WritesCounted(d)' /\ RepliesCounted(d)'
    BY <2>1, <2>2 DEF CallerInv, WritesCounted, RepliesCounted
  <2>4. Grounded(d)'
    BY <2>1, <2>2, OutcomeIsGrounded
    DEF CallerInv, Grounded, RepliesCounted, Certain
  <2>. QED
    BY <2>3, <2>4 DEF CallerInv
<1>4. CASE ReceiveClosed(d) \/ ReceiveCloseCh(d) \/ ContextDone(d)
  <2>1. /\ pc[d] = "wait" /\ pc'[d] = "decide" /\ sent' = sent
        /\ attempt' = attempt /\ answers' = answers /\ chan'[d] = "none"
    BY <1>4 DEF ReceiveClosed, ReceiveCloseCh, ContextDone
  <2>2. PICK e \in {"connClosed", "clientClosed", "ctxErr"} :
          err'[d] = RpcOutcome(d, e)
    BY <1>4 DEF ReceiveClosed, ReceiveCloseCh, ContextDone
  <2>3. WritesCounted(d)' /\ RepliesCounted(d)'
    BY <2>1 DEF CallerInv, WritesCounted, RepliesCounted
  <2>4. Grounded(d)'
    BY <2>1, <2>2, OutcomeIsGrounded
    DEF CallerInv, Grounded, RepliesCounted, Certain
  <2>. QED
    BY <2>3, <2>4 DEF CallerInv
<1>5. CASE CheckContext(d) \/ Refuse(d) \/ Decide(d) \/ AbandonBackoff(d)
  <2>1. /\ sent' = sent /\ attempt' = attempt /\ answers' = answers
        /\ chan' = chan
    BY <1>5 DEF CheckContext, Refuse, Decide, AbandonBackoff, chanVars
  <2>2. /\ pc'[d] # "wait"
        /\ pc'[d] \in {"idle", "attempt", "send"} => pc[d] = "attempt"
        /\ \/ err'[d] = err[d]
           \/ err'[d] \in {"ctxErr", "clientClosed", "connClosed"}
    BY <1>5 DEF CheckContext, Refuse, Decide, AbandonBackoff
  <2>3. WritesCounted(d)' /\ RepliesCounted(d)'
    BY <2>1, <2>2 DEF CallerInv, WritesCounted, RepliesCounted
  <2>4. Grounded(d)'
    BY <2>1, <2>2 DEF CallerInv, Grounded
  <2>. QED
    BY <2>3, <2>4 DEF CallerInv
<1>6. CASE RetryAfterBackoff(d)
  <2>1. /\ sent' = sent /\ attempt'[d] = attempt[d] + 1 /\ pc'[d] = "attempt"
        /\ answers' = answers /\ chan' = chan /\ err' = err
    BY <1>6 DEF RetryAfterBackoff, chanVars
  <2>2. WritesCounted(d)' /\ RepliesCounted(d)'
    BY <2>1 DEF CallerInv, WritesCounted, RepliesCounted
  <2>3. Grounded(d)'
    BY <2>1 DEF CallerInv, Grounded
  <2>. QED
    BY <2>2, <2>3 DEF CallerInv
<1>. QED
  BY <1>1, <1>2, <1>3, <1>4, <1>5, <1>6 DEF CallStep

LEMMA CallerReadResponse ==
    ASSUME TypeInv, IdsNameCalls, ResultsReal, NEW d \in Calls, CallerInv(d),
           ReadResponse
    PROVE  CallerInv(d)'
<1>1. PICK r \in replies :
        chan' = [c \in Calls |->
                   IF \E p \in {s \in pending : s.id = r.id} : p.call = c
                   THEN r.kind ELSE chan[c]]
  BY DEF ReadResponse
<1>2. /\ pc' = pc /\ err' = err /\ sent' = sent /\ answers' = answers
      /\ attempt' = attempt /\ executed' = executed
  BY DEF ReadResponse, callerVars
<1>3. WritesCounted(d)' /\ RepliesCounted(d)'
  BY <1>2 DEF CallerInv, WritesCounted, RepliesCounted
<1>4. chan'[d] = chan[d] \/ (chan'[d] = r.kind /\ r.call = d)
  BY <1>1 DEF IdsNameCalls
<1>5. Grounded(d)'
  BY <1>2, <1>4 DEF CallerInv, Grounded, ResultsReal, ExecutedOf
<1>. QED
  BY <1>3, <1>5 DEF CallerInv

LEMMA CallerStep ==
    ASSUME TypeInv, IdsNameCalls, ResultsReal, [Next]_vars,
           NEW d \in Calls, CallerInv(d)
    PROVE  CallerInv(d)'
<1>1. CASE Begin(d)
  <2>1. /\ pc[d] = "idle" /\ pc'[d] = "attempt" /\ err' = err
        /\ sent' = sent /\ answers' = answers /\ attempt' = attempt
        /\ chan' = chan /\ executed' = executed
    BY <1>1 DEF Begin, Goto, chanVars, serverVars, TypeInv, TypeOK
  <2>. QED
    BY <2>1 DEF CallerInv, WritesCounted, RepliesCounted, Grounded, ExecutedOf
<1>2. CASE \E f \in wire : Serve(f)
  <2>1. /\ pc' = pc /\ err' = err /\ sent' = sent /\ answers' = answers
        /\ attempt' = attempt /\ chan' = chan
    BY <1>2 DEF Serve, callerVars, chanVars
  <2>2. WritesCounted(d)' /\ RepliesCounted(d)'
    BY <2>1 DEF CallerInv, WritesCounted, RepliesCounted
  <2>3. Grounded(d)'
    BY <2>1, ExecutedGrows DEF CallerInv, Grounded
  <2>. QED
    BY <2>2, <2>3 DEF CallerInv
<1>. QED
  BY <1>1, <1>2, UndisturbedCaller, CallerCallStep, CallerReadResponse,
     OthersUndisturbed, ReaderUndisturbs, EnvironmentUndisturbs,
     UnchangedUndisturbs
  DEF Next, Terminated

LEMMA ResultsRealStep ==
    ASSUME TypeInv, ResultsReal, [Next]_vars
    PROVE  ResultsReal'
<1>1. CASE \E f \in wire : Serve(f)
  <2>1. PICK f \in wire : Serve(f)
    BY <1>1
  <2>2. CASE replies' = replies
    BY <2>2, ExecutedGrows DEF ResultsReal
  <2>3. ASSUME NEW kind \in ReplyKinds, kind = "error" \/
                 (f.call \in Mutations => f \in executed'),
               replies' = replies \cup {ReplyTo(f, kind)}
        PROVE  ResultsReal'
    <3>1. ReplyTo(f, kind).call = f.call /\ ReplyTo(f, kind).kind = kind
      BY DEF ReplyTo
    <3>2. (f.call \in Mutations /\ kind = "result") => ExecutedOf(f.call)' # {}
      BY <2>3 DEF ExecutedOf
    <3>. QED
      BY <2>3, <3>1, <3>2, ExecutedGrows DEF ResultsReal
  <2>. QED
    BY <2>1, <2>2, <2>3 DEF Serve
<1>2. CASE replies' \subseteq replies
  BY <1>2, ExecutedGrows DEF ResultsReal
<1>3. (\A f \in wire : ~Serve(f)) => replies' \subseteq replies
  <2> USE DEF serverVars, Discarded
  <2>1. ASSUME NEW c \in Calls, CallStep(c) PROVE replies' \subseteq replies
    BY <2>1
    DEF CallStep, CheckContext, Refuse, Write, WriteError, ReceiveReply,
        ReceiveClosed, ContextDone, ReceiveCloseCh, Decide, RetryAfterBackoff,
        AbandonBackoff
  <2>2. CASE ReaderStep
    BY <2>2
    DEF ReaderStep, ReadResponse, ReadError, StartReconnect, FailPending,
        BackoffEnds, DialFails, DialSucceeds, SendToken, TokenFails,
        Confirmed, Rejected, Misread, ConfirmFails, Resume, GiveUp, Recheck,
        Cleanup,
        SignalClosed
  <2>3. ASSUME Environment, \A f \in wire : ~Serve(f)
        PROVE  replies' \subseteq replies
    BY <2>3 DEF Environment, Begin, Cancel, LinkDrop, KeepaliveCloses, Close
  <2>4. CASE UNCHANGED vars
    BY <2>4 DEF vars
  <2>. QED
    BY <2>1, <2>2, <2>3, <2>4 DEF Next, Terminated
<1>. QED
  BY <1>1, <1>2, <1>3

LEMMA ContractInvariance == Spec => [](Inv /\ ContractInv)
<1>1. Init => ContractInv
  <2> SUFFICES ASSUME Init PROVE ContractInv
    OBVIOUS
  <2>1. HandledOnce /\ ResultsReal
    BY DEF Init, HandledOnce, ResultsReal
  <2>2. ASSUME NEW c \in Calls
        PROVE  FramesCounted(c) /\ CallerInv(c)
    <3>1. FramesOf(c) = {}
      BY DEF Init, FramesOf
    <3>2. FramesCounted(c)
      BY <3>1, FS_EmptySet DEF Init, FramesCounted
    <3>3. CallerInv(c)
      BY DEF Init, CallerInv, WritesCounted, RepliesCounted, Grounded
    <3>. QED
      BY <3>2, <3>3
  <2>. QED
    BY <2>1, <2>2 DEF ContractInv, CallerInv
<1>2. Inv /\ ContractInv /\ [Next]_vars => ContractInv'
  <2> SUFFICES ASSUME Inv, ContractInv, [Next]_vars PROVE ContractInv'
    OBVIOUS
  <2>. /\ TypeInv /\ IdsIssued /\ IdsNameCalls
       /\ HandledOnce /\ ResultsReal
    BY DEF Inv, IInv, ContractInv
  <2>1. ASSUME NEW c \in Calls
        PROVE  FramesCounted(c)' /\ CallerInv(c)'
    BY FramesCountedStep, CallerStep DEF ContractInv, CallerInv
  <2>. QED
    BY <2>1, HandledOnceStep, ResultsRealStep DEF ContractInv, CallerInv
<1>. QED
  BY <1>1, <1>2, Invariance, PTL DEF Spec

(***************************************************************************)
(* The refinement, one step at a time.                                     *)
(***************************************************************************)

Applied(c) == Cardinality(ExecutedOf(c))

LEMMA ContractInit == Init => Contract!Init
<1> SUFFICES ASSUME Init PROVE Contract!Init
  OBVIOUS
<1>1. \A c \in Calls : Cardinality({f \in executed : f.call = c}) = 0
  <2>1. \A c : {f \in executed : f.call = c} = {}
    BY DEF Init
  <2>. QED
    BY <2>1, FS_EmptySet
<1>. QED
  BY <1>1 DEF Init, Contract!Init, Status, Outcome

(* What the program sees of caller d stays as it is. *)
SeenKept(d) == Status(d)' = Status(d) /\ Outcome(d)' = Outcome(d)

LEMMA Invisible ==
    ASSUME sent' = sent, answers' = answers, executed' = executed,
           \A d \in Calls : SeenKept(d)
    PROVE  UNCHANGED Contract!vars
BY DEF Contract!vars, SeenKept

(* Inside callOnce and between its attempts, the program sees nothing. *)
LEMMA InsideCall ==
    ASSUME NEW d \in Calls,
           \/ pc'[d] = pc[d] /\ err'[d] = err[d]
           \/ pc[d] \notin {"idle", "returned"}
              /\ pc'[d] \notin {"idle", "returned"}
    PROVE  SeenKept(d)
BY DEF SeenKept, Status, Outcome

(* A step of caller c is no other caller's. *)
LEMMA OthersNotSeen ==
    ASSUME TypeInv, NEW c \in Calls, CallStep(c), NEW d \in Calls, d # c
    PROVE  SeenKept(d)
BY OthersUndisturbed, InsideCall DEF Undisturbed

LEMMA BeginImplements ==
    ASSUME TypeInv, NEW c \in Calls, Begin(c)
    PROVE  Contract!Start(c)
<1>1. /\ pc[c] = "idle" /\ pc'[c] = "attempt" /\ err' = err
      /\ sent' = sent /\ answers' = answers /\ executed' = executed
      /\ \A d \in Calls \ {c} : pc'[d] = pc[d]
  BY DEF Begin, Goto, serverVars, TypeInv, TypeOK
<1>2. [d \in Calls |-> Status(d)]'
        = [[d \in Calls |-> Status(d)] EXCEPT ![c] = "active"]
  BY <1>1 DEF Status
<1>3. [d \in Calls |-> Outcome(d)]' = [d \in Calls |-> Outcome(d)]
  BY <1>1 DEF Outcome
<1>. QED
  BY <1>1, <1>2, <1>3 DEF Contract!Start, Status

LEMMA WriteImplements ==
    ASSUME Inv, ContractInv, NEW c \in Calls, Write(c) \/ WriteError(c)
    PROVE  Contract!Issue(c)
<1>. /\ sent[c] \in Nat /\ attempt[c] \in Nat /\ attempt[c] <= MaxAttempts
     /\ MaxAttempts \in Nat
  BY ClientAssumption DEF ClientAssumption, Inv, TypeInv, TypeOK
<1>1. /\ pc[c] = "send" /\ pc'[c] \in {"wait", "decide"}
      /\ sent' = [sent EXCEPT ![c] = @ + 1]
      /\ answers' = answers /\ executed' = executed
  BY DEF Write, WriteError, Goto, Leave, Inv, TypeInv, TypeOK
<1>2. \A d \in Calls : SeenKept(d)
  <2>1. CallStep(c) /\ TypeInv
    BY DEF CallStep, Inv
  <2>. QED
    BY <1>1, <2>1, OthersNotSeen, InsideCall
<1>3. sent[c] < MaxAttempts
  BY <1>1 DEF ContractInv, WritesCounted
<1>4. c \in Mutations => sent[c] = answers[c]
  BY <1>1 DEF Inv, IInv, MutationInv, AnswersAccounted, Settled
<1>. QED
  BY <1>1, <1>2, <1>3, <1>4
  DEF Contract!Issue, Contract!Mutations, Mutations, Status, SeenKept

LEMMA ReplyImplements ==
    ASSUME Inv, ContractInv, NEW c \in Calls, ReceiveReply(c)
    PROVE  Contract!Answer(c)
<1>1. /\ pc[c] = "wait" /\ pc'[c] = "decide"
      /\ answers' = [answers EXCEPT ![c] = @ + 1]
      /\ sent' = sent /\ executed' = executed
  BY DEF ReceiveReply, AllReplyKinds, Leave, Goto, serverVars, Inv, TypeInv,
         TypeOK
<1>2. \A d \in Calls : SeenKept(d)
  <2>1. CallStep(c) /\ TypeInv
    BY DEF CallStep, Inv
  <2>. QED
    BY <1>1, <2>1, OthersNotSeen, InsideCall
<1>3. answers[c] < sent[c]
  BY <1>1 DEF ContractInv, RepliesCounted
<1>. QED
  BY <1>1, <1>2, <1>3 DEF Contract!Answer, Status, SeenKept

(* A call that returns reports what the contract lets it report. *)
LEMMA ReturnImplements ==
    ASSUME Inv, ContractInv, Inv', ContractInv', NEW c \in Calls, CallStep(c),
           pc[c] \notin {"idle", "returned"}, pc'[c] = "returned",
           sent' = sent, answers' = answers, executed' = executed
    PROVE  Contract!Return(c)
<1>. c \in Calls /\ sent[c] \in Nat /\ answers[c] \in Nat
  BY DEF Inv, TypeInv, TypeOK
<1>1. \A d \in Calls \ {c} : SeenKept(d)
  BY OthersNotSeen DEF Inv
<1>2. /\ Status(c) = "active" /\ Status(c)' = "returned"
      /\ Outcome(c)' \in {"ok", "failed", "uncertain"}
      /\ Outcome(c)' = "ok" => err'[c] = "ok"
      /\ Outcome(c)' = "uncertain" => err'[c] = "uncertain"
      /\ Outcome(c)' = "failed" => err'[c] # "uncertain"
  BY DEF Status, Outcome
<1>3. Outcome(c)' = "ok" =>
        answers[c] > 0 /\ (c \in Mutations => Applied(c) > 0)
  <2> SUFFICES ASSUME err'[c] = "ok"
               PROVE  answers[c] > 0 /\ (c \in Mutations => Applied(c) > 0)
    BY <1>2
  <2>1. Grounded(c)'
    BY DEF ContractInv
  <2>2. answers[c] > 0
    BY <2>1 DEF Grounded
  <2>3. c \in Mutations => ExecutedOf(c) # {}
    BY <2>1 DEF Grounded, ExecutedOf
  <2>4. IsFiniteSet(ExecutedOf(c))
    <3>1. IsFiniteSet(FramesOf(c)) /\ ExecutedOf(c) \subseteq FramesOf(c)
      BY DEF ContractInv, FramesCounted, FramesOf, ExecutedOf
    <3>. QED
      BY <3>1, FS_Subset
  <2>5. ExecutedOf(c) # {} => Applied(c) > 0
    BY <2>4, FS_EmptySet, FS_CardinalityType DEF Applied
  <2>. QED
    BY <2>2, <2>3, <2>5
<1>4. Outcome(c)' = "uncertain" => c \in Mutations /\ sent[c] > 0
  BY <1>2 DEF ContractInv, Grounded
<1>5. Outcome(c)' = "failed" /\ c \in Mutations => sent[c] = answers[c]
  BY <1>2 DEF Inv, IInv, MutationInv, AnswersAccounted, Settled
<1>6. [d \in Calls |-> Status(d)]'
        = [[d \in Calls |-> Status(d)] EXCEPT ![c] = "returned"]
  BY <1>1, <1>2 DEF SeenKept
<1>7. [d \in Calls |-> Outcome(d)]'
        = [[d \in Calls |-> Outcome(d)] EXCEPT ![c] = Outcome(c)']
  BY <1>1 DEF SeenKept
<1>. QED
  BY <1>2, <1>3, <1>4, <1>5, <1>6, <1>7
  DEF Contract!Return, Contract!Mutations, Mutations, Applied, ExecutedOf

LEMMA CallImplements ==
    ASSUME Inv, ContractInv, Inv', ContractInv', NEW c \in Calls, CallStep(c)
    PROVE  [Contract!Next]_(Contract!vars)
<1>1. CASE Write(c) \/ WriteError(c)
  BY <1>1, WriteImplements DEF Contract!Next
<1>2. CASE ReceiveReply(c)
  BY <1>2, ReplyImplements DEF Contract!Next
<1>3. CASE ~Write(c) /\ ~WriteError(c) /\ ~ReceiveReply(c)
  <2>1. /\ sent' = sent /\ answers' = answers /\ executed' = executed
        /\ pc[c] \notin {"idle", "returned"}
        /\ pc'[c] # "idle"
    BY <1>3
    DEF CallStep, CheckContext, Refuse, ReceiveClosed, ContextDone,
        ReceiveCloseCh, Decide, RetryAfterBackoff, AbandonBackoff, Leave,
        Return, Goto, serverVars, Inv, TypeInv, TypeOK
  <2>2. CASE pc'[c] = "returned"
    BY <2>1, <2>2, ReturnImplements DEF Contract!Next
  <2>3. CASE pc'[c] # "returned"
    <3>1. \A d \in Calls : SeenKept(d)
      BY <2>1, <2>3, OthersNotSeen, InsideCall DEF Inv
    <3>. QED
      BY <2>1, <3>1, Invisible
  <2>. QED
    BY <2>2, <2>3
<1>. QED
  BY <1>1, <1>2, <1>3

(* The server handles a mutation: it was issued, was not carried out       *)
(* before, and its caller does not hold a certain outcome.                 *)
LEMMA ServeImplements ==
    ASSUME Inv, ContractInv, NEW f \in wire, Serve(f)
    PROVE  [Contract!Next]_(Contract!vars)
<1> DEFINE c == f.call
<1>. c \in Calls /\ sent[c] \in Nat /\ sent \in [Calls -> Nat]
  BY DEF Inv, TypeInv, TypeOK, Frames, Entries
<1>1. /\ sent' = sent /\ answers' = answers /\ pc' = pc /\ err' = err
      /\ \/ executed' = executed
         \/ executed' = executed \cup {f} /\ c \in Mutations
  BY DEF Serve, callerVars
<1>2. \A d \in Calls : SeenKept(d)
  BY <1>1, InsideCall
<1>3. CASE executed' = executed
  BY <1>1, <1>2, <1>3, Invisible
<1>4. CASE executed' = executed \cup {f} /\ c \in Mutations
  <2>1. f \notin executed
    BY DEF ContractInv, HandledOnce
  <2>2. /\ ExecutedOf(c)' = ExecutedOf(c) \cup {f}
        /\ f \notin ExecutedOf(c)
        /\ \A d \in Calls \ {c} : ExecutedOf(d)' = ExecutedOf(d)
    BY <1>4, <2>1 DEF ExecutedOf
  <2>3. IsFiniteSet(FramesOf(c)) /\ Cardinality(FramesOf(c)) <= sent[c]
    BY DEF ContractInv, FramesCounted
  <2>4. ExecutedOf(c) \cup {f} \subseteq FramesOf(c)
    BY DEF ExecutedOf, FramesOf
  <2>5. IsFiniteSet(ExecutedOf(c))
    BY <2>3, <2>4, FS_Subset
  <2>6. /\ Applied(c) \in Nat
        /\ Cardinality(ExecutedOf(c) \cup {f}) = Applied(c) + 1
    BY <2>2, <2>5, FS_CardinalityType, FS_AddElement DEF Applied
  <2>7. Applied(c) < sent[c]
    <3>1. Applied(c) + 1 <= Cardinality(FramesOf(c))
      BY <2>3, <2>4, <2>6, FS_Subset
    <3>2. Cardinality(FramesOf(c)) \in Nat
      BY <2>3, FS_CardinalityType
    <3>. QED
      BY <2>3, <2>6, <3>1, <3>2
  <2>8. Outcome(c) \in {"none", "uncertain"}
    <3>1. pc[c] = "returned" => err[c] = "uncertain"
      <4> SUFFICES ASSUME pc[c] = "returned", err[c] # "uncertain"
                   PROVE  FALSE
        OBVIOUS
      <4>1. sent[c] = answers[c] + 1 /\ sent[c] = answers[c]
        BY <1>4 DEF Inv, IInv, MutationInv, AnswersAccounted, Settled, OnePlace
      <4>. QED
        BY <4>1
    <3>. QED
      BY <3>1 DEF Outcome
  <2>9. [d \in Calls |-> Cardinality(ExecutedOf(d))]'
          = [[d \in Calls |-> Cardinality(ExecutedOf(d))]
               EXCEPT ![c] = Applied(c) + 1]
    BY <2>2, <2>6
  <2>. HIDE DEF c
  <2>10. Contract!Apply(c)
    BY <1>1, <1>2, <1>4, <2>7, <2>8, <2>9
    DEF Contract!Apply, Contract!Mutations, Mutations, SeenKept, Applied,
        ExecutedOf
  <2>. QED
    BY <2>10 DEF Contract!Next
<1>. QED
  BY <1>1, <1>3, <1>4

LEMMA ReaderImplements ==
    ASSUME Inv, ReaderStep
    PROVE  UNCHANGED Contract!vars
<1>1. /\ pc' = pc /\ err' = err /\ sent' = sent /\ answers' = answers
      /\ executed' = executed
  BY DEF ReaderStep, ReadResponse, ReadError, StartReconnect, FailPending,
         BackoffEnds, DialFails, DialSucceeds, SendToken, TokenFails,
         Confirmed, Rejected, Misread, ConfirmFails, Resume, GiveUp, Recheck,
        Cleanup,
         SignalClosed, callerVars, serverVars
<1>. QED
  BY <1>1, Invisible, InsideCall

LEMMA EnvironmentImplements ==
    ASSUME Inv, ContractInv, Environment
    PROVE  [Contract!Next]_(Contract!vars)
<1>1. CASE \E c \in Calls : Begin(c)
  BY <1>1, BeginImplements DEF Inv, Contract!Next
<1>2. CASE \E f \in wire : Serve(f)
  BY <1>2, ServeImplements
<1>3. ASSUME \/ \E c \in Cancellable : Cancel(c)
             \/ \E k \in Links : LinkDrop(k) \/ KeepaliveCloses(k)
             \/ Close
      PROVE  UNCHANGED Contract!vars
  <2>1. /\ pc' = pc /\ err' = err /\ sent' = sent /\ answers' = answers
        /\ executed' = executed
    BY <1>3 DEF Cancel, LinkDrop, KeepaliveCloses, Close, callerVars, serverVars
  <2>. QED
    BY <2>1, Invisible, InsideCall
<1>. QED
  BY <1>1, <1>2, <1>3 DEF Environment

(* Client.Call keeps the promise of the README's "Retry safety": every     *)
(* behaviour of the client is one of RpcContract, over every interleaving  *)
(* of callers, reader, Close, keepalive, lost links and late replies.      *)
THEOREM ClientImplementsContract == Spec => ImplementsContract
<1>1. Inv /\ ContractInv /\ Inv' /\ ContractInv' /\ [Next]_vars
        => [Contract!Next]_(Contract!vars)
  <2> SUFFICES ASSUME Inv, ContractInv, Inv', ContractInv', [Next]_vars
               PROVE  [Contract!Next]_(Contract!vars)
    OBVIOUS
  <2>1. CASE UNCHANGED vars
    <3>1. /\ pc' = pc /\ err' = err /\ sent' = sent /\ answers' = answers
          /\ executed' = executed
      BY <2>1 DEF vars, callerVars, serverVars
    <3>. QED
      BY <3>1, Invisible, InsideCall
  <2>. QED
    BY <2>1, CallImplements, ReaderImplements, EnvironmentImplements
    DEF Next, Terminated
<1>. QED
  BY <1>1, ContractInit, ContractInvariance, PTL
  DEF Spec, ImplementsContract, Contract!Spec

=============================================================================
