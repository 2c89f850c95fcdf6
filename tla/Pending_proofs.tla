--------------------------- MODULE Pending_proofs ---------------------------
(***************************************************************************)
(* The pending map of NastyClient: its channels can be sent on and closed, *)
(* and no caller waiting on one of them is forgotten.                      *)
(***************************************************************************)
EXTENDS NastyClient_proofs

(***************************************************************************)
(* The end of the reader.                                                  *)
(***************************************************************************)

(* A step adds an entry only while the client is not closed, and leaves    *)
(* what the end of the reader rests on as it is.                           *)
KeepsEnd ==
    /\ closed => closed' /\ pending' \subseteq pending
    /\ closeCh' = closeCh
    /\ rl' = rl

LEMMA CallKeepsEnd ==
    ASSUME NEW c \in Calls, CallStep(c)
    PROVE  KeepsEnd
<1> USE DEF clientVars, readerVars, KeepsEnd
<1>1. CASE Write(c) \/ WriteError(c)
  BY <1>1 DEF Write, WriteError
<1>2. CASE ContextDone(c)
  BY <1>2 DEF ContextDone
<1>3. CASE CheckContext(c) \/ Refuse(c) \/ Decide(c)
  BY <1>3 DEF CheckContext, Refuse, Decide
<1>4. CASE RetryAfterBackoff(c) \/ AbandonBackoff(c)
  BY <1>4 DEF RetryAfterBackoff, AbandonBackoff
<1>5. CASE ReceiveReply(c) \/ ReceiveClosed(c) \/ ReceiveCloseCh(c)
  <2>1. UNCHANGED clientVars /\ UNCHANGED readerVars
    BY <1>5 DEF ReceiveReply, ReceiveClosed, ReceiveCloseCh
  <2>. QED
    BY <2>1
<1>. QED
  BY <1>1, <1>2, <1>3, <1>4, <1>5 DEF CallStep

LEMMA EnvironmentKeepsEnd ==
    ASSUME Environment
    PROVE  KeepsEnd
BY DEF Environment, Begin, Cancel, LinkDrop, KeepaliveCloses, Serve, Close,
       clientVars, readerVars, KeepsEnd

LEMMA ReaderEndsStep ==
    ASSUME TypeInv, ReaderEnds, [Next]_vars
    PROVE  ReaderEnds'
<1>1. CASE KeepsEnd
  BY <1>1 DEF KeepsEnd, ReaderEnds
<1>2. CASE ReaderStep
  <2> USE DEF At, ReaderEnds, clientVars
  <2>1. CASE Cleanup \/ SignalClosed
    BY <2>1 DEF Cleanup, SignalClosed, DropPending
  <2>2. CASE DialFails \/ TokenFails \/ Rejected \/ Misread \/ ConfirmFails
    BY <2>2, AttemptFailsType
    DEF DialFails, TokenFails, Rejected, Misread, ConfirmFails, TypeInv
  <2>3. CASE ReadResponse \/ ReadError \/ BackoffEnds \/ Recheck
    BY <2>3
    DEF ReadResponse, ReadError, BackoffEnds, Recheck, AfterFailedReconnect
  <2>4. CASE StartReconnect \/ FailPending \/ DialSucceeds \/ SendToken
    BY <2>4 DEF StartReconnect, FailPending, DialSucceeds, SendToken
  <2>5. CASE Confirmed \/ Resume \/ GiveUp
    BY <2>5 DEF Confirmed, Resume, GiveUp
  <2>. QED
    BY <1>2, <2>1, <2>2, <2>3, <2>4, <2>5 DEF ReaderStep
<1>3. CASE UNCHANGED vars
  BY <1>3 DEF vars, clientVars, readerVars, ReaderEnds
<1>. QED
  BY <1>1, <1>2, <1>3, CallKeepsEnd, EnvironmentKeepsEnd DEF Next, Terminated

(***************************************************************************)
(* Entries and waiting callers.                                            *)
(***************************************************************************)

WaitInv == PendingChannelsOpen /\ NoLostWakeup /\ WaitersDistinct

(* A step that neither starts nor ends a wait nor touches the map. *)
KeepsWaits ==
    /\ pending' = pending /\ reqID' = reqID
    /\ req' = req /\ chan' = chan
    /\ \A d \in Calls : pc'[d] = "wait" <=> pc[d] = "wait"

LEMMA KeepsWaitsStep ==
    ASSUME TypeInv, WaitInv, KeepsWaits
    PROVE  WaitInv'
<1>. \A p \in pending : p.call \in Calls
  BY DEF TypeInv, TypeOK, Entries
<1>1. PendingChannelsOpen'
  BY DEF WaitInv, KeepsWaits, PendingChannelsOpen
<1>2. NoLostWakeup'
  BY DEF WaitInv, KeepsWaits, NoLostWakeup
<1>3. WaitersDistinct'
  BY DEF WaitInv, KeepsWaits, WaitersDistinct
<1>. QED
  BY <1>1, <1>2, <1>3 DEF WaitInv

(* Every pending channel is closed as the map is emptied. *)
LEMMA DropPendingWaits ==
    ASSUME TypeInv, WaitInv, DropPending,
           pc' = pc, req' = req, reqID' = reqID
    PROVE  WaitInv'
<1>1. PendingChannelsOpen'
  BY DEF DropPending, PendingChannelsOpen
<1>2. NoLostWakeup'
  <2> SUFFICES ASSUME NEW c \in Calls, pc[c] = "wait", chan'[c] = "open"
               PROVE  FALSE
    BY DEF NoLostWakeup
  <2>1. chan[c] = "open" /\ ~ \E p \in pending : p.call = c
    BY DEF DropPending
  <2>. QED
    BY <2>1 DEF WaitInv, NoLostWakeup
<1>3. WaitersDistinct'
  BY DEF WaitInv, WaitersDistinct
<1>. QED
  BY <1>1, <1>2, <1>3 DEF WaitInv

(* A caller leaves the select; its entry, if it has one, goes with it. *)
LEMMA LeaveWait ==
    ASSUME TypeInv, WaitInv, NEW c \in Calls, pc[c] = "wait",
           NEW e, Leave(c, e), LeaveSelect(c), reqID' = reqID,
           pending' \subseteq pending,
           \A p \in pending' : p.call # c,
           \A p \in pending : p.id # req[c] => p \in pending'
    PROVE  WaitInv'
<1> USE DEF Leave, Goto, LeaveSelect
<1>. /\ \A p \in pending : p.call \in Calls
     /\ \A d \in Calls \ {c} : /\ pc'[d] = pc[d] /\ req'[d] = req[d]
                               /\ chan'[d] = chan[d]
     /\ pc'[c] = "decide"
  BY DEF TypeInv, TypeOK, Entries
<1>1. PendingChannelsOpen'
  BY DEF WaitInv, PendingChannelsOpen
<1>2. NoLostWakeup'
  <2> SUFFICES ASSUME NEW d \in Calls, d # c,
                      pc[d] = "wait", chan[d] = "open"
               PROVE  \E p \in pending' : p.call = d /\ p.id = req[d]
    BY DEF NoLostWakeup
  <2>1. req[d] # req[c]
    BY DEF WaitInv, WaitersDistinct
  <2>. QED
    BY <2>1 DEF WaitInv, NoLostWakeup
<1>3. WaitersDistinct'
  BY DEF WaitInv, WaitersDistinct
<1>. QED
  BY <1>1, <1>2, <1>3 DEF WaitInv

LEMMA WaitCallStep ==
    ASSUME TypeInv, IdsIssued, ReaderEnds, WaitInv, NEW c \in Calls, CallStep(c)
    PROVE  WaitInv'
<1>. \A p \in pending : p.call \in Calls /\ p.id \in Nat
  BY DEF TypeInv, TypeOK, Entries
<1>1. CASE Write(c)
  <2>1. /\ pc[c] = "send" /\ pc'[c] = "wait"
        /\ req'[c] = reqID + 1 /\ reqID' = reqID + 1
        /\ chan'[c] = "open"
        /\ pending' = pending \cup {NewFrame(c)}
        /\ \A d \in Calls \ {c} : /\ pc'[d] = pc[d] /\ req'[d] = req[d]
                                  /\ chan'[d] = chan[d]
        /\ reqID \in Nat /\ req \in [Calls -> Nat]
    BY <1>1 DEF Write, Goto, FreshId, TypeInv, TypeOK
  <2>2. NewFrame(c).id = reqID + 1 /\ NewFrame(c).call = c
    BY DEF NewFrame, FreshId
  <2>3. PendingChannelsOpen'
    BY <2>1, <2>2 DEF WaitInv, PendingChannelsOpen
  <2>4. NoLostWakeup'
    BY <2>1, <2>2 DEF WaitInv, NoLostWakeup
  <2>5. WaitersDistinct'
    BY <2>1 DEF WaitInv, WaitersDistinct
  <2>. QED
    BY <2>3, <2>4, <2>5 DEF WaitInv
<1>2. CASE WriteError(c)
  <2>1. reqID' = reqID + 1 /\ reqID \in Nat /\ req \in [Calls -> Nat]
    BY <1>2 DEF WriteError, TypeInv, TypeOK
  <2>2. /\ pending' = pending /\ req' = req /\ chan' = chan
        /\ \A d \in Calls : pc'[d] = "wait" <=> pc[d] = "wait"
    BY <1>2 DEF WriteError, Leave, Goto, chanVars, TypeInv, TypeOK
  <2>3. WaitersDistinct'
    BY <2>1, <2>2 DEF WaitInv, WaitersDistinct
  <2>. QED
    BY <2>2, <2>3 DEF WaitInv, PendingChannelsOpen, NoLostWakeup
<1>3. CASE ReceiveReply(c)
  <2>1. PICK e : Leave(c, e)
    BY <1>3 DEF ReceiveReply, AllReplyKinds
  <2>2. \A p \in pending : p.call # c
    BY <1>3 DEF ReceiveReply, AllReplyKinds, WaitInv, PendingChannelsOpen
  <2>. QED
    BY <1>3, <2>1, <2>2, LeaveWait DEF ReceiveReply, clientVars
<1>4. CASE ReceiveClosed(c)
  <2>1. \A p \in pending : p.call # c
    BY <1>4 DEF ReceiveClosed, WaitInv, PendingChannelsOpen
  <2>. QED
    BY <1>4, <2>1, LeaveWait DEF ReceiveClosed, clientVars
<1>5. CASE ContextDone(c)
  <2>1. \A p \in pending' : p.call # c
    BY <1>5 DEF ContextDone, Mine, WaitInv, PendingChannelsOpen
  <2>2. \A p \in pending : p.id # req[c] => p \in pending'
    BY <1>5 DEF ContextDone, Mine
  <2>. QED
    BY <1>5, <2>1, <2>2, LeaveWait DEF ContextDone
<1>6. CASE ReceiveCloseCh(c)
  <2>1. pending = {}
    BY <1>6 DEF ReceiveCloseCh, ReaderEnds
  <2>. QED
    BY <1>6, <2>1, LeaveWait DEF ReceiveCloseCh, clientVars
<1>7. CASE \/ CheckContext(c) \/ Refuse(c) \/ Decide(c)
           \/ RetryAfterBackoff(c) \/ AbandonBackoff(c)
  <2>1. KeepsWaits
    BY <1>7
    DEF CheckContext, Refuse, Decide, RetryAfterBackoff, AbandonBackoff,
        Leave, Goto, Return, TypeInv, TypeOK, clientVars, chanVars, KeepsWaits
  <2>. QED
    BY <2>1, KeepsWaitsStep
<1>. QED
  BY <1>1, <1>2, <1>3, <1>4, <1>5, <1>6, <1>7 DEF CallStep

LEMMA WaitReadResponse ==
    ASSUME TypeInv, WaitInv, ReadResponse
    PROVE  WaitInv'
<1>. \A p \in pending : p.call \in Calls
  BY DEF TypeInv, TypeOK, Entries
<1>1. PICK r \in replies :
        LET hit == {p \in pending : p.id = r.id} IN
        /\ pending' = pending \ hit
        /\ chan' = [c \in Calls |-> IF \E p \in hit : p.call = c
                                    THEN r.kind ELSE chan[c]]
  BY DEF ReadResponse
<1>2. pc' = pc /\ req' = req /\ reqID' = reqID
  BY DEF ReadResponse, callerVars
<1>3. r.kind # "open"
  BY ClientAssumption
  DEF TypeInv, TypeOK, Answers, ClientAssumption, AllReplyKinds
<1>4. PendingChannelsOpen'
  <2> SUFFICES ASSUME NEW p \in pending, p.id # r.id
               PROVE  /\ pc[p.call] = "wait" /\ req[p.call] = p.id
                      /\ chan'[p.call] = "open"
    BY <1>1, <1>2 DEF PendingChannelsOpen
  <2>1. ~ \E s \in pending : s.id = r.id /\ s.call = p.call
    BY DEF WaitInv, PendingChannelsOpen
  <2>2. chan'[p.call] = chan[p.call]
    BY <1>1, <2>1
  <2>. QED
    BY <2>2 DEF WaitInv, PendingChannelsOpen
<1>5. NoLostWakeup'
  <2> SUFFICES ASSUME NEW c \in Calls, pc[c] = "wait", chan'[c] = "open"
               PROVE  \E p \in pending' : p.call = c /\ p.id = req[c]
    BY <1>2 DEF NoLostWakeup
  <2>1. /\ ~ \E p \in pending : p.id = r.id /\ p.call = c
        /\ chan[c] = "open"
    BY <1>1, <1>3
  <2>. QED
    BY <1>1, <2>1 DEF WaitInv, NoLostWakeup
<1>6. WaitersDistinct'
  BY <1>2 DEF WaitInv, WaitersDistinct
<1>. QED
  BY <1>4, <1>5, <1>6 DEF WaitInv

LEMMA WaitReaderStep ==
    ASSUME TypeInv, WaitInv, ReaderStep
    PROVE  WaitInv'
<1> USE DEF clientVars, callerVars, chanVars
<1>1. CASE ReadResponse
  BY <1>1, WaitReadResponse
<1>2. CASE FailPending \/ Cleanup
  BY <1>2, DropPendingWaits DEF FailPending, Cleanup
<1>3. CASE BackoffEnds
  <2>1. CASE DropPending
    BY <1>3, <2>1, DropPendingWaits DEF BackoffEnds
  <2>2. CASE KeepsWaits
    BY <2>2, KeepsWaitsStep
  <2>. QED
    BY <1>3, <2>1, <2>2 DEF BackoffEnds, KeepsWaits
<1>4. CASE ReadError \/ StartReconnect \/ DialFails \/ DialSucceeds
  BY <1>4, KeepsWaitsStep
  DEF ReadError, StartReconnect, DialFails, DialSucceeds, KeepsWaits
<1>5. CASE \/ SendToken \/ TokenFails \/ Confirmed \/ Rejected \/ Misread
           \/ ConfirmFails
  BY <1>5, KeepsWaitsStep
  DEF SendToken, TokenFails, Confirmed, Rejected, Misread, ConfirmFails,
      KeepsWaits
<1>6. CASE Resume \/ GiveUp \/ Recheck \/ SignalClosed
  BY <1>6, KeepsWaitsStep
  DEF Resume, GiveUp, Recheck, SignalClosed, KeepsWaits
<1>. QED
  BY <1>1, <1>2, <1>3, <1>4, <1>5, <1>6 DEF ReaderStep

LEMMA WaitEnvironment ==
    ASSUME TypeInv, WaitInv, Environment
    PROVE  WaitInv'
<1> USE DEF clientVars, callerVars, chanVars, KeepsWaits
<1>1. CASE \E c \in Calls : Begin(c)
  BY <1>1, KeepsWaitsStep DEF Begin, Goto, TypeInv, TypeOK
<1>2. CASE \E c \in Cancellable : Cancel(c)
  BY <1>2, KeepsWaitsStep DEF Cancel
<1>3. CASE \E k \in Links : LinkDrop(k) \/ KeepaliveCloses(k)
  BY <1>3, KeepsWaitsStep DEF LinkDrop, KeepaliveCloses
<1>4. CASE \E f \in wire : Serve(f)
  BY <1>4, KeepsWaitsStep DEF Serve
<1>5. CASE Close
  BY <1>5, KeepsWaitsStep DEF Close
<1>. QED
  BY <1>1, <1>2, <1>3, <1>4, <1>5 DEF Environment

(***************************************************************************)
(* The theorems.                                                           *)
(***************************************************************************)

LEMMA PendingInvariance == Spec => []PendingInv
<1>1. Init => PendingInv
  BY DEF Init, PendingInv, PendingChannelsOpen, NoLostWakeup, WaitersDistinct,
         ReaderEnds
<1>2. Inv /\ PendingInv /\ [Next]_vars => PendingInv'
  <2> SUFFICES ASSUME Inv, PendingInv, [Next]_vars PROVE PendingInv'
    OBVIOUS
  <2>1. TypeInv /\ IdsIssued /\ WaitInv /\ ReaderEnds
    BY DEF Inv, IInv, PendingInv, WaitInv
  <2>2. ASSUME UNCHANGED vars PROVE WaitInv'
    BY <2>1, <2>2, KeepsWaitsStep
    DEF vars, clientVars, callerVars, chanVars, KeepsWaits
  <2>3. WaitInv'
    BY <2>1, <2>2, WaitCallStep, WaitReaderStep, WaitEnvironment
    DEF Next, Terminated
  <2>. QED
    BY <2>1, <2>3, ReaderEndsStep DEF PendingInv, WaitInv
<1>. QED
  BY <1>1, <1>2, Invariance, PTL DEF Spec

(* processResponse and the purges never send on a closed channel or close  *)
(* one twice, and abandoned attempts leave no entry behind.                *)
THEOREM PendingAreOpen == Spec => []PendingChannelsOpen
<1>1. PendingInv => PendingChannelsOpen
  BY DEF PendingInv
<1>. QED
  BY <1>1, PendingInvariance, PTL

(* A caller in callOnce's select is registered as long as its channel is   *)
(* silent, over every purge, cancellation and reconnection of others.      *)
THEOREM NoWakeupIsLost == Spec => []NoLostWakeup
<1>1. PendingInv => NoLostWakeup
  BY DEF PendingInv
<1>. QED
  BY <1>1, PendingInvariance, PTL
=============================================================================
