-------------------------- MODULE Keepalive_proofs --------------------------
(***************************************************************************)
(* The client with pingLoop is a client of NastyClient, so that what is    *)
(* proved of NastyClient holds beside the keepalive too.                   *)
(***************************************************************************)
EXTENDS Keepalive, Pending_proofs, Contract_proofs

(* pingLoop pings a link that was dialled. *)
PingInv == TypeInv /\ pinged \in Links

LEMMA PingStepRefines ==
    ASSUME PingInv, PingStep
    PROVE  [Next]_vars /\ pinged' \in Links
<1> USE DEF PingInv
<1>1. CASE PingFails
  <2>1. UNCHANGED vars \/ KeepaliveCloses(pinged)
    BY <1>1 DEF PingFails
  <2>2. pinged' = pinged
    BY <1>1 DEF PingFails
  <2>. QED
    BY <2>1, <2>2 DEF Next, Environment
<1>2. CASE TickPings
  BY <1>2 DEF TickPings, TypeInv, TypeOK
<1>3. CASE TickReconnecting \/ TickStops \/ CloseChStops \/ PingAnswered
  BY <1>3 DEF TickReconnecting, TickStops, CloseChStops, PingAnswered
<1>. QED
  BY <1>1, <1>2, <1>3 DEF PingStep

LEMMA KStepRefines ==
    ASSUME PingInv, [KNext]_kvars
    PROVE  [Next]_vars /\ PingInv'
<1>1. [Next]_vars /\ pinged' \in Links
  <2>1. CASE PingStep
    BY <2>1, PingStepRefines
  <2>2. CASE CoreStep
    BY <2>2 DEF CoreStep, pingVars, PingInv, Next, Environment
  <2>3. CASE FallsSilent \/ KTerminated
    BY <2>3 DEF FallsSilent, KTerminated, Terminated, pingVars, PingInv
  <2>4. CASE UNCHANGED kvars
    BY <2>4 DEF kvars, pingVars, PingInv
  <2>. QED
    BY <2>1, <2>2, <2>3, <2>4 DEF KNext
<1>2. TypeInv'
  BY <1>1, TypeCallStep, TypeReaderStep, TypeEnvironment, TypeStutter
  DEF PingInv, Next, Terminated
<1>. QED
  BY <1>1, <1>2 DEF PingInv

(* Whatever pingLoop does, it only does what NastyClient allows: closing a *)
(* link that was dialled, at a time of its choosing.                       *)
THEOREM KeepaliveRefinesClient == KSpec => RefinesClient
<1>1. KInit => Init /\ PingInv
  BY TypeInit, ClientAssumption DEF ClientAssumption, KInit, PingInv, Links
<1>2. PingInv /\ [KNext]_kvars => [Next]_vars /\ PingInv'
  BY KStepRefines
<1>. QED
  BY <1>1, <1>2, PTL DEF KSpec, RefinesClient, Spec

(* Beside the keepalive too, no lost mutation is written again, mutations  *)
(* keep what they returned, answers reach their own calls, nobody is left  *)
(* waiting, the reader stops only when the client is closed, and no open   *)
(* link is forgotten but one that could not be authenticated.              *)
THEOREM SafeBesideKeepalive ==
    KSpec => [](/\ LostMutationNotReplayed /\ CertainOutcome /\ AnswerIsOwn
                /\ PendingChannelsOpen /\ NoLostWakeup /\ NeverGivesUp
                /\ ReconnectAnnounced /\ OpenLinksAreHeld)
BY KeepaliveRefinesClient, LostMutationsNotReplayed, CertainOutcomes,
   AnswersAreOwn, PendingAreOpen, NoWakeupIsLost, ReaderNeverGivesUp,
   ReconnectIsAnnounced, OpenLinksAlwaysHeld, PTL
DEF RefinesClient

(* Client.Call keeps its promise to the program beside pingLoop.           *)
THEOREM ContractBesideKeepalive == KSpec => ImplementsContract
BY KeepaliveRefinesClient, ClientImplementsContract, PTL DEF RefinesClient

(***************************************************************************)
(* The keepalive's own properties.                                         *)
(***************************************************************************)

LEMMA PingInvariance == KSpec => [](PingInv /\ ReaderEnds)
<1>1. KInit => PingInv /\ ReaderEnds
  BY TypeInit, ClientAssumption
  DEF ClientAssumption, KInit, Init, PingInv, Links, ReaderEnds
<1>2. PingInv /\ ReaderEnds /\ [KNext]_kvars => PingInv' /\ ReaderEnds'
  BY KStepRefines, ReaderEndsStep DEF PingInv
<1>. QED
  BY <1>1, <1>2, PTL DEF KSpec

(* The failures that were counted never reach the limit: pingLoop acts on  *)
(* the last one and starts again.                                          *)
THEOREM KeepaliveTypeCorrect == KSpec => []KTypeOK
<1>1. KInit => KTypeOK
  BY ClientAssumption, KeepaliveAssumption
  DEF ClientAssumption, KeepaliveAssumption, KInit, KTypeOK, Links
<1>2. PingInv /\ KTypeOK /\ [KNext]_kvars => KTypeOK'
  <2> SUFFICES ASSUME PingInv, KTypeOK, [KNext]_kvars PROVE KTypeOK'
    OBVIOUS
  <2> USE KeepaliveAssumption DEF KeepaliveAssumption, KTypeOK, pingVars
  <2>. conn \in Links
    BY DEF PingInv, TypeInv, TypeOK
  <2>1. CASE TickReconnecting \/ TickStops \/ TickPings \/ CloseChStops
    BY <2>1 DEF TickReconnecting, TickStops, TickPings, CloseChStops
  <2>2. CASE PingAnswered \/ PingFails
    BY <2>2 DEF PingAnswered, PingFails
  <2>3. CASE CoreStep \/ FallsSilent \/ KTerminated
    BY <2>3 DEF CoreStep, FallsSilent, KTerminated
  <2>4. CASE UNCHANGED kvars
    BY <2>4 DEF kvars
  <2>. QED
    BY <2>1, <2>2, <2>3, <2>4 DEF KNext, PingStep
<1>. QED
  BY <1>1, <1>2, PingInvariance, PTL DEF KSpec

(* A client that is closed stays closed. *)
LEMMA StaysClosed ==
    ASSUME [Next]_vars, closed
    PROVE  closed'
<1> USE DEF clientVars
<1>1. ASSUME NEW c \in Calls, CallStep(c) PROVE closed'
  BY <1>1, CallKeepsEnd DEF KeepsEnd
<1>2. CASE Environment
  BY <1>2, EnvironmentKeepsEnd DEF KeepsEnd
<1>3. CASE ReaderStep
  BY <1>3
  DEF ReaderStep, ReadResponse, ReadError, StartReconnect, FailPending,
      BackoffEnds, DialFails, DialSucceeds, SendToken, TokenFails,
      Confirmed, Rejected, Misread, ConfirmFails, Resume, GiveUp, Recheck,
      Cleanup, SignalClosed
<1>4. CASE UNCHANGED vars
  BY <1>4 DEF vars
<1>. QED
  BY <1>1, <1>2, <1>3, <1>4 DEF Next, Terminated

(* No tick, at whatever moment of losing and regaining a link, ends the    *)
(* keepalive of a client that is not closed: conn is never nil again after *)
(* NewClient, and the reader closes closeCh only after setting closed.     *)
THEOREM KeepaliveOutlivesReconnects == KSpec => []KeepaliveOutlivesReconnect
<1>1. KInit => KeepaliveOutlivesReconnect
  BY DEF KInit, KeepaliveOutlivesReconnect
<1>2. PingInv /\ ReaderEnds /\ KeepaliveOutlivesReconnect /\ [KNext]_kvars
        => KeepaliveOutlivesReconnect'
  <2> SUFFICES ASSUME PingInv, ReaderEnds, KeepaliveOutlivesReconnect,
                      [KNext]_kvars, pl' = "done"
               PROVE  closed'
    BY DEF KeepaliveOutlivesReconnect
  <2>1. closed
    <3>1. CASE TickStops
      BY <3>1
      DEF TickStops, StopsAtTick, IsConnected, NoLink, PingInv, TypeInv,
          TypeOK, Links
    <3>2. CASE CloseChStops
      BY <3>2 DEF CloseChStops, ReaderEnds
    <3>3. CASE pl = "done"
      BY <3>3 DEF KeepaliveOutlivesReconnect
    <3>4. CASE PingStep
      BY <3>1, <3>2, <3>3, <3>4
      DEF PingStep, TickReconnecting, TickPings, PingAnswered, PingFails
    <3>5. CASE CoreStep \/ FallsSilent \/ KTerminated \/ UNCHANGED kvars
      BY <3>3, <3>5 DEF CoreStep, FallsSilent, KTerminated, kvars, pingVars
    <3>. QED
      BY <3>4, <3>5 DEF KNext
  <2>. QED
    BY <2>1, KStepRefines, StaysClosed
<1>. QED
  BY <1>1, <1>2, PingInvariance, PTL DEF KSpec

=============================================================================
