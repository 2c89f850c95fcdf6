----------------------------- MODULE Keepalive -----------------------------
(***************************************************************************)
(* pingLoop beside the transport core.  NastyClient lets the keepalive     *)
(* close any link at any time; here it closes one exactly when pingLoop    *)
(* does, and a peer may fall silent: it stops answering although its link  *)
(* never produces a read error.                                            *)
(***************************************************************************)
EXTENDS NastyClient

CONSTANT MaxPingFailures \* maxPingFailures (3 in the code)

ASSUME KeepaliveAssumption == MaxPingFailures \in Nat \ {0}

VARIABLES
    pl,       \* where the pingLoop goroutine is
    pinged,   \* pingLoop's conn, captured under the lock
    failures, \* pingLoop's failures
    silent    \* links whose peer no longer answers

pingVars == <<pl, pinged, failures>>
kvars    == <<vars, pingVars, silent>>

KTypeOK ==
    /\ pl \in {"tick", "ping", "done"}
    /\ pinged \in Links
    /\ failures \in 0 .. (MaxPingFailures - 1)
    /\ silent \subseteq Links

KInit ==
    /\ Init
    /\ pl = "tick" /\ pinged = 1 /\ failures = 0
    /\ silent = {}

(* A mutant: a tick during reconnection ends the loop. *)
StopUnlessConnected == ~IsConnected

(* A tick finds no connection to ping, now or ever again. *)
StopsAtTick == ~IsConnected /\ ~reconnecting

(* A tick while reconnecting only forgets the failures. *)
TickReconnecting ==
    /\ pl = "tick" /\ reconnecting /\ ~StopsAtTick
    /\ failures' = 0
    /\ UNCHANGED <<vars, pl, pinged, silent>>

TickStops ==
    /\ pl = "tick" /\ StopsAtTick
    /\ pl' = "done"
    /\ UNCHANGED <<vars, pinged, failures, silent>>

TickPings ==
    /\ pl = "tick" /\ IsConnected
    /\ pl' = "ping"
    /\ pinged' = conn
    /\ UNCHANGED <<vars, failures, silent>>

CloseChStops ==
    /\ pl = "tick" /\ closeCh
    /\ pl' = "done"
    /\ UNCHANGED <<vars, pinged, failures, silent>>

(* Pongs are noticed only while somebody reads the pinged link. *)
PingAnswered ==
    /\ pl = "ping"
    /\ link[pinged] = "open" /\ pinged \notin silent
    /\ pinged = conn /\ rl \in {"read", "confirm"}
    /\ pl' = "tick"
    /\ failures' = 0
    /\ UNCHANGED <<vars, pinged, silent>>

(* A mutant: an error of Ping is logged and not counted. *)
PingErrorIgnored ==
    /\ pl = "ping"
    /\ pl' = "tick"
    /\ UNCHANGED <<vars, pinged, failures, silent>>

(* A mutant: the counter is never compared with its limit. *)
PingFailsUnbounded ==
    /\ pl = "ping"
    /\ pl' = "tick"
    /\ failures' = failures + 1
    /\ UNCHANGED <<vars, pinged, silent>>

(* A mutant: the loop cleans up after the link it closes. *)
PingFailsAndPurges ==
    /\ pl = "ping"
    /\ pl' = "tick"
    /\ failures' = 0
    /\ pending' = {}
    /\ link' = LinkClosed(pinged)
    /\ UNCHANGED <<closed, reconnecting, conn, reqID, closeCh, readerVars,
                   callerVars, cancelled, chanVars, session, serverVars,
                   pinged, silent>>

(* Ping fails: the link is broken, the pong is missing or it is late. *)
PingFails ==
    /\ pl = "ping"
    /\ pl' = "tick"
    /\ IF failures + 1 < MaxPingFailures
       THEN failures' = failures + 1 /\ UNCHANGED vars
       ELSE /\ failures' = 0
            /\ IF link[pinged] = "closed" THEN UNCHANGED vars
                                          ELSE KeepaliveCloses(pinged)
    /\ UNCHANGED <<pinged, silent>>

PingStep == \/ TickReconnecting \/ TickStops \/ TickPings \/ CloseChStops
            \/ PingAnswered \/ PingFails

(* The peer of the link being read stops answering. *)
FallsSilent ==
    /\ rl = "read" /\ link[conn] = "open" /\ conn \notin silent
    /\ silent' = silent \cup {conn}
    /\ UNCHANGED <<vars, pingVars>>

KTerminated == pl = "done" /\ Terminated /\ UNCHANGED <<pingVars, silent>>

(* The rest of the client, with the keepalive's closings left to PingFails *)
(* and nothing handled for a silent peer's link.                           *)
CoreStep ==
    /\ \/ \E c \in Calls : CallStep(c)
       \/ ReaderStep
       \/ \E c \in Calls : Begin(c)
       \/ \E c \in Cancellable : Cancel(c)
       \/ \E k \in Links : LinkDrop(k)
       \/ \E f \in {g \in wire : g.link \notin silent} : Serve(f)
       \/ Close
    /\ UNCHANGED <<pingVars, silent>>

KNext == PingStep \/ CoreStep \/ FallsSilent \/ KTerminated

KSpec == KInit /\ [][KNext]_kvars

(* The ticker fires and a ping ends within its timeout. *)
KFairness == /\ WF_kvars(PingStep)
             /\ WF_kvars(ReaderStep /\ UNCHANGED <<pingVars, silent>>)

KFairSpec == KSpec /\ KFairness

(***************************************************************************)
(* Properties.                                                             *)
(***************************************************************************)

(* client.go:717-720, TestSilentPeerIsReconnected: pingLoop closes a link  *)
(* whose peer fell silent, so that the reader gets an error to act on.     *)
SilentPeerDetected ==
    \A k \in Links : (k \in silent) ~> (link[k] # "open")

(* pingLoop ends only with the client: a tick at any moment of losing and  *)
(* regaining a link leaves the keepalive running.                          *)
KeepaliveOutlivesReconnect == pl = "done" => closed

(* The client with this keepalive is a client of NastyClient: whatever     *)
(* pingLoop does, the core's safety properties keep holding.               *)
RefinesClient == Spec
=============================================================================
