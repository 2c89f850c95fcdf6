--------------------------- MODULE Startup_proofs ---------------------------
(***************************************************************************)
(* Theorems about NewClient, for every number of attempts and every way    *)
(* authenticate can fail.                                                  *)
(***************************************************************************)
EXTENDS Startup, TLAPS

(* The connections that are open: that of the attempt which is at          *)
(* authenticate or has become the client, and no other.                    *)
OpenConns ==
    \A t \in Tries :
        conns[t] = "open" <=>
            /\ t = try
            /\ \/ step = "authenticate"
               \/ step = "returned" /\ result = "client"

StartupInv == TypeOK /\ OpenConns /\ AttemptsCanSucceed

LEMMA StartupInit == Init => StartupInv
<1>1. Init => 1 \in Tries
  BY StartupAssumption DEF StartupAssumption, Tries
<1>. QED
  BY <1>1 DEF Init, StartupInv, TypeOK, OpenConns, AttemptsCanSucceed

(* The loop goes round again with a structure that was never closed, or it *)
(* ends without a client; all this as soon as no connection is open.       *)
LEMMA RoundEnds ==
    ASSUME StartupInv, NEW r \in {"permanent", "unauthorized"},
           NEW shut \in BOOLEAN,
           Give(r, shut) \/ NextTry(shut),
           conns' \in [Tries -> {"none", "open", "closed"}],
           \A t \in Tries : conns'[t] # "open",
           failure' \in {"none", "dial", "badAddress"} \cup AuthErrors
    PROVE  StartupInv'
<1>1. /\ try' \in Tries
      /\ step' = "returned" => result' # "client"
      /\ step' \in {"connect", "returned"}
  <2>1. CASE Give(r, shut)
    BY <2>1 DEF Give, StartupInv, TypeOK
  <2>2. CASE NextTry(shut)
    BY <2>2, StartupAssumption
    DEF NextTry, Give, StartupInv, TypeOK, Tries, StartupAssumption
  <2>. QED
    BY <2>1, <2>2
<1>. QED
  BY <1>1 DEF Give, NextTry, StartupInv, TypeOK, OpenConns, AttemptsCanSucceed

LEMMA StartupStep == StartupInv /\ [Next]_vars => StartupInv'
<1> SUFFICES ASSUME StartupInv, [Next]_vars PROVE StartupInv'
  OBVIOUS
<1>1. CASE Connected
  BY <1>1 DEF Connected, StartupInv, TypeOK, OpenConns, AttemptsCanSucceed
<1>2. CASE ConnectFails
  <2>1. conns' = conns /\ \A t \in Tries : conns[t] # "open"
    BY <1>2 DEF ConnectFails, StartupInv, OpenConns
  <2>2. Give("permanent", FALSE) \/ NextTry(FALSE)
    BY <1>2 DEF ConnectFails
  <2>3. failure' \in {"none", "dial", "badAddress"} \cup AuthErrors
    BY <1>2 DEF ConnectFails
  <2>. QED
    BY <2>1, <2>2, <2>3, RoundEnds DEF StartupInv, TypeOK
<1>3. CASE Authenticated
  BY <1>3
  DEF Authenticated, Give, StartupInv, TypeOK, OpenConns, AttemptsCanSucceed
<1>4. CASE AuthenticateFails
  <2>1. /\ conns' \in [Tries -> {"none", "open", "closed"}]
        /\ \A t \in Tries : conns'[t] # "open"
    BY <1>4
    DEF AuthenticateFails, ClosedConn, StartupInv, TypeOK, OpenConns
  <2>2. Give("unauthorized", TRUE) \/ NextTry(TRUE)
    BY <1>4 DEF AuthenticateFails
  <2>3. failure' \in {"none", "dial", "badAddress"} \cup AuthErrors
    BY <1>4 DEF AuthenticateFails
  <2>. QED
    BY <2>1, <2>2, <2>3, RoundEnds
<1>5. CASE Returned \/ UNCHANGED vars
  BY <1>5
  DEF Returned, vars, StartupInv, TypeOK, OpenConns, AttemptsCanSucceed
<1>. QED
  BY <1>1, <1>2, <1>3, <1>4, <1>5 DEF Next

LEMMA StartupInvariance == Spec => []StartupInv
BY StartupInit, StartupStep, PTL DEF Spec

(* The loop's counter stays within maxAttempts, whatever fails.            *)
THEOREM StartupTypeCorrect == Spec => []TypeOK
<1>1. StartupInv => TypeOK
  BY DEF StartupInv
<1>. QED
  BY <1>1, StartupInvariance, PTL

(* NewClient leaves no connection behind but that of the client it         *)
(* returns, after any sequence of failed dials and authentications.        *)
THEOREM NoConnectionIsLeft == Spec => []NoConnectionLeft
<1>1. StartupInv => NoConnectionLeft
  BY DEF StartupInv, OpenConns, NoConnectionLeft
<1>. QED
  BY <1>1, StartupInvariance, PTL

(* No attempt starts on a structure that an earlier one closed.            *)
THEOREM EveryAttemptCanSucceed == Spec => []AttemptsCanSucceed
<1>1. StartupInv => AttemptsCanSucceed
  BY DEF StartupInv
<1>. QED
  BY <1>1, StartupInvariance, PTL
=============================================================================
