------------------------------ MODULE Startup ------------------------------
(***************************************************************************)
(* NewClient: up to maxAttempts rounds of connect and authenticate, each   *)
(* with a client structure of its own.  NastyClient takes over where this  *)
(* module ends with result "client".                                       *)
(***************************************************************************)
EXTENDS Naturals

CONSTANTS
    MaxTries,   \* maxAttempts of NewClient (5 in the code)
    AuthErrors  \* what authenticate can fail with

ASSUME StartupAssumption ==
    /\ MaxTries \in Nat \ {0}
    /\ AuthErrors \subseteq
         { "rejected",  \* ErrAuthenticationRejected
           "broken",    \* the connection broke or timed out
           "broken401" } \* the same, and the error text contains "401"

VARIABLES
    step,    \* what NewClient does next: "connect", "authenticate", "returned"
    try,     \* attempt of NewClient's loop
    closed,  \* Client.closed of the current structure
    conns,   \* the connection of each attempt
    failure, \* lastConnErr
    result   \* what NewClient returned

vars == <<step, try, closed, conns, failure, result>>

Tries == 1 .. MaxTries

TypeOK ==
    /\ step \in {"connect", "authenticate", "returned"}
    /\ try \in Tries
    /\ closed \in BOOLEAN
    /\ conns \in [Tries -> {"none", "open", "closed"}]
    /\ failure \in {"none", "dial", "badAddress"} \cup AuthErrors
    /\ result \in {"none", "client", "permanent", "unauthorized", "exhausted"}

Init ==
    /\ step = "connect" /\ try = 1 /\ closed = FALSE
    /\ conns = [t \in Tries |-> "none"]
    /\ failure = "none" /\ result = "none"

(* isPermanentConnectionError and isAuthenticationError look at the text. *)
PermanentConnectionErrors == {"badAddress"}
AuthenticationErrors      == {"rejected", "broken401"}

Give(r, shut) ==
    step' = "returned" /\ result' = r /\ closed' = shut /\ UNCHANGED try

(* A mutant: the structure of the failed attempt is used again. *)
SameStructAgain(shut) ==
    IF try = MaxTries THEN Give("exhausted", shut)
    ELSE /\ step' = "connect" /\ try' = try + 1 /\ closed' = shut
         /\ UNCHANGED result

(* A mutant: an off-by-one in the bound of the loop. *)
RetryPastEnd(shut) ==
    IF try > MaxTries THEN Give("exhausted", shut)
    ELSE /\ step' = "connect" /\ try' = try + 1 /\ closed' = FALSE
         /\ UNCHANGED result

(* A mutant: the loop does not count this failure. *)
RetryForever(shut) ==
    step' = "connect" /\ closed' = FALSE /\ UNCHANGED <<try, result>>

(* continue: after the delay, another round with newClientStruct(); or the *)
(* end, with the structure closed if it had got as far as authenticate.    *)
NextTry(shut) ==
    IF try = MaxTries THEN Give("exhausted", shut)
    ELSE /\ step' = "connect" /\ try' = try + 1 /\ closed' = FALSE
         /\ UNCHANGED result

Connected ==
    /\ step = "connect" /\ ~closed
    /\ conns' = [conns EXCEPT ![try] = "open"]
    /\ step' = "authenticate"
    /\ UNCHANGED <<try, closed, failure, result>>

ConnectFails ==
    /\ step = "connect"
    /\ \E e \in {"dial", "badAddress"} :
         /\ failure' = e
         /\ IF e \in PermanentConnectionErrors THEN Give("permanent", FALSE)
                                               ELSE NextTry(FALSE)
    /\ UNCHANGED conns

(* The loops are started, and the client is the caller's. *)
Authenticated ==
    /\ step = "authenticate"
    /\ Give("client", FALSE)
    /\ UNCHANGED <<conns, failure>>

(* A mutant: nothing is closed on the way to the next attempt. *)
LeftOpen == conns

(* c.Close() on the client whose authentication failed. *)
ClosedConn == [conns EXCEPT ![try] = "closed"]

AuthenticateFails ==
    /\ step = "authenticate"
    /\ conns' = ClosedConn
    /\ \E e \in AuthErrors :
         /\ failure' = e
         /\ IF e \in AuthenticationErrors THEN Give("unauthorized", TRUE)
                                          ELSE NextTry(TRUE)

Returned == step = "returned" /\ UNCHANGED vars

Next == \/ Connected \/ ConnectFails
        \/ Authenticated \/ AuthenticateFails
        \/ Returned

Spec == Init /\ [][Next]_vars /\ WF_vars(Next)

(***************************************************************************)
(* Properties.                                                             *)
(***************************************************************************)

(* However NewClient ends, no connection but that of the client it returns *)
(* stays open.                                                             *)
NoConnectionLeft ==
    step = "returned" =>
        \A t \in Tries : conns[t] = "open" <=> (result = "client" /\ t = try)

(* Every attempt can succeed: connect refuses a client that was closed, so *)
(* none starts on the structure the previous attempt closed.               *)
AttemptsCanSucceed == step = "connect" => ~closed

(* NewClient returns, whatever the server and the network do. *)
NewClientReturns == <>(step = "returned")
=============================================================================
