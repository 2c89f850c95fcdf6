---------------------------- MODULE RpcContract ----------------------------
(***************************************************************************)
(* What Client.Call promises the program that makes a call (README, "Retry *)
(* safety"), with no connection in sight.  A call is issued to the server  *)
(* some number of times, the server carries an issued mutation out at most *)
(* once per issue, and the call returns one outcome.  A mutation is issued *)
(* again only when every earlier issue was answered, and once its caller   *)
(* holds a certain outcome it has no effect any more.                      *)
(***************************************************************************)
EXTENDS Naturals

CONSTANTS Calls, ReadOnly, MaxAttempts

VARIABLES
    status,   \* "idle", "active" or "returned"
    issued,   \* times the call was issued
    answered, \* times an answer came back
    applied,  \* times the server carried the mutation out
    outcome   \* "none" until it returns: "ok", "failed" or "uncertain"

vars == <<status, issued, answered, applied, outcome>>

Mutations == Calls \ ReadOnly

Init ==
    /\ status   = [c \in Calls |-> "idle"]
    /\ issued   = [c \in Calls |-> 0]
    /\ answered = [c \in Calls |-> 0]
    /\ applied  = [c \in Calls |-> 0]
    /\ outcome  = [c \in Calls |-> "none"]

Start(c) ==
    /\ status[c] = "idle"
    /\ status' = [status EXCEPT ![c] = "active"]
    /\ UNCHANGED <<issued, answered, applied, outcome>>

Issue(c) ==
    /\ status[c] = "active"
    /\ issued[c] < MaxAttempts
    /\ c \in Mutations => issued[c] = answered[c]
    /\ issued' = [issued EXCEPT ![c] = @ + 1]
    /\ UNCHANGED <<status, answered, applied, outcome>>

Answer(c) ==
    /\ status[c] = "active"
    /\ answered[c] < issued[c]
    /\ answered' = [answered EXCEPT ![c] = @ + 1]
    /\ UNCHANGED <<status, issued, applied, outcome>>

(* The server may carry a mutation out after its caller has given up, but  *)
(* only when the caller was told that the outcome is uncertain.            *)
Apply(c) ==
    /\ c \in Mutations
    /\ applied[c] < issued[c]
    /\ outcome[c] \in {"none", "uncertain"}
    /\ applied' = [applied EXCEPT ![c] = @ + 1]
    /\ UNCHANGED <<status, issued, answered, outcome>>

Return(c) ==
    /\ status[c] = "active"
    /\ status' = [status EXCEPT ![c] = "returned"]
    /\ \E o \in {"ok", "failed", "uncertain"} :
         /\ o = "ok" => answered[c] > 0 /\ (c \in Mutations => applied[c] > 0)
         /\ o = "uncertain" => c \in Mutations /\ issued[c] > 0
         /\ o = "failed" /\ c \in Mutations => issued[c] = answered[c]
         /\ outcome' = [outcome EXCEPT ![c] = o]
    /\ UNCHANGED <<issued, answered, applied>>

Next == \E c \in Calls :
            Start(c) \/ Issue(c) \/ Answer(c) \/ Apply(c) \/ Return(c)

Spec == Init /\ [][Next]_vars
=============================================================================
