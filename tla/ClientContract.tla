-------------------------- MODULE ClientContract --------------------------
(***************************************************************************)
(* NastyClient implements RpcContract: the refinement mapping.             *)
(***************************************************************************)
EXTENDS NastyClient

Status(c) ==
    IF pc[c] \in {"idle", "returned"} THEN pc[c] ELSE "active"

Outcome(c) ==
    CASE pc[c] # "returned"     -> "none"
      [] err[c] \in {"ok", "uncertain"} /\ pc[c] = "returned" -> err[c]
      [] OTHER                  -> "failed"

Contract == INSTANCE RpcContract WITH
    status   <- [c \in Calls |-> Status(c)],
    issued   <- sent,
    answered <- answers,
    applied  <- [c \in Calls |-> Cardinality({f \in executed : f.call = c})],
    outcome  <- [c \in Calls |-> Outcome(c)]

(* Client.Call keeps its promise to the program, over every interleaving   *)
(* of callers, reader, Close, keepalive, lost links and late replies.      *)
ImplementsContract == Contract!Spec
=============================================================================
