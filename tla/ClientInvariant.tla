-------------------------- MODULE ClientInvariant --------------------------
(***************************************************************************)
(* The inductive invariants behind the safety theorems of NastyClient.     *)
(* The properties are not inductive on their own: that no lost mutation is *)
(* written again rests on where the one unanswered request can be, and     *)
(* that on ids naming one call each.                                       *)
(***************************************************************************)
EXTENDS NastyClient

(* Ids in use were issued by reqID. *)
IdsIssued ==
    /\ \A p \in pending : p.id <= reqID
    /\ \A f \in wire    : f.id <= reqID
    /\ \A r \in replies : r.id <= reqID

(* One id, one call: on the wire, in a reply and in the pending map. *)
IdsNameCalls ==
    /\ \A p \in pending, f \in wire    : p.id = f.id => p.call = f.call
    /\ \A p \in pending, r \in replies : p.id = r.id => p.call = r.call

(* callOnce is not, or no longer, waiting, and what it reported is certain. *)
Settled(c) ==
    \/ pc[c] \in {"idle", "attempt", "send", "backoff"}
    \/ pc[c] \in {"decide", "returned"} /\ err[c] # "uncertain"

(* A mutation's writes and answers in step: equal while it may be written  *)
(* again or is reported as certain, one apart while it waits.              *)
AnswersAccounted(c) ==
    /\ Settled(c) => sent[c] = answers[c]
    /\ pc[c] = "wait" => sent[c] = answers[c] + 1
    /\ sent[c] <= answers[c] + 1

Answered(c) == pc[c] = "wait" /\ chan[c] \in AllReplyKinds

(* A mutation's unanswered request is in one place only: on the wire, or   *)
(* as a reply on its way, or as a reply in its channel.                    *)
OnePlace(c) ==
    /\ \A f \in wire    : f.call = c => sent[c] = answers[c] + 1
    /\ \A r \in replies : r.call = c => sent[c] = answers[c] + 1
    /\ \A f \in wire, g \in wire       : f.call = c /\ g.call = c => f = g
    /\ \A r \in replies, s \in replies : r.call = c /\ s.call = c => r = s
    /\ \A f \in wire, r \in replies    : ~ (f.call = c /\ r.call = c)
    /\ \A f \in wire    : f.call = c => ~Answered(c)
    /\ \A r \in replies : r.call = c => ~Answered(c)

MutationInv(c) == AnswersAccounted(c) /\ OnePlace(c)

IInv == /\ IdsIssued
        /\ IdsNameCalls
        /\ AnswerIsOwn
        /\ \A c \in Mutations : MutationInv(c)

(* With no API error that reads like a connection error, a mutation that   *)
(* may still be written has not been written.                              *)
Unsent(c) ==
    /\ chan[c] # "netError"
    /\ sent[c] <= 1
    /\ (\/ pc[c] \in {"idle", "attempt", "send", "backoff"}
        \/ pc[c] = "decide" /\ IsConnectionError(err[c])) => sent[c] = 0

(***************************************************************************)
(* The pending map.                                                        *)
(***************************************************************************)

(* Two waiting callers have different ids, both issued by reqID. *)
WaitersDistinct ==
    /\ \A c \in Calls    : pc[c] = "wait" => req[c] <= reqID
    /\ \A c, d \in Calls : (/\ pc[c] = "wait" /\ pc[d] = "wait"
                            /\ req[c] = req[d]) => c = d

(* closeCh is closed by the reader only, after it emptied the map for good. *)
ReaderEnds ==
    /\ closeCh => rl = "done"
    /\ rl \in {"signal", "done"} => closed /\ pending = {}

PendingInv ==
    PendingChannelsOpen /\ NoLostWakeup /\ WaitersDistinct /\ ReaderEnds

(***************************************************************************)
(* The link the reader is on.                                              *)
(***************************************************************************)

(* The link is gone, or the client could not authenticate on it. *)
Unusable == link[conn] # "open" \/ session[conn] \in {"rejected", "misread"}

(* Between two links the old one is unusable, and stays so if the reader   *)
(* comes back to it from a reinitializeConnection that failed.             *)
AnnounceInv ==
    /\ rl = "resume" => conn \in notified
    /\ rl = "read" =>
         conn = 1 \/ conn \in notified \/ (Unusable /\ via = "reinit")
    /\ rl \in {"lost", "purge", "backoff", "dial", "giveUp", "recheck"}
         => Unusable

(* Links are dialled one after the other, and an open one is held. *)
LinksInv ==
    /\ \A k \in Links : k > conn => link[k] = "unused"
    /\ OpenLinksAreHeld

(***************************************************************************)
(* What the refinement of RpcContract rests on.                            *)
(***************************************************************************)

FramesOf(c)   == {f \in wire \cup executed : f.call = c}
ExecutedOf(c) == {f \in executed : f.call = c}

(* Every request on the wire or carried out comes from a write of its own. *)
FramesCounted(c) ==
    /\ IsFiniteSet(FramesOf(c))
    /\ Cardinality(FramesOf(c)) <= sent[c]

(* Each attempt of Call writes once. *)
WritesCounted(c) ==
    /\ sent[c] <= attempt[c]
    /\ pc[c] \in {"idle", "attempt", "send"} => sent[c] < attempt[c]

(* An answer is one to a write. *)
RepliesCounted(c) ==
    /\ answers[c] <= sent[c]
    /\ pc[c] = "wait" => answers[c] < sent[c]

(* What a caller reports has a reason: a result means that the server has  *)
(* carried the mutation out, an unknown outcome that it was written.       *)
Grounded(c) ==
    /\ err[c] = "ok" => answers[c] > 0
    /\ err[c] = "uncertain" => c \in Mutations /\ sent[c] > 0
    /\ (c \in Mutations /\ (chan[c] = "result" \/ err[c] = "ok"))
         => ExecutedOf(c) # {}

ResultsReal ==
    \A r \in replies : (r.call \in Mutations /\ r.kind = "result")
                        => ExecutedOf(r.call) # {}

(* No request is carried out twice: it leaves the wire, and no later one   *)
(* has its id.                                                             *)
HandledOnce ==
    /\ wire \cap executed = {}
    /\ \A f \in executed : f.id <= reqID

ContractInv ==
    /\ HandledOnce
    /\ ResultsReal
    /\ \A c \in Calls : /\ FramesCounted(c) /\ WritesCounted(c)
                         /\ RepliesCounted(c) /\ Grounded(c)
=============================================================================
