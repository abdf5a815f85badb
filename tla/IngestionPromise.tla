--------------------------- MODULE IngestionPromise ---------------------------
(***************************************************************************)
(* What a user of the knowledge base is promised about one piece of       *)
(* ingestion work, whatever the workers, leases and retries do underneath: *)
(* the work is accepted, is shown as being processed, and ends exactly     *)
(* once, either done (its follow-up work accepted in the same instant) or  *)
(* failed.  Deleting the knowledge base removes everything at once.        *)
(*                                                                         *)
(* IngestionQueue implements this specification.                           *)
(***************************************************************************)
CONSTANTS
    Jobs,     \* pieces of ingestion work that may ever exist
    Roots,    \* those an API request submits; the others are follow-ups
    Follow    \* Follow[j]: the follow-ups j may ask for when it is done

VARIABLE status   \* status[j]: what the user is shown

Statuses == {"absent", "processing", "done", "failed", "deleted"}

Init == status = [j \in Jobs |-> "absent"]

(* An API request is accepted. *)
Accept(j) ==
    /\ j \in Roots
    /\ status[j] = "absent"
    /\ status' = [status EXCEPT ![j] = "processing"]

(* Work succeeds; the follow-up it asks for is accepted with it, unless it  *)
(* was accepted before.                                                     *)
Succeed(j) ==
    /\ status[j] = "processing"
    /\ \/ /\ Follow[j] = {}
          /\ status' = [status EXCEPT ![j] = "done"]
       \/ \E c \in Follow[j] :
             status' = [status EXCEPT ![j] = "done",
                                      ![c] = IF @ = "absent" THEN "processing" ELSE @]

(* One worker may give up several pieces of work in one transaction. *)
GiveUp(S) ==
    /\ \A j \in S : status[j] = "processing"
    /\ status' = [j \in Jobs |-> IF j \in S THEN "failed" ELSE status[j]]

(* The knowledge base goes, and all of its work with it. *)
Delete ==
    /\ \A j \in Jobs : status[j] # "deleted"
    /\ status' = [j \in Jobs |-> "deleted"]

Next ==
    \/ \E j \in Jobs : Accept(j)
    \/ \E j \in Jobs : Succeed(j)
    \/ \E S \in SUBSET Jobs : GiveUp(S)
    \/ Delete

Spec == Init /\ [][Next]_status

(* What was accepted settles. *)
Settled(j) == status[j] \in {"done", "failed", "deleted"}
EveryAcceptedJobSettles == \A j \in Jobs : (status[j] = "processing") ~> Settled(j)
===============================================================================
