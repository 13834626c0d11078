------------------------------ MODULE Disputes ------------------------------
(***************************************************************************)
(* The rows of `disputes`: what clients, vendors and staff do to the       *)
(* status of a dispute.  Resolving one also moves money, in steps of its   *)
(* own: see VendorPayouts.  Nothing in the services writes 'closed'.       *)
(***************************************************************************)
CONSTANTS Disputes    \* ids that rows of `disputes` can get

VARIABLE dispute      \* disputes.status, "none" before the row exists

ActiveStates == {"open", "under_review", "awaiting_evidence"}
DisputeStates == ActiveStates \cup {"none", "resolved"}

Active(d) == dispute[d] \in ActiveStates

CreateDispute(d) ==
    /\ dispute[d] = "none"
    /\ dispute' = [dispute EXCEPT ![d] = "open"]

AddMessage(d) ==
    /\ dispute[d] = "open"
    /\ dispute' = [dispute EXCEPT ![d] = "under_review"]

\* From any status: evidence for a resolved dispute makes it active again.
UploadEvidence(d) ==
    /\ dispute[d] # "none"
    /\ dispute' = [dispute EXCEPT ![d] = "awaiting_evidence"]

\* The last statement of resolveDispute; the status is not read again.
MarkResolved(d) == dispute' = [dispute EXCEPT ![d] = "resolved"]
=============================================================================
