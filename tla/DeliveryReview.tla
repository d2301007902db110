--------------------------- MODULE DeliveryReview ---------------------------
(***************************************************************************)
(* What creative review promises about the delivery versions of one item,  *)
(* whatever else happens to the item: versions come in order, each gets    *)
(* one verdict, only the newest can be under review, and approving it is   *)
(* what releases it.  ContentLifecycle is shown to implement this.         *)
(***************************************************************************)
EXTENDS Naturals

CONSTANT MaxVersions

VARIABLES
  submitted,  \* number of versions submitted so far
  verdict,    \* where the review of each version stands
  released    \* the versions marked as the final one

vars == <<submitted, verdict, released>>

UnderReview == {"internal", "client"}
Verdicts == UnderReview \cup {"unsubmitted", "approved", "rejected", "superseded"}

Init ==
  /\ submitted = 0
  /\ verdict = [v \in 1..MaxVersions |-> "unsubmitted"]
  /\ released = {}

\* A new version starts its internal review and takes the place of the one
\* under review, if there is one.
Submit ==
  /\ submitted < MaxVersions
  /\ submitted' = submitted + 1
  /\ verdict' = [v \in 1..MaxVersions |->
       IF v = submitted + 1 THEN "internal"
       ELSE IF verdict[v] \in UnderReview THEN "superseded" ELSE verdict[v]]
  /\ UNCHANGED released

Forward(v) ==
  /\ verdict[v] = "internal"
  /\ verdict' = [verdict EXCEPT ![v] = "client"]
  /\ UNCHANGED <<submitted, released>>

Approve(v) ==
  /\ verdict[v] \in UnderReview
  /\ verdict' = [verdict EXCEPT ![v] = "approved"]
  /\ released' = {v}
  /\ UNCHANGED submitted

Reject(v) ==
  /\ verdict[v] \in UnderReview
  /\ verdict' = [verdict EXCEPT ![v] = "rejected"]
  /\ UNCHANGED <<submitted, released>>

Next ==
  \/ Submit
  \/ \E v \in 1..MaxVersions : Forward(v) \/ Approve(v) \/ Reject(v)

Spec == Init /\ [][Next]_vars

(***************************************************************************)
(* What follows for the versions and their verdicts.                       *)
(***************************************************************************)
Closed == {"approved", "rejected", "superseded"}

\* Only the newest version can be under review, and exactly the versions not
\* yet submitted have no verdict (submitDelivery numbers versions upwards and
\* supersedes the review it finds).
NewestIsReviewed ==
  \A v \in 1..MaxVersions :
    /\ verdict[v] \in UnderReview => v = submitted
    /\ verdict[v] = "unsubmitted" <=> v > submitted

\* The released version is the newest approved one, and there is one as soon
\* as any version was approved: a later submission or rejection neither takes
\* it back nor brings an older one forward (is_final_approved, decideApproval).
NewestApprovedIsReleased ==
  /\ \A v \in released :
       /\ v \in 1..MaxVersions /\ verdict[v] = "approved"
       /\ \A w \in 1..MaxVersions : verdict[w] = "approved" => w <= v
  /\ \A w \in 1..MaxVersions : verdict[w] = "approved" => released # {}

\* A verdict once reached is never revised, and what is released changes only
\* as a version is approved.
VerdictsAreFinal ==
  [][/\ \A v \in 1..MaxVersions : verdict[v] \in Closed => verdict'[v] = verdict[v]
     /\ released' # released =>
          \E v \in 1..MaxVersions :
            /\ verdict[v] \in UnderReview /\ verdict'[v] = "approved"
            /\ released' = {v}]_vars
=============================================================================
