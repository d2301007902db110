-------------------------- MODULE PublicationEffect --------------------------
(***************************************************************************)
(* What publishing may do to the status of an item, for those who know     *)
(* nothing of channels, posts, answers and ticks.  ContentPublishing is    *)
(* shown to implement this; ContentLifecycle, which has no channels, lets  *)
(* publication move the status in the same ways.                           *)
(***************************************************************************)
EXTENDS Naturals

VARIABLES
  status,   \* content_item.status
  linked,   \* a link to a post is stored, being made or still in somebody's hands
  decided   \* the outcomes of workflow transitions resolved and not yet committed

vars == <<status, linked, decided>>

Publishable == {"ready_to_publish", "partially_published", "published"}
Live        == {"partially_published", "published"}

\* The workflow's ways out of the statuses an item has by now.
WayOut ==
  [ready_to_publish    |-> {"published", "cancelled", "blocked"},
   partially_published |-> {"published"},
   published           |-> {},
   blocked             |-> {"ready_to_publish", "cancelled"},
   cancelled           |-> {}]

Init ==
  /\ status = "ready_to_publish"
  /\ linked = FALSE
  /\ decided = {}

\* A person records the outcome of a channel.
Record ==
  /\ status \in Publishable
  /\ status' \in Publishable
  /\ UNCHANGED <<linked, decided>>

\* A person starts to link a post.
Link ==
  /\ status \in Publishable
  /\ linked' = TRUE
  /\ UNCHANGED <<status, decided>>

\* A linked post turns out to be live, whatever the status is by then.
Confirm ==
  /\ linked
  /\ status' \in Live
  /\ UNCHANGED <<linked, decided>>

\* Links are removed and requests end.
Lapse ==
  /\ linked' \in {linked, FALSE}
  /\ decided' \subseteq decided
  /\ UNCHANGED status

\* A workflow transition is resolved, and committed on whatever the status has become.
Decide ==
  /\ \E to \in WayOut[status] : decided' = decided \cup {to}
  /\ UNCHANGED <<status, linked>>

Commit ==
  /\ status' \in decided
  /\ decided' \subseteq decided
  /\ UNCHANGED linked

Next == Record \/ Link \/ Confirm \/ Lapse \/ Decide \/ Commit

Spec == Init /\ [][Next]_vars

(***************************************************************************)
(* What follows.                                                           *)
(***************************************************************************)

\* A cancelled item is not put back to work by a recording: only by a link in play,
\* whose post is live, or by a transition resolved before.
CancelledIsLeftByOthers ==
  [][status = "cancelled" /\ status' # "cancelled" =>
       (linked /\ status' \in Live) \/ status' \in decided]_vars

\* And once nothing is in play, cancelled is the end.
CancelledIsTheEnd ==
  [][status = "cancelled" /\ ~linked /\ decided = {} =>
       status' = "cancelled" /\ ~linked' /\ decided' = {}]_vars
=============================================================================
