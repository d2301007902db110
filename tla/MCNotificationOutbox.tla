------------------------ MODULE MCNotificationOutbox ------------------------
(* Two events: one whose fan-out always throws and which is e-mailed to both users, *)
(* and one that notifies u1 twice (owner and designer) and has nobody to e-mail.    *)
EXTENDS NotificationOutbox

MCEvents == 1 .. 2
MCRows == [e \in MCEvents |-> [u \in Users |-> IF u = "u1" THEN e ELSE 0]]
MCAudience == [e \in MCEvents |-> IF e = 1 THEN Users ELSE {}]
=============================================================================
