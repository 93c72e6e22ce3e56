------------------------- MODULE MCNotificationMail -------------------------
(***************************************************************************)
(* One user with two notifications, and two workers.                       *)
(***************************************************************************)
EXTENDS NotificationMail

MCRecipient == [n \in Notices |-> CHOOSE u \in Users : TRUE]
=============================================================================
