------------------------ MODULE MCNotificationOutbox ------------------------
(* Model-checking instances of NotificationOutbox.                         *)
EXTENDS NotificationOutbox, TLC

CONSTANTS w1, w2, r1, r2

=============================================================================
