------------------------ MODULE MCNotificationRetries ------------------------
(* Small instances of the notification retry queue for TLC. *)
EXTENDS NotificationRetries, TLC

CONSTANTS r1, r2, w1, w2

MCRows     == {r1, r2}
MCRetriers == {w1, w2}
MCGarbled  == {r2}

=============================================================================
