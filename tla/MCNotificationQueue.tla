------------------------- MODULE MCNotificationQueue -------------------------
(* The instances of NotificationQueue that TLC checks. *)
EXTENDS NotificationQueue, TLC

TaskSymmetry == Permutations(Tasks)

=============================================================================
