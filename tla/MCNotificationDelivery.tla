----------------------- MODULE MCNotificationDelivery -----------------------
(* Instance of NotificationDelivery for TLC. *)
EXTENDS NotificationDelivery

CONSTANTS p1, a1    \* model values: a pod, a background task
=============================================================================
