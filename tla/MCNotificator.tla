---------------------------- MODULE MCNotificator ----------------------------
(* Instance of Notificator for TLC. *)
EXTENDS Notificator

CONSTANTS p1, a1    \* model values: a pod, a background task
=============================================================================
