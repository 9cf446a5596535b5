--------------------------- MODULE MCNotifications ---------------------------
(* Notifications for TLC.  No symmetry: a liveness property is checked.    *)
EXTENDS Notifications
=============================================================================
