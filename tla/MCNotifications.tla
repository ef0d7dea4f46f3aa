--------------------------- MODULE MCNotifications ---------------------------
(* Two users, the two processes that "taskiq worker" starts by default, and  *)
(* days of two slots.                                                        *)
EXTENDS Notifications
=============================================================================
