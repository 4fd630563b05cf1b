------------------------ MODULE MCNotificationFeed ------------------------
(* The instance of NotificationFeed for TLC: one notification meets three    *)
(* tabs, so that one may have closed, one may have died and one may be       *)
(* listening while it is pushed.                                             *)
EXTENDS NotificationFeed

CONSTANTS n1, s1, s2, s3
=============================================================================
