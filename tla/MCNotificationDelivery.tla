----------------------- MODULE MCNotificationDelivery -----------------------
(* One notification: calls share nothing but the user's settings and       *)
(* secrets, which change at any moment.                                    *)
EXTENDS NotificationDelivery

CONSTANTS c1

MCCalls == {c1}
=============================================================================
