------------------------ MODULE MCNotificationDispatch ------------------------
\* Three concurrent runs, one event that goes through and one refused.
EXTENDS NotificationDispatch, TLC

CONSTANTS q1, q2, q3, welcome, refused

Runs == {q1, q2, q3}
Events == {welcome, refused}
RefusedEvents == {refused}

RunSymmetry == Permutations(Runs)
=============================================================================
