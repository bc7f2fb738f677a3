----------------------------- MODULE MCDlqRedrive -----------------------------
\* Two operators on a queue with a message the consumer will take now and one
\* it will reject again.
EXTENDS DlqRedrive

CONSTANTS o1, o2, fixed, hopeless

Operators == {o1, o2}
Messages == {fixed, hopeless}
StillHopeless == {hopeless}
OneOrTwo == {1, 2}
=============================================================================
