------------------------ MODULE MCAuthorizationLedger ------------------------
EXTENDS AuthorizationLedger

CONSTANTS p1, p2, i1, i2

MCProcess == {p1, p2}
MCId == {i1, i2}
==============================================================================
