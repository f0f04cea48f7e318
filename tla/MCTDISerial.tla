---------------------------- MODULE MCTDISerial ----------------------------
EXTENDS TDISerial, TLC

CONSTANTS v1, v2

OneValve == {v1}
TwoValves == {v1, v2}
=============================================================================
