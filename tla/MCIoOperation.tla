--------------------------- MODULE MCIoOperation ---------------------------
EXTENDS IoOperation

CONSTANTS w1, w2, f1, f2, l1
=============================================================================
