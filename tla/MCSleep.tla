------------------------------ MODULE MCSleep ------------------------------
EXTENDS Sleep
CONSTANTS s1, s2, f1, f2
=============================================================================
