------------------------------ MODULE MCReport ------------------------------
EXTENDS Report

CONSTANTS t1, t2

\* An exam of one task, or of two.
OneOrTwo == {{t1}, {t1, t2}}

BothTypes == {"LIVE_LAB", "ASSESSMENT"}
=============================================================================
