------------------------------ MODULE MCWebTalk ------------------------------
EXTENDS WebTalk
CONSTANTS t1, t2, i1, k1, voice
\* A single press, and nothing else happens.
OnePress == {[presses |-> 1, stops |-> 0, faults |-> 0]}
==============================================================================
