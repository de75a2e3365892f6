---------------------------- MODULE MCHskAnchor ----------------------------
EXTENDS HskAnchor
CONSTANTS r1, r2, a, b
=============================================================================
