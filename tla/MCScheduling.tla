---------------------------- MODULE MCScheduling ----------------------------
EXTENDS Scheduling

CONSTANTS p1, d1, program, timer, helper, none
=============================================================================
