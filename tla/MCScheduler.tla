----------------------------- MODULE MCScheduler -----------------------------
EXTENDS Scheduler

CONSTANTS s1, s2

TwoSources == <<s1, s2>>
=============================================================================
