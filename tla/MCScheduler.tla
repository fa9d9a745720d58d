---------------------------- MODULE MCScheduler ----------------------------
EXTENDS Scheduler

NowOrSoon == {0, 1}
Hourly == {1}
Both == {TRUE, FALSE}
Never == {FALSE}
=============================================================================
