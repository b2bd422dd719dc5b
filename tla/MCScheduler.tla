---------------------------- MODULE MCScheduler -----------------------------
EXTENDS Scheduler, TLC

CONSTANTS once, skip

MCOneJob == {once}
MCJobs == {once, skip}
MCSkip == {skip}
=============================================================================
