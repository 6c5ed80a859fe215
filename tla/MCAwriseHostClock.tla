-------------------------- MODULE MCAwriseHostClock --------------------------
EXTENDS AwriseHostClock

CONSTANT l1

\* A Unix host, and a Windows host.
MCHosts == {{"cron", "timer"}, {"task"}}

=============================================================================
