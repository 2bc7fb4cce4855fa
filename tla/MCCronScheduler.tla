--------------------------- MODULE MCCronScheduler ---------------------------
EXTENDS CronScheduler
CONSTANTS job, reminder
=============================================================================
