----------------------------- MODULE MCSamplers -----------------------------
EXTENDS Samplers
\* Two ids and four tasks in all: one id is used up to four times, or both
\* are used again.
CONSTANTS t1, t2

MCTasks == {t1, t2}
=============================================================================
