----------------------------- MODULE MCPolling -----------------------------
EXTENDS Polling

\* "only on request", one step and two: a change shortens and lengthens the
\* sleep in progress
MCIntervals == {0, 1, 2}
=============================================================================
