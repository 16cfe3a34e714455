---------------------------- MODULE MCQueueFifo ----------------------------
\* QueueFifo over five entries.
EXTENDS QueueFifo
=============================================================================
