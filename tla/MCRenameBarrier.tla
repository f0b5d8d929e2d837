-------------------------- MODULE MCRenameBarrier --------------------------
EXTENDS RenameBarrier

\* Three attempts, two ticks apart, and a deadline that fast reads do not
\* reach and slow ones do; timers may be two ticks late.
=============================================================================
