-------------------------- MODULE MCLoguxMutation --------------------------
EXTENDS LoguxMutation

\* All four operations; two sends, the second one a repetition that only
\* updateSecret() makes.
=============================================================================
