-------------------------- MODULE MCMigrationReruns --------------------------
EXTENDS MigrationReruns

\* Four launches: reruns after failures and on purpose.  With four projects three
\* of them import beside one that was there.  Two minutes and one suffix: a name
\* taken, a name free and none left.
=============================================================================
