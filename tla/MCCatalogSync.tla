---------------------------- MODULE MCCatalogSync ----------------------------
EXTENDS CatalogSync

\* Two wanted types, though every call of this repository wants one: two is
\* where a partial snapshot exists.  Frames of one or two units against a limit
\* of one per frame; enough of the whole for the subscription, both types and
\* one frame more.  Frames of one or two rows against a limit of three.
=============================================================================
