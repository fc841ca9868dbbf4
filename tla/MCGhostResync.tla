---------------------------- MODULE MCGhostResync ----------------------------
EXTENDS GhostResync, TLC
=============================================================================
