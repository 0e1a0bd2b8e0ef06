----------------------------- MODULE MCHeadLog ------------------------------
EXTENDS HeadLog, TLC
=============================================================================
