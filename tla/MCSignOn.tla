------------------------------ MODULE MCSignOn ------------------------------
\* SignOn for TLC.
EXTENDS SignOn, TLC
=============================================================================
