------------------------------ MODULE MCAccess ------------------------------
\* Access for TLC: the instance is in the cfg files.
EXTENDS Access
=============================================================================
