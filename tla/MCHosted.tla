------------------------------ MODULE MCHosted ------------------------------
EXTENDS HostedSubscriptions, TLC
=============================================================================
