-------------------------- MODULE MCHostedCommand --------------------------
EXTENDS HostedCommand
=============================================================================
