---------------------------- MODULE MCSupervisor ----------------------------
\* Two applications under every supervisor timeout at its smallest ratio.
EXTENDS Supervisor
=============================================================================
