------------------------------ MODULE MCDaemon ------------------------------
EXTENDS Daemon
=============================================================================
