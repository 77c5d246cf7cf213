-------------------------- MODULE MCDaemonSupervisor --------------------------
EXTENDS DaemonSupervisor

TwoSources == <<"files", "mail">>
=============================================================================
