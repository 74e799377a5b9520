------------------------------- MODULE MCProcesses -------------------------------
EXTENDS Processes

CONSTANTS d1, c1, c2

MCDaemons == {d1}
MCTools == {c1, c2}
MCThreads == {<<d1, "main">>, <<d1, "notice">>, <<c1, "main">>, <<c2, "main">>}
=============================================================================
