------------------------ MODULE MCWorkstationHealth ------------------------
\* Small instances of the workstations' health for TLC.
EXTENDS WorkstationHealthProperties, TLC

CONSTANTS w1, w2
=============================================================================
