------------------------------ MODULE MCBackup ------------------------------
(* PerformBackup for every kind of job config: with and without scripts,   *)
(* and with or without the ssh and rsync sections.                         *)
EXTENDS Backup

\* A section is absent when neither globals.yml nor the host config has it.
MCConfigs == [ssh : BOOLEAN, rsync : BOOLEAN, pre : BOOLEAN, post : BOOLEAN]
=============================================================================
