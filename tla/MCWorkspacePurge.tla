-------------------------- MODULE MCWorkspacePurge --------------------------
(* TLC instances of WorkspacePurge: one file and one backup archive, two     *)
(* requests of administrators in flight, two attempts for the purge job.     *)
EXTENDS WorkspacePurge
=============================================================================
