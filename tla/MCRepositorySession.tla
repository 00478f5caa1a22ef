----------------------- MODULE MCRepositorySession -----------------------
(* Small instances of the repository session for TLC. *)
EXTENDS RepositorySession
=============================================================================
