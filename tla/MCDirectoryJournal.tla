------------------------- MODULE MCDirectoryJournal -------------------------
(* Journal files for TLC. *)
EXTENDS DirectoryJournal
=============================================================================
