-------------------------------- MODULE Optional --------------------------------
(***************************************************************************)
(* A value that may be missing: None of Python.                            *)
(***************************************************************************)
CONSTANT None
=============================================================================
