-------------------------- MODULE MCFileGeneration --------------------------
(***************************************************************************)
(* Instances of FileGeneration: three files, so that one waits while one is *)
(* compiled and one is done.                                                *)
(***************************************************************************)
EXTENDS FileGeneration

CONSTANTS f1, f2, f3
=============================================================================
