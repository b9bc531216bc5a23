---------------------------- MODULE MCApplyPersist ----------------------------
(***************************************************************************)
(* TLC instances of ApplyPersist.                                          *)
(***************************************************************************)
EXTENDS ApplyPersist

Everything == AllTypes
Ingesting == {"IngestSst", "Split", "CompactLog"}
==============================================================================
