------------------------ MODULE MCSnapshotPrehandle ------------------------
(* SnapshotPrehandle on small instances. *)
EXTENDS SnapshotPrehandle
=============================================================================
