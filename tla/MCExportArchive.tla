-------------------------- MODULE MCExportArchive --------------------------
(***************************************************************************)
(* Sessions of up to two captures for the export.  A block is two bytes,   *)
(* so that files fill their last block or leave padding in it.             *)
(***************************************************************************)
EXTENDS ExportArchive

CapturePaths ==
  <<"captures/capture-01.png", "captures/capture-02.png">>

============================================================================
