----------------------------- MODULE HostImages -----------------------------
(***************************************************************************)
(* What the application promises of the images it makes: the one that it   *)
(* expands from a compressed source (ParallelDecompression) and the one    *)
(* that it exports (ImageExport).  Neither reads what the other one does.  *)
(***************************************************************************)
EXTENDS ParallelDecompression, ImageExport

\* An image that was accepted, or that is presented as complete, is whole, and
\* an export takes no file but its own from a final name.
ImagesWhole ==
  [][AcceptedWhole' /\ PairsMatch' /\ ExportKeeps]_<<unpackVars, exportVars>>
=============================================================================
