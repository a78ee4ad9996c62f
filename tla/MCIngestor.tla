----------------------------- MODULE MCIngestor -----------------------------
(***************************************************************************)
(* Instances of Ingestor for TLC: two good events and one without a type,  *)
(* on pages of two, so that a third event pushes the first off the page.   *)
(***************************************************************************)
EXTENDS IngestorProperties

CONSTANTS watch, push, untyped
=============================================================================
