----------------------------- MODULE MCSdDriver -----------------------------
(***************************************************************************)
(* The SD driver over three blocks of two contents; the loops' limits are  *)
(* small but leave room for a late answer.                                 *)
(***************************************************************************)
EXTENDS SdDriver

CONSTANTS old, new
MCBlocks == {old, new}
=============================================================================
