--------------------------- MODULE MCDesktopAgent ---------------------------
(***************************************************************************)
(* Small instances of DesktopAgent for TLC.                                *)
(***************************************************************************)
EXTENDS DesktopAgent, TLC

=============================================================================
