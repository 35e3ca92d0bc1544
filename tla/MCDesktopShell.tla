--------------------------- MODULE MCDesktopShell ---------------------------
(* The desktop application with few retries and windows, for TLC. *)
EXTENDS DesktopShell
=============================================================================
