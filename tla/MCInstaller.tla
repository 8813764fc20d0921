---------------------------- MODULE MCInstaller ----------------------------
(* Small instances of Installer for TLC. *)
EXTENDS Installer
=============================================================================
