----------------------------- MODULE MCGeekGFS -----------------------------
(* GeekGFS for TLC. *)
EXTENDS GfsProperties, GfsIsolation, GfsCommands
============================================================================
