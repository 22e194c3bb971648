----------------------------- MODULE MCSaveLoad -----------------------------
(* The save-load session with a stack of a few calls.                        *)
EXTENDS SaveLoad
=============================================================================
