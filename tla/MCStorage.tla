----------------------------- MODULE MCStorage -----------------------------
(* TLC instance of Storage; the cfg file gives the bounds.                  *)
EXTENDS Storage
=============================================================================
