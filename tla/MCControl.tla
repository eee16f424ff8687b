----------------------------- MODULE MCControl -----------------------------
(* Instances of Control for TLC. *)
EXTENDS Control

CONSTANTS d1, d2, c1, c2
=============================================================================
