------------------------------ MODULE MCRunner ------------------------------
(***************************************************************************)
(* Instance of Runner: an account that serves everything, a second one, an *)
(* account whose provider cannot run sandboxed trials, and one whose       *)
(* provider is not allowed.                                                *)
(***************************************************************************)
EXTENDS Runner

CONSTANTS a, b, i, d

AccountsDef == {a, b, i, d}
IncapableDef == {i}
DisallowedDef == {d}
=============================================================================
