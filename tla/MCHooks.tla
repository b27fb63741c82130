------------------------------ MODULE MCHooks ------------------------------
(* Hooks for TLC: handler functions and triggers as model values,          *)
(* priorities 0 and 1.                                                     *)
EXTENDS Hooks, TLC

CONSTANTS h1, h2, h3, c1, c2

(* Every combination of the once, before and replace options.              *)
MCOptions == [once : BOOLEAN, before : BOOLEAN, replace : BOOLEAN, priority : {0, 1}]

(* Registrations without replace, so that only the race between triggers  *)
(* can make a once handler fire twice.                                     *)
MCOptionsNoReplace == [once : BOOLEAN, before : BOOLEAN, replace : {FALSE}, priority : {0}]

(* Handler functions are interchangeable, and so are triggers.             *)
MCSymmetry == Permutations({h1, h2, h3}) \cup Permutations({c1, c2})
=============================================================================
