---- MODULE MCActiveWindow ----
(* Two applications; the model values of the configurations. *)
EXTENDS ActiveWindow
CONSTANTS a1, a2
====
