----------------------------- MODULE MCTickBoard -----------------------------
(* TLC instances of TickBoard: two browsers and one card.  The careful run  *)
(* sends two changes, enough for each browser to overtake the other or to   *)
(* complete the same tick; the other one also has a third, the repetition   *)
(* of a change that was refused.                                            *)
EXTENDS TickBoard
=============================================================================
