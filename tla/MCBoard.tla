------------------------------ MODULE MCBoard ------------------------------
(* Instances of Board for TLC: two subforums, the first watched, and a      *)
(* thread in the first.                                                     *)
EXTENDS Board

CONSTANTS f1, f2, t

MCSubforums == {f1, f2}
MCAtFirst   == {f1}
MCFirst     == {List(f1), Detail}
=============================================================================
