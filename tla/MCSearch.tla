------------------------------ MODULE MCSearch ------------------------------
(* Instances of Search for TLC: two texts, and two terms of one key,          *)
(* one of them also without a value.                                          *)
EXTENDS Search

MCWords == {"a", "b"}
MCRows  == {[key |-> "k", value |-> "1"], [key |-> "k", value |-> "2"],
            [key |-> "k", value |-> ""]}
=============================================================================
