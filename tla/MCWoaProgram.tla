---------------------------- MODULE MCWoaProgram ----------------------------
(* Two waiter and setter pairs whose addresses share a bucket. *)
EXTENDS WoaProgram, TLC

CONSTANTS a1, a2, b1, w1, w2, s1, s2

OneBucket == (a1 :> b1) @@ (a2 :> b1)
Places == (w1 :> a1) @@ (s1 :> a1) @@ (w2 :> a2) @@ (s2 :> a2)
=============================================================================
