---------------------------- MODULE MCCallAsync -----------------------------
(***************************************************************************)
(* Two calls one after the other and two imports, one of which two         *)
(* goroutines race to resolve.                                             *)
(***************************************************************************)
EXTENDS CallAsync

CONSTANTS p1, p2, k1, k2

Racing == {<<k1, 1>>, <<k1, 2>>, <<k2, 1>>}
Single == {<<k1, 1>>, <<k2, 1>>}
=============================================================================
