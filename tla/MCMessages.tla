------------------------------ MODULE MCMessages ------------------------------
(* Two relays, b that roams between them and c that stays at the second.   *)
EXTENDS Messages, TLC

CONSTANTS r1, r2, b, c, g, d

MCMayBind == {r1, r2} \X {b}
MCStart == {<<r1, b>>, <<r2, c>>}
MCFrom == g :> r1 @@ d :> c
MCTo == d :> b
=============================================================================
