---------------------------- MODULE MCCartEdits -----------------------------
(* One product by weight and one by piece, two lines at most.              *)
EXTENDS CartEdits

CONSTANTS apple, roll

MCPrice == (apple :> 299) @@ (roll :> 45)
\* Nothing, one roll, or 120 g of apples.
MCCarts == {<<>>,
            <<[product |-> roll, quantity |-> 10000, total |-> 450000]>>,
            <<[product |-> apple, quantity |-> 1200, total |-> 360000]>>}
=============================================================================
