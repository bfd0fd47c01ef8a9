----------------------------- MODULE MCCheckout -----------------------------
(***************************************************************************)
(* Instances of Checkout for TLC: one photo in one folder, and a second    *)
(* photo whose content an edit may happen to produce.                      *)
(***************************************************************************)
EXTENDS Checkout, TLC

CONSTANTS f1, f2, c1, e1, a, b, x

OnePhoto == e1 :> f1
OneFolder == e1 :> c1
Photos == f1 :> a @@ f2 :> b
=============================================================================
