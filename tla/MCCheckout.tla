----------------------------- MODULE MCCheckout -----------------------------
(* The loop and one request at a time beside it, two files, and a second    *)
(* repository to change to.                                                 *)
EXTENDS Checkout
=============================================================================
