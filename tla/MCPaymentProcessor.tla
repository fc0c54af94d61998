---------------------------- MODULE MCPaymentProcessor ----------------------------
(* Instances of PaymentProcessor for TLC: the values its cfg files choose from. *)
EXTENDS PaymentProcessor, TLC

\* Two payments of different size; three, of which cfg files make one unpayable.
TwoPayments == {1, 2}
TwoAmounts == 1 :> 2 @@ 2 :> 3
ThreePayments == {1, 2, 3}
ThreeAmounts == 1 :> 2 @@ 2 :> 3 @@ 3 :> 1
=============================================================================
