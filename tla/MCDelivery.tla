------------------------------- MODULE MCDelivery -------------------------------
(* The run of Delivery: links of less than, exactly and more than the artifact's life. *)
EXTENDS Delivery
MCLinkTtls == {1, 4, 9}
===============================================================================
