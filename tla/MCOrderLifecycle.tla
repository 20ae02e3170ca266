--------------------------- MODULE MCOrderLifecycle ---------------------------
(* OrderLifecycle as the runs check it: an order at a time, or two.         *)
EXTENDS OrderLifecycle
=============================================================================
