----------------------------- MODULE MCStatusBoard -----------------------------
(* An exchange with its API, its private websocket and feeds of one channel. *)
EXTENDS StatusBoard

ThreeFields == [api |-> "api", ws |-> "private", feed |-> "l2_book"]
TwoFeeds == [ws |-> "private", feed1 |-> "l2_book", feed2 |-> "l2_book"]
=============================================================================
