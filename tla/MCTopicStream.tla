---------------------------- MODULE MCTopicStream ----------------------------
(* Instances of TopicStream for TLC. *)
EXTENDS TopicStreamFeed, TLC

CONSTANTS w1, w2, k1, k2

TwoWorkers == {w1, w2}
OneKey     == {k1}
=============================================================================
