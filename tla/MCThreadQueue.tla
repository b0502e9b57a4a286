---------------------------- MODULE MCThreadQueue ----------------------------
(* Constants for TLC: a queue of two streams; the second producer (a muxer *)
(* with subtitle heartbeats) sends for stream 0 like the first.            *)
EXTENDS ThreadQueue

CONSTANTS p0, p1, c

MCFeeds == {<<p0, 0>>, <<p0, 1>>, <<p1, 0>>}
=============================================================================
