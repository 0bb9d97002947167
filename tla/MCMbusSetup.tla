---------------------------- MODULE MCMbusSetup ----------------------------
(* MbusSetup for TLC, with the register's own limit: the counts around the *)
(* two limits, whole sectors up to 128 kB and the longest rectangles.      *)
EXTENDS MbusSetup

MCCounts ==
  (0 .. 4) \union (8185 .. 8195) \union (16376 .. 16400)
    \union {Sector * n : n \in 1 .. 256}
    \union {Sector * 8190, Sector * 8191, Sector * 8192, 1024 * 8191, 1024 * 8192}
=============================================================================
