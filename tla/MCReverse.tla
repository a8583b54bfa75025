------------------------------ MODULE MCReverse ------------------------------
EXTENDS Reverse, TLC
CONSTANTS k1, k2, e1, e2

Case(framing, idle, controls, streams, pending, clients, externals, faults, stops, slow) ==
    [framing |-> framing, idle |-> idle, controls |-> controls, streams |-> streams,
     pending |-> pending, clients |-> clients, externals |-> externals, resets |-> faults,
     stops |-> stops, slow |-> slow]

(* The smallest limits at which each can be reached; a channel of one makes *)
(* the native try_send fail when two connections are admitted.             *)
SmallConfigs ==
    { Case("native", TRUE,  1, 1, 1, {k1},     {e1, e2}, 1, {"server"}, {}),
      Case("native", TRUE,  1, 1, 1, {k1, k2}, {e1},     0, {"clients"}, {}),
      Case("native", TRUE,  1, 1, 1, {k1},     {e1, e2}, 0, {"clients"}, Directions),
      Case("native", FALSE, 1, 1, 1, {k1},     {e1, e2}, 0, {}, {}),
      Case("native", FALSE, 2, 2, 1, {k1},     {e1},     1, {"clients"}, {}),
      Case("native", TRUE,  1, 1, 0, {k1},     {e1},     0, {}, {}),
      Case("pproxy", FALSE, 1, 0, 0, {k1},     {e1},     0, {"server"}, {}) }
=============================================================================
