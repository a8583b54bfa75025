-------------------------- MODULE MCUdpAssociations --------------------------
EXTENDS UdpAssociations, TLC

CONSTANTS a1, a2, a3, l1, l2

Arrives == a1 :> l1 @@ a2 :> l1 @@ a3 :> l2

(* The global limit binds before the one of a listener, or after it; the   *)
(* two listeners agree on it, or disagree.                                 *)
AllSections == {<<2, 2>>, <<1, 3>>}
==============================================================================
