---------------------------- MODULE MCTgDownload ----------------------------
(* TgDownload for taps on documents and for a picture.  With Half = 3 an   *)
(* int holds -3 .. 2: d1 and d2 fit, the 7 pieces of w1 count as 1.        *)
EXTENDS TgDownload, TLC
CONSTANTS o1, o2, o3, o4, o5, d1, d2, p1, w1
OpDoc   == (o1 :> d1) @@ (o2 :> d1) @@ (o3 :> d2) @@ (o4 :> p1) @@ (o5 :> w1)
DocSize == (d1 :> 2) @@ (d2 :> 1) @@ (p1 :> 1) @@ (w1 :> 7)
=============================================================================
