--------------------------- MODULE MCWatchManager ---------------------------
(* Two GVKs, so that a call can stop one and start the other, and three    *)
(* watchers: an old one and its successor for one of the GVKs.             *)
EXTENDS WatchManager

CONSTANTS k1, k2, w1, w2, w3

MCGVKs == {k1, k2}
MCWatchers == {w1, w2, w3}
=============================================================================
