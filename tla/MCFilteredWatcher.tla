------------------------ MODULE MCFilteredWatcher ------------------------
(* Two objects, so that a new watch brings one before the other.           *)
EXTENDS FilteredWatcher

CONSTANTS o1, o2

MCObjects == {o1, o2}
=============================================================================
