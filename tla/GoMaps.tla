------------------------------- MODULE GoMaps -------------------------------
(***************************************************************************)
(* A Go map is a function whose domain is the set of its keys.             *)
(***************************************************************************)

EmptyMap == [k \in {} |-> {}]

\* m[k] = v
Put(m, k, v) == [x \in DOMAIN m \cup {k} |-> IF x = k THEN v ELSE m[x]]

\* delete(m, k), for every k in ks
DropAll(m, ks) == [x \in DOMAIN m \ ks |-> m[x]]

\* delete(m, k)
Drop(m, k) == DropAll(m, {k})

\* The maps from some of the keys in K to values in V.
Maps(K, V) == UNION {[D -> V] : D \in SUBSET K}

=============================================================================
