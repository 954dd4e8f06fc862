-------------------------------- MODULE Tables --------------------------------
(* The maps in stable memory, as functions on the keys they hold.            *)

\* StableBTreeMap::insert
Put(f, k, v) == [x \in DOMAIN f \cup {k} |-> IF x = k THEN v ELSE f[x]]

\* and for all the entries of g (the provers do not know @@ of module TLC)
PutAll(f, g) == [x \in DOMAIN f \cup DOMAIN g |-> IF x \in DOMAIN g THEN g[x] ELSE f[x]]

\* StableBTreeMap::remove and pop_first, for all the keys in S
Drop(f, S) == [x \in DOMAIN f \ S |-> f[x]]
=============================================================================
