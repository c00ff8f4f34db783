--------------------------- MODULE MCKeyedRegion ---------------------------
(* Small instances of KeyedRegion: lists of up to two rows of two keys,     *)
(* ambiguous ones among them.                                              *)
EXTENDS KeyedRegion

MCLists == UNION {[1..n -> Keys] : n \in 0..2}

\* No key begins with another one and `__` ...
MCApart == [k \in Keys |-> {}]

\* ... or one does.
MCNested == [k \in Keys |-> IF k = "a" THEN {"a__b"} ELSE {}]
=============================================================================
