---------------------------------- MODULE Maps ----------------------------------
(***************************************************************************)
(* FRAME storage maps as partial functions: the domain is the set of keys   *)
(* for which contains_key holds.                                           *)
(***************************************************************************)

Empty == [k \in {} |-> {}]

\* StorageMap::insert: the entry of one key is added or overwritten.
Insert(map, key, value) ==
    [k \in DOMAIN map \cup {key} |-> IF k = key THEN value ELSE map[k]]
===============================================================================
