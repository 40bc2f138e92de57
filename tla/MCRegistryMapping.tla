-------------------------- MODULE MCRegistryMapping --------------------------
(***************************************************************************)
(* Small instance: every reference of up to three bytes, and every mapping *)
(* of up to four keys of up to two bytes, the empty key and the empty      *)
(* replacement among them.                                                 *)
(***************************************************************************)
EXTENDS RegistryMapping

MCBytes == {1, 2}
MCRefs == UNION {[1..n -> MCBytes] : n \in 1..3}
MCKeys == {<<>>, <<1>>, <<2>>, <<1, 2>>, <<1, 1>>}

\* A replacement tells the length of its key: two keys of one length do not match one reference.
MCMappings ==
  {[key \in used \union blank |-> IF key \in used THEN <<9, Len(key)>> ELSE <<>>] :
     <<used, blank>> \in {s \in (SUBSET MCKeys) \X (SUBSET MCKeys) :
                          s[1] \intersect s[2] = {} /\ Cardinality(s[1] \union s[2]) <= 4}}
=============================================================================
