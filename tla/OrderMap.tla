------------------------------ MODULE OrderMap ------------------------------
(***************************************************************************)
(* What the order index promises (src/common/flat_hash_map.h): a map from  *)
(* live references to orders.  insert refuses a live reference and the     *)
(* null reference and then changes nothing, erase reports whether it found *)
(* the reference, and find returns exactly what was stored last.           *)
(***************************************************************************)
EXTENDS Functions

CONSTANTS Refs, NullRef, Orders, NoOrder

VARIABLES map, ret

vars == <<map, ret>>

Init == map = [r \in {} |-> NoOrder] /\ ret = NoOrder

Insert(ref, order) ==
  IF ref = NullRef \/ ref \in DOMAIN map
  THEN ret' = FALSE /\ UNCHANGED map
  ELSE /\ ret' = TRUE
       /\ map' = [r \in DOMAIN map \cup {ref} |-> IF r = ref THEN order ELSE map[r]]

Find(ref) ==
  ret' = (IF ref \in DOMAIN map THEN map[ref] ELSE NoOrder) /\ UNCHANGED map

\* The caller writes through the pointer that find returned.
Assign(ref, order) ==
  ref \in DOMAIN map /\ map' = [map EXCEPT ![ref] = order] /\ ret' = order

Erase(ref) ==
  ret' = (ref \in DOMAIN map) /\ map' = Restrict(map, DOMAIN map \ {ref})

Next ==
  \E ref \in Refs \cup {NullRef} :
    \/ Find(ref)
    \/ Erase(ref)
    \/ \E order \in Orders : Insert(ref, order) \/ Assign(ref, order)

Spec == Init /\ [][Next]_vars
=============================================================================
