--------------------------- MODULE MCBroadcastSend ---------------------------
(* Small instances of one broadcast; each .cfg enables the processes that    *)
(* its question is about and leaves the others' sets empty.  The slots are   *)
(* interchangeable, and so are recipients where none has opted out.          *)
EXTENDS BroadcastSend, TLC

SlotSymmetry == Permutations(Workers) \cup Permutations(Fans) \cup Permutations(Apis)

Symmetry == SlotSymmetry \cup Permutations(Recipients) \cup Permutations(Hooks)
=============================================================================
