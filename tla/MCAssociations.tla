--------------------------- MODULE MCAssociations ---------------------------
(* Instances of both association caches for TLC: every thread with a HasMany *)
(* field of its own, and one BelongsTo field for all.                        *)
EXTENDS BelongsToCache, TLC

OwnField == [t \in Thread |-> t]
ThreadSymmetry == Permutations(Thread)
=============================================================================
