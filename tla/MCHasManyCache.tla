---------------------------- MODULE MCHasManyCache ----------------------------
(* An instance of HasManyCache for TLC: all threads share one field.         *)
EXTENDS HasManyCache, TLC

OneField == [t \in Thread |-> CHOOSE f \in Field : TRUE]
ThreadSymmetry == Permutations(Thread)
=============================================================================
