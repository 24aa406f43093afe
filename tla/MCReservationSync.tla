------------------------- MODULE MCReservationSync -------------------------
(* Finite instances of ReservationSync.                                    *)
EXTENDS ReservationSync, TLC

Symmetry == Permutations(Initiator) \cup Permutations(Key)

\* One type of each kind; the last is not one of the six.
OneOfEach == {"EXCLUSIVE_ACCESS", "WRITE_EXCLUSIVE_RO", "EXCLUSIVE_ACCESS_AR",
              "SHARED_ACCESS"}
=============================================================================
