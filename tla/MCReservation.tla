--------------------------- MODULE MCReservation ---------------------------
(* Finite instances of Reservation.                                        *)
EXTENDS Reservation, TLC

Symmetry == Permutations(Initiator) \cup Permutations(Key) \cup Permutations(Ctio)

WE == {"WRITE_EXCLUSIVE"}
OneOfEach == {"EXCLUSIVE_ACCESS", "WRITE_EXCLUSIVE_RO", "EXCLUSIVE_ACCESS_AR"}
WEAR == {"WRITE_EXCLUSIVE_AR"}
=============================================================================
