-------------------------- MODULE MCSelReservation --------------------------
EXTENDS SelReservation, TLC

Interchangeable == Permutations(Clients)
=============================================================================
