------------------------------- MODULE MCBooking -------------------------------
(***************************************************************************)
(* Small instances of Booking for TLC.                                     *)
(***************************************************************************)
EXTENDS Booking, TLC

\* Clerks, bookings and technicians are interchangeable.
Symmetry == Permutations(Clerks) \union Permutations(Bookings)
            \union Permutations(Technicians)

===============================================================================
