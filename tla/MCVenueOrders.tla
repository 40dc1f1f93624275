---------------------------- MODULE MCVenueOrders ----------------------------
(***************************************************************************)
(* A model-checking instance of VenueOrders: an order at each venue, or a  *)
(* leg with the other venue's instrument.                                  *)
(***************************************************************************)
EXTENDS VenueOrders

CONSTANTS o1, o2

SomeLegs == {[venue |-> "kalshi", instrument |-> "kalshi", stake |-> 2, ppm |-> 430000],
             [venue |-> "polymarket", instrument |-> "polymarket", stake |-> 2, ppm |-> 520000],
             [venue |-> "kalshi", instrument |-> "polymarket", stake |-> 2, ppm |-> 430000]}
SomeProfits == {-2}
=============================================================================
