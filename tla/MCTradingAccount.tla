-------------------------- MODULE MCTradingAccount --------------------------
(* One contract, with one netted position or a long and a short one; an order of
   which the end cannot be converted, one that never can, and one with an id beyond
   the int range (ints are three bits wide here); and enough changes for the stream
   and the start-up queries to overtake each other.  Leverages are only compared:
   which is which does not matter. *)
EXTENDS TradingAccount, TLC

LeverageSymmetry == Permutations(Leverages)
=============================================================================
