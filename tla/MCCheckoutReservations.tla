----------------------- MODULE MCCheckoutReservations -----------------------
EXTENDS CheckoutReservations, TLC

MCSymmetry == Permutations(Checkouts) \union Permutations(Keys) \union
              Permutations(Pilots) \union Permutations(Operators)
=============================================================================
