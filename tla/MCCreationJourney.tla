--------------------------- MODULE MCCreationJourney ---------------------------
(***************************************************************************)
(* A small instance of CreationJourney.  Tabs, calls, key sets, names and  *)
(* identities are compared only for equality.                              *)
(***************************************************************************)
EXTENDS CreationJourney, TLC

Symmetry == Permutations(Tab) \cup Permutations(Call) \cup Permutations(Keys)
              \cup Permutations(Name) \cup Permutations(InviteTicket)
              \cup Permutations(Identity)
==============================================================================
