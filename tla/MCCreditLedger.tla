----------------------------- MODULE MCCreditLedger -----------------------------
(***************************************************************************)
(* Small instances of CreditLedger.  Hashes, codes, requests and attempts  *)
(* are drawn and never compared but for equality.                          *)
(***************************************************************************)
EXTENDS CreditLedger, TLC

Symmetry == Permutations(Intent) \cup Permutations(Ticket) \cup Permutations(Attempt)
              \cup Permutations(Purchase)
==============================================================================
