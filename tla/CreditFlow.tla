------------------------------- MODULE CreditFlow -------------------------------
(***************************************************************************)
(* What the ledger of credits promises: a builder's credits are in one of  *)
(* four places, and every step moves a number of them from one to the next *)
(* or back.                                                                *)
(*                                                                         *)
(*    issued -> pending -> available <-> held -> consumed                  *)
(*                                                                         *)
(* held: paid into tickets that still have the use, unused or taken by an  *)
(* open attempt.                                                           *)
(*                                                                         *)
(* Only the administrator makes and destroys credits, and the books say    *)
(* how many: issued is what the grants made, and the two adjusted sums are *)
(* what the balance forms added to, or took from, each balance.  A step    *)
(* that makes a credit changes one of the three by as much.                *)
(***************************************************************************)
EXTENDS Integers

CONSTANTS
  Builder,
  MaxAmount       (* bound: credits of one grant                            *)
VARIABLE flow     (* per builder: the books and the credits in each place   *)

flowVars == << flow >>

Account == [issued : Nat, adjustedPending : Int, adjustedAvailable : Int,
            pending : Nat, available : Nat, held : Nat, consumed : Nat]

Empty == [issued |-> 0, adjustedPending |-> 0, adjustedAvailable |-> 0,
          pending |-> 0, available |-> 0, held |-> 0, consumed |-> 0]

FlowInit == flow = [b \in Builder |-> Empty]

(* n credits of b are made, ...                                             *)
IssuePending(b, n) ==
  flow' = [flow EXCEPT ![b].issued = @ + n, ![b].pending = @ + n]

IssueAvailable(b, n) ==
  flow' = [flow EXCEPT ![b].issued = @ + n, ![b].available = @ + n]

(* ... or change place; nothing else does.                                  *)
Claim(b, n) ==
  /\ n <= flow[b].pending
  /\ flow' = [flow EXCEPT ![b].pending = @ - n, ![b].available = @ + n]

Fund(b, n) ==
  /\ n <= flow[b].available
  /\ flow' = [flow EXCEPT ![b].available = @ - n, ![b].held = @ + n]

Refund(b, n) ==
  /\ n <= flow[b].held
  /\ flow' = [flow EXCEPT ![b].held = @ - n, ![b].available = @ + n]

Consume(b) ==
  /\ 1 <= flow[b].held
  /\ flow' = [flow EXCEPT ![b].held = @ - 1, ![b].consumed = @ + 1]

(* The administrator sets the two balances to what he likes, and the books  *)
(* account for the difference of each.                                      *)
SetBalances(b) ==
  LET f == flow[b]
      p == flow'[b].pending
      a == flow'[b].available IN
  /\ p \in Nat /\ a \in Nat
  /\ flow' = [flow EXCEPT ![b] =
       [issued |-> f.issued,
        adjustedPending |-> f.adjustedPending + (p - f.pending),
        adjustedAvailable |-> f.adjustedAvailable + (a - f.available),
        pending |-> p, available |-> a, held |-> f.held, consumed |-> f.consumed]]

FlowNext ==
  \E b \in Builder :
    \/ \E n \in 1 .. MaxAmount : IssuePending(b, n) \/ IssueAvailable(b, n)
    \/ \E n \in 1 .. flow[b].pending : Claim(b, n)
    \/ \E n \in 1 .. flow[b].available : Fund(b, n)
    \/ \E n \in 1 .. flow[b].held : Refund(b, n)
    \/ Consume(b)
    \/ SetBalances(b)

FlowSpec == FlowInit /\ [][FlowNext]_flowVars
==============================================================================
