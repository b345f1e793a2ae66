--------------------------- MODULE CreditAdjustments ---------------------------
(***************************************************************************)
(* How the administrator sets the balances of a builder                    *)
(* (src/lib/admin-mutations.ts, admin-action-log.ts, PUT                   *)
(* /api/management/users/[username]/credits, and the page's script         *)
(* src/scripts/management/builders.ts).                                    *)
(*                                                                         *)
(* The form shows the balances and the revision of the row the page was    *)
(* rendered from, and sends the balances the administrator changed, that   *)
(* revision and a request id.  The script keeps the id while the command   *)
(* stays the same, so a submission whose answer was lost is repeated with  *)
(* it; a different command has an id of its own.  A form stands here for   *)
(* one command and its id.  The server keeps a receipt per id.             *)
(*                                                                         *)
(* A submission may be delivered any number of times and arbitrarily late. *)
(* One administrator exists (the index idx_single_admin): several forms    *)
(* are several tabs.                                                       *)
(***************************************************************************)
EXTENDS CreditClaims

CONSTANTS
  Form,           (* commands of the balance form                           *)
  NoCommand       (* a form not submitted yet                               *)

VARIABLES
  commands,       (* per form: what it has sent                             *)
  receipts,       (* forms whose request id is in AdminActionLog            *)
  answers         (* per form: the last answer of the server                *)

(* What an input of the form may hold: the balance it shows, or another.    *)
Entry(shown) == {shown} \cup 0 .. MaxAmount

(* seen: the balances the form was rendered with.                           *)
Command == [builder : Builder, revision : Nat, seenPending : Nat, seenAvailable : Nat,
            pending : Nat, available : Nat]
Answer == {"none", "applied", "refused"}

AdjustmentsInit ==
  /\ commands = [f \in Form |-> NoCommand]
  /\ receipts = {}
  /\ answers = [f \in Form |-> "none"]

Sent(f) == commands[f] # NoCommand

AdjustmentsTypeOK ==
  /\ commands \in [Form -> Command \cup {NoCommand}]
  /\ receipts \subseteq Form
  /\ answers \in [Form -> Answer]

(* The form is opened with a row of the page and submitted; what happens    *)
(* between the two cannot be told from a late delivery.  It sends nothing   *)
(* if neither balance was changed, and only the ones that were: a balance   *)
(* not sent is the current one, which is the one seen, as the revision is   *)
(* the same.                                                                *)
SubmitEditForm(f, b, pending, available) ==
  /\ ~Sent(f)
  /\ HasRow(b)
  /\ pending # credits[b].pending \/ available # credits[b].available
  /\ commands' = [commands EXCEPT ![f] =
       [builder |-> b, revision |-> credits[b].revision,
        seenPending |-> credits[b].pending, seenAvailable |-> credits[b].available,
        pending |-> pending, available |-> available]]
  /\ UNCHANGED << credits, audit, intents, chain, receipts, answers >>

(* The balance a command asks for: the one it sends, or the current one.    *)
NextPending(c) ==
  IF c.pending = c.seenPending THEN credits[c.builder].pending ELSE c.pending
NextAvailable(c) ==
  IF c.available = c.seenAvailable THEN credits[c.builder].available ELSE c.available

(* STALE_CREDIT_REVISION                                                    *)
Stale(c) == credits[c.builder].revision # c.revision

(* Mutant: reductions of pending credits ignore claim intents.              *)
ClaimNeverActive(c) == FALSE

(* PENDING_CLAIM_ACTIVE                                                     *)
ClaimActive(c) ==
  /\ NextPending(c) < credits[c.builder].pending
  /\ LiveIntents(c.builder) # {}

(* Mutant: receipts are not looked up.                                      *)
NeverReplayed(f) == FALSE

(* Whether the command's receipt is found.                                  *)
Replayed(f) == f \in receipts

Answered(f, answer) == answers' = [answers EXCEPT ![f] = answer]

(* One transaction decides and applies.  A repeated request is answered     *)
(* from its receipt, ...                                                    *)
ReplayAdjustment(f) ==
  /\ Sent(f) /\ Replayed(f)
  /\ Answered(f, "applied")
  /\ UNCHANGED << credits, audit, intents, chain, commands, receipts >>

(* ... a refused one leaves none, ...                                       *)
RefuseAdjustment(f) ==
  /\ Sent(f) /\ ~Replayed(f)
  /\ Stale(commands[f]) \/ ClaimActive(commands[f])
  /\ Answered(f, "refused")
  /\ UNCHANGED << credits, audit, intents, chain, commands, receipts >>

(* ... and the rest is applied with its receipt.  The balances differ from  *)
(* the current ones, so "unchanged" does not occur for this script.         *)
AdjustBuilderCredits(f) ==
  LET c == commands[f] IN
  /\ Sent(f) /\ ~Replayed(f)
  /\ ~Stale(c) /\ ~ClaimActive(c)
  /\ AdjustCreditBalances(c.builder, c.revision, NextPending(c), NextAvailable(c))
  /\ receipts' = receipts \cup {f}
  /\ Answered(f, "applied")
  /\ UNCHANGED << intents, chain, commands >>
==============================================================================
