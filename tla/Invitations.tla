------------------------------ MODULE Invitations ------------------------------
(***************************************************************************)
(* Personal invitations (src/lib/invite): a person signs in with a social  *)
(* account and is issued one ticket with one use, which only that identity *)
(* may spend.  Any other ticket needs no sign-in.                          *)
(*                                                                         *)
(* The provider's sign-in is external.  A person signs in and out at will: *)
(* a request may carry any identity, or none.  Whether the campaign is     *)
(* open and below its limit is an administrator's setting, read in the     *)
(* transaction that issues: issuing is then merely possible.               *)
(***************************************************************************)
CONSTANTS
  Identity,       (* social identities                                      *)
  Nobody,         (* not signed in; a ticket that is no invitation          *)
  InviteTicket    (* the codes createGrant may draw                         *)

ASSUME InviteAssumption == Nobody \notin Identity

VARIABLE
  grants          (* InviteGrants: per issued code, whose it is             *)

InviteTypeOK == grants \in [InviteTicket -> Identity \cup {Nobody}]

InviteInit == grants = [t \in InviteTicket |-> Nobody]

OwnerOf(t) == IF t \in InviteTicket THEN grants[t] ELSE Nobody

(* Mutant: whoever is signed in may use any invitation.                     *)
CanUseSignedIn(t, u) == OwnerOf(t) = Nobody \/ u # Nobody

(* canUseInviteTicket: no grant for this ticket, or the caller's.           *)
CanUse(t, u) == OwnerOf(t) = Nobody \/ OwnerOf(t) = u

(* Of whom a request is taken to be: authorizeInviteTicket reads the sign-in*)
(* for an invitation only.                                                  *)
SignedIn(t, u) == IF OwnerOf(t) = Nobody THEN Nobody ELSE u

(* Mutant: the identity's earlier grant is not looked up.                   *)
IssueAgain(u, t) ==
  /\ grants[t] = Nobody
  /\ grants' = [grants EXCEPT ![t] = u]

(* issueInviteGrant: one grant per identity, ever.                          *)
IssueInviteGrant(u, t) ==
  /\ \A v \in InviteTicket : grants[v] # u
  /\ grants[t] = Nobody
  /\ grants' = [grants EXCEPT ![t] = u]
==============================================================================
