---------------------------- MODULE CreationIntents ----------------------------
(***************************************************************************)
(* What the requests ask for.  Every POST /api/create/account makes a      *)
(* correlation id of the name and the time in milliseconds; the id stands  *)
(* for the request, for the CreationAttempts row it may insert and for the *)
(* transaction it may sign.  Two requests of one millisecond share an id:  *)
(* its column is UNIQUE, and the second inserts no row.                    *)
(***************************************************************************)
EXTENDS Naturals

CONSTANTS
  Attempt,        (* correlation ids                                        *)
  User,           (* Hive account names                                     *)
  Ticket,         (* ticket ids                                             *)
  KeySet,         (* the four public keys of a request                      *)
  Intent          (* per attempt: what it asks for                          *)

Mode == {"simulate", "broadcast"}

ASSUME IntentAssumption ==
  Intent \in [Attempt -> [user : User, ticket : Ticket, keys : KeySet, mode : Mode]]

SameIdentity(a, b) == /\ Intent[a].ticket = Intent[b].ticket
                      /\ Intent[a].keys = Intent[b].keys
SameMode(a, b) == Intent[a].mode = Intent[b].mode
Simulated(a) == Intent[a].mode = "simulate"

(* The other attempts for the same account name.                            *)
Rivals(a) == {b \in Attempt \ {a} : Intent[b].user = Intent[a].user}
==============================================================================
