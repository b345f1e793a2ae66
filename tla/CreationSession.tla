---------------------------- MODULE CreationSession ----------------------------
(***************************************************************************)
(* The creation cookie (src/lib/session-cookies.ts): a signed record that  *)
(* carries a creation from the form to the success page.  The server keeps *)
(* no copy.  Each endpoint derives a new record from the one the request   *)
(* came with, and the browser stores whichever answer reaches it last.     *)
(*                                                                         *)
(* The two hashes of the record are injective as far as the code compares  *)
(* them: confirmedPublicKeysHash is the key set, creationIntentHash the    *)
(* name, the ticket and the key set it was computed from.  The execution   *)
(* mode is configuration and does not change.                              *)
(***************************************************************************)
CONSTANTS
  Name,           (* usernames                                              *)
  Ticket,         (* access codes                                           *)
  Keys,           (* key sets, drawn at random in the page                  *)
  NoKeys,
  NoSession       (* no valid cookie                                        *)

ASSUME SessionAssumption == NoKeys \notin Keys

Intent == [name : Name, ticket : Ticket, keys : Keys \cup {NoKeys}]
Session == [name : Name, ticket : Ticket, keys : Keys \cup {NoKeys}, intent : Intent,
            created : BOOLEAN]

IntentOf(n, t, k) == [name |-> n, ticket |-> t, keys |-> k]

(* A new record: confirmedDownload is false, no hashes.                     *)
FreshSession(n, t) ==
  [name |-> n, ticket |-> t, keys |-> NoKeys, intent |-> IntentOf(n, t, NoKeys),
   created |-> FALSE]

(* Mutant: the record of an earlier creation keeps its accountCreated.      *)
PostSessionKeepsCreated(s, n, t) ==
  IF s = NoSession THEN FreshSession(n, t)
  ELSE [FreshSession(n, t) EXCEPT !.created = s.created]

(* POST /api/create/session: the record survives only for the same name and *)
(* the same ticket.                                                         *)
PostSession(s, n, t) ==
  IF s # NoSession /\ s.name = n /\ s.ticket = t THEN s ELSE FreshSession(n, t)

(* POST /api/create/keys-hash: the keys of the request are bound to the     *)
(* name and the ticket of the cookie, whatever the page shows.              *)
ConfirmKeys(s, k) ==
  [name |-> s.name, ticket |-> s.ticket, keys |-> k,
   intent |-> IntentOf(s.name, s.ticket, k), created |-> s.created]

Finalize(s) == [s EXCEPT !.created = TRUE]

(* Mutant: the name of the request is not compared with the cookie's.       *)
SessionAllowsAnyName(s, n, k) ==
  /\ s # NoSession
  /\ s.keys = k
  /\ s.intent = IntentOf(s.name, s.ticket, k)

(* validateSessionData: the keys and the name of the request are those the  *)
(* cookie confirmed, and so is the whole intent.                            *)
SessionAllows(s, n, k) ==
  /\ s # NoSession
  /\ s.keys = k
  /\ s.name = n
  /\ s.intent = IntentOf(s.name, s.ticket, k)
==============================================================================
