---------------------------- MODULE CreationJourney ----------------------------
(***************************************************************************)
(* One browser's way from the form to a Hive account: the pages in its     *)
(* tabs (Form.astro, AccountDetails.astro, details/[user], success/[user]),*)
(* the creation cookie they share, the calls to /api/create/session,       *)
(* keys-hash and account, and the parts of the server those calls meet:    *)
(* tickets, invitations, attempts, accounts.                               *)
(*                                                                         *)
(* A call carries the cookie the browser had when it was sent; its answer  *)
(* may set the cookie when it arrives.  In between other tabs do the same, *)
(* the page may be gone, and the network may lose either way.  The key set *)
(* exists in the page alone: the server learns its public half.            *)
(*                                                                         *)
(* AccountCreation models what the account endpoint does with Hive and the *)
(* leases; here an attempt is open until it is completed or rolled back.   *)
(* Proof of work, timing tokens and rate limits only refuse calls, as a    *)
(* lost one is refused.                                                    *)
(***************************************************************************)
EXTENDS CreationSession, Invitations, Naturals, FiniteSets

CONSTANTS
  Tab,
  Call,           (* calls in flight, the server's own included             *)
  NoTab,          (* the page of this call was left                         *)
  NoBrowser,      (* the answer to this call is lost                        *)
  NoName, NoTicket,
  NoCall,
  MaxEntries,     (* bound: names and tickets tried together                *)
  MaxSetbacks     (* bound: reloads, lost messages, expired cookies         *)

ASSUME JourneyAssumption ==
  /\ NoTab \notin Tab /\ NoBrowser \notin Tab /\ NoTab # NoBrowser
  /\ NoCall \notin Call
  /\ NoName \notin Name
  /\ NoTicket \notin Ticket
  /\ InviteTicket \subseteq Ticket
  /\ MaxEntries \in Nat
  /\ MaxSetbacks \in Nat

VARIABLES
  tabs,           (* per tab: its page                                      *)
  jar,            (* the creation cookie                                    *)
  pass,           (* names whose success_account cookie the browser holds   *)
  calls,          (* per call: its request, or its answer on the way back   *)
  uses,           (* Tickets.remaining_uses                                 *)
  attempts,       (* per name: its open CreationAttempts row                *)
  accounts,       (* per name: its Accounts row                             *)
  setbacks,
  (* History. *)
  born,           (* per key set: the name it was generated for             *)
  backups,        (* key sets whose file was downloaded                     *)
  entered,        (* names and tickets submitted together in a form         *)
  paidBy          (* per invitation: who was signed in where it was spent   *)

pageVars == << tabs, jar, pass >>
serverVars == << uses, attempts, accounts >>
historyVars == << born, backups, entered, paidBy >>
vars == << pageVars, calls, serverVars, setbacks, historyVars, grants >>

(* confirmed: keysConfirmedOnServer.                                        *)
PageRow == [page : {"form", "opening", "details", "leaving", "success"},
            name : Name \cup {NoName}, ticket : Ticket \cup {NoTicket},
            keys : Keys \cup {NoKeys}, saved : BOOLEAN, confirmed : BOOLEAN]

Visitor == Identity \cup {Nobody}

(* keys and resend are POST keys-hash, recovery and session POST session.   *)
CallKind == {"session", "keys", "recovery", "resend", "account"}
CallRow == [tab : Tab \cup {NoTab, NoBrowser}, kind : CallKind, name : Name,
            ticket : Ticket \cup {NoTicket}, keys : Keys \cup {NoKeys},
            jar : Session \cup {NoSession}, who : Visitor,
            phase : {"sent", "checked", "working", "answered"},
            ok : BOOLEAN]

AttemptRow == [ticket : Ticket, keys : Keys, by : Call \cup {NoCall}]
AccountRow == [ticket : Ticket, keys : Keys]

NoRow == [ticket |-> NoTicket, keys |-> NoKeys]
NoAttempt == [ticket |-> NoTicket, keys |-> NoKeys, by |-> NoCall]
Idle == [tab |-> NoTab, kind |-> "none", phase |-> "idle"]
FormPage == [page |-> "form", name |-> NoName, ticket |-> NoTicket, keys |-> NoKeys,
             saved |-> FALSE, confirmed |-> FALSE]

JourneyTypeOK ==
  /\ tabs \in [Tab -> PageRow]
  /\ jar \in Session \cup {NoSession}
  /\ pass \subseteq Name
  /\ calls \in [Call -> CallRow \cup {Idle}]
  /\ uses \in [Ticket -> 0..1]
  /\ attempts \in [Name -> AttemptRow \cup {NoAttempt}]
  /\ accounts \in [Name -> AccountRow \cup {NoRow}]
  /\ setbacks \in 0..MaxSetbacks
  /\ born \in [Keys -> Name \cup {NoName}]
  /\ backups \subseteq Keys
  /\ entered \subseteq Name \X Ticket
  /\ paidBy \in [InviteTicket -> SUBSET Visitor]
  /\ InviteTypeOK

Init ==
  /\ tabs = [b \in Tab |-> FormPage]
  /\ jar = NoSession
  /\ pass = {}
  /\ calls = [c \in Call |-> Idle]
  /\ uses = [t \in Ticket |-> IF t \in InviteTicket THEN 0 ELSE 1]
  /\ attempts = [n \in Name |-> NoAttempt]
  /\ accounts = [n \in Name |-> NoRow]
  /\ setbacks = 0
  /\ born = [k \in Keys |-> NoName]
  /\ backups = {}
  /\ entered = {}
  /\ paidBy = [t \in InviteTicket |-> {}]
  /\ InviteInit

Free(c) == calls[c].phase = "idle"
Waiting(b) == \E c \in Call : ~Free(c) /\ calls[c].tab = b
At(b, p) == tabs[b].page = p /\ ~Waiting(b)

Request(b, kind, n, t, k, s, u) ==
  [tab |-> b, kind |-> kind, name |-> n, ticket |-> t, keys |-> k, jar |-> s,
   who |-> u, phase |-> "sent", ok |-> FALSE]
Send(c, request) == Free(c) /\ calls' = [calls EXCEPT ![c] = request]

TicketOf(s) == IF s = NoSession THEN NoTicket ELSE s.ticket
SessionOf(n) == jar # NoSession /\ jar.name = n
Finished(n) == SessionOf(n) /\ jar.created

Turn(b, row) == tabs' = [tabs EXCEPT ![b] = row]

Setback == setbacks < MaxSetbacks /\ setbacks' = setbacks + 1

-----------------------------------------------------------------------------
(* The pages. *)

(* Form.astro handleFormSubmit.  A code that was not issued yet is not      *)
(* guessed.                                                                 *)
SubmitForm(b, c, u, n, t) ==
  /\ At(b, "form")
  /\ t \in InviteTicket => grants[t] # Nobody
  /\ << n, t >> \in entered \/ Cardinality(entered) < MaxEntries
  /\ Send(c, Request(b, "session", n, t, NoKeys, jar, SignedIn(t, u)))
  /\ entered' = entered \cup {<< n, t >>}
  /\ UNCHANGED << pageVars, serverVars, setbacks, born, backups, paidBy, grants >>

(* details/[user].astro and the page's generateKeys: the name is the URL's, *)
(* the ticket the cookie's, the keys fresh.                                 *)
OpenDetails(b, k) ==
  /\ At(b, "opening")
  /\ SessionOf(tabs[b].name)
  /\ ~jar.created
  /\ born[k] = NoName
  /\ born' = [born EXCEPT ![k] = jar.name]
  /\ Turn(b, [page |-> "details", name |-> jar.name, ticket |-> jar.ticket, keys |-> k,
              saved |-> FALSE, confirmed |-> FALSE])
  /\ UNCHANGED << jar, pass, calls, serverVars, setbacks, backups, entered, paidBy, grants >>

(* Its redirects: /access-denied, or /success for a finished creation.      *)
TurnAway(b) ==
  /\ At(b, "opening")
  /\ \/ ~SessionOf(tabs[b].name) /\ Turn(b, FormPage)
     \/ /\ Finished(tabs[b].name)
        /\ Turn(b, [FormPage EXCEPT !.page = "leaving", !.name = tabs[b].name])
  /\ UNCHANGED << jar, pass, calls, serverVars, setbacks, historyVars, grants >>

KeysCall(b) == Request(b, "keys", tabs[b].name, NoTicket, tabs[b].keys, jar, Nobody)

(* Mutant: when no file could be made, the page goes on as if it had been.  *)
DownloadIgnoresFailure(b, c) ==
  /\ At(b, "details")
  /\ ~tabs[b].saved
  /\ Turn(b, [tabs[b] EXCEPT !.saved = TRUE])
  /\ \E made \in BOOLEAN :
       backups' = IF made THEN backups \cup {tabs[b].keys} ELSE backups
  /\ Send(c, KeysCall(b))
  /\ UNCHANGED << jar, pass, serverVars, setbacks, born, entered, paidBy, grants >>

(* handleDownload: the file, confirmBackup, then the keys go to the server. *)
(* Without a file nothing changes.                                          *)
Download(b, c) ==
  /\ At(b, "details")
  /\ ~tabs[b].saved
  /\ Turn(b, [tabs[b] EXCEPT !.saved = TRUE])
  /\ backups' = backups \cup {tabs[b].keys}
  /\ Send(c, KeysCall(b))
  /\ UNCHANGED << jar, pass, serverVars, setbacks, born, entered, paidBy, grants >>

(* handleKeyConfirmationRetry, or a second download.                        *)
RetryConfirmation(b, c) ==
  /\ At(b, "details")
  /\ tabs[b].saved
  /\ ~tabs[b].confirmed
  /\ Send(c, KeysCall(b))
  /\ UNCHANGED << pageVars, serverVars, setbacks, historyVars, grants >>

(* handleFormSubmit; updateSubmitState enables the button.                  *)
SubmitAccount(b, c, u) ==
  /\ At(b, "details")
  /\ tabs[b].saved
  /\ tabs[b].confirmed
  /\ Send(c, Request(b, "account", tabs[b].name, NoTicket, tabs[b].keys, jar,
                     SignedIn(TicketOf(jar), u)))
  /\ UNCHANGED << pageVars, serverVars, setbacks, historyVars, grants >>

(* success/[user].astro: a finished creation is exchanged for a pass.       *)
LoadSuccess(b) ==
  LET n == tabs[b].name IN
  /\ At(b, "leaving")
  /\ jar' = IF Finished(n) THEN NoSession ELSE jar
  /\ pass' = IF Finished(n) THEN pass \cup {n} ELSE pass
  /\ Turn(b, IF Finished(n) \/ n \in pass THEN [FormPage EXCEPT !.page = "success", !.name = n]
             ELSE FormPage)
  /\ UNCHANGED << calls, serverVars, setbacks, historyVars, grants >>

(* A call whose answer reaches no browser.  Only an account call goes on    *)
(* changing the server's tables.                                            *)
Abandoned(q) == IF q.kind = "account" /\ q.phase # "answered"
                THEN [q EXCEPT !.tab = NoBrowser] ELSE Idle

(* A call whose page the ClientRouter has replaced.  keys-hash and account  *)
(* are asked without an AbortSignal: the browser still takes their answer,  *)
(* and the cookie that comes with it.                                       *)
LeftBehind(q) == IF q.kind \in {"session", "recovery"} THEN Idle
                 ELSE [q EXCEPT !.tab = NoTab]

(* teardownSecrets: a page reloaded or left drops its keys.  The server     *)
(* does not notice.  A reload ends the calls of the whole document (of those*)
(* its earlier pages left behind, Lose does); a navigation within the site  *)
(* does not.                                                                *)
LeavePage(b) ==
  /\ Setback
  /\ \/ tabs[b].page = "details"
        /\ Turn(b, [FormPage EXCEPT !.page = "opening", !.name = tabs[b].name])
     \/ tabs[b].page \in {"details", "success"} /\ Turn(b, FormPage)
  /\ UNCHANGED << jar, pass, serverVars, historyVars, grants >>
CallsOf(b) == {c \in Call : ~Free(c) /\ calls[c].tab = b}

Reload(b) ==
  /\ LeavePage(b)
  /\ calls' = [c \in Call |-> IF c \in CallsOf(b) THEN Abandoned(calls[c]) ELSE calls[c]]

Navigate(b) ==
  /\ LeavePage(b)
  /\ calls' = [c \in Call |-> IF c \in CallsOf(b) THEN LeftBehind(calls[c]) ELSE calls[c]]

(* maxAge of the cookie: thirty minutes after it was last set.              *)
SessionExpires ==
  /\ Setback
  /\ jar # NoSession
  /\ jar' = NoSession
  /\ UNCHANGED << tabs, pass, calls, serverVars, historyVars, grants >>

-----------------------------------------------------------------------------
(* The endpoints. *)

Phase(c, p) == calls[c].phase = p
Advance(c, p) == calls' = [calls EXCEPT ![c].phase = p]
(* An answer that is not a success is a refusal, a 202 or a 5xx: the page   *)
(* says which, keeps what it has and may ask again.  Whose call it was, and *)
(* with which cookie it was refused, no longer matters; a lost answer       *)
(* reaches nobody.                                                          *)
Answered(q, ok) == [q EXCEPT !.phase = "answered", !.ok = ok, !.who = Nobody,
                             !.jar = IF ok THEN q.jar ELSE NoSession]
Answer(c, ok) ==
  calls' = [calls EXCEPT ![c] = IF calls[c].tab = NoBrowser THEN Idle
                                ELSE Answered(calls[c], ok)]
Asks(c, kinds) == Phase(c, "sent") /\ calls[c].kind \in kinds

(* POST session: the ticket must be usable and the identity may use it.     *)
HandleSession(c) ==
  LET q == calls[c] IN
  /\ Asks(c, {"session", "recovery"})
  /\ Answer(c, CanUse(q.ticket, q.who) /\ uses[q.ticket] > 0)
  /\ UNCHANGED << pageVars, serverVars, setbacks, historyVars, grants >>

(* authorizeInviteTicket, with the identity the request came with.          *)
Authorized(q) == q.jar # NoSession => CanUse(q.jar.ticket, q.who)

(* Mutant: whoever asks for a recorded name is told it was created.         *)
OwnsAnyRecord(q) == accounts[q.name] # NoRow

(* sameAttemptIdentity, of the account's completed attempt.                 *)
OwnsRecord(q) == accounts[q.name] = [ticket |-> q.jar.ticket, keys |-> q.keys]

(* POST account up to the preflight: authorization, checkSession-           *)
(* AndIdempotency.                                                          *)
HandleAccount(c) ==
  LET q == calls[c] IN
  /\ Asks(c, {"account"})
  /\ IF ~Authorized(q) \/ ~SessionAllows(q.jar, q.name, q.keys) THEN Answer(c, FALSE)
     ELSE IF accounts[q.name] # NoRow THEN Answer(c, OwnsRecord(q))
     ELSE IF q.jar.created THEN Answer(c, FALSE) ELSE Advance(c, "checked")
  /\ UNCHANGED << pageVars, serverVars, setbacks, historyVars, grants >>

(* The preflight fails, or finds the name on Hive, or the username's lock   *)
(* is held: nothing was reserved.                                           *)
PreflightRefuses(c) ==
  /\ Phase(c, "checked")
  /\ Answer(c, FALSE)
  /\ UNCHANGED << pageVars, serverVars, setbacks, historyVars, grants >>

Opened(q, c) == [ticket |-> q.jar.ticket, keys |-> q.keys, by |-> c]
SameAttempt(q) == attempts[q.name].ticket = q.jar.ticket /\ attempts[q.name].keys = q.keys

Complete(n) ==
  /\ accounts[n] = NoRow
  /\ accounts' = [accounts EXCEPT ![n] = [ticket |-> attempts[n].ticket,
                                          keys |-> attempts[n].keys]]
  /\ attempts' = [attempts EXCEPT ![n] = NoAttempt]
  /\ UNCHANGED uses

RollBack(n) ==
  /\ attempts' = [attempts EXCEPT ![n] = NoAttempt]
  /\ uses' = [uses EXCEPT ![attempts[n].ticket] = @ + 1]
  /\ UNCHANGED accounts

(* reclaimOpenAttemptForRetry and recoverReservedHttpRetry: an attempt of   *)
(* another identity is in progress; one's own is still open, or found to    *)
(* have created the account, or rolled back to start over.                  *)
MeetOpenAttempt(c) ==
  LET q == calls[c] IN
  /\ Phase(c, "checked")
  /\ attempts[q.name] # NoAttempt
  /\ \/ Answer(c, FALSE) /\ UNCHANGED serverVars
     \/ SameAttempt(q) /\ Complete(q.name) /\ Answer(c, TRUE)
     \/ SameAttempt(q) /\ RollBack(q.name) /\ UNCHANGED calls
  /\ UNCHANGED << pageVars, setbacks, historyVars, grants >>

(* The same, when the reconciler completes the attempt under the request's  *)
(* eyes: already_terminal, and the request is told "created".               *)
MeetCompletedAttempt(c) ==
  /\ Phase(c, "checked")
  /\ OwnsRecord(calls[c])
  /\ Answer(c, TRUE)
  /\ UNCHANGED << pageVars, serverVars, setbacks, historyVars, grants >>

(* reserveTicket: one use becomes an attempt.                               *)
ReserveTicket(c) ==
  LET q == calls[c] IN
  /\ Phase(c, "checked")
  /\ attempts[q.name] = NoAttempt
  /\ IF uses[q.jar.ticket] > 0 /\ CanUse(q.jar.ticket, q.who)
     THEN /\ attempts' = [attempts EXCEPT ![q.name] = Opened(q, c)]
          /\ uses' = [uses EXCEPT ![q.jar.ticket] = @ - 1]
          /\ paidBy' = [t \in InviteTicket |->
                         paidBy[t] \cup IF t = q.jar.ticket THEN {q.who} ELSE {}]
          /\ Advance(c, "working")
     ELSE Answer(c, FALSE) /\ UNCHANGED << attempts, uses, paidBy >>
  /\ UNCHANGED << pageVars, accounts, setbacks, born, backups, entered, grants >>

(* createAccountOnChain and completeInDatabase: the attempt is completed,   *)
(* rolled back or left open.  If the reconciler took it over, the request   *)
(* recognises that its account was recorded, or answers that it is pending. *)
Conclude(c) ==
  LET q == calls[c]
      mine == attempts[q.name].by = c IN
  /\ Phase(c, "working")
  /\ \/ mine /\ Complete(q.name) /\ Answer(c, TRUE)
     \/ mine /\ RollBack(q.name) /\ Answer(c, FALSE)
     \/ ~mine /\ OwnsRecord(q) /\ Answer(c, TRUE) /\ UNCHANGED serverVars
     \/ /\ Answer(c, FALSE)
        /\ attempts' = IF mine THEN [attempts EXCEPT ![q.name].by = NoCall] ELSE attempts
        /\ UNCHANGED << uses, accounts >>
  /\ UNCHANGED << pageVars, setbacks, historyVars, grants >>

(* The background reconciler closes what a request left behind, or a        *)
(* request that has stalled.                                                *)
Reconcile(n) ==
  /\ attempts[n] # NoAttempt
  /\ Complete(n) \/ RollBack(n)
  /\ UNCHANGED << pageVars, calls, setbacks, historyVars, grants >>

(* POST /api/invite/issue: the grant and its ticket in one transaction.     *)
Issue(u, t) ==
  /\ IssueInviteGrant(u, t)
  /\ uses' = [uses EXCEPT ![t] = 1]
  /\ UNCHANGED << pageVars, calls, attempts, accounts, setbacks, historyVars >>

-----------------------------------------------------------------------------
(* The answers. *)

(* POST keys-hash reads nothing but the request, and 401 means no cookie:   *)
(* its answer is a function of the call.                                    *)
Succeeds(q) == IF q.kind \in {"keys", "resend"} THEN q.jar # NoSession ELSE q.ok
HasAnswer(q) == q.kind \in {"keys", "resend"} \/ q.phase = "answered"

CookieOf(q) ==
  CASE q.kind \in {"session", "recovery"} -> PostSession(q.jar, q.name, q.ticket)
    [] q.kind \in {"keys", "resend"} -> ConfirmKeys(q.jar, q.keys)
    [] OTHER -> Finalize(q.jar)

(* The browser stores the cookie, then the page goes on.                    *)
Arrives(c, kinds, ok) ==
  LET q == calls[c] IN
  /\ q.kind \in kinds
  /\ q.tab # NoBrowser
  /\ HasAnswer(q)
  /\ Succeeds(q) = ok
  /\ jar' = IF ok THEN CookieOf(q) ELSE jar
  /\ UNCHANGED << pass, serverVars, setbacks, historyVars, grants >>
Done(c) == calls' = [calls EXCEPT ![c] = Idle]

(* For the page that asked, if it is still there.                           *)
TurnAsker(c, row) == IF calls[c].tab = NoTab THEN UNCHANGED tabs ELSE Turn(calls[c].tab, row)

(* createSession succeeded: the form navigates to the details.              *)
SessionArrives(c) ==
  /\ Arrives(c, {"session"}, TRUE)
  /\ Done(c)
  /\ Turn(calls[c].tab, [FormPage EXCEPT !.page = "opening", !.name = calls[c].name])

(* confirmKeysOnServer.                                                     *)
KeysArrive(c) ==
  /\ Arrives(c, {"keys", "resend"}, TRUE)
  /\ Done(c)
  /\ TurnAsker(c, [tabs[calls[c].tab] EXCEPT !.confirmed = TRUE])

(* confirmKeysDownloaded recovers from a 401 once: the session of the page, *)
(* then the keys again with the cookie that came of it.  A page left behind *)
(* does not: its AbortSignal has gone off.                                  *)
Recover(c, u) ==
  LET q == calls[c] IN
  /\ q.tab # NoTab
  /\ \/ /\ Arrives(c, {"keys"}, FALSE)
        /\ calls' = [calls EXCEPT ![c] =
             Request(q.tab, "recovery", q.name, tabs[q.tab].ticket, q.keys, jar',
                     SignedIn(tabs[q.tab].ticket, u))]
     \/ /\ Arrives(c, {"recovery"}, TRUE)
        /\ calls' = [calls EXCEPT ![c] =
             Request(q.tab, "resend", q.name, NoTicket, q.keys, jar', Nobody)]
  /\ UNCHANGED tabs

(* handleFormSubmit is told "created": teardownSecrets, then /success.  The *)
(* keys of a page left behind are gone: markSubmitted throws, and it stays. *)
AccountArrives(c) ==
  /\ Arrives(c, {"account"}, TRUE)
  /\ Done(c)
  /\ TurnAsker(c, [FormPage EXCEPT !.page = "leaving", !.name = calls[c].name])

FailureArrives(c) ==
  /\ Arrives(c, IF calls[c].tab = NoTab THEN CallKind ELSE CallKind \ {"keys"}, FALSE)
  /\ Done(c)
  /\ UNCHANGED tabs

(* The request or its answer is lost.  For the page the outcome is unknown, *)
(* and it may be asked again; the server may still be at work.              *)
Lose(c) ==
  /\ Setback
  /\ ~Free(c)
  /\ calls[c].tab # NoBrowser
  /\ calls' = [calls EXCEPT ![c] = Abandoned(calls[c])]
  /\ UNCHANGED << pageVars, serverVars, historyVars, grants >>

Next ==
  \/ \E b \in Tab, c \in Call :
       \/ Download(b, c)
       \/ RetryConfirmation(b, c)
       \/ \E u \in Visitor : \/ \E n \in Name, t \in Ticket : SubmitForm(b, c, u, n, t)
                            \/ SubmitAccount(b, c, u)
  \/ \E b \in Tab : \/ TurnAway(b) \/ LoadSuccess(b) \/ Reload(b) \/ Navigate(b)
                    \/ \E k \in Keys : OpenDetails(b, k)
  \/ \E c \in Call : \/ HandleSession(c) \/ HandleAccount(c) \/ PreflightRefuses(c)
                     \/ MeetOpenAttempt(c) \/ MeetCompletedAttempt(c)
                     \/ ReserveTicket(c) \/ Conclude(c)
                     \/ SessionArrives(c) \/ KeysArrive(c)
                     \/ \E u \in Visitor : Recover(c, u)
                     \/ AccountArrives(c) \/ FailureArrives(c)
                     \/ Lose(c)
  \/ \E n \in Name : Reconcile(n)
  \/ \E u \in Identity, t \in InviteTicket : Issue(u, t)
  \/ SessionExpires

Spec == Init /\ [][Next]_vars

-----------------------------------------------------------------------------
(* Correctness. *)

(* Whatever account is recorded, the person holds a file with its keys,     *)
(* and they were generated for that name: no reload, second tab or late     *)
(* answer leads the server to keys that only a closed page knew.            *)
KeysWereSaved ==
  \A n \in Name :
    /\ accounts[n] # NoRow => accounts[n].keys \in backups /\ born[accounts[n].keys] = n
    /\ attempts[n] # NoAttempt => attempts[n].keys \in backups

(* A ticket is spent on a name it was submitted with: the cookies of two    *)
(* tabs never combine one's ticket with the other's name.                   *)
TicketWasEntered ==
  \A n \in Name : accounts[n] # NoRow => << n, accounts[n].ticket >> \in entered

(* A page that is told its account was created, and forgets its keys, has   *)
(* had the account recorded with these keys, not with another tab's.        *)
CreatedIsTrue ==
  [][\A b \in Tab :
       (tabs[b].page = "details" /\ tabs'[b].page = "leaving")
         => accounts[tabs[b].name].keys = tabs[b].keys]_vars

(* The success page, and the cookie that opens it, exist for recorded       *)
(* accounts only, and the cookie names the ticket that paid.                *)
SuccessIsTrue ==
  /\ \A b \in Tab : tabs[b].page = "success" => accounts[tabs[b].name] # NoRow
  /\ jar # NoSession /\ jar.created
       => accounts[jar.name] # NoRow /\ accounts[jar.name].ticket = jar.ticket

(* An account or open attempt that an invitation pays for was paid for by a *)
(* call that its owner's sign-in came with, even when the form was submitted*)
(* by another, the sign-in changed in between, or an earlier attempt of the *)
(* owner's was rolled back and the call that goes on is another's           *)
(* (account.ts:1164 asks before the attempt, db-ticket-validator.ts:467     *)
(* again when it reserves).                                                 *)
InvitesAreSpentByTheirOwner ==
  \A n \in Name :
    \A row \in {attempts[n], accounts[n]} :
      OwnerOf(row.ticket) # Nobody => paidBy[row.ticket] = {OwnerOf(row.ticket)}

Invited(u) == {n \in Name : accounts[n] # NoRow /\ OwnerOf(accounts[n].ticket) = u}
Promised(u) == {n \in Name : attempts[n] # NoAttempt /\ OwnerOf(attempts[n].ticket) = u}

(* The campaign pays for one account per identity: names being created      *)
(* count, and neither rollbacks nor tabs multiply the invitation.           *)
OneAccountPerInvitee ==
  \A u \in Identity : Cardinality(Invited(u)) + Cardinality(Promised(u)) <= 1
==============================================================================
